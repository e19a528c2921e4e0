----------------------- MODULE CommitPipelineLemmas -----------------------
(***************************************************************************)
(* What the operators of CommitPipeline return, that IInv holds at first,  *)
(* and that a commit preserves it.                                         *)
(***************************************************************************)
EXTENDS CommitPipeline, TLAPS

(***************************************************************************)
(* What a commit does to a cell.                                           *)
(***************************************************************************)
\* The operations a changeset can hold for key k.
Ops(k) == IF k \in Preimage THEN {Image[k], None} ELSE Option

\* Column::write_plan keeps a cell one of those its column can hold.
LEMMA WriteCellType ==
  ASSUME NEW k \in Keys, NEW cell \in CellOf(k), NEW op \in Ops(k)
  PROVE  WriteCell(k, cell, op) \in CellOf(k)
<1> USE KindsAssumption, RefsAssumption, MarksAssumption
<1>1. CASE k \in RefCounted
  BY <1>1 DEF WriteCell, CellOf, Ops, IncRef, DecRef, Absent, Option
<1>2. CASE k \in Preimage \ RefCounted
  BY <1>2 DEF WriteCell, CellOf, Ops, IncRef, DecRef, Absent, Option
<1>3. CASE k \notin Preimage
  BY <1>3 DEF WriteCell, CellOf, Ops, IncRef, DecRef, Absent, Option
<1> QED BY <1>1, <1>2, <1>3

\* In a column without reference counts the cell holds what the commit wrote.
LEMMA WriteCellValue ==
  ASSUME NEW k \in Keys \ RefCounted, NEW cell \in CellOf(k), NEW op \in Ops(k)
  PROVE  WriteCell(k, cell, op).value = op
BY KindsAssumption, RefsAssumption, MarksAssumption
   DEF WriteCell, CellOf, Ops, IncRef, DecRef, Absent, Option

\* A removal drops at most one reference and adds none.
LEMMA WriteCellRemove ==
  ASSUME NEW k \in RefCounted, NEW cell \in CellOf(k)
  PROVE  WriteCell(k, cell, None).refs <= cell.refs
BY KindsAssumption, RefsAssumption, MarksAssumption
   DEF WriteCell, CellOf, Ops, IncRef, DecRef, Absent, Option

LEMMA CellOfType == \A k \in Keys : CellOf(k) \subseteq Cell
BY KindsAssumption, RefsAssumption, MarksAssumption DEF CellOf, Cell, Absent, Option

LEMMA CellRefs == \A cell \in Cell : cell.refs \in Nat
BY RefsAssumption DEF Cell

\* write_plan skips exactly changes that would leave the cell as it is.
LEMMA SkippedCell ==
  ASSUME NEW k \in Keys, NEW cell \in CellOf(k), NEW op \in Ops(k),
         Skipped(k, cell, op)
  PROVE  WriteCell(k, cell, op) = cell
BY KindsAssumption, RefsAssumption, MarksAssumption
   DEF WriteCell, CellOf, Ops, IncRef, DecRef, Absent, Option, Skipped

LEMMA ChangesetOps ==
  ASSUME NEW c \in Changeset, NEW k \in Keys, c[k] # Keep
  PROVE  c[k] \in Ops(k)
BY KindsAssumption DEF Changeset, Ops, Option

LEMMA ApplyType ==
  ASSUME NEW s \in State, NEW c \in Changeset
  PROVE  Apply(s, c) \in State
<1>1. \A k \in Keys : Apply(s, c)[k] \in CellOf(k)
  BY WriteCellType, ChangesetOps DEF Apply, State
<1> QED BY <1>1, CellOfType DEF Apply, State

(***************************************************************************)
(* The inductive invariant.                                                *)
(***************************************************************************)
\* The stages of the pipeline are ordered.
LEMMA StageOrder ==
  ASSUME IInv
  PROVE  /\ Enacted \in Nat /\ Logged \in Nat /\ Popped \in Nat /\ commit_id \in Nat
         /\ Enacted = Logged - Len(log) /\ Len(log) \in Nat
         /\ Popped = commit_id - Len(commits) /\ Len(commits) \in Nat
         /\ Enacted <= Logged /\ Logged <= Popped /\ Popped <= commit_id
BY DEF IInv, TypeOK, QueueInv, LoggerInv, LogInv, Enacted, Logged, Popped

LEMMA HistType ==
  ASSUME IInv, NEW n \in 0..commit_id, NEW k \in Keys
  PROVE  hist[n] \in State /\ hist[n][k] \in CellOf(k) /\ hist[n][k] \in Cell
BY DEF IInv, TypeOK, State

\* IsCommit and IsRecord look at two elements of hist only.
LEMMA CommitFrame ==
  ASSUME NEW h, NEW g, NEW c, NEW n \in Int,
         g[n] = h[n], g[n - 1] = h[n - 1], IsCommit(h, c, n)
  PROVE  IsCommit(g, c, n)
BY DEF IsCommit

LEMMA RecordFrame ==
  ASSUME NEW h, NEW g, NEW rec, NEW n \in Int,
         g[n] = h[n], g[n - 1] = h[n - 1], IsRecord(h, rec, n)
  PROVE  IsRecord(g, rec, n)
BY DEF IsRecord

LEMMA InitIInv == Init => IInv
<1> SUFFICES ASSUME Init PROVE IInv
  OBVIOUS
<1> USE KindsAssumption, RefsAssumption, MarksAssumption DEF Init
<1>0. /\ Logged = 0 /\ Enacted = 0 /\ Popped = 0
      /\ commit_id = 0 /\ hist \in [0..0 -> State] /\ hist[0] = table
  <2>1. Len(commits) = 0 /\ Len(log) = 0
    OBVIOUS
  <2>2. logger.pc = "idle" /\ next_record_id = 1 /\ commit_id = 0
    OBVIOUS
  <2>3. hist \in [0..0 -> State] /\ hist[0] = table
    OBVIOUS
  <2> HIDE DEF Init
  <2> QED BY <2>1, <2>2, <2>3 DEF Logged, Enacted, Popped
<1>1. TypeOK
  <2>1. NoCommit \in Commits
    BY DEF NoCommit, Commits, Changeset, Option
  <2>2. NoRecord \in Records
    BY DEF NoRecord, Records
  <2>3. \A r \in Readers : reader[r] \in ReaderState
    BY DEF ReaderState, Option
  <2>4. commits \in Seq(Commits) /\ log \in Seq(Records)
    OBVIOUS
  <2>5. logger \in [pc : {"idle", "plan", "write", "clean"},
                   commit : Commits, record : Records]
    BY <2>1, <2>2
  <2>6. hist \in [0..commit_id -> State]
    BY <1>0
  <2>7. reader \in [Readers -> ReaderState]
    BY <2>3
  <2> QED BY <2>4, <2>5, <2>6, <2>7 DEF TypeOK
<1>2. QueueInv /\ LogInv
  BY <1>0 DEF QueueInv, LogInv
<1>3. LoggerInv
  BY <1>0 DEF LoggerInv
<1>4. LogOverlayInv /\ TableInv
  BY <1>0 DEF LogOverlayInv, TableInv
<1>5. CommitOverlayInv
  <2>1. \A k \in Keys : hist[0][k].refs \in Nat
    <3>1. \A k \in Keys : table[k] \in Cell
      BY DEF State
    <3> QED BY <1>0, <3>1, CellRefs
  <2>2. \A k \in Keys : commit_overlay[k] = None
    OBVIOUS
  <2>3. \A k \in Keys : Settled(hist, k, 0, 0)
    BY <2>1 DEF Settled
  <2> QED BY <1>0, <2>2, <2>3 DEF CommitOverlayInv
<1>6. ReaderInv
  BY DEF ReaderInv
<1> QED BY <1>1, <1>2, <1>3, <1>4, <1>5, <1>6 DEF IInv

\* A commit that is pending is an accepted one.
LEMMA PendingBound ==
  ASSUME IInv, NEW k \in Keys, NEW id \in Nat, IsPending(k, id)
  PROVE  id - 1 \in 0..commit_id
<1>1. /\ Popped \in Nat /\ commit_id \in Nat /\ Len(commits) \in Nat
      /\ Popped = commit_id - Len(commits)
  BY StageOrder
<1>2. id = Popped + 1 \/ (id > Popped + 1 /\ id - 1 - Popped <= Len(commits))
  BY <1>1 DEF IsPending
<1> QED BY <1>1, <1>2

\* commit_raw adds an element to hist and shows it in the commit overlay.
LEMMA CommitRawStep ==
  ASSUME IInv, NEW c \in Changeset, CommitRaw(c)
  PROVE  IInv'
<1> PICK m \in Int : m = commit_id + 1
  BY DEF IInv, TypeOK
<1>0. /\ m = commit_id + 1
      /\ Enacted \in Nat /\ Logged \in Nat /\ Popped \in Nat /\ commit_id \in Nat
      /\ Enacted <= Logged /\ Logged <= Popped /\ Popped <= commit_id
      /\ Popped = commit_id - Len(commits) /\ Len(commits) \in Nat
      /\ Enacted = Logged - Len(log) /\ Len(log) \in Nat
  BY StageOrder
<1>1. /\ commit_id' = m
      /\ commits' = Append(commits, [id |-> m + 1, changeset |-> c])
      /\ hist[commit_id] \in State
      /\ UNCHANGED <<overlays, log, next_record_id, table, logger, written, reader>>
  BY <1>0, HistType DEF CommitRaw, IInv, TypeOK
<1>2. /\ hist' \in [0..m -> State]
      /\ hist'[m] = Apply(hist[commit_id], c)
      /\ \A n \in 0..commit_id : hist'[n] = hist[n]
  <2>1. hist \in [0..commit_id -> State]
    BY DEF IInv, TypeOK
  <2>2. Apply(hist[commit_id], c) \in State
    BY <1>1, ApplyType
  <2>3. hist' = [n \in 0..m |-> IF n = m THEN Apply(hist[commit_id], c) ELSE hist[n]]
    BY <1>0 DEF CommitRaw
  <2> HIDE DEF Apply
  <2> QED BY <1>0, <2>1, <2>2, <2>3
<1>3. commits \in Seq(Commits) /\ [id |-> m + 1, changeset |-> c] \in Commits
  BY <1>0 DEF Commits, IInv, TypeOK
<1>4. /\ commits' \in Seq(Commits) /\ Len(commits') = Len(commits) + 1
      /\ \A i \in 1..Len(commits) : commits'[i] = commits[i]
      /\ commits'[Len(commits) + 1] = [id |-> m + 1, changeset |-> c]
  BY <1>1, <1>3
<1>5. Logged' = Logged /\ Enacted' = Enacted /\ Popped' = Popped
  BY <1>0, <1>1, <1>4 DEF Logged, Enacted, Popped
<1>6. TypeOK'
  <2>1. commit_overlay' \in [Keys -> CommitEntry \cup {None}]
    BY <1>0, KindsAssumption DEF CommitRaw, CommitEntry, Changeset, ShownInOverlay, IInv, TypeOK, Option
  <2> QED BY <1>0, <1>1, <1>2, <1>4, <2>1 DEF IInv, TypeOK
<1>7. QueueInv'
  <2>1. Len(commits') <= commit_id'
    BY <1>0, <1>1, <1>4
  <2> SUFFICES ASSUME NEW i \in 1..Len(commits')
               PROVE  IsCommit(hist', commits'[i], Popped' + i)
    BY <2>1, <1>5 DEF QueueInv
  <2>2. CASE i \in 1..Len(commits)
    <3>1. PICK n \in Int : n = Popped + i
      BY <1>0, <2>2
    <3>2. n \in 0..commit_id /\ n - 1 \in 0..commit_id
      BY <1>0, <2>2, <3>1
    <3>3. hist'[n] = hist[n] /\ hist'[n - 1] = hist[n - 1]
      BY <1>2, <3>2
    <3>4. IsCommit(hist, commits[i], n)
      BY <2>2, <3>1 DEF QueueInv, IInv
    <3>5. IsCommit(hist', commits[i], n)
      BY <3>3, <3>4, CommitFrame
    <3>6. commits'[i] = commits[i] /\ Popped' + i = n
      BY <1>4, <1>5, <2>2, <3>1
    <3> QED BY <3>5, <3>6
  <2>3. CASE i = Len(commits) + 1
    <3>1. commits'[i] = [id |-> m + 1, changeset |-> c]
      BY <1>4, <2>3
    <3>2. Popped' + i = m
      BY <1>0, <1>5, <2>3
    <3>3. m - 1 = commit_id /\ commit_id \in 0..commit_id
      BY <1>0
    <3>4. hist'[m] = Apply(hist'[m - 1], c)
      BY <1>2, <3>3
    <3> QED BY <3>1, <3>2, <3>4 DEF IsCommit
  <2> QED BY <2>2, <2>3, <1>0, <1>4
<1>8. LoggerInv'
  <2>1. LoggerInv
    BY DEF IInv
  <2>2. logger.pc # "idle" => Popped \in 1..commit_id
    BY <1>0, <2>1, StageOrder DEF LoggerInv, Logged, IInv, TypeOK
  <2>3. logger.pc # "idle" => IsCommit(hist', logger.commit, Popped)
    <3> SUFFICES ASSUME logger.pc # "idle" PROVE IsCommit(hist', logger.commit, Popped)
      OBVIOUS
    <3>1. Popped \in 0..commit_id /\ Popped - 1 \in 0..commit_id /\ Popped \in Int
      BY <1>0, <2>2
    <3>2. hist'[Popped] = hist[Popped] /\ hist'[Popped - 1] = hist[Popped - 1]
      BY <1>2, <3>1
    <3>3. IsCommit(hist, logger.commit, Popped)
      BY <2>1 DEF LoggerInv
    <3> QED BY <3>1, <3>2, <3>3, CommitFrame
  <2>4. logger.pc = "write" => IsRecord(hist', logger.record, Popped)
    <3> SUFFICES ASSUME logger.pc = "write" PROVE IsRecord(hist', logger.record, Popped)
      OBVIOUS
    <3>1. Popped \in 0..commit_id /\ Popped - 1 \in 0..commit_id /\ Popped \in Int
      BY <1>0, <2>2
    <3>2. hist'[Popped] = hist[Popped] /\ hist'[Popped - 1] = hist[Popped - 1]
      BY <1>2, <3>1
    <3>3. IsRecord(hist, logger.record, Popped)
      BY <2>1 DEF LoggerInv
    <3> QED BY <3>1, <3>2, <3>3, RecordFrame
  <2> QED BY <1>1, <1>5, <2>1, <2>3, <2>4 DEF LoggerInv
<1>9. LogInv'
  <2>1. ASSUME NEW i \in 1..Len(log)
        PROVE  IsRecord(hist', log[i], Enacted + i)
    <3>1. IsRecord(hist, log[i], Enacted + i)
      BY DEF LogInv, IInv
    <3>2. Enacted + i \in 0..commit_id /\ Enacted + i - 1 \in 0..commit_id
      BY <1>0
    <3>3. hist'[Enacted + i] = hist[Enacted + i]
      BY <1>2, <3>2
    <3>4. hist'[Enacted + i - 1] = hist[Enacted + i - 1]
      BY <1>2, <3>2
    <3> QED BY <1>0, <3>1, <3>3, <3>4, RecordFrame
  <2>2. Len(log) <= Logged
    BY <1>0
  <2>3. log' = log
    BY <1>1
  <2> QED BY <2>3, <1>5, <2>1, <2>2 DEF LogInv
<1>10. LogOverlayInv'
  <2>1. Logged \in 0..commit_id
    BY <1>0
  <2>2. \A j \in Enacted..Logged : hist'[j] = hist[j]
    BY <1>0, <1>2
  <2>3. ASSUME NEW k \in Keys, overlays[k] # None
        PROVE  overlays[k].id \in Enacted + 1..Logged
    BY <2>3 DEF LogOverlayInv, IInv
  <2>4. ASSUME NEW k \in Keys, overlays[k] # None
        PROVE  \A j \in overlays[k].id..Logged : hist'[j] = hist[j]
    <3>1. PICK id \in Int : id = overlays[k].id /\ Enacted <= id
      BY <1>0, <2>3, <2>4
    <3>2. \A j \in id..Logged : j \in Enacted..Logged
      BY <1>0, <3>1
    <3> QED BY <2>2, <3>1, <3>2
  <2>5. hist'[Logged] = hist[Logged] /\ overlays' = overlays /\ log' = log
    BY <1>1, <1>2, <2>1
  <2>6. LogOverlayInv
    BY DEF IInv
  <2>7. ASSUME NEW k \in Keys
        PROVE  IF overlays[k] = None
               THEN \A j \in Enacted..Logged : hist'[j][k] = hist'[Logged][k]
               ELSE /\ overlays[k].id \in Enacted + 1..Logged
                    /\ log[overlays[k].id - Enacted].writes[k] # None
                    /\ \A j \in overlays[k].id..Logged : hist'[j][k] = overlays[k].cell
    <3>1. CASE overlays[k] = None
      BY <2>2, <2>5, <2>6, <3>1 DEF LogOverlayInv
    <3>2. CASE overlays[k] # None
      BY <2>4, <2>6, <3>2 DEF LogOverlayInv
    <3> QED BY <3>1, <3>2
  <2> QED BY <1>5, <2>5, <2>7 DEF LogOverlayInv
<1>11. TableInv'
  <2>1. hist'[Enacted] = hist[Enacted]
    BY <1>0, <1>2
  <2>2. written # {} => hist'[Enacted + 1] = hist[Enacted + 1]
    <3>1. log \in Seq(Records)
      BY DEF IInv, TypeOK
    <3>2. written # {} => Len(log) > 0
      BY <3>1 DEF TableInv, IInv
    <3> QED BY <1>0, <1>2, <3>2
  <2> QED BY <1>1, <1>5, <2>1, <2>2 DEF TableInv, IInv
<1>12. ASSUME NEW k \in Keys, NEW n \in 0..commit_id, Settled(hist, k, n, commit_id),
              \/ c[k] = Keep
              \/ k \in RefCounted /\ c[k] = None
       PROVE  Settled(hist', k, n, m)
  <2>1. \A i, j \in n..commit_id : hist'[i] = hist[i] /\ hist'[j] = hist[j]
    BY <1>0, <1>2
  <2>2. IF k \in RefCounted THEN hist'[m][k].refs <= hist[commit_id][k].refs
        ELSE hist'[m][k].value = hist[commit_id][k].value
    <3>1. hist[commit_id][k] \in CellOf(k) /\ hist[commit_id][k] \in Cell
      BY <1>0, HistType
    <3>2. CASE c[k] = Keep
      BY <1>2, <3>1, <3>2, RefsAssumption DEF Apply, Cell
    <3>3. CASE k \in RefCounted /\ c[k] = None /\ c[k] # Keep
      BY <1>2, <3>1, <3>3, WriteCellRemove DEF Apply
    <3> QED BY <1>12, <3>2, <3>3
  <2>3. \A i \in n..m : hist'[i][k].refs \in Nat
    BY <1>0, <1>2, RefsAssumption DEF State, Cell
  <2> SUFFICES ASSUME NEW i \in n..m, NEW j \in n..m, i <= j
               PROVE  IF k \in RefCounted THEN hist'[j][k].refs <= hist'[i][k].refs
                      ELSE hist'[j][k].value = hist'[i][k].value
    BY <1>1 DEF Settled
  <2>4. CASE j \in n..commit_id
    BY <1>0, <1>12, <2>1, <2>4 DEF Settled
  <2>5. CASE j = m /\ i = m
    BY <1>0, <2>3, <2>5
  <2>6. CASE j = m /\ i \in n..commit_id
    <3>1. IF k \in RefCounted THEN hist[commit_id][k].refs <= hist[i][k].refs
          ELSE hist[commit_id][k].value = hist[i][k].value
      <4>1. commit_id \in n..commit_id /\ i <= commit_id
        BY <1>0, <2>6
      <4> QED BY <1>12, <2>6, <4>1 DEF Settled
    <3>2. hist'[i] = hist[i] /\ hist'[commit_id] = hist[commit_id] /\ commit_id \in n..m
      BY <1>0, <1>2, <2>6
    <3>3. hist'[i][k].refs \in Nat /\ hist'[commit_id][k].refs \in Nat /\ hist'[m][k].refs \in Nat
      BY <2>3, <2>6, <3>2
    <3> QED BY <2>2, <2>6, <3>1, <3>2, <3>3
  <2> QED BY <1>0, <2>4, <2>5, <2>6
<1>queued. ASSUME NEW k \in Keys, NEW id \in Nat, ~(id <= Popped + 1),
                  id - 1 - Popped <= Len(commits'),
                  commits'[id - 1 - Popped].changeset[k] # Keep
           PROVE  IsPending(k, id)'
  BY <1>5, <1>queued DEF IsPending
<1>13. ASSUME NEW k \in Keys, NEW id \in Nat, IsPending(k, id)
       PROVE  IsPending(k, id)'
  <2>1. logger' = logger
    BY <1>1
  <2>2. CASE id <= Popped + 1
    BY <1>5, <1>13, <2>1, <2>2 DEF IsPending
  <2>3. CASE ~(id <= Popped + 1)
    <3>1. id - 1 - Popped <= Len(commits) /\ commits[id - 1 - Popped].changeset[k] # Keep
      BY <1>13, <2>3 DEF IsPending
    <3>2. id - 1 - Popped \in 1..Len(commits)
      BY <1>0, <2>3, <3>1
    <3>3. commits'[id - 1 - Popped] = commits[id - 1 - Popped]
      BY <1>4, <3>2
    <3>4. id - 1 - Popped <= Len(commits')
      BY <1>0, <1>4, <3>1
    <3> QED BY <1>queued, <2>3, <3>1, <3>3, <3>4
  <2> QED BY <2>2, <2>3
<1>14. CommitOverlayInv'
  <2> SUFFICES ASSUME NEW k \in Keys
               PROVE  IF commit_overlay'[k] = None THEN Settled(hist', k, Logged', m)
                      ELSE /\ IsPending(k, commit_overlay[k].id)'
                           /\ Settled(hist', k, commit_overlay'[k].id - 1, m)
                           /\ IF k \in RefCounted THEN commit_overlay'[k].value = Image[k]
                              ELSE commit_overlay'[k].value = hist'[m][k].value
    BY <1>1 DEF CommitOverlayInv
  <2>1. CASE ShownInOverlay(k, c[k])
    <3>1. /\ commit_overlay'[k] = [id |-> m + 1, value |-> c[k]]
          /\ commit_overlay'[k] # None
          /\ c[k] \in Ops(k)
      <4>1. commit_overlay'[k] = [id |-> m + 1, value |-> c[k]] /\ c[k] \in Ops(k)
        <5>1. commit_id + 2 = m + 1
          BY <1>0
        <5>2. commit_overlay'[k] = [id |-> commit_id + 2, value |-> c[k]]
          BY <2>1 DEF CommitRaw
        <5>3. c[k] \in Ops(k)
          BY <2>1, ChangesetOps DEF ShownInOverlay
        <5> QED BY <5>1, <5>2, <5>3
      <4>2. [id |-> m + 1, value |-> c[k]] \in CommitEntry
        BY <1>0, <2>1 DEF CommitEntry, Changeset, ShownInOverlay
      <4> QED BY <4>1, <4>2, EntriesAssumption
    <3>2. IsPending(k, commit_overlay[k].id)'
      <4>1. /\ commit_overlay'[k].id \in Nat
            /\ commit_overlay'[k].id - 1 - Popped = Len(commits) + 1
            /\ ~(commit_overlay'[k].id <= Popped + 1)
        BY <1>0, <3>1
      <4>2. commits'[commit_overlay'[k].id - 1 - Popped].changeset[k] # Keep
        BY <1>4, <2>1, <4>1 DEF ShownInOverlay
      <4>3. commit_overlay'[k].id - 1 - Popped <= Len(commits')
        BY <1>0, <1>4, <4>1
      <4> QED BY <1>queued, <4>1, <4>2, <4>3
    <3>3. Settled(hist', k, m, m)
      <4>1. hist'[m][k].refs \in Nat
        BY <1>0, <1>2, RefsAssumption DEF State, Cell
      <4> QED BY <4>1, <1>0, <1>1 DEF Settled
    <3>4. IF k \in RefCounted THEN c[k] = Image[k] ELSE hist'[m][k].value = c[k]
      <4>1. hist[commit_id][k] \in CellOf(k)
        BY <1>0, HistType
      <4>2. CASE k \in RefCounted
        BY <2>1, <3>1, <4>2, KindsAssumption DEF Ops, ShownInOverlay
      <4>3. CASE k \notin RefCounted
        BY <1>2, <2>1, <3>1, <4>1, <4>3, WriteCellValue DEF Apply, ShownInOverlay
      <4> QED BY <4>2, <4>3
    <3> QED BY <1>0, <3>1, <3>2, <3>3, <3>4
  <2>2. CASE ~ShownInOverlay(k, c[k])
    <3>1. /\ commit_overlay'[k] = commit_overlay[k]
          /\ c[k] = Keep \/ (k \in RefCounted /\ c[k] = None)
      BY <2>2 DEF CommitRaw, ShownInOverlay
    <3>2. CASE commit_overlay[k] = None
      <4>1. Settled(hist, k, Logged, commit_id)
        BY <3>2 DEF IInv, CommitOverlayInv
      <4>2. Logged \in 0..commit_id
        BY <1>0
      <4>3. Settled(hist', k, Logged, m)
        BY <1>12, <3>1, <4>1, <4>2
      <4> QED BY <1>5, <3>1, <3>2, <4>3
    <3>3. CASE commit_overlay[k] # None
      <4>1. /\ commit_overlay[k].id \in Nat
            /\ IsPending(k, commit_overlay[k].id)
            /\ Settled(hist, k, commit_overlay[k].id - 1, commit_id)
            /\ k \in RefCounted => commit_overlay[k].value = Image[k]
            /\ k \notin RefCounted => commit_overlay[k].value = hist[commit_id][k].value
        BY <3>3 DEF IInv, TypeOK, CommitOverlayInv, CommitEntry
      <4>2. commit_overlay[k].id - 1 \in 0..commit_id
        BY <4>1, PendingBound
      <4>3. Settled(hist', k, commit_overlay[k].id - 1, m)
        BY <1>12, <3>1, <4>1, <4>2
      <4>4. IsPending(k, commit_overlay[k].id)'
        BY <1>13, <3>1, <4>1
      <4>5. k \notin RefCounted => hist'[m][k] = hist[commit_id][k]
        BY <1>2, <3>1 DEF Apply
      <4> QED BY <3>1, <3>3, <4>1, <4>3, <4>4, <4>5
    <3> QED BY <3>2, <3>3
  <2> QED BY <2>1, <2>2
<1>15. ReaderInv'
  BY <1>1 DEF CommitRaw, OverlayUnlocked, ReaderInv, IInv
<1> QED BY <1>6, <1>7, <1>8, <1>9, <1>10, <1>11, <1>14, <1>15 DEF IInv

(***************************************************************************)
(* Parts of the invariant that a step leaves alone.                        *)
(***************************************************************************)
LEMMA SettledSuffix ==
  ASSUME NEW h, NEW k, NEW a \in Int, NEW b \in Int, NEW a2 \in Int,
         a <= a2, Settled(h, k, a, b)
  PROVE  Settled(h, k, a2, b)
BY DEF Settled

LEMMA QueueFrame ==
  ASSUME QueueInv, UNCHANGED <<commits, commit_id, hist>>
  PROVE  QueueInv' /\ Popped' = Popped
<1>1. Popped' = Popped
  BY DEF Popped
<1> QED BY <1>1 DEF QueueInv

LEMMA LogFrame ==
  ASSUME IInv, Logged' = Logged, UNCHANGED <<log, overlays, table, written, hist>>
  PROVE  Enacted' = Enacted /\ LogInv' /\ LogOverlayInv' /\ TableInv'
<1>1. Enacted' = Enacted
  BY DEF Enacted
<1>2. LogInv'
  BY <1>1 DEF LogInv, IInv
<1>3. LogOverlayInv'
  BY <1>1 DEF LogOverlayInv, IInv
<1>4. TableInv'
  BY <1>1 DEF TableInv, IInv
<1> QED BY <1>1, <1>2, <1>3, <1>4

LEMMA ReaderFrame ==
  ASSUME IInv, Enacted' = Enacted, UNCHANGED <<commit_overlay, commit_id, hist, reader>>
  PROVE  ReaderInv'
BY DEF ReaderInv, IInv
===========================================================================
