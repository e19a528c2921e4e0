----------------------- MODULE CommitPipelineProofs -----------------------
(***************************************************************************)
(* The theorems about CommitPipeline: IInv is inductive, and with it the   *)
(* reads through the overlays are correct for every set of keys, values    *)
(* and readers and every bound on the commits.                             *)
(***************************************************************************)
EXTENDS CommitPipelineSteps

(***************************************************************************)
(* The readers.                                                            *)
(***************************************************************************)
\* A step of get changes the state of one reader only.
ReaderStep(r, pc, k, v) ==
  /\ Goto(r, pc, k, v)
  /\ UNCHANGED <<commits, commit_id, commit_overlay, overlays, log,
                 next_record_id, table, logger, written, hist>>

LEMMA ReaderStepInv ==
  ASSUME IInv, NEW r \in Readers, NEW pc \in {"idle", "log", "table", "done"},
         NEW k \in Keys \cup {None}, NEW v \in Option, ReaderStep(r, pc, k, v),
         pc # "idle" => k \in Keys,
         pc \in {"log", "table"} => commit_overlay[k] = None,
         pc = "table" => Settled(hist, k, Enacted, commit_id)
  PROVE  IInv'
<1>1. /\ reader \in [Readers -> ReaderState]
      /\ reader' = [reader EXCEPT ![r] = [pc |-> pc, key |-> k, value |-> v]]
      /\ UNCHANGED <<commits, commit_id, commit_overlay, overlays, log,
                     next_record_id, table, logger, written, hist>>
  BY DEF IInv, TypeOK, ReaderStep, Goto
<1>2. Logged' = Logged /\ Enacted' = Enacted /\ Popped' = Popped
  BY <1>1 DEF Logged, Enacted, Popped
<1>3. TypeOK'
  <2>1. reader' \in [Readers -> ReaderState]
    BY <1>1 DEF ReaderState
  <2> QED BY <1>1, <2>1 DEF IInv, TypeOK
<1>4. QueueInv'
  BY <1>1, QueueFrame DEF IInv
<1>5. LoggerInv'
  BY <1>1, <1>2 DEF LoggerInv, IInv
<1>6. LogInv' /\ LogOverlayInv' /\ TableInv'
  BY <1>1, <1>2, LogFrame
<1>7. CommitOverlayInv'
  <2>1. \A x \in Keys : \A id : IsPending(x, id) => IsPending(x, id)'
    BY <1>1, <1>2 DEF IsPending
  <2> QED BY <1>1, <1>2, <2>1 DEF CommitOverlayInv, IInv
<1>8. ReaderInv'
  <2> SUFFICES ASSUME NEW q \in Readers
               PROVE  /\ reader'[q].pc # "idle" => reader'[q].key \in Keys
                      /\ reader'[q].pc \in {"log", "table"}
                            => commit_overlay[reader'[q].key] = None
                      /\ reader'[q].pc = "table"
                            => Settled(hist, reader'[q].key, Enacted, commit_id)
    BY <1>1, <1>2 DEF ReaderInv
  <2>1. CASE q = r
    <3>1. reader'[q].pc = pc /\ reader'[q].key = k
      BY <1>1, <2>1
    <3> QED BY <3>1
  <2>2. CASE q # r
    <3>1. reader'[q] = reader[q]
      BY <1>1, <2>2
    <3> QED BY <3>1 DEF ReaderInv, IInv
  <2> QED BY <2>1, <2>2
<1> QED BY <1>3, <1>4, <1>5, <1>6, <1>7, <1>8 DEF IInv

\* Without an entry in an overlay no commit of that stage changes the value.
LEMMA LogOverlayMiss ==
  ASSUME IInv, NEW k \in Keys, commit_overlay[k] = None, overlays[k] = None
  PROVE  Settled(hist, k, Enacted, commit_id)
<1>0. /\ Enacted \in Nat /\ Logged \in Nat /\ commit_id \in Nat
      /\ Enacted <= Logged /\ Logged <= commit_id
  BY StageOrder
<1>1. \A j \in Enacted..Logged : hist[j][k] = hist[Logged][k]
  BY DEF IInv, LogOverlayInv
<1>2. Settled(hist, k, Logged, commit_id)
  BY DEF IInv, CommitOverlayInv
<1> SUFFICES ASSUME NEW i \in Enacted..commit_id, NEW j \in Enacted..commit_id, i <= j
             PROVE  IF k \in RefCounted THEN hist[j][k].refs <= hist[i][k].refs
                    ELSE hist[j][k].value = hist[i][k].value
  BY DEF Settled
<1>3. \A n \in Logged..commit_id :
        IF k \in RefCounted THEN hist[n][k].refs <= hist[Logged][k].refs
        ELSE hist[n][k].value = hist[Logged][k].value
  BY <1>0, <1>2 DEF Settled
<1>4. hist[i][k].refs \in Nat
  <2>1. hist[i][k] \in Cell
    BY <1>0, HistType
  <2> QED BY <2>1, CellRefs
<1>5. CASE i \in Enacted..Logged /\ j \in Enacted..Logged
  <2>1. hist[i][k] = hist[j][k]
    BY <1>1, <1>5
  <2> QED BY <1>4, <2>1
<1>6. CASE i \in Enacted..Logged /\ j \in Logged..commit_id
  <2>1. hist[i][k] = hist[Logged][k]
    BY <1>1, <1>6
  <2> QED BY <1>3, <1>6, <2>1
<1>7. CASE i \in Logged..commit_id /\ j \in Logged..commit_id
  BY <1>2, <1>7 DEF Settled
<1> QED BY <1>0, <1>5, <1>6, <1>7

LEMMA ReaderStepsInv ==
  ASSUME IInv, NEW r \in Readers, Reader(r)
  PROVE  IInv'
<1>1. \A c \in Cell : c.value \in Option
  BY DEF Cell
<1>2. None \in Option
  BY DEF Option
<1>3. ASSUME NEW k \in Keys, GetCommitOverlay(r, k)
      PROVE  IInv'
  <2>1. CASE commit_overlay[k] = None
    BY <1>2, <1>3, <2>1, ReaderStepInv DEF GetCommitOverlay, ReaderStep
  <2>2. CASE commit_overlay[k] # None
    <3>1. commit_overlay[k].value \in Option
      BY <2>2 DEF IInv, TypeOK, CommitEntry
    <3>2. ReaderStep(r, "done", k, commit_overlay[k].value)
      BY <1>3, <2>2 DEF GetCommitOverlay, ReaderStep
    <3> QED BY <3>1, <3>2, ReaderStepInv
  <2> QED BY <2>1, <2>2
<1>4. ASSUME GetLogOverlay(r)
      PROVE  IInv'
  <2>1. PICK k \in Keys : k = reader[r].key
    BY <1>4 DEF GetLogOverlay, IInv, ReaderInv
  <2>2. commit_overlay[k] = None
    BY <1>4, <2>1 DEF GetLogOverlay, IInv, ReaderInv
  <2>3. CASE overlays[k] = None
    <3>1. Settled(hist, k, Enacted, commit_id)
      BY <2>2, <2>3, LogOverlayMiss
    <3>2. ReaderStep(r, "table", k, None)
      BY <1>4, <2>1, <2>3 DEF GetLogOverlay, ReaderStep
    <3> QED BY <1>2, <2>2, <3>1, <3>2, ReaderStepInv
  <2>4. CASE overlays[k] # None
    <3>1. overlays[k].cell.value \in Option
      BY <1>1, <2>4 DEF IInv, TypeOK, LogEntry
    <3>2. ReaderStep(r, "done", k, overlays[k].cell.value)
      BY <1>4, <2>1, <2>4 DEF GetLogOverlay, ReaderStep
    <3> QED BY <3>1, <3>2, ReaderStepInv
  <2> QED BY <2>3, <2>4
<1>5. ASSUME GetTable(r)
      PROVE  IInv'
  <2>1. PICK k \in Keys : k = reader[r].key
    BY <1>5 DEF GetTable, IInv, ReaderInv
  <2>2. table[k].value \in Option
    BY <1>1 DEF IInv, TypeOK, State
  <2>3. ReaderStep(r, "done", k, table[k].value)
    BY <1>5, <2>1 DEF GetTable, ReaderStep
  <2> QED BY <2>2, <2>3, ReaderStepInv
<1>6. ASSUME GetReturn(r)
      PROVE  IInv'
  <2>1. ReaderStep(r, "idle", None, None)
    BY <1>6 DEF GetReturn, ReaderStep
  <2> QED BY <1>2, <2>1, ReaderStepInv
<1> QED BY <1>3, <1>4, <1>5, <1>6 DEF Reader

(***************************************************************************)
(* The theorems.                                                           *)
(***************************************************************************)
LEMMA StutterInv == ASSUME IInv, UNCHANGED vars PROVE IInv'
<1>1. UNCHANGED <<commits, commit_id, commit_overlay, overlays, log, next_record_id,
                  table, logger, written, reader, hist>>
  BY DEF vars
<1>2. Logged' = Logged /\ Enacted' = Enacted /\ Popped' = Popped
  BY <1>1 DEF Logged, Enacted, Popped
<1>3. TypeOK'
  BY <1>1 DEF IInv, TypeOK
<1>4. QueueInv'
  BY <1>1, QueueFrame DEF IInv
<1>5. LoggerInv'
  BY <1>1, <1>2 DEF LoggerInv, IInv
<1>6. LogInv' /\ LogOverlayInv' /\ TableInv'
  BY <1>1, <1>2, LogFrame
<1>7. CommitOverlayInv'
  <2>1. \A x \in Keys : \A id : IsPending(x, id) => IsPending(x, id)'
    BY <1>1, <1>2 DEF IsPending
  <2> QED BY <1>1, <1>2, <2>1 DEF CommitOverlayInv, IInv
<1>8. ReaderInv'
  BY <1>1, <1>2, ReaderFrame
<1> QED BY <1>3, <1>4, <1>5, <1>6, <1>7, <1>8 DEF IInv

LEMMA NextInv == IInv /\ [Next]_vars => IInv'
<1> SUFFICES ASSUME IInv, [Next]_vars PROVE IInv'
  OBVIOUS
<1>1. CASE \E c \in Changeset : CommitRaw(c)
  BY <1>1, CommitRawStep
<1>2. CASE LogWorker
  BY <1>2, PopCommitStep, PlanRecordStep, EndRecordStep, CleanCommitOverlayStep
     DEF LogWorker
<1>3. CASE CommitWorker
  BY <1>3, EnactCellStep, EndReadStep DEF CommitWorker
<1>4. CASE \E r \in Readers : Reader(r)
  BY <1>4, ReaderStepsInv
<1>5. CASE UNCHANGED vars
  BY <1>5, StutterInv
<1> QED BY <1>1, <1>2, <1>3, <1>4, <1>5 DEF Next

\* Each of the places a commit passes through, from the queue of commit_raw to
\* the tables that enact_logs writes, agrees with the commits it stands for.
THEOREM StagesAgree == Spec => []IInv
<1>1. Init => IInv
  BY InitIInv
<1>2. IInv /\ [Next]_vars => IInv'
  BY NextInv
<1> QED BY <1>1, <1>2, PTL DEF Spec

\* The state of the pipeline keeps its types.
THEOREM TypeCorrect == Spec => []TypeOK
<1>1. IInv => TypeOK
  BY DEF IInv
<1> QED BY <1>1, StagesAgree, PTL

\* What write_plan and Column::get read through the log overlays is the effect
\* of the logged commits, whatever enact_logs has written and end_read removed.
THEOREM ViewCorrect == Spec => []ViewIsLoggedState
BY ViewIsLogged, StagesAgree, PTL

\* The overlays are empty when the stages they stand for are.
THEOREM DrainCorrect == Spec => []OverlaysDrain
<1>1. IInv => OverlaysDrain
  <2> SUFFICES ASSUME IInv PROVE OverlaysDrain
    OBVIOUS
  <2>0. /\ Enacted \in Nat /\ Logged \in Nat /\ Popped \in Nat /\ commit_id \in Nat
        /\ Enacted = Logged - Len(log) /\ Popped = commit_id - Len(commits)
    BY StageOrder
  <2>1. (commits = <<>> /\ logger.pc = "idle") => \A k \in Keys : commit_overlay[k] = None
    <3> SUFFICES ASSUME commits = <<>>, logger.pc = "idle", NEW k \in Keys,
                        commit_overlay[k] # None
                 PROVE  FALSE
      OBVIOUS
    <3>1. commit_overlay[k].id \in Nat /\ IsPending(k, commit_overlay[k].id)
      BY DEF IInv, TypeOK, CommitEntry, CommitOverlayInv
    <3>2. Len(commits) = 0
      OBVIOUS
    <3> QED BY <2>0, <3>1, <3>2 DEF IsPending
  <2>2. log = <<>> => Len(log) = 0
    OBVIOUS
  <2>3. log = <<>> => \A k \in Keys : overlays[k] = None
    <3> SUFFICES ASSUME log = <<>>, NEW k \in Keys, overlays[k] # None
                 PROVE  FALSE
      OBVIOUS
    <3>1. overlays[k].id \in Enacted + 1..Logged
      BY DEF IInv, LogOverlayInv
    <3>2. Enacted = Logged
      BY <2>0, <2>2
    <3> QED BY <2>0, <3>1, <3>2
  <2>4. (commits = <<>> /\ logger.pc = "idle" /\ log = <<>>) => table = hist[commit_id]
    <3> SUFFICES ASSUME commits = <<>>, logger.pc = "idle", log = <<>>
                 PROVE  table = hist[commit_id]
      OBVIOUS
    <3>1. Len(commits) = 0
      OBVIOUS
    <3>2. Enacted = commit_id
      BY <2>0, <2>2, <3>1 DEF IInv, LoggerInv
    <3>3. \A k \in Keys : table[k] = hist[commit_id][k]
      BY <3>2 DEF IInv, TableInv
    <3>4. table \in [Keys -> Cell] /\ hist[commit_id] \in [Keys -> Cell]
      BY <2>0 DEF IInv, TypeOK, State
    <3> QED BY <3>3, <3>4
  <2> QED BY <2>1, <2>3, <2>4 DEF OverlaysDrain
<1> QED BY <1>1, StagesAgree, PTL

\* The answer of a get, in whichever of the three places it is found.
LEMMA AnswerIsRight ==
  ASSUME IInv, Next, NEW r \in Readers, reader[r].pc # "done", reader'[r].pc = "done"
  PROVE  LET k == reader'[r].key IN
         /\ k \in Keys
         /\ k \notin RefCounted => reader'[r].value = hist[commit_id][k].value
         /\ k \in RefCounted =>
              /\ reader'[r].value \in {None, Image[k]}
              /\ hist[commit_id][k] # Absent => reader'[r].value = Image[k]
<1>0. /\ Enacted \in Nat /\ Logged \in Nat /\ commit_id \in Nat
      /\ Enacted <= Logged /\ Logged <= commit_id
  BY StageOrder
<1>1. reader \in [Readers -> ReaderState] /\ reader' # reader
  BY DEF IInv, TypeOK
<1>2. PICK q \in Readers : Reader(q)
  BY <1>1 DEF Next, LogWorker, CommitWorker, CommitRaw, PopCommit, PlanRecord,
              EndRecord, CleanCommitOverlay, EndRead, EnactCell
<1>3. q = r
  BY <1>1, <1>2 DEF Reader, GetCommitOverlay, GetLogOverlay, GetTable, GetReturn, Goto
\* The value of the cell that the commit n <= commit_id left answers for k.
<1>4. ASSUME NEW k \in Keys, NEW n \in 0..commit_id, Settled(hist, k, n, commit_id)
      PROVE  /\ k \notin RefCounted => hist[n][k].value = hist[commit_id][k].value
             /\ k \in RefCounted =>
                  /\ hist[n][k].value \in {None, Image[k]}
                  /\ hist[commit_id][k] # Absent => hist[n][k].value = Image[k]
  <2>1. n \in n..commit_id /\ commit_id \in n..commit_id /\ n <= commit_id
    BY <1>0
  <2>2. /\ hist[n][k] \in CellOf(k) /\ hist[commit_id][k] \in CellOf(k)
    BY <1>0, HistType
  <2>3. CASE k \notin RefCounted
    BY <1>4, <2>1, <2>3 DEF Settled
  <2>4. CASE k \in RefCounted
    <3>1. hist[commit_id][k].refs <= hist[n][k].refs
      BY <1>4, <2>1, <2>4 DEF Settled
    <3>2. \A c \in CellOf(k) : \/ c = Absent
                               \/ c.refs \in Nat /\ c.refs > 0 /\ c.value = Image[k]
      BY <2>4, RefsAssumption DEF CellOf
    <3>3. Absent.refs = 0 /\ Absent.value = None
      BY DEF Absent
    <3> QED BY <2>2, <2>4, <3>1, <3>2, <3>3
  <2> QED BY <2>3, <2>4
<1>5. ASSUME NEW k \in Keys, GetCommitOverlay(r, k)
      PROVE  /\ reader'[r].key = k /\ commit_overlay[k] # None
             /\ reader'[r].value = commit_overlay[k].value
  BY <1>1, <1>5 DEF GetCommitOverlay, Goto
<1>6. ASSUME GetLogOverlay(r)
      PROVE  /\ reader'[r].key = reader[r].key /\ overlays[reader[r].key] # None
             /\ reader'[r].value = overlays[reader[r].key].cell.value
  BY <1>1, <1>6 DEF GetLogOverlay, Goto
<1>7. ASSUME GetTable(r)
      PROVE  /\ reader'[r].key = reader[r].key
             /\ reader'[r].value = table[reader[r].key].value
  BY <1>1, <1>7 DEF GetTable, Goto
<1>8. CASE \E k \in Keys : GetCommitOverlay(r, k)
  <2>1. PICK k \in Keys : GetCommitOverlay(r, k)
    BY <1>8
  <2>2. /\ k \in RefCounted => commit_overlay[k].value = Image[k]
        /\ k \notin RefCounted => commit_overlay[k].value = hist[commit_id][k].value
    BY <1>5, <2>1 DEF IInv, CommitOverlayInv
  <2> QED BY <1>5, <2>1, <2>2
<1>9. CASE GetLogOverlay(r)
  <2>1. PICK k \in Keys : k = reader[r].key
    BY <1>9 DEF GetLogOverlay, IInv, ReaderInv
  <2>2. commit_overlay[k] = None /\ overlays[k] # None
    BY <1>6, <1>9, <2>1 DEF GetLogOverlay, IInv, ReaderInv
  <2>3. Settled(hist, k, Logged, commit_id)
    BY <2>2 DEF IInv, CommitOverlayInv
  <2>4. overlays[k].cell = hist[Logged][k]
    BY <2>2, ViewIsLogged DEF ViewIsLoggedState, View
  <2>5. Logged \in 0..commit_id
    BY <1>0
  <2> QED BY <1>4, <1>6, <1>9, <2>1, <2>3, <2>4, <2>5
<1>10. CASE GetTable(r)
  <2>1. PICK k \in Keys : k = reader[r].key
    BY <1>10 DEF GetTable, IInv, ReaderInv
  <2>2. Settled(hist, k, Enacted, commit_id)
    BY <1>10, <2>1 DEF GetTable, IInv, ReaderInv
  <2>3. PICK n \in 0..commit_id : table[k] = hist[n][k] /\ Enacted <= n
    <3>1. CASE k \in written
      <4>1. log # <<>> /\ table[k] = hist[Enacted + 1][k]
        BY <3>1 DEF IInv, TableInv
      <4>2. Enacted + 1 \in 0..commit_id
        BY <1>0, <4>1, HeadRecord
      <4> QED BY <1>0, <4>1, <4>2
    <3>2. CASE k \notin written
      BY <1>0, <3>2 DEF IInv, TableInv
    <3> QED BY <3>1, <3>2
  <2>4. Settled(hist, k, n, commit_id)
    BY <1>0, <2>2, <2>3, SettledSuffix
  <2>5. reader'[r].key = k /\ reader'[r].value = hist[n][k].value
    BY <1>7, <1>10, <2>1, <2>3
  <2> QED BY <1>4, <2>4, <2>5
<1>11. CASE GetReturn(r)
  BY <1>1, <1>11 DEF GetReturn, Goto
<1> QED BY <1>2, <1>3, <1>8, <1>9, <1>10, <1>11 DEF Reader

\* Every get of a column without reference counts answers with the last
\* accepted commit, while both workers move the commit from place to place.
THEOREM ReadsCorrect == Spec => ReadsAreCurrent
<1>1. IInv /\ [Next]_vars =>
        [\A r \in Readers :
           LET k == reader'[r].key IN
           (reader[r].pc # "done" /\ reader'[r].pc = "done" /\ k \notin RefCounted)
             => reader'[r].value = hist[commit_id][k].value]_vars
  BY AnswerIsRight
<1> QED BY <1>1, StagesAgree, PTL DEF Spec, ReadsAreCurrent

\* A reference counted value that accepted commits refer to is found.
THEOREM ReferencedCorrect == Spec => ReferencedIsFound
<1>1. IInv /\ [Next]_vars =>
        [\A r \in Readers :
           LET k == reader'[r].key IN
           (reader[r].pc # "done" /\ reader'[r].pc = "done" /\ k \in RefCounted)
             => (hist[commit_id][k] # Absent => reader'[r].value = Image[k])]_vars
  BY AnswerIsRight
<1> QED BY <1>1, StagesAgree, PTL DEF Spec, ReferencedIsFound

(***************************************************************************)
(* The refinement of AtomicStore.                                          *)
(***************************************************************************)
LEMMA StoreOperators ==
  /\ Store!State = State
  /\ Store!Changeset = Changeset
  /\ \A s, c : Store!Apply(s, c) = Apply(s, c)
<1>1. \A k : Store!CellOf(k) = CellOf(k)
  BY DEF Store!CellOf, CellOf, Store!Absent, Absent
<1>2. Store!State = State
  BY <1>1 DEF Store!State, State, Store!Cell, Cell, Store!Option, Option
<1>3. Store!Changeset = Changeset
  BY DEF Store!Changeset, Changeset, Store!Option, Option
<1>4. \A k, cell, op : Store!WriteCell(k, cell, op) = WriteCell(k, cell, op)
  BY DEF Store!WriteCell, WriteCell, Store!DecRef, DecRef, Store!IncRef, IncRef,
         Store!Absent, Absent
<1> QED BY <1>2, <1>3, <1>4 DEF Store!Apply, Apply

\* Each step is a commit, an answer, the return of a get, or invisible.
LEMMA StepRefines ==
  ASSUME IInv, [Next]_vars
  PROVE  [Store!Next]_(Store!vars)
<1> USE DEF Store!vars
<1>1. CASE \E c \in Changeset : CommitRaw(c)
  <2>1. PICK c \in Changeset : CommitRaw(c)
    BY <1>1
  <2>2. commit_id \in Nat
    BY DEF IInv, TypeOK
  <2>3. commit_id' = commit_id + 1 /\ reader' = reader
    BY <2>1 DEF CommitRaw
  <2>4. hist' = [n \in 0..commit_id + 1 |->
                   IF n = commit_id + 1 THEN Apply(hist[commit_id], c) ELSE hist[n]]
    BY <2>1 DEF CommitRaw
  <2>5. hist'[commit_id'] = Apply(hist[commit_id], c)
    BY <2>2, <2>3, <2>4
  <2>6. Replies' = Replies
    BY <2>3 DEF Replies
  <2>7. Store!Commit(c)
    BY <2>5, <2>6, StoreOperators DEF Store!Commit
  <2> QED BY <2>7, StoreOperators DEF Store!Next
<1>2. CASE LogWorker \/ CommitWorker \/ UNCHANGED vars
  <2>1. UNCHANGED <<hist, commit_id, reader>>
    BY <1>2 DEF LogWorker, CommitWorker, PopCommit, PlanRecord, EndRecord,
                CleanCommitOverlay, EndRead, EnactCell, vars
  <2> QED BY <2>1 DEF Replies
<1>3. ASSUME NEW r \in Readers, Reader(r)
      PROVE  [Store!Next]_(Store!vars)
  <2>1. /\ reader \in [Readers -> ReaderState]
        /\ reader' = [reader EXCEPT ![r] = reader'[r]]
        /\ UNCHANGED <<hist, commit_id>>
    BY <1>3 DEF Reader, GetCommitOverlay, GetLogOverlay, GetTable, GetReturn, Goto,
                IInv, TypeOK
  <2>2. hist'[commit_id'] = hist[commit_id]
    BY <2>1
  <2>3. Replies \in [Readers -> [key : Keys \cup {None}, value : Option]]
    BY <2>1 DEF Replies, ReaderState, Option
  <2>4. CASE reader'[r].pc = "done" /\ reader[r].pc # "done"
    <3>1. Replies' = [Replies EXCEPT ![r] = [key |-> reader'[r].key,
                                             value |-> reader'[r].value]]
      BY <2>1, <2>4 DEF Replies
    <3>2. Next
      BY <1>3 DEF Next
    <3>3. PICK k : k = reader'[r].key
      OBVIOUS
    <3>4. /\ k \in Keys
          /\ k \notin RefCounted => reader'[r].value = hist[commit_id][k].value
          /\ k \in RefCounted =>
               /\ reader'[r].value \in {None, Image[k]}
               /\ hist[commit_id][k] # Absent => reader'[r].value = Image[k]
      BY <1>3, <2>4, <3>2, <3>3, AnswerIsRight
    <3>5. reader'[r].value \in Store!Answers(k)
      <4>1. hist[commit_id][k] \in CellOf(k)
        BY <3>4, HistType, StageOrder
      <4>2. (k \in RefCounted /\ hist[commit_id][k] # Absent)
               => hist[commit_id][k].value = Image[k]
        BY <4>1 DEF CellOf
      <4> QED BY <3>4, <4>2 DEF Store!Answers, Store!Absent, Absent
    <3>6. Store!Get(r, k)
      BY <2>2, <3>1, <3>3, <3>5 DEF Store!Get
    <3> QED BY <1>3, <3>4, <3>6, StoreOperators DEF Store!Next
  <2>5. CASE reader'[r].pc = "done" /\ reader[r].pc = "done"
    BY <1>3, <2>1, <2>5 DEF Reader, GetCommitOverlay, GetLogOverlay, GetTable,
                            GetReturn, Goto
  <2>6. CASE reader'[r].pc # "done"
    <3>1. Replies' = [Replies EXCEPT ![r] = [key |-> None, value |-> None]]
      BY <2>1, <2>6 DEF Replies
    <3>2. Store!Forget(r)
      BY <2>2, <3>1 DEF Store!Forget, Store!NoReply
    <3> QED BY <1>3, <3>2 DEF Store!Next
  <2> QED BY <2>4, <2>5, <2>6
<1> QED BY <1>1, <1>2, <1>3 DEF Next

\* commit_raw, get and the workers together implement the map with atomic
\* commits and gets that AtomicStore describes.
THEOREM Refinement == Spec => ImplementsAtomicStore
<1>1. Init => Store!Init
  <2> SUFFICES ASSUME Init PROVE Store!Init
    OBVIOUS
  <2>1. hist[commit_id] \in State
    BY DEF Init
  <2>2. Replies = [r \in Readers |-> [key |-> None, value |-> None]]
    BY DEF Init, Replies
  <2> QED BY <2>1, <2>2, StoreOperators DEF Store!Init, Store!NoReply
<1>2. IInv /\ [Next]_vars => [Store!Next]_(Store!vars)
  BY StepRefines
<1> QED BY <1>1, <1>2, StagesAgree, PTL DEF Spec, Store!Spec, ImplementsAtomicStore
===========================================================================
