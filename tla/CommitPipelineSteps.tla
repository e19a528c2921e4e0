----------------------- MODULE CommitPipelineSteps -----------------------
(***************************************************************************)
(* The log worker and the commit worker preserve IInv.                     *)
(***************************************************************************)
EXTENDS CommitPipelineLemmas

(***************************************************************************)
(* The log worker.                                                         *)
(***************************************************************************)
\* The commit that leaves the queue is the next one to be logged.
LEMMA PopCommitStep ==
  ASSUME IInv, PopCommit
  PROVE  IInv'
<1>0. /\ Logged \in Nat /\ Popped \in Nat /\ commit_id \in Nat
      /\ Popped = commit_id - Len(commits) /\ Len(commits) \in Nat
  BY StageOrder
<1>1. /\ logger.pc = "idle" /\ commits # <<>> /\ commits \in Seq(Commits)
      /\ logger'.pc = "plan" /\ logger'.commit = Head(commits)
      /\ logger' = [pc |-> "plan", commit |-> Head(commits), record |-> NoRecord]
      /\ commits' = Tail(commits)
  BY DEF PopCommit, IInv, TypeOK
<1>2. /\ commits' \in Seq(Commits) /\ Len(commits') = Len(commits) - 1
      /\ \A i \in 1..Len(commits') : commits'[i] = commits[i + 1]
      /\ Head(commits) = commits[1] /\ commits[1] \in Commits /\ Len(commits) > 0
  BY <1>1
<1>3. Logged' = Logged /\ Popped' = Popped + 1 /\ Popped = Logged
  <2>1. Popped' = Popped + 1
    BY <1>0, <1>2 DEF PopCommit, Popped
  <2>2. Logged' = Logged
    BY <1>1 DEF PopCommit, Logged
  <2>3. Popped = Logged
    BY <1>0, <1>1 DEF LoggerInv, IInv
  <2> QED BY <2>1, <2>2, <2>3
<1>4. TypeOK'
  <2>1. NoRecord \in Records
    BY DEF NoRecord, Records
  <2>2. logger' \in [pc : {"idle", "plan", "write", "clean"},
                    commit : Commits, record : Records]
    BY <1>1, <1>2, <2>1
  <2> QED BY <1>2, <2>2 DEF PopCommit, IInv, TypeOK
<1>5. \A i \in 1..Len(commits) : IsCommit(hist, commits[i], Popped + i)
  BY DEF QueueInv, IInv
<1>6. QueueInv'
  <2>1. ASSUME NEW i \in 1..Len(commits')
        PROVE  IsCommit(hist, commits'[i], Popped' + i)
    <3>1. IsCommit(hist, commits[i + 1], Popped + (i + 1))
      BY <1>2, <1>5, <1>0
    <3>2. commits'[i] = commits[i + 1] /\ Popped' + i = Popped + (i + 1)
      BY <1>0, <1>2, <1>3
    <3> QED BY <3>1, <3>2
  <2>2. hist' = hist /\ commit_id' = commit_id /\ Len(commits') <= commit_id
    BY <1>0, <1>2 DEF PopCommit
  <2> QED BY <2>1, <2>2 DEF QueueInv
<1>7. LoggerInv'
  <2>1. IsCommit(hist, commits[1], Popped + 1)
    BY <1>2, <1>5
  <2> QED BY <1>0, <1>1, <1>2, <1>3, <2>1 DEF PopCommit, LoggerInv
<1>8. LogInv' /\ LogOverlayInv' /\ TableInv' /\ Enacted' = Enacted
  BY <1>3, LogFrame DEF PopCommit
<1>9. ASSUME NEW k \in Keys, NEW id \in Nat, IsPending(k, id)
      PROVE  IsPending(k, id)'
  <2>0. id \in Int /\ Popped \in Int
    BY <1>0, <1>9
  <2>1. PICK i \in Int : i = id - 1 - Popped
    BY <2>0
  <2>2. /\ id > Popped + 1 /\ i \in 1..Len(commits)
        /\ commits[i].changeset[k] # Keep
    BY <1>0, <1>1, <1>9, <2>1 DEF IsPending
  <2>3. CASE i = 1
    <3>1. id = Popped' + 1
      BY <1>0, <1>3, <2>1, <2>3
    <3>2. logger'.pc # "idle" /\ logger'.commit.changeset[k] # Keep
      BY <1>1, <1>2, <2>2, <2>3
    <3> QED BY <1>0, <1>3, <3>1, <3>2 DEF IsPending
  <2>4. CASE i > 1
    <3>1. i - 1 \in 1..Len(commits') /\ id - 1 - Popped' = i - 1 /\ id > Popped' + 1
      BY <2>0, <1>2, <1>3, <2>1, <2>2, <2>4
    <3>2. commits'[i - 1] = commits[i]
      BY <1>2, <3>1
    <3> QED BY <2>0, <1>2, <1>3, <2>2, <3>1, <3>2 DEF IsPending
  <2> QED BY <2>2, <2>3, <2>4
<1>10. CommitOverlayInv'
  <2>1. \A k \in Keys : commit_overlay[k] # None => commit_overlay[k].id \in Nat
    BY DEF IInv, TypeOK, CommitEntry
  <2>2. UNCHANGED <<commit_overlay, commit_id, hist>>
    BY DEF PopCommit
  <2> QED BY <1>3, <1>9, <2>1, <2>2 DEF CommitOverlayInv, IInv
<1>11. ReaderInv'
  BY <1>8, ReaderFrame DEF PopCommit
<1> QED BY <1>4, <1>6, <1>7, <1>8, <1>10, <1>11 DEF IInv

\* What Column::write_plan reads is the effect of the commits logged so far.
LEMMA ViewIsLogged == IInv => ViewIsLoggedState
<1> SUFFICES ASSUME IInv, NEW k \in Keys
             PROVE  View(k) = hist[Logged][k]
  BY DEF ViewIsLoggedState
<1>0. Enacted \in Nat /\ Logged \in Nat /\ Enacted <= Logged
  BY StageOrder
<1>1. CASE overlays[k] # None
  BY <1>0, <1>1 DEF IInv, LogOverlayInv, View
<1>2. CASE overlays[k] = None
  <2>1. \A j \in Enacted..Logged : hist[j][k] = hist[Logged][k]
    BY <1>2 DEF IInv, LogOverlayInv
  <2>2. k \in written => Enacted + 1 \in Enacted..Logged
    <3>1. log \in Seq(Records) /\ (k \in written => log # <<>>)
      BY DEF IInv, TypeOK, TableInv
    <3>2. k \in written => Len(log) > 0
      BY <3>1
    <3> QED BY <1>0, <3>2, StageOrder
  <2>3. Enacted \in Enacted..Logged
    BY <1>0
  <2> QED BY <1>2, <2>1, <2>2, <2>3 DEF IInv, TableInv, View
<1> QED BY <1>1, <1>2

\* The record of a commit holds the cells that the commit changes.
LEMMA PlanRecordStep ==
  ASSUME IInv, PlanRecord
  PROVE  IInv'
<1>0. /\ Logged \in Nat /\ Popped \in Nat /\ commit_id \in Nat /\ next_record_id \in Nat
      /\ Logged <= Popped /\ Popped <= commit_id
  BY StageOrder DEF IInv, TypeOK
<1>1. /\ logger.pc = "plan" /\ logger'.pc = "write" /\ logger'.commit = logger.commit
      /\ logger'.record = [id |-> next_record_id,
                           writes |-> PlannedWrites(logger.commit.changeset)]
      /\ logger' = [pc |-> "write", commit |-> logger.commit, record |-> logger'.record]
      /\ next_record_id' = next_record_id + 1
  BY DEF PlanRecord
<1>2. Logged' = Logged /\ Logged = next_record_id - 1
  BY <1>0, <1>1 DEF Logged
<1>3. /\ Popped = Logged + 1 /\ Popped = next_record_id
      /\ IsCommit(hist, logger.commit, Popped)
  BY <1>0, <1>1, <1>2 DEF IInv, LoggerInv
<1>4. logger.commit \in Commits /\ logger.commit.changeset \in Changeset
  BY DEF IInv, TypeOK, Commits
<1>5. ASSUME NEW k \in Keys
      PROVE  LET w == PlannedWrites(logger.commit.changeset)[k] IN
             /\ w \in Cell \cup {None}
             /\ IF w = None THEN hist[Popped][k] = hist[Popped - 1][k]
                ELSE hist[Popped][k] = w
  <2>1. PICK op : op = logger.commit.changeset[k]
    OBVIOUS
  <2>2. PICK cell : cell = View(k)
    OBVIOUS
  <2>3. cell = hist[Popped - 1][k] /\ cell \in CellOf(k) /\ cell \in Cell
    <3>1. Popped - 1 = Logged /\ Logged \in 0..commit_id
      BY <1>0, <1>3
    <3> QED BY <2>2, <3>1, ViewIsLogged, HistType DEF ViewIsLoggedState
  <2>4. hist[Popped][k] = IF op = Keep THEN cell ELSE WriteCell(k, cell, op)
    BY <1>3, <2>1, <2>3 DEF IsCommit, Apply
  <2>5. PlannedWrites(logger.commit.changeset)[k] =
          IF op = Keep \/ Skipped(k, cell, op) THEN None ELSE WriteCell(k, cell, op)
    BY <2>1, <2>2 DEF PlannedWrites
  <2>6. CASE op = Keep
    BY <2>3, <2>4, <2>5, <2>6
  <2>7. CASE op # Keep
    <3>1. op \in Ops(k)
      BY <1>4, <2>1, <2>7, ChangesetOps
    <3>2. WriteCell(k, cell, op) \in Cell
      BY <2>3, <3>1, WriteCellType, CellOfType
    <3>3. Skipped(k, cell, op) => WriteCell(k, cell, op) = cell
      BY <2>3, <3>1, SkippedCell
    <3> QED BY <2>3, <2>4, <2>5, <2>7, <3>2, <3>3, MarksAssumption
  <2> QED BY <2>6, <2>7
<1>6. logger'.record \in Records /\ IsRecord(hist, logger'.record, Popped)
  <2>1. logger'.record.id = Popped
        /\ logger'.record.writes = PlannedWrites(logger.commit.changeset)
    BY <1>1, <1>3
  <2>2. PlannedWrites(logger.commit.changeset) \in [Keys -> Cell \cup {None}]
    BY <1>5 DEF PlannedWrites
  <2>3. logger'.record \in Records
    BY <1>0, <1>1, <2>2 DEF Records
  <2>4. IsRecord(hist, logger'.record, Popped)
    BY <1>5, <2>1 DEF IsRecord
  <2> QED BY <2>3, <2>4
<1>7. TypeOK'
  <2>1. logger' \in [pc : {"idle", "plan", "write", "clean"},
                    commit : Commits, record : Records]
    BY <1>1, <1>4, <1>6
  <2> QED BY <1>0, <1>1, <2>1 DEF PlanRecord, IInv, TypeOK
<1>8. QueueInv' /\ Popped' = Popped
  BY QueueFrame DEF PlanRecord, IInv
<1>9. LoggerInv'
  BY <1>0, <1>1, <1>2, <1>3, <1>6, <1>8 DEF PlanRecord, LoggerInv
<1>10. LogInv' /\ LogOverlayInv' /\ TableInv' /\ Enacted' = Enacted
  BY <1>2, LogFrame DEF PlanRecord
<1>11. CommitOverlayInv'
  <2>1. \A k \in Keys : \A id : IsPending(k, id) => IsPending(k, id)'
    BY <1>1, <1>8 DEF PlanRecord, IsPending
  <2> QED BY <1>2, <2>1 DEF PlanRecord, CommitOverlayInv, IInv
<1>12. ReaderInv'
  BY <1>10, ReaderFrame DEF PlanRecord
<1> QED BY <1>7, <1>8, <1>9, <1>10, <1>11, <1>12 DEF IInv

\* end_record makes the record visible and appends it to the log in one step.
LEMMA EndRecordStep ==
  ASSUME IInv, EndRecord
  PROVE  IInv'
<1>0. /\ Enacted \in Nat /\ Logged \in Nat /\ Popped \in Nat /\ commit_id \in Nat
      /\ Enacted <= Logged /\ Logged <= Popped /\ Popped <= commit_id
      /\ Enacted = Logged - Len(log) /\ Len(log) \in Nat /\ next_record_id \in Nat
  BY StageOrder DEF IInv, TypeOK
<1>1. /\ logger.pc = "write" /\ logger'.pc = "clean" /\ logger'.commit = logger.commit
      /\ logger' = [pc |-> "clean", commit |-> logger.commit, record |-> NoRecord]
      /\ log' = Append(log, logger.record)
      /\ log \in Seq(Records) /\ logger.record \in Records /\ logger.commit \in Commits
  BY DEF EndRecord, IInv, TypeOK
<1>2. /\ log' \in Seq(Records) /\ Len(log') = Len(log) + 1
      /\ \A i \in 1..Len(log) : log'[i] = log[i]
      /\ log'[Len(log) + 1] = logger.record
  BY <1>1
<1>3. /\ Popped = Logged + 1 /\ IsRecord(hist, logger.record, Popped)
      /\ IsCommit(hist, logger.commit, Popped)
  BY <1>0, <1>1 DEF IInv, LoggerInv
<1>4. Logged' = Logged + 1 /\ Enacted' = Enacted
  <2>1. Logged' = Logged + 1
    BY <1>0, <1>1 DEF EndRecord, Logged
  <2> QED BY <1>0, <1>2, <2>1 DEF Enacted
<1>5. /\ logger.record.id = Logged + 1
      /\ \A k \in Keys : IF logger.record.writes[k] = None
                         THEN hist[Logged + 1][k] = hist[Logged][k]
                         ELSE hist[Logged + 1][k] = logger.record.writes[k]
  <2>1. Popped - 1 = Logged
    BY <1>0, <1>3
  <2>2. /\ logger.record.id = Popped
        /\ \A k \in Keys : IF logger.record.writes[k] = None
                           THEN hist[Popped][k] = hist[Popped - 1][k]
                           ELSE hist[Popped][k] = logger.record.writes[k]
    BY <1>3 DEF IsRecord
  <2> QED BY <1>3, <2>1, <2>2
<1>6. TypeOK'
  <2>1. NoRecord \in Records
    BY DEF NoRecord, Records
  <2>2. logger' \in [pc : {"idle", "plan", "write", "clean"},
                    commit : Commits, record : Records]
    BY <1>1, <2>1
  <2>3. overlays' \in [Keys -> LogEntry \cup {None}]
    <3>1. overlays \in [Keys -> LogEntry \cup {None}]
      BY DEF IInv, TypeOK
    <3>2. logger.record.id \in Nat /\ logger.record.writes \in [Keys -> Cell \cup {None}]
      BY <1>1 DEF Records
    <3> QED BY <3>1, <3>2 DEF EndRecord, LogEntry
  <2> QED BY <1>2, <2>2, <2>3 DEF EndRecord, IInv, TypeOK
<1>7. QueueInv' /\ Popped' = Popped
  BY QueueFrame DEF EndRecord, IInv
<1>8. LoggerInv'
  BY <1>0, <1>1, <1>3, <1>4, <1>7 DEF EndRecord, LoggerInv, IInv
<1>9. LogInv'
  <2>1. ASSUME NEW i \in 1..Len(log')
        PROVE  IsRecord(hist, log'[i], Enacted' + i)
    <3>1. CASE i \in 1..Len(log)
      BY <1>2, <1>4, <3>1 DEF IInv, LogInv
    <3>2. CASE i = Len(log) + 1
      <4>1. Enacted' + i = Popped
        BY <1>0, <1>3, <1>4, <3>2
      <4> QED BY <1>2, <1>3, <3>2, <4>1
    <3> QED BY <1>0, <1>2, <3>1, <3>2
  <2>2. hist' = hist /\ Len(log') <= Logged'
    BY <1>0, <1>2, <1>4 DEF EndRecord
  <2> QED BY <2>1, <2>2 DEF LogInv
<1>10. LogOverlayInv'
  <2> SUFFICES ASSUME NEW k \in Keys
               PROVE  IF overlays'[k] = None
                      THEN \A j \in Enacted..Logged + 1 : hist[j][k] = hist[Logged + 1][k]
                      ELSE /\ overlays'[k].id \in Enacted + 1..Logged + 1
                           /\ log'[overlays'[k].id - Enacted].writes[k] # None
                           /\ \A j \in overlays'[k].id..Logged + 1 :
                                hist[j][k] = overlays'[k].cell
    BY <1>4 DEF EndRecord, LogOverlayInv
  <2>1. overlays'[k] = IF logger.record.writes[k] = None THEN overlays[k]
                       ELSE [id |-> Logged + 1, cell |-> logger.record.writes[k]]
    BY <1>5 DEF EndRecord
  <2>2. CASE logger.record.writes[k] = None /\ overlays[k] = None
    <3>1. \A j \in Enacted..Logged : hist[j][k] = hist[Logged][k]
      BY <2>2 DEF IInv, LogOverlayInv
    <3>2. hist[Logged + 1][k] = hist[Logged][k]
      BY <1>5, <2>2
    <3>3. \A j \in Enacted..Logged + 1 : j \in Enacted..Logged \/ j = Logged + 1
      BY <1>0
    <3>4. \A j \in Enacted..Logged + 1 : hist[j][k] = hist[Logged + 1][k]
      BY <3>1, <3>2, <3>3
    <3> QED BY <2>1, <2>2, <3>4
  <2>3. CASE logger.record.writes[k] = None /\ overlays[k] # None
    <3>1. PICK id \in Nat : id = overlays[k].id
      BY <2>3 DEF IInv, TypeOK, LogEntry
    <3>2. /\ id \in Enacted + 1..Logged
          /\ log[id - Enacted].writes[k] # None
          /\ \A j \in id..Logged : hist[j][k] = overlays[k].cell
      BY <2>3, <3>1 DEF IInv, LogOverlayInv
    <3>3. hist[Logged + 1][k] = hist[Logged][k]
      BY <1>5, <2>3
    <3>4. id - Enacted \in 1..Len(log)
      BY <1>0, <3>2
    <3>5. log'[id - Enacted].writes[k] # None
      BY <1>2, <3>2, <3>4
    <3>6. Logged \in id..Logged
      BY <1>0, <3>2
    <3>7. \A j \in id..Logged + 1 : hist[j][k] = overlays[k].cell
      <4>1. \A j \in id..Logged + 1 : j \in id..Logged \/ j = Logged + 1
        BY <1>0
      <4> QED BY <3>2, <3>3, <3>6, <4>1
    <3>8. overlays'[k] = overlays[k] /\ id \in Enacted + 1..Logged + 1
      BY <1>0, <2>1, <2>3, <3>2
    <3> QED BY <2>3, <3>1, <3>5, <3>7, <3>8
  <2>4. CASE logger.record.writes[k] # None
    <3>1. overlays'[k] = [id |-> Logged + 1, cell |-> logger.record.writes[k]]
      BY <2>1, <2>4
    <3>2. overlays'[k] # None
      BY <1>6, <2>4, <3>1, EntriesAssumption, <1>1, <1>0 DEF LogEntry, Records
    <3>3. Logged + 1 - Enacted = Len(log) + 1
      BY <1>0
    <3>4. log'[Logged + 1 - Enacted].writes[k] # None
      BY <1>2, <2>4, <3>3
    <3>5. \A j \in Logged + 1..Logged + 1 : hist[j][k] = logger.record.writes[k]
      BY <1>0, <1>5, <2>4
    <3>6. Logged + 1 \in Enacted + 1..Logged + 1
      BY <1>0
    <3>7. overlays'[k].id = Logged + 1 /\ overlays'[k].cell = logger.record.writes[k]
      BY <3>1
    <3>8. overlays'[k].id - Enacted = Logged + 1 - Enacted
      BY <1>0, <3>7
    <3> QED BY <3>2, <3>4, <3>5, <3>6, <3>7, <3>8
  <2> QED BY <2>2, <2>3, <2>4
<1>11. TableInv'
  <2>1. log' # <<>>
    BY <1>0, <1>2
  <2> QED BY <1>4, <2>1 DEF EndRecord, TableInv, IInv
<1>12. CommitOverlayInv'
  <2>1. \A k \in Keys : \A id : IsPending(k, id) => IsPending(k, id)'
    BY <1>1, <1>7 DEF EndRecord, IsPending
  <2>2. \A k \in Keys : Settled(hist, k, Logged, commit_id)
                          => Settled(hist, k, Logged + 1, commit_id)
    BY <1>0, SettledSuffix
  <2> QED BY <1>4, <2>1, <2>2 DEF EndRecord, CommitOverlayInv, IInv
<1>13. ReaderInv'
  BY <1>4, ReaderFrame DEF EndRecord
<1> QED BY <1>6, <1>7, <1>8, <1>9, <1>10, <1>11, <1>12, <1>13 DEF IInv

\* A commit leaves the commit overlay when the log overlays show it.
LEMMA CleanCommitOverlayStep ==
  ASSUME IInv, CleanCommitOverlay
  PROVE  IInv'
<1>0. /\ Logged \in Nat /\ Popped \in Nat /\ commit_id \in Nat
      /\ Logged <= Popped /\ Popped <= commit_id
  BY StageOrder DEF IInv, TypeOK
<1>1. /\ logger.pc = "clean" /\ logger'.pc = "idle"
      /\ logger' = [pc |-> "idle", commit |-> NoCommit, record |-> NoRecord]
  BY DEF CleanCommitOverlay
<1>2. Logged' = Logged
  BY <1>1 DEF CleanCommitOverlay, Logged
<1>3. Popped = Logged /\ logger.commit.id = Popped + 1
  BY <1>0, <1>1 DEF IInv, LoggerInv, IsCommit
<1>4. TypeOK'
  <2>1. NoRecord \in Records
    BY DEF NoRecord, Records
  <2>2. NoCommit \in Commits
    BY KindsAssumption DEF NoCommit, Commits, Changeset, Option
  <2>3. logger' \in [pc : {"idle", "plan", "write", "clean"},
                    commit : Commits, record : Records]
    BY <1>1, <2>1, <2>2
  <2>4. commit_overlay' \in [Keys -> CommitEntry \cup {None}]
    BY DEF CleanCommitOverlay, IInv, TypeOK
  <2> QED BY <2>3, <2>4 DEF CleanCommitOverlay, IInv, TypeOK
<1>5. QueueInv' /\ Popped' = Popped
  BY QueueFrame DEF CleanCommitOverlay, IInv
<1>6. LoggerInv'
  BY <1>0, <1>1, <1>2, <1>3, <1>5 DEF LoggerInv
<1>7. LogInv' /\ LogOverlayInv' /\ TableInv' /\ Enacted' = Enacted
  BY <1>2, LogFrame DEF CleanCommitOverlay
<1>8. CommitOverlayInv'
  <2>1. UNCHANGED <<hist, commit_id, commits>>
    BY DEF CleanCommitOverlay
  <2> SUFFICES ASSUME NEW k \in Keys
               PROVE  IF commit_overlay'[k] = None THEN Settled(hist, k, Logged, commit_id)
                      ELSE /\ IsPending(k, commit_overlay[k].id)'
                           /\ Settled(hist, k, commit_overlay'[k].id - 1, commit_id)
                           /\ IF k \in RefCounted THEN commit_overlay'[k].value = Image[k]
                              ELSE commit_overlay'[k].value = hist[commit_id][k].value
    BY <1>2, <2>1 DEF CommitOverlayInv
  <2>2. CASE commit_overlay[k] = None
    BY <2>2 DEF CleanCommitOverlay, CommitOverlayInv, IInv
  <2>3. CASE commit_overlay[k] # None
    <3>1. /\ commit_overlay[k].id \in Nat
          /\ IsPending(k, commit_overlay[k].id)
          /\ Settled(hist, k, commit_overlay[k].id - 1, commit_id)
          /\ k \in RefCounted => commit_overlay[k].value = Image[k]
          /\ k \notin RefCounted => commit_overlay[k].value = hist[commit_id][k].value
      BY <2>3 DEF IInv, TypeOK, CommitOverlayInv, CommitEntry
    <3>2. CASE commit_overlay[k].id <= Popped + 1
      <4>1. commit_overlay[k].id = Popped + 1 /\ logger.commit.changeset[k] # Keep
        BY <3>1, <3>2 DEF IsPending
      <4>2. commit_overlay'[k] = None
        BY <1>3, <2>3, <4>1 DEF CleanCommitOverlay
      <4>3. commit_overlay[k].id - 1 = Logged
        BY <1>0, <1>3, <4>1
      <4> QED BY <3>1, <4>2, <4>3
    <3>3. CASE commit_overlay[k].id > Popped + 1
      <4>1. commit_overlay'[k] = commit_overlay[k]
        <5>1. commit_overlay[k].id # logger.commit.id
          BY <1>0, <1>3, <3>1, <3>3
        <5> QED BY <5>1 DEF CleanCommitOverlay
      <4>2. IsPending(k, commit_overlay[k].id)'
        <5>1. ~(commit_overlay[k].id <= Popped + 1)
          BY <1>0, <3>1, <3>3
        <5> QED BY <1>5, <2>1, <3>1, <4>1, <5>1 DEF IsPending
      <4> QED BY <2>3, <3>1, <4>1, <4>2
    <3>4. commit_overlay[k].id <= Popped + 1 \/ commit_overlay[k].id > Popped + 1
      BY <1>0, <3>1
    <3> QED BY <3>2, <3>3, <3>4
  <2> QED BY <2>2, <2>3
<1>9. ReaderInv'
  BY DEF CleanCommitOverlay, OverlayUnlocked, ReaderInv, IInv
<1> QED BY <1>4, <1>5, <1>6, <1>7, <1>8, <1>9 DEF IInv

(***************************************************************************)
(* The commit worker.                                                      *)
(***************************************************************************)
\* The oldest record leads from the enacted commits to one more.
LEMMA HeadRecord ==
  ASSUME IInv, log # <<>>
  PROVE  /\ Enacted \in Nat /\ Logged \in Nat /\ Enacted + 1 <= Logged
         /\ Len(log) > 0 /\ Head(log) = log[1] /\ log[1] \in Records
         /\ log[1].id = Enacted + 1
         /\ \A k \in Keys : IF log[1].writes[k] = None
                            THEN hist[Enacted + 1][k] = hist[Enacted][k]
                            ELSE hist[Enacted + 1][k] = log[1].writes[k]
<1>1. log \in Seq(Records)
  BY DEF IInv, TypeOK
<1>2. Len(log) > 0 /\ Head(log) = log[1] /\ log[1] \in Records
  BY <1>1
<1>3. Enacted \in Nat /\ Logged \in Nat /\ Enacted + 1 <= Logged
  BY <1>2, StageOrder
<1>4. PICK n \in Int : n = Enacted + 1
  BY <1>3
<1>5. IsRecord(hist, log[1], n)
  BY <1>2, <1>4, StageOrder DEF IInv, LogInv
<1>6. n - 1 = Enacted
  BY <1>3, <1>4
<1>7. /\ log[1].id = n
      /\ \A k \in Keys : IF log[1].writes[k] = None
                         THEN hist[n][k] = hist[n - 1][k]
                         ELSE hist[n][k] = log[1].writes[k]
  BY <1>5 DEF IsRecord
<1> QED BY <1>2, <1>3, <1>4, <1>6, <1>7

\* Neither the queue nor the overlays notice that a cell is written.
LEMMA EnactCellStep ==
  ASSUME IInv, NEW k \in Keys, EnactCell(k)
  PROVE  IInv'
<1>1. /\ log # <<>> /\ Head(log).writes[k] # None
      /\ table' = [table EXCEPT ![k] = Head(log).writes[k]]
      /\ written' = written \cup {k}
      /\ table \in State /\ written \in SUBSET Keys
  BY DEF EnactCell, IInv, TypeOK
<1>2. Logged' = Logged /\ Enacted' = Enacted /\ Popped' = Popped
  BY DEF EnactCell, Logged, Enacted, Popped
<1>3. Head(log).writes[k] = hist[Enacted + 1][k]
  BY <1>1, HeadRecord
<1>4. Head(log).writes[k] \in CellOf(k) /\ Head(log).writes[k] \in Cell
  <2>1. Enacted + 1 \in 0..commit_id
    BY <1>1, HeadRecord, StageOrder
  <2> QED BY <1>3, <2>1, HistType
<1>5. TypeOK'
  <2>1. table' \in State
    BY <1>1, <1>4 DEF State
  <2> QED BY <1>1, <2>1 DEF EnactCell, IInv, TypeOK
<1>6. QueueInv'
  BY QueueFrame DEF EnactCell, IInv
<1>7. LoggerInv'
  BY <1>2 DEF EnactCell, LoggerInv, IInv
<1>8. LogInv'
  BY <1>2 DEF EnactCell, LogInv, IInv
<1>9. LogOverlayInv'
  BY <1>2 DEF EnactCell, LogOverlayInv, IInv
<1>10. TableInv'
  <2>1. table \in [Keys -> Cell] /\ hist' = hist /\ log' = log
    BY <1>1 DEF State, EnactCell
  <2> QED BY <1>1, <1>2, <1>3, <2>1 DEF TableInv, IInv
<1>11. CommitOverlayInv'
  <2>1. \A x \in Keys : \A id : IsPending(x, id) => IsPending(x, id)'
    BY <1>2 DEF EnactCell, IsPending
  <2> QED BY <1>2, <2>1 DEF EnactCell, CommitOverlayInv, IInv
<1>12. ReaderInv'
  BY <1>2, ReaderFrame DEF EnactCell
<1> QED BY <1>5, <1>6, <1>7, <1>8, <1>9, <1>10, <1>11, <1>12 DEF IInv

\* end_read uncovers a cell only when the tables hold it.
LEMMA EndReadStep ==
  ASSUME IInv, EndRead
  PROVE  IInv'
<1>0. /\ Enacted \in Nat /\ Logged \in Nat /\ Popped \in Nat /\ commit_id \in Nat
      /\ Enacted <= Logged /\ Logged <= Popped /\ Popped <= commit_id
      /\ Enacted = Logged - Len(log) /\ Len(log) \in Nat
  BY StageOrder DEF IInv, TypeOK
<1>1. /\ log # <<>> /\ log \in Seq(Records) /\ log' = Tail(log)
      /\ written' = {}
      /\ \A k \in Keys : Head(log).writes[k] # None => k \in written
  BY DEF EndRead, IInv, TypeOK
<1>2. /\ Enacted + 1 <= Logged
      /\ Len(log) > 0 /\ Head(log) = log[1]
      /\ log[1].id = Enacted + 1
      /\ \A k \in Keys : IF log[1].writes[k] = None
                         THEN hist[Enacted + 1][k] = hist[Enacted][k]
                         ELSE hist[Enacted + 1][k] = log[1].writes[k]
  BY <1>1, HeadRecord
<1>3. /\ log' \in Seq(Records) /\ Len(log') = Len(log) - 1
      /\ \A i \in 1..Len(log') : log'[i] = log[i + 1]
  BY <1>1
<1>4. Logged' = Logged /\ Enacted' = Enacted + 1
  <2>1. Logged' = Logged
    BY DEF EndRead, Logged
  <2> QED BY <1>0, <1>3, <2>1 DEF Enacted
<1>5. TypeOK'
  <2>1. overlays' \in [Keys -> LogEntry \cup {None}]
    BY DEF EndRead, IInv, TypeOK
  <2> QED BY <1>1, <1>3, <2>1 DEF EndRead, IInv, TypeOK
<1>6. QueueInv' /\ Popped' = Popped
  BY QueueFrame DEF EndRead, IInv
<1>7. LoggerInv'
  BY <1>4, <1>6 DEF EndRead, LoggerInv, IInv
<1>8. LogInv'
  <2>1. ASSUME NEW i \in 1..Len(log')
        PROVE  IsRecord(hist, log'[i], Enacted' + i)
    <3>1. i + 1 \in 1..Len(log)
      BY <1>0, <1>3
    <3>2. IsRecord(hist, log[i + 1], Enacted + (i + 1))
      BY <3>1 DEF IInv, LogInv
    <3>3. log'[i] = log[i + 1] /\ Enacted' + i = Enacted + (i + 1)
      BY <1>0, <1>3, <1>4
    <3> QED BY <3>2, <3>3
  <2>2. hist' = hist /\ Len(log') <= Logged'
    BY <1>0, <1>3, <1>4 DEF EndRead
  <2> QED BY <2>1, <2>2 DEF LogInv
<1>9. LogOverlayInv'
  <2> SUFFICES ASSUME NEW k \in Keys
               PROVE  IF overlays'[k] = None
                      THEN \A j \in Enacted'..Logged : hist[j][k] = hist[Logged][k]
                      ELSE /\ overlays'[k].id \in Enacted' + 1..Logged
                           /\ log'[overlays'[k].id - Enacted'].writes[k] # None
                           /\ \A j \in overlays'[k].id..Logged :
                                hist[j][k] = overlays'[k].cell
    BY <1>4 DEF EndRead, LogOverlayInv
  <2>1. overlays'[k] = IF /\ log[1].writes[k] # None
                          /\ overlays[k] # None
                          /\ overlays[k].id = log[1].id
                       THEN None ELSE overlays[k]
    BY <1>2 DEF EndRead
  <2>2. CASE overlays[k] = None
    <3>1. \A j \in Enacted..Logged : hist[j][k] = hist[Logged][k]
      BY <2>2 DEF IInv, LogOverlayInv
    <3>2. \A j \in Enacted'..Logged : j \in Enacted..Logged
      BY <1>0, <1>4
    <3> QED BY <2>1, <2>2, <3>1, <3>2
  <2>3. CASE overlays[k] # None
    <3>1. PICK id \in Nat : id = overlays[k].id
      BY <2>3 DEF IInv, TypeOK, LogEntry
    <3>2. /\ id \in Enacted + 1..Logged
          /\ log[id - Enacted].writes[k] # None
          /\ \A j \in id..Logged : hist[j][k] = overlays[k].cell
      BY <2>3, <3>1 DEF IInv, LogOverlayInv
    <3>3. CASE id = Enacted + 1
      <4>1. id - Enacted = 1
        BY <1>0, <3>3
      <4>2. overlays'[k] = None
        BY <1>2, <2>1, <2>3, <3>1, <3>2, <3>3, <4>1
      <4>3. Logged \in id..Logged
        BY <1>0, <3>2
      <4>4. \A j \in Enacted'..Logged : hist[j][k] = hist[Logged][k]
        BY <1>4, <3>2, <3>3, <4>3
      <4> QED BY <4>2, <4>4
    <3>4. CASE id # Enacted + 1
      <4>1. overlays'[k] = overlays[k]
        BY <1>2, <2>1, <3>1, <3>4
      <4>0. Enacted + 2 <= id /\ id <= Logged
        <5>1. Enacted + 1 <= id /\ id <= Logged
          BY <1>0, <3>2
        <5> QED BY <1>0, <3>4, <5>1
      <4>2. id - Enacted' \in 1..Len(log') /\ id - Enacted' + 1 = id - Enacted
        <5>1. id - (Enacted + 1) \in 1..Len(log) - 1
              /\ id - (Enacted + 1) + 1 = id - Enacted
          BY <1>0, <4>0
        <5>2. Enacted' = Enacted + 1 /\ Len(log') = Len(log) - 1
          BY <1>3, <1>4
        <5> QED BY <5>1, <5>2
      <4>3. log'[id - Enacted'] = log[id - Enacted]
        BY <1>3, <4>2
      <4>4. id \in Enacted' + 1..Logged
        BY <1>0, <1>4, <4>0
      <4>5. overlays'[k] # None /\ overlays'[k].id = id /\ overlays'[k].cell = overlays[k].cell
        BY <2>3, <3>1, <4>1
      <4>6. log'[id - Enacted'].writes[k] # None
        BY <3>2, <4>3
      <4> QED BY <3>2, <4>4, <4>5, <4>6
    <3> QED BY <3>3, <3>4
  <2> QED BY <2>2, <2>3
<1>10. TableInv'
  <2>1. \A k \in Keys : table[k] = hist[Enacted + 1][k]
    BY <1>1, <1>2 DEF IInv, TableInv
  <2> QED BY <1>1, <1>4, <2>1 DEF EndRead, TableInv
<1>11. CommitOverlayInv'
  <2>1. \A k \in Keys : \A id : IsPending(k, id) => IsPending(k, id)'
    BY <1>6 DEF EndRead, IsPending
  <2> QED BY <1>4, <2>1 DEF EndRead, CommitOverlayInv, IInv
<1>12. ReaderInv'
  <2>1. \A k \in Keys : Settled(hist, k, Enacted, commit_id)
                          => Settled(hist, k, Enacted + 1, commit_id)
    BY <1>0, SettledSuffix
  <2> QED BY <1>4, <2>1 DEF EndRead, ReaderInv, IInv
<1> QED BY <1>5, <1>6, <1>7, <1>8, <1>9, <1>10, <1>11, <1>12 DEF IInv
===========================================================================
