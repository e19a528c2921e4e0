--------------------------- MODULE CommitPipeline ---------------------------
(***************************************************************************)
(* The path of a commit through the memory of an open database.            *)
(*                                                                         *)
(*   commit_raw       queues the changeset and shows it in commit_overlay; *)
(*   process_commits  (log worker) turns the oldest changeset into a log   *)
(*                    record, shows the record in the log overlays, and    *)
(*                    only then takes the changeset out of commit_overlay; *)
(*   enact_logs       (commit worker) writes the oldest record to the      *)
(*                    tables, cell by cell, and then takes it out of the   *)
(*                    log overlays;                                        *)
(*   get              looks in commit_overlay, in the log overlays and in  *)
(*                    the tables, in this order, in three steps.           *)
(*                                                                         *)
(* Every step is one critical section of the code.  Where the records are  *)
(* on disk, and what a crash does to them, is the subject of WriteAheadLog;*)
(* here `log` is the sequence of records that are written and not enacted. *)
(* An index chunk and a value slot are one cell.  hist is a ghost: hist[n] *)
(* is the map that the first n accepted commits produce.                   *)
(***************************************************************************)
EXTENDS Cells, Sequences

CONSTANTS
  Readers,     (* threads that call get                                    *)
  MaxCommits   (* bound on the number of accepted commits                  *)

ASSUME MaxCommitsAssumption == MaxCommits \in Nat

CommitEntry == [id : Nat, value : Option]

LogEntry == [id : Nat, cell : Cell]

\* An empty place in an overlay is told from an entry.
ASSUME EntriesAssumption == None \notin CommitEntry /\ None \notin LogEntry

VARIABLES
  commits,         (* CommitQueue.commits                                  *)
  commit_id,       (* CommitQueue.record_id                                *)
  commit_overlay,  (* DbInner.commit_overlay                               *)
  overlays,        (* Log.overlays                                         *)
  log,             (* records written to the log and not yet enacted       *)
  next_record_id,  (* Log.next_record_id                                   *)
  table,           (* the tables                                           *)
  logger,          (* where the log worker is in process_commits           *)
  written,         (* the cells of Head(log) that enact_logs has written   *)
  reader,          (* where each reader is in get                          *)
  hist             (* ghost: the maps produced by the accepted commits     *)

vars == <<commits, commit_id, commit_overlay, overlays, log, next_record_id,
          table, logger, written, reader, hist>>

----------------------------------------------------------------------------
Commits == [id : Nat, changeset : Changeset]

\* The log keeps no entry for a cell that the record does not write.
Records == [id : Nat, writes : [Keys -> Cell \cup {None}]]

NoCommit == [id |-> 0, changeset |-> [k \in Keys |-> Keep]]

NoRecord == [id |-> 0, writes |-> [k \in Keys |-> None]]

\* Column::get and LogWriter look in the log overlays before the tables.
View(k) == IF overlays[k] = None THEN table[k] ELSE overlays[k].cell

\* Column::write_plan leaves no log entry when it returns PlanOutcome::Skipped:
\* an insertion of a preimage key that exists, or a removal of a missing key.
Skipped(k, cell, op) ==
  IF op = None THEN cell = Absent
  ELSE cell # Absent /\ k \in Preimage /\ k \notin RefCounted

PlannedWrites(changeset) ==
  [k \in Keys |->
     IF changeset[k] = Keep \/ Skipped(k, View(k), changeset[k]) THEN None
     ELSE WriteCell(k, View(k), changeset[k])]

\* Mutant: get releases commit_overlay before it looks in the column.
OverlayReleased == TRUE

\* get keeps commit_overlay read-locked until it returns.
OverlayUnlocked == \A r \in Readers : reader[r].pc \notin {"log", "table"}

Init ==
  /\ commits = <<>>
  /\ commit_id = 0
  /\ commit_overlay = [k \in Keys |-> None]
  /\ overlays = [k \in Keys |-> None]
  /\ log = <<>>
  /\ next_record_id = 1
  /\ table \in State
  /\ logger = [pc |-> "idle", commit |-> NoCommit, record |-> NoRecord]
  /\ written = {}
  /\ reader = [r \in Readers |-> [pc |-> "idle", key |-> None, value |-> None]]
  /\ hist = [n \in 0..0 |-> table]

(***************************************************************************)
(* The committer.                                                          *)
(***************************************************************************)
\* Mutant: no change of a reference counted value is put in the overlay.
CountedHidden(k, op) == op # Keep /\ k \notin RefCounted

\* The removal of a reference counted value is not put in the overlay.
ShownInOverlay(k, op) == op # Keep /\ (k \notin RefCounted \/ op # None)

CommitRaw(changeset) ==
  /\ commit_id < MaxCommits
  /\ OverlayUnlocked
  /\ commit_id' = commit_id + 1
  /\ commit_overlay' =
       [k \in Keys |-> IF ShownInOverlay(k, changeset[k])
                       THEN [id |-> commit_id + 2, value |-> changeset[k]]
                       ELSE commit_overlay[k]]
  /\ commits' = Append(commits, [id |-> commit_id + 2, changeset |-> changeset])
  /\ hist' = [n \in 0..commit_id + 1 |->
                IF n = commit_id + 1 THEN Apply(hist[commit_id], changeset)
                ELSE hist[n]]
  /\ UNCHANGED <<overlays, log, next_record_id, table, logger, written, reader>>

(***************************************************************************)
(* The log worker: process_commits.                                        *)
(***************************************************************************)
PopCommit ==
  /\ logger.pc = "idle"
  /\ commits # <<>>
  /\ commits' = Tail(commits)
  /\ logger' = [pc |-> "plan", commit |-> Head(commits), record |-> NoRecord]
  /\ UNCHANGED <<commit_id, commit_overlay, overlays, log, next_record_id,
                 table, written, reader, hist>>

\* begin_record, write_plan for every change, complete_plan.
PlanRecord ==
  /\ logger.pc = "plan"
  /\ next_record_id' = next_record_id + 1
  /\ logger' = [pc |-> "write", commit |-> logger.commit,
                record |-> [id |-> next_record_id,
                            writes |-> PlannedWrites(logger.commit.changeset)]]
  /\ UNCHANGED <<commits, commit_id, commit_overlay, overlays, log, table,
                 written, reader, hist>>

\* Mutant: the record is not shown in the log overlays.
EndRecordHidden ==
  /\ logger.pc = "write"
  /\ log' = Append(log, logger.record)
  /\ logger' = [pc |-> "clean", commit |-> logger.commit, record |-> NoRecord]
  /\ UNCHANGED <<commits, commit_id, commit_overlay, overlays, next_record_id, table,
                 written, reader, hist>>

EndRecord ==
  /\ logger.pc = "write"
  /\ log' = Append(log, logger.record)
  /\ overlays' = [k \in Keys |->
                    IF logger.record.writes[k] = None THEN overlays[k]
                    ELSE [id |-> logger.record.id, cell |-> logger.record.writes[k]]]
  /\ logger' = [pc |-> "clean", commit |-> logger.commit, record |-> NoRecord]
  /\ UNCHANGED <<commits, commit_id, commit_overlay, next_record_id, table,
                 written, reader, hist>>

\* Mutant: the entry of a later commit is removed too.
CleanAnyCommit ==
  /\ logger.pc = "clean" /\ OverlayUnlocked
  /\ commit_overlay' = [k \in Keys |-> IF logger.commit.changeset[k] # Keep THEN None
                                        ELSE commit_overlay[k]]
  /\ logger' = [pc |-> "idle", commit |-> NoCommit, record |-> NoRecord]
  /\ UNCHANGED <<commits, commit_id, overlays, log, next_record_id, table,
                 written, reader, hist>>

\* Mutant: the entry is compared with the record id in place of the commit id.
CleanByRecordId ==
  /\ logger.pc = "clean" /\ OverlayUnlocked
  /\ commit_overlay' =
       [k \in Keys |->
          IF commit_overlay[k] # None /\ commit_overlay[k].id = next_record_id - 1
          THEN None ELSE commit_overlay[k]]
  /\ logger' = [pc |-> "idle", commit |-> NoCommit, record |-> NoRecord]
  /\ UNCHANGED <<commits, commit_id, overlays, log, next_record_id, table,
                 written, reader, hist>>

\* An entry that a later commit has replaced stays.
CleanCommitOverlay ==
  /\ logger.pc = "clean"
  /\ OverlayUnlocked
  /\ commit_overlay' =
       [k \in Keys |->
          IF /\ logger.commit.changeset[k] # Keep
             /\ commit_overlay[k] # None
             /\ commit_overlay[k].id = logger.commit.id
          THEN None ELSE commit_overlay[k]]
  /\ logger' = [pc |-> "idle", commit |-> NoCommit, record |-> NoRecord]
  /\ UNCHANGED <<commits, commit_id, overlays, log, next_record_id, table,
                 written, reader, hist>>

(***************************************************************************)
(* The commit worker: enact_logs.                                          *)
(***************************************************************************)
\* Mutant: cells that the record does not hold are written as well.
EnactAnyCell(k) ==
  /\ log # <<>> /\ k \notin written
  /\ table' = [table EXCEPT ![k] = Head(log).writes[k]]
  /\ written' = written \cup {k}
  /\ UNCHANGED <<commits, commit_id, commit_overlay, overlays, log,
                 next_record_id, logger, reader, hist>>

EnactCell(k) ==
  /\ log # <<>>
  /\ Head(log).writes[k] # None
  /\ k \notin written
  /\ table' = [table EXCEPT ![k] = Head(log).writes[k]]
  /\ written' = written \cup {k}
  /\ UNCHANGED <<commits, commit_id, commit_overlay, overlays, log,
                 next_record_id, logger, reader, hist>>

\* Mutant: the entry of a later record is removed too.
EndReadAnyRecord ==
  /\ log # <<>>
  /\ \A k \in Keys : Head(log).writes[k] # None => k \in written
  /\ overlays' = [k \in Keys |-> IF Head(log).writes[k] # None THEN None ELSE overlays[k]]
  /\ log' = Tail(log)
  /\ written' = {}
  /\ UNCHANGED <<commits, commit_id, commit_overlay, next_record_id, table,
                 logger, reader, hist>>

\* An entry that a later record has replaced stays.
EndRead ==
  /\ log # <<>>
  /\ \A k \in Keys : Head(log).writes[k] # None => k \in written
  /\ overlays' =
       [k \in Keys |->
          IF /\ Head(log).writes[k] # None
             /\ overlays[k] # None
             /\ overlays[k].id = Head(log).id
          THEN None ELSE overlays[k]]
  /\ log' = Tail(log)
  /\ written' = {}
  /\ UNCHANGED <<commits, commit_id, commit_overlay, next_record_id, table,
                 logger, reader, hist>>

(***************************************************************************)
(* The readers: DbInner::get.                                              *)
(***************************************************************************)
Goto(r, pc, k, v) ==
  reader' = [reader EXCEPT ![r] = [pc |-> pc, key |-> k, value |-> v]]

GetCommitOverlay(r, k) ==
  /\ reader[r].pc = "idle"
  /\ IF commit_overlay[k] = None THEN Goto(r, "log", k, None)
     ELSE Goto(r, "done", k, commit_overlay[k].value)
  /\ UNCHANGED <<commits, commit_id, commit_overlay, overlays, log,
                 next_record_id, table, logger, written, hist>>

GetLogOverlay(r) ==
  /\ reader[r].pc = "log"
  /\ LET k == reader[r].key IN
     IF overlays[k] = None THEN Goto(r, "table", k, None)
     ELSE Goto(r, "done", k, overlays[k].cell.value)
  /\ UNCHANGED <<commits, commit_id, commit_overlay, overlays, log,
                 next_record_id, table, logger, written, hist>>

GetTable(r) ==
  /\ reader[r].pc = "table"
  /\ Goto(r, "done", reader[r].key, table[reader[r].key].value)
  /\ UNCHANGED <<commits, commit_id, commit_overlay, overlays, log,
                 next_record_id, table, logger, written, hist>>

GetReturn(r) ==
  /\ reader[r].pc = "done"
  /\ Goto(r, "idle", None, None)
  /\ UNCHANGED <<commits, commit_id, commit_overlay, overlays, log,
                 next_record_id, table, logger, written, hist>>

----------------------------------------------------------------------------
LogWorker == PopCommit \/ PlanRecord \/ EndRecord \/ CleanCommitOverlay

CommitWorker == EndRead \/ \E k \in Keys : EnactCell(k)

Reader(r) ==
  \/ \E k \in Keys : GetCommitOverlay(r, k)
  \/ GetLogOverlay(r)
  \/ GetTable(r)
  \/ GetReturn(r)

Next ==
  \/ \E c \in Changeset : CommitRaw(c)
  \/ LogWorker
  \/ CommitWorker
  \/ \E r \in Readers : Reader(r)

Spec == Init /\ [][Next]_vars

----------------------------------------------------------------------------
(***************************************************************************)
(* Correctness.                                                            *)
(***************************************************************************)
\* The number of commits whose record is in the log, and of those enacted.
Logged == next_record_id - 1 - (IF logger.pc = "write" THEN 1 ELSE 0)

Enacted == Logged - Len(log)

ReaderState ==
  [pc : {"idle", "log", "table", "done"}, key : Keys \cup {None}, value : Option]

TypeOK ==
  /\ commits \in Seq(Commits)
  /\ commit_id \in Nat
  /\ commit_overlay \in [Keys -> CommitEntry \cup {None}]
  /\ overlays \in [Keys -> LogEntry \cup {None}]
  /\ log \in Seq(Records)
  /\ next_record_id \in Nat \ {0}
  /\ table \in State
  /\ logger \in [pc : {"idle", "plan", "write", "clean"},
                 commit : Commits, record : Records]
  /\ written \in SUBSET Keys
  /\ reader \in [Readers -> ReaderState]
  /\ hist \in [0..commit_id -> State]

\* What Column::get and Column::write_plan read through the log overlays is
\* exactly the effect of the commits logged so far, whichever of their records
\* are enacted, half enacted or waiting: end_read never uncovers an old cell.
ViewIsLoggedState == \A k \in Keys : View(k) = hist[Logged][k]

\* Every answer of get is the value of the last accepted commit of the key, for
\* all columns without reference counts.  DbInner::get looks in three places in
\* three steps while both workers move cells from one place to the next.
ReadsAreCurrent ==
  [][\A r \in Readers :
       LET k == reader'[r].key IN
       (reader[r].pc # "done" /\ reader'[r].pc = "done" /\ k \notin RefCounted)
         => reader'[r].value = hist[commit_id][k].value]_vars

\* A reference counted value that accepted commits still refer to is always
\* found by get, although commit_raw keeps its removals out of the overlay.
ReferencedIsFound ==
  [][\A r \in Readers :
       LET k == reader'[r].key IN
       (reader[r].pc # "done" /\ reader'[r].pc = "done" /\ k \in RefCounted)
         => (hist[commit_id][k] # Absent => reader'[r].value = Image[k])]_vars

\* No overlay keeps an entry of a commit that has left the stage it stands for:
\* once nothing is queued the commit overlay is empty, and once nothing waits
\* to be enacted the log overlays are empty and the tables hold every commit.
OverlaysDrain ==
  /\ (commits = <<>> /\ logger.pc = "idle")
        => \A k \in Keys : commit_overlay[k] = None
  /\ log = <<>> => \A k \in Keys : overlays[k] = None
  /\ (commits = <<>> /\ logger.pc = "idle" /\ log = <<>>)
        => table = hist[commit_id]

\* The answers that readers hold.
Replies ==
  [r \in Readers |-> IF reader[r].pc = "done"
                     THEN [key |-> reader[r].key, value |-> reader[r].value]
                     ELSE [key |-> None, value |-> None]]

\* Seen from the callers the pipeline is a map with atomic commits and gets.
Store == INSTANCE AtomicStore WITH store <- hist[commit_id], reply <- Replies

\* The pipeline implements AtomicStore: no interleaving of commit_raw, get and
\* the two workers can be told from a map that commits change in one step.
ImplementsAtomicStore == Store!Spec

----------------------------------------------------------------------------
(***************************************************************************)
(* The inductive invariant behind the properties.  It says, for each       *)
(* place a commit can be in, which element of hist the place agrees with.  *)
(***************************************************************************)
\* The number of commits that have left the queue.
Popped == commit_id - Len(commits)

\* Commit c is the one that leads from h[n - 1] to h[n].
IsCommit(h, c, n) ==
  /\ c.id = n + 1
  /\ h[n] = Apply(h[n - 1], c.changeset)

\* Record rec holds the cells that differ between h[n - 1] and h[n].
IsRecord(h, rec, n) ==
  /\ rec.id = n
  /\ \A k \in Keys : IF rec.writes[k] = None THEN h[n][k] = h[n - 1][k]
                     ELSE h[n][k] = rec.writes[k]

QueueInv ==
  /\ Len(commits) <= commit_id
  /\ \A i \in 1..Len(commits) : IsCommit(hist, commits[i], Popped + i)

LoggerInv ==
  /\ Popped = Logged + (IF logger.pc \in {"plan", "write"} THEN 1 ELSE 0)
  /\ logger.pc # "idle" => IsCommit(hist, logger.commit, Popped)
  /\ logger.pc \in {"write", "clean"} => next_record_id > 1
  /\ logger.pc = "write" => IsRecord(hist, logger.record, Popped)

LogInv ==
  /\ Len(log) <= Logged
  /\ \A i \in 1..Len(log) : IsRecord(hist, log[i], Enacted + i)

\* An overlay entry is the newest logged cell; without one no record that waits
\* to be enacted changes the cell.
LogOverlayInv ==
  \A k \in Keys :
    IF overlays[k] = None
    THEN \A j \in Enacted..Logged : hist[j][k] = hist[Logged][k]
    ELSE /\ overlays[k].id \in Enacted + 1..Logged
         /\ log[overlays[k].id - Enacted].writes[k] # None
         /\ \A j \in overlays[k].id..Logged : hist[j][k] = overlays[k].cell

TableInv ==
  /\ written # {} => log # <<>>
  /\ \A k \in Keys :
       IF k \in written THEN table[k] = hist[Enacted + 1][k]
       ELSE table[k] = hist[Enacted][k]

\* From h[a] to h[b] the value of k stays, or references are only dropped, so
\* that no get needs the commit overlay for k.
Settled(h, k, a, b) ==
  \A i, j \in a..b :
    i <= j => IF k \in RefCounted THEN h[j][k].refs <= h[i][k].refs
              ELSE h[j][k].value = h[i][k].value

\* An overlay entry belongs to a commit that is queued or being logged.
IsPending(k, id) ==
  IF id <= Popped + 1
  THEN logger.pc # "idle" /\ id = Popped + 1 /\ logger.commit.changeset[k] # Keep
  ELSE /\ id - 1 - Popped <= Len(commits)
       /\ commits[id - 1 - Popped].changeset[k] # Keep

CommitOverlayInv ==
  \A k \in Keys :
    IF commit_overlay[k] = None THEN Settled(hist, k, Logged, commit_id)
    ELSE /\ IsPending(k, commit_overlay[k].id)
         /\ Settled(hist, k, commit_overlay[k].id - 1, commit_id)
         /\ IF k \in RefCounted THEN commit_overlay[k].value = Image[k]
            ELSE commit_overlay[k].value = hist[commit_id][k].value

ReaderInv ==
  \A r \in Readers :
    /\ reader[r].pc # "idle" => reader[r].key \in Keys
    /\ reader[r].pc \in {"log", "table"} => commit_overlay[reader[r].key] = None
    /\ reader[r].pc = "table" => Settled(hist, reader[r].key, Enacted, commit_id)

\* The places a commit passes through agree with the commits they stand for, at
\* every moment of commit_raw, process_commits, enact_logs and get.
IInv ==
  /\ TypeOK
  /\ QueueInv
  /\ LoggerInv
  /\ LogInv
  /\ LogOverlayInv
  /\ TableInv
  /\ CommitOverlayInv
  /\ ReaderInv
=============================================================================
