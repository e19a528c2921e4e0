------------------------------ MODULE Workers ------------------------------
(***************************************************************************)
(* The threads of an open database and the condition variables between     *)
(* them: the callers of commit_raw, the log, flush and commit workers, and *)
(* the thread that drops the handle.                                       *)
(*                                                                         *)
(* A commit and its log record are a number and a size; log files are      *)
(* sequences of sizes.  What the records contain is the subject of         *)
(* CommitPipeline, what the files contain that of WriteAheadLog.  The      *)
(* steps are cut at the mutexes: between two steps of a thread any other   *)
(* thread can run.  The condition variables are those of parking_lot,      *)
(* which do not wake up spuriously.  The cleanup worker waits for nobody   *)
(* and nobody waits for it; it is left out.                                *)
(***************************************************************************)
EXTENDS Integers, FiniteSets, SequencesExt

CONSTANTS
  Committers,              (* threads that call commit_raw                 *)
  None,
  Sizes,                   (* sizes of commits                             *)
  MAX_COMMIT_QUEUE_BYTES,
  MAX_LOG_QUEUE_BYTES,
  MIN_LOG_SIZE,
  IoErrors,                (* can a worker meet an I/O error?              *)
  Drops,                   (* is the handle dropped?                       *)
  MaxCommits               (* bound on the accepted commits                *)

ASSUME WorkersAssumption ==
  /\ Sizes \subseteq Nat \ {0}
  /\ {MAX_COMMIT_QUEUE_BYTES, MAX_LOG_QUEUE_BYTES, MIN_LOG_SIZE, MaxCommits} \subseteq Nat
  /\ {IoErrors, Drops} \subseteq BOOLEAN

VARIABLES
  commits,       (* CommitQueue.commits                                    *)
  accepted,      (* the number of commits accepted                         *)
  committer,     (* what each caller of commit_raw does                    *)
  log,           (* the log worker: pc, more_work and the commit it holds  *)
  flush,         (* the flush worker: pc, more_work, read_next             *)
  commit,        (* the commit worker: pc, more_work and record size       *)
  dropper,       (* the thread that drops the handle                       *)
  log_work, flush_work, commit_work,   (* the WaitCondvar<bool> flags      *)
  log_bytes,     (* log_queue_wait.work                                    *)
  appending, flushing, reading,   (* sizes of the records of the log files *)
  reading_state,
  shutdown, bg_err,
  logged         (* ghost: the commits in the log, in log order            *)

queueVars == <<commits, accepted, committer>>
fileVars == <<appending, flushing, reading, reading_state>>
flags == <<log_work, flush_work, commit_work>>
vars == <<queueVars, log, flush, commit, dropper, flags, log_bytes, fileVars,
          shutdown, bg_err, logged>>

----------------------------------------------------------------------------
Commits == [n : 1..MaxCommits, size : Sizes]

Total(sizes) == FoldLeft(+, 0, sizes)

QueueBytes(queue) == FoldLeft(LAMBDA total, c : total + c.size, 0, queue)

Init ==
  /\ commits = <<>> /\ accepted = 0
  /\ committer = [c \in Committers |-> [pc |-> "idle", size |-> 0]]
  /\ log = [pc |-> "top", more |-> FALSE, commit |-> None]
  /\ flush = [pc |-> "top", more |-> FALSE, read_next |-> FALSE]
  /\ commit = [pc |-> "top", more |-> FALSE, size |-> 0]
  /\ dropper = "open"
  /\ log_work = FALSE /\ flush_work = FALSE /\ commit_work = FALSE
  /\ log_bytes = 0
  /\ appending = <<>> /\ flushing = <<>> /\ reading = <<>> /\ reading_state = "Idle"
  /\ shutdown = FALSE /\ bg_err = FALSE
  /\ logged = <<>>

(***************************************************************************)
(* commit_raw.                                                             *)
(***************************************************************************)
\* Mutant: the id is taken before it is incremented and once more after it.
AcceptTwice(c, size) ==
  /\ committer' = [committer EXCEPT ![c] = [pc |-> "idle", size |-> 0]]
  /\ commits' = Append(commits, [n |-> accepted + 2, size |-> size])
  /\ accepted' = accepted + 1
  /\ log_work' = TRUE

\* The queue is pushed, and log_worker_wait signalled, under one lock.
Accept(c, size) ==
  /\ committer' = [committer EXCEPT ![c] = [pc |-> "idle", size |-> 0]]
  /\ IF bg_err
     THEN UNCHANGED <<commits, accepted, log_work>>
     ELSE /\ commits' = Append(commits, [n |-> accepted + 1, size |-> size])
          /\ accepted' = accepted + 1
          /\ log_work' = TRUE

\* The calls of commit_raw that are accepted or under way.
Called == accepted + Cardinality({c \in Committers : committer[c].pc # "idle"})

\* Mutant: the limit of the queue is not tested.
CommitUnlimited(c, size) ==
  /\ dropper = "open" /\ Called < MaxCommits
  /\ committer[c].pc = "idle"
  /\ Accept(c, size)
  /\ UNCHANGED <<log, flush, commit, dropper, flush_work, commit_work, log_bytes,
                 fileVars, shutdown, bg_err, logged>>

CommitRaw(c, size) ==
  /\ dropper = "open" /\ Called < MaxCommits
  /\ committer[c].pc = "idle"
  /\ IF QueueBytes(commits) > MAX_COMMIT_QUEUE_BYTES
     THEN /\ committer' = [committer EXCEPT ![c] = [pc |-> "waiting", size |-> size]]
          /\ UNCHANGED <<commits, accepted, log_work>>
     ELSE Accept(c, size)
  /\ UNCHANGED <<log, flush, commit, dropper, flush_work, commit_work, log_bytes,
                 fileVars, shutdown, bg_err, logged>>

\* A caller that was woken does not look at the queue again.
CommitWoken(c) ==
  /\ committer[c].pc = "woken"
  /\ Accept(c, committer[c].size)
  /\ UNCHANGED <<log, flush, commit, dropper, flush_work, commit_work, log_bytes,
                 fileVars, shutdown, bg_err, logged>>

\* commit_queue_full_cv.notify_one
NotifyCommitter ==
  LET waiting == {c \in Committers : committer[c].pc = "waiting"} IN
  IF waiting = {} THEN UNCHANGED committer
  ELSE \E c \in waiting : committer' = [committer EXCEPT ![c].pc = "woken"]

(***************************************************************************)
(* The log worker.                                                         *)
(***************************************************************************)
LogGoto(pc, more, c) == log' = [pc |-> pc, more |-> more, commit |-> c]

\* The mutex of log_queue_wait is held across the check of process_commits.
LogMutexFree == log.pc # "throttle"

LogTop ==
  /\ log.pc = "top"
  /\ IF shutdown /\ ~log.more THEN LogGoto("exit", FALSE, None)
     ELSE LogGoto(IF log.more THEN "check" ELSE "wait", log.more, None)
  /\ UNCHANGED <<queueVars, flush, commit, dropper, flags, log_bytes, fileVars,
                 shutdown, bg_err, logged>>

LogWait ==
  /\ log.pc = "wait" /\ log_work
  /\ log_work' = FALSE
  /\ LogGoto("check", FALSE, None)
  /\ UNCHANGED <<queueVars, flush, commit, dropper, flush_work, commit_work, log_bytes,
                 fileVars, shutdown, bg_err, logged>>

\* Wait if the log queue is too big: the check, then the wait.
LogCheck ==
  /\ log.pc = "check"
  /\ LogGoto(IF ~shutdown /\ log_bytes > MAX_LOG_QUEUE_BYTES THEN "throttle" ELSE "pop",
             log.more, None)
  /\ UNCHANGED <<queueVars, flush, commit, dropper, flags, log_bytes, fileVars,
                 shutdown, bg_err, logged>>

LogThrottle ==
  /\ log.pc = "throttle"
  /\ LogGoto("throttled", log.more, None)
  /\ UNCHANGED <<queueVars, flush, commit, dropper, flags, log_bytes, fileVars,
                 shutdown, bg_err, logged>>

\* Mutant: the threshold itself does not count as past it.
StrictlyPast(before, after, limit) == after < limit /\ before > limit

\* "Past the waiting threshold": a queue falls to its limit.
PastThreshold(before, after, limit) == after <= limit /\ before > limit

\* Mutant: the queue is popped at the wrong end.
PopBack ==
  /\ log.pc = "pop" /\ commits # <<>>
  /\ commits' = Front(commits)
  /\ LogGoto("write", TRUE, Last(commits))
  /\ UNCHANGED <<committer, accepted, flush, commit, dropper, flags, log_bytes, fileVars,
                 shutdown, bg_err, logged>>

\* A caller that waits is woken when the queue falls to its limit.
LogPop ==
  /\ log.pc = "pop"
  /\ IF commits = <<>>
     THEN /\ LogGoto("top", FALSE, None)
          /\ UNCHANGED <<commits, committer>>
     ELSE /\ commits' = Tail(commits)
          /\ LogGoto("write", TRUE, Head(commits))
          /\ IF PastThreshold(QueueBytes(commits), QueueBytes(commits'),
                              MAX_COMMIT_QUEUE_BYTES)
             THEN NotifyCommitter ELSE UNCHANGED committer
  /\ UNCHANGED <<accepted, flush, commit, dropper, flags, log_bytes, fileVars,
                 shutdown, bg_err, logged>>

\* write_plan, complete_plan and end_record.
LogWrite ==
  /\ log.pc = "write"
  /\ appending' = Append(appending, log.commit.size)
  /\ logged' = Append(logged, log.commit.n)
  /\ LogGoto("count", TRUE, log.commit)
  /\ UNCHANGED <<queueVars, flush, commit, dropper, flags, log_bytes, flushing, reading,
                 reading_state, shutdown, bg_err>>

\* The bytes are added after the record can be read, flushed and enacted.
LogCount ==
  /\ log.pc = "count"
  /\ log_bytes' = log_bytes + log.commit.size
  /\ flush_work' = TRUE
  /\ LogGoto("top", TRUE, None)
  /\ UNCHANGED <<queueVars, flush, commit, dropper, log_work, commit_work, fileVars,
                 shutdown, bg_err, logged>>

(***************************************************************************)
(* The flush worker.                                                       *)
(***************************************************************************)
FlushGoto(pc, more, read_next) ==
  flush' = [pc |-> pc, more |-> more, read_next |-> read_next]

FlushTop ==
  /\ flush.pc = "top"
  /\ IF shutdown THEN FlushGoto("exit", FALSE, FALSE)
     ELSE FlushGoto(IF flush.more THEN "one" ELSE "wait", flush.more, FALSE)
  /\ UNCHANGED <<queueVars, log, commit, dropper, flags, log_bytes, fileVars,
                 shutdown, bg_err, logged>>

FlushWait ==
  /\ flush.pc = "wait" /\ flush_work
  /\ flush_work' = FALSE
  /\ FlushGoto("one", FALSE, FALSE)
  /\ UNCHANGED <<queueVars, log, commit, dropper, log_work, commit_work, log_bytes,
                 fileVars, shutdown, bg_err, logged>>

\* flush_one: wait for the reader, give it the file that was flushed.
FlushRotate ==
  /\ flush.pc = "one"
  /\ IF flushing = <<>>
     THEN FlushGoto("take", flush.more, FALSE) /\ UNCHANGED fileVars
     ELSE IF reading_state = "Reading"
     THEN FlushGoto("blocked", flush.more, FALSE) /\ UNCHANGED fileVars
     ELSE /\ reading' = flushing /\ reading_state' = "Reading" /\ flushing' = <<>>
          /\ FlushGoto("take", flush.more, TRUE)
          /\ UNCHANGED appending
  /\ UNCHANGED <<queueVars, log, commit, dropper, flags, log_bytes, shutdown, bg_err,
                 logged>>

\* Mutant: the reader is woken when there is a file to flush, not one to read.
FlushTakeSignalsEarly ==
  /\ flush.pc = "take"
  /\ IF Total(appending) > MIN_LOG_SIZE
     THEN flushing' = appending /\ appending' = <<>>
     ELSE UNCHANGED <<flushing, appending>>
  /\ commit_work' = (commit_work \/ flushing' # <<>>)
  /\ FlushGoto("top", flushing' # <<>>, FALSE)
  /\ UNCHANGED <<queueVars, log, commit, dropper, log_work, flush_work, log_bytes,
                 reading, reading_state, shutdown, bg_err, logged>>

\* flush_one: take the file that was appended to; flush_logs: wake the reader.
FlushTake ==
  /\ flush.pc = "take"
  /\ IF appending # <<>> /\ Total(appending) > MIN_LOG_SIZE
     THEN flushing' = appending /\ appending' = <<>>
     ELSE UNCHANGED <<flushing, appending>>
  /\ commit_work' = (commit_work \/ flush.read_next)
  /\ FlushGoto("top", flushing' # <<>>, FALSE)
  /\ UNCHANGED <<queueVars, log, commit, dropper, log_work, flush_work, log_bytes,
                 reading, reading_state, shutdown, bg_err, logged>>

(***************************************************************************)
(* The commit worker.                                                      *)
(***************************************************************************)
CommitGoto(pc, more, size) == commit' = [pc |-> pc, more |-> more, size |-> size]

CommitTop ==
  /\ commit.pc = "top"
  /\ IF shutdown /\ ~commit.more THEN CommitGoto("exit", FALSE, 0)
     ELSE CommitGoto(IF commit.more THEN "enact" ELSE "wait", commit.more, 0)
  /\ UNCHANGED <<queueVars, log, flush, dropper, flags, log_bytes, fileVars,
                 shutdown, bg_err, logged>>

CommitWait ==
  /\ commit.pc = "wait" /\ commit_work
  /\ commit_work' = FALSE
  /\ CommitGoto("enact", FALSE, 0)
  /\ UNCHANGED <<queueVars, log, flush, dropper, log_work, flush_work, log_bytes,
                 fileVars, shutdown, bg_err, logged>>

\* enact_logs: one record, or the end of the log file.
Enact ==
  /\ commit.pc = "enact"
  /\ IF reading_state = "Reading" /\ reading # <<>>
     THEN /\ CommitGoto("subtract", TRUE, Head(reading))
          /\ reading' = Tail(reading)
          /\ UNCHANGED <<reading_state, flush>>
     ELSE /\ CommitGoto("top", FALSE, 0)
          /\ reading_state' = "Idle"
          /\ flush' = IF flush.pc = "blocked" THEN [flush EXCEPT !.pc = "one"] ELSE flush
          /\ UNCHANGED reading
  /\ UNCHANGED <<queueVars, log, dropper, flags, log_bytes, appending, flushing,
                 shutdown, bg_err, logged>>

\* Mutant: an underflow of the counter is avoided.
SubtractSaturating ==
  /\ commit.pc = "subtract" /\ LogMutexFree
  /\ log_bytes' = IF log_bytes < commit.size THEN 0 ELSE log_bytes - commit.size
  /\ log' = IF log.pc = "throttled" THEN [log EXCEPT !.pc = "pop"] ELSE log
  /\ CommitGoto("top", TRUE, 0)
  /\ UNCHANGED <<queueVars, flush, dropper, flags, fileVars, shutdown, bg_err, logged>>

\* The log worker is woken when the log queue falls to its limit.
Subtract ==
  /\ commit.pc = "subtract" /\ LogMutexFree
  /\ log_bytes' = log_bytes - commit.size
  /\ log' = IF /\ log.pc = "throttled"
               /\ PastThreshold(log_bytes, log_bytes', MAX_LOG_QUEUE_BYTES)
            THEN [log EXCEPT !.pc = "pop"] ELSE log
  /\ CommitGoto("top", TRUE, 0)
  /\ UNCHANGED <<queueVars, flush, dropper, flags, fileVars, shutdown, bg_err, logged>>

(***************************************************************************)
(* Errors and shutdown.                                                    *)
(***************************************************************************)
\* shutdown() takes no mutex: a log worker between its check and its wait is
\* not woken.
Shutdown ==
  /\ shutdown' = TRUE
  /\ log_work' = TRUE /\ flush_work' = TRUE /\ commit_work' = TRUE

Unthrottled == IF log.pc = "throttled" THEN [log EXCEPT !.pc = "pop"] ELSE log

\* A worker fails and leaves; store_err keeps the error and shuts down.
StoreErr ==
  /\ bg_err' = TRUE
  /\ IF bg_err THEN UNCHANGED <<shutdown, flags>> ELSE Shutdown
  /\ NotifyCommitter

\* write_plan fails; the commit has left the queue.
LogFails ==
  /\ IoErrors /\ log.pc = "write"
  /\ LogGoto("exit", FALSE, None)
  /\ StoreErr
  /\ UNCHANGED <<commits, accepted, flush, commit, dropper, log_bytes, fileVars, logged>>

\* sync_data fails; the file that was taken stays in `flushing`.
FlushFails ==
  /\ IoErrors /\ flush.pc = "take" /\ Total(appending) > MIN_LOG_SIZE
  /\ flushing' = appending /\ appending' = <<>>
  /\ FlushGoto("exit", FALSE, FALSE)
  /\ StoreErr
  /\ log' = IF bg_err THEN log ELSE Unthrottled
  /\ UNCHANGED <<commits, accepted, commit, dropper, log_bytes, reading, reading_state,
                 logged>>

\* enact_plan fails; the reader is left in the middle of a record.
CommitFails ==
  /\ IoErrors /\ commit.pc = "enact" /\ reading # <<>>
  /\ CommitGoto("failed", FALSE, 0)
  /\ StoreErr
  /\ log' = IF bg_err THEN log ELSE Unthrottled
  /\ UNCHANGED <<commits, accepted, flush, dropper, log_bytes, fileVars, logged>>

\* Db::drop.  No caller is inside commit_raw.
Drop ==
  /\ Drops /\ dropper = "open"
  /\ \A c \in Committers : committer[c].pc = "idle"
  /\ dropper' = "joining"
  /\ Shutdown
  /\ log' = Unthrottled
  /\ UNCHANGED <<queueVars, flush, commit, log_bytes, fileVars, bg_err, logged>>

\* The workers have been joined; kill_logs logs what is left in the queue, unless
\* its first enact_logs finds the reader in the middle of a record.
KillLogs ==
  /\ dropper = "joining"
  /\ log.pc = "exit" /\ flush.pc = "exit" /\ commit.pc \in {"exit", "failed"}
  /\ dropper' = "closed"
  /\ IF commit.pc = "failed" THEN UNCHANGED <<logged, commits>>
     ELSE /\ logged' = logged \o [i \in 1..Len(commits) |-> commits[i].n]
          /\ commits' = <<>>
  /\ UNCHANGED <<accepted, committer, log, flush, commit, flags, log_bytes, fileVars,
                 shutdown, bg_err>>

----------------------------------------------------------------------------
LogWorker ==
  LogTop \/ LogWait \/ LogCheck \/ LogThrottle \/ LogPop \/ LogWrite \/ LogCount

FlushWorker == FlushTop \/ FlushWait \/ FlushRotate \/ FlushTake

CommitWorker == CommitTop \/ CommitWait \/ Enact \/ Subtract

Next ==
  \/ \E c \in Committers : CommitWoken(c) \/ \E size \in Sizes : CommitRaw(c, size)
  \/ LogWorker \/ LogFails
  \/ FlushWorker \/ FlushFails
  \/ CommitWorker \/ CommitFails
  \/ Drop \/ KillLogs

Spec == Init /\ [][Next]_vars

\* Every thread that can run is scheduled; nobody has to call commit or drop,
\* and no error has to happen.
FairSpec ==
  /\ Spec
  /\ WF_vars(LogWorker) /\ WF_vars(FlushWorker) /\ WF_vars(CommitWorker)
  /\ \A c \in Committers : WF_vars(CommitWoken(c))
  /\ WF_vars(KillLogs)

----------------------------------------------------------------------------
(***************************************************************************)
(* Correctness.                                                            *)
(***************************************************************************)
TypeOK ==
  /\ commits \in Seq(Commits) /\ accepted \in 0..MaxCommits
  /\ committer \in [Committers -> [pc : {"idle", "waiting", "woken"}, size : Sizes \cup {0}]]
  /\ log \in [pc : {"top", "wait", "check", "throttle", "throttled", "pop", "write",
                    "count", "exit"}, more : BOOLEAN, commit : Commits \cup {None}]
  /\ flush \in [pc : {"top", "wait", "one", "blocked", "take", "exit"},
                more : BOOLEAN, read_next : BOOLEAN]
  /\ commit \in [pc : {"top", "wait", "enact", "subtract", "exit", "failed"}, more : BOOLEAN,
                 size : Sizes \cup {0}]
  /\ dropper \in {"open", "joining", "closed"}
  /\ {log_work, flush_work, commit_work, shutdown, bg_err} \subseteq BOOLEAN
  /\ log_bytes \in Int
  /\ {appending, flushing, reading} \subseteq Seq(Sizes)
  /\ reading_state \in {"Reading", "Idle"}
  /\ logged \in Seq(1..MaxCommits)

\* "This may underflow occasionally, but is bound for 0 eventually": the counter
\* behind the throttle of process_commits differs from the bytes of the records
\* that are logged and not enacted only by the record that one of the two
\* workers has in hand, although each updates it after the fact.
LogBytesExact ==
  log_bytes = Total(appending) + Total(flushing) + Total(reading)
                - (IF log.pc = "count" THEN log.commit.size ELSE 0)
                + (IF commit.pc = "subtract" THEN commit.size ELSE 0)

\* No commit is logged twice or after a later one, and without an error none is
\* skipped, whoever logs it: the log worker, or kill_logs with what the workers
\* leave behind when they shut down or fail at any of their steps.
LoggedInOrder ==
  /\ \A i, j \in 1..Len(logged) : i < j => logged[i] < logged[j]
  /\ ~bg_err => \A i \in 1..Len(logged) : logged[i] = i

\* The queue exceeds its limit by less than one commit for every caller:
\* commit_raw tests the limit before it adds, and a caller that was woken does
\* not test it again.
QueueBounded ==
  QueueBytes(commits)
    <= MAX_COMMIT_QUEUE_BYTES + Cardinality(Committers) * Max(Sizes)

\* A caller that waits for room in the queue comes back: the log worker makes
\* room, or store_err wakes the caller when a worker fails.
CommitReturns ==
  \A c \in Committers : (committer[c].pc = "waiting" /\ ~bg_err) ~> (committer[c].pc = "idle")

\* Every accepted commit is logged, unless the workers shut down: neither the
\* throttle nor the handover of log files between the three workers blocks the
\* log worker for ever.
CommitsAreLogged ==
  \A n \in 1..MaxCommits : (accepted >= n) ~> (shutdown \/ n \in ToSet(logged))

\* When nothing is left to do, only the log file that is too small to be flushed
\* holds records that are not enacted.
LogsAreEnacted == <>[](shutdown \/ (flushing = <<>> /\ reading = <<>>))

\* Dropping the handle comes to an end.
DropReturns == (dropper = "joining") ~> (dropper = "closed")
============================================================================
