--------------------------- MODULE WriteAheadLog ---------------------------
(***************************************************************************)
(* The log files of a database, from the record that process_commits ends  *)
(* to the file that the cleanup worker empties, and what is left of them   *)
(* and of the tables after a crash.                                        *)
(*                                                                         *)
(* A log file has one role at a time:                                      *)
(*                                                                         *)
(*   log_pool -> appending -> flushing -> reading -> cleanup_queue         *)
(*      ^                                                 |                *)
(*      +-------------------- clean_logs -----------------+                *)
(*                                                                         *)
(* The log worker appends, the flush worker moves files to the right, the  *)
(* commit worker enacts the file that is read, the cleanup worker empties  *)
(* files.  A database that opens replays the files it finds, and one that  *)
(* is dropped runs kill_logs.  A record is one commit; `gen` is its ghost  *)
(* number in history, and a cell of a table holds the gen that wrote it.   *)
(*                                                                         *)
(* `disk` is what the operating system shows and survives the death of the *)
(* process.  The medium holds the first synced[f] records of file f and,   *)
(* for every cell, one of the values medium[c]; a power loss keeps that    *)
(* much.  Creating, truncating and removing a log file is durable.         *)
(* The cells are those of one value table, whose file has one dirty flag.  *)
(***************************************************************************)
EXTENDS Integers, FiniteSets, SequencesExt

CONSTANTS
  Cells,              (* the cells of a table                              *)
  None,
  SyncWal,            (* Options::sync_wal                                 *)
  SyncData,           (* Options::sync_data                                *)
  KEEP_LOGS,          (* enacted logs kept when sync_data is off           *)
  MIN_LOG_SIZE,       (* in records                                        *)
  MAX_LOG_POOL_SIZE,
  CrashPlans,         (* the sequences of crashes that happen, of "kill",  *)
                      (* "tear" (killed while it writes a record), "power" *)
  InOrder,            (* does the medium receive the log files in order?   *)
  Tears,              (* what can be left of a record that is half written *)
  MaxRecords,         (* bound on the commits in history                   *)
  MaxLogs             (* bound on the log files                            *)

LogIds == 0..MaxLogs - 1

ASSUME OptionsAssumption ==
  /\ {SyncWal, SyncData, InOrder} \subseteq BOOLEAN
  /\ CrashPlans \subseteq Seq({"kill", "tear", "power"})
  /\ {KEEP_LOGS, MIN_LOG_SIZE, MAX_LOG_POOL_SIZE, MaxRecords, MaxLogs} \subseteq Nat
  /\ Tears \subseteq {"short", "partial"}
  /\ None \notin LogIds

VARIABLES
  mode,            (* what the process does: closed, replay, clearing, up, *)
                   (* or the stage of kill_logs                            *)
  disk,            (* the records of every log file; None: no such file    *)
  synced,          (* how many of them fsync has put on the medium         *)
  appending, flushing, reading,   (* the log file in this role, or None    *)
  reading_state,   (* Log.reading_state                                    *)
  pos,             (* how many records of `reading` have been read         *)
  enacted,         (* the cells of the next record that are written        *)
  flush_pc,        (* is flush_one about to fsync?                         *)
  cleanup_queue, log_pool, replay_queue,
  cleaning,        (* the files that the cleanup worker has taken          *)
  next_record_id, next_log_id, last_enacted,
  table,           (* the tables as the operating system shows them        *)
  medium,          (* what a power loss can leave of every cell            *)
  dirty,           (* TableFile.dirty                                      *)
  writing,         (* the cell that write_at has announced, or None        *)
  history,         (* ghost: the cells written by every commit             *)
  hardened,        (* ghost: the commits that fsync has made durable       *)
  expected,        (* ghost: the commits that a recovery has to restore    *)
  missed,          (* ghost: has a flush missed a write that write_at had  *)
                   (* announced, and is the write lost?                    *)
  crashes

logVars == <<disk, synced>>
readVars == <<reading, reading_state, pos, enacted>>
cleanVars == <<cleanup_queue, cleaning, log_pool>>
counters == <<next_record_id, next_log_id, last_enacted>>
dataVars == <<table, medium, dirty, writing>>
ghosts == <<history, hardened, expected, missed, crashes>>
vars == <<mode, logVars, appending, flushing, readVars, flush_pc, cleanVars,
          replay_queue, counters, dataVars, ghosts>>

----------------------------------------------------------------------------
\* A record is whole, or what is left of it is shorter than its header
\* ("short") or holds the header but fails the checksum ("partial").
Record == [id : Nat, gen : Nat, state : {"whole", "short", "partial"}]

\* The cells after the first n commits.
StateAfter(n) == [c \in Cells |-> Max({0} \cup {g \in 1..n : c \in history[g]})]

Idle == [step |-> "idle", todo |-> <<>>, done |-> {}]

\* Log::open and DbInner::open start from these.
Closed ==
  /\ appending' = None /\ flushing' = None /\ reading' = None
  /\ reading_state' = "Idle" /\ pos' = 0 /\ enacted' = {} /\ flush_pc' = "ready"
  /\ cleanup_queue' = <<>> /\ log_pool' = <<>> /\ replay_queue' = <<>>
  /\ cleaning' = Idle /\ dirty' = FALSE /\ writing' = None
  /\ next_record_id' = 1 /\ next_log_id' = 0 /\ last_enacted' = 0

Init ==
  /\ mode = "closed"
  /\ disk = [f \in LogIds |-> None] /\ synced = [f \in LogIds |-> 0]
  /\ appending = None /\ flushing = None /\ reading = None
  /\ reading_state = "Idle" /\ pos = 0 /\ enacted = {} /\ flush_pc = "ready"
  /\ cleanup_queue = <<>> /\ log_pool = <<>> /\ replay_queue = <<>>
  /\ cleaning = Idle
  /\ next_record_id = 1 /\ next_log_id = 0 /\ last_enacted = 0
  /\ table = [c \in Cells |-> 0] /\ medium = [c \in Cells |-> {0}]
  /\ dirty = FALSE /\ writing = None
  /\ history = <<>> /\ hardened = 0 /\ expected = 0 /\ missed = "no" /\ crashes = <<>>

(***************************************************************************)
(* The log worker: end_record.                                             *)
(***************************************************************************)
AppendTo ==
  IF appending # None THEN appending
  ELSE IF log_pool # <<>> THEN Head(log_pool) ELSE next_log_id

Written(f) == IF disk[f] = None THEN <<>> ELSE disk[f]

\* LogChange::to_file writes the record in one piece, the checksum last.
NewRecord == [id |-> next_record_id, gen |-> Len(history) + 1, state |-> "whole"]

\* Mutant: the file is not taken out of the pool.
EndRecordPeeks(cells) ==
  /\ mode \in {"up", "process"}
  /\ Len(history) < MaxRecords /\ AppendTo \in LogIds
  /\ disk' = [disk EXCEPT ![AppendTo] = Append(Written(AppendTo), NewRecord)]
  /\ appending' = AppendTo
  /\ next_log_id' = IF AppendTo = next_log_id THEN next_log_id + 1 ELSE next_log_id
  /\ next_record_id' = next_record_id + 1
  /\ history' = Append(history, cells)
  /\ UNCHANGED <<mode, synced, flushing, readVars, flush_pc, cleanVars,
                 replay_queue, last_enacted, dataVars, hardened, expected, missed, crashes>>

EndRecord(cells) ==
  /\ mode \in {"up", "process"}
  /\ Len(history) < MaxRecords /\ AppendTo \in LogIds
  /\ disk' = [disk EXCEPT ![AppendTo] = Append(Written(AppendTo), NewRecord)]
  /\ appending' = AppendTo
  /\ log_pool' = IF appending = None /\ log_pool # <<>> THEN Tail(log_pool) ELSE log_pool
  /\ next_log_id' = IF appending = None /\ log_pool = <<>>
                    THEN next_log_id + 1 ELSE next_log_id
  /\ next_record_id' = next_record_id + 1
  /\ history' = Append(history, cells)
  /\ UNCHANGED <<mode, synced, flushing, readVars, flush_pc, cleanup_queue, cleaning,
                 replay_queue, last_enacted, dataVars, hardened, expected, missed, crashes>>

(***************************************************************************)
(* The flush worker: flush_one.                                            *)
(***************************************************************************)
\* The file that was flushed is read next, once the reader is idle.
Rotated(queue) ==
  /\ cleanup_queue' = IF flushing # None /\ reading # None
                      THEN Append(queue, reading) ELSE queue
  /\ IF flushing = None THEN UNCHANGED readVars
     ELSE reading' = flushing /\ reading_state' = "Reading" /\ pos' = 0 /\ enacted' = {}

FlushRotate ==
  /\ mode = "up" /\ flush_pc = "ready"
  /\ flushing # None /\ reading_state = "Idle"
  /\ Rotated(cleanup_queue)
  /\ flushing' = None
  /\ UNCHANGED <<mode, logVars, appending, flush_pc, cleaning, log_pool,
                 replay_queue, counters, dataVars, ghosts>>

\* Mutant: the log is not synced.
FlushTakeUnsynced ==
  /\ mode = "up" /\ flush_pc = "ready"
  /\ flushing = None /\ appending # None /\ Len(disk[appending]) > MIN_LOG_SIZE
  /\ flushing' = appending /\ appending' = None
  /\ UNCHANGED <<mode, logVars, readVars, flush_pc, cleanVars, replay_queue, counters,
                 dataVars, ghosts>>

FlushTake ==
  /\ mode = "up" /\ flush_pc = "ready"
  /\ flushing = None /\ appending # None /\ Len(disk[appending]) > MIN_LOG_SIZE
  /\ flushing' = appending /\ appending' = None
  /\ flush_pc' = IF SyncWal THEN "sync" ELSE "ready"
  /\ UNCHANGED <<mode, logVars, readVars, cleanVars, replay_queue, counters,
                 dataVars, ghosts>>

FlushSync ==
  /\ flush_pc = "sync"
  /\ synced' = [synced EXCEPT ![flushing] = Len(disk[flushing])]
  /\ hardened' = Last(disk[flushing]).gen
  /\ flush_pc' = "ready"
  /\ UNCHANGED <<mode, disk, appending, flushing, readVars, cleanVars, replay_queue,
                 counters, dataVars, history, expected, missed, crashes>>

(***************************************************************************)
(* The commit worker, and the replay: enact_logs.                          *)
(***************************************************************************)
Enacting == mode \in {"replay", "up", "enact1", "enact2", "enact3"}

More == reading # None /\ reading_state = "Reading" /\ pos < Len(disk[reading])

NextRecord == disk[reading][pos + 1]

\* The replay validates the record before it applies anything.
Valid ==
  mode = "replay" =>
    /\ NextRecord.state = "whole"
    /\ NextRecord.id = last_enacted + 1

\* TableFile::write_at sets the flag, and then writes.
WriteAt(c) ==
  /\ Enacting /\ More /\ Valid /\ writing = None
  /\ c \in history[NextRecord.gen] \ enacted
  /\ dirty' = TRUE /\ writing' = c
  /\ UNCHANGED <<mode, logVars, appending, flushing, readVars, flush_pc, cleanVars,
                 replay_queue, counters, table, medium, ghosts>>

EnactCell(c) ==
  /\ writing = c /\ writing' = None
  /\ table' = [table EXCEPT ![c] = NextRecord.gen]
  /\ medium' = [medium EXCEPT ![c] = @ \cup {NextRecord.gen}]
  /\ enacted' = enacted \cup {c}
  /\ UNCHANGED <<mode, logVars, appending, flushing, reading, reading_state, pos,
                 flush_pc, cleanVars, replay_queue, counters, dirty, ghosts>>

\* Mutant: last_enacted is not stored.
EndReadStale ==
  /\ Enacting /\ More /\ Valid
  /\ enacted = history[NextRecord.gen]
  /\ next_record_id' = IF NextRecord.id >= next_record_id
                       THEN NextRecord.id + 1 ELSE next_record_id
  /\ pos' = pos + 1 /\ enacted' = {}
  /\ UNCHANGED <<mode, logVars, appending, flushing, reading, reading_state, flush_pc,
                 cleanVars, replay_queue, next_log_id, last_enacted, dataVars, ghosts>>

\* last_enacted and end_read.
EndRead ==
  /\ Enacting /\ More /\ Valid
  /\ enacted = history[NextRecord.gen]
  /\ last_enacted' = NextRecord.id
  /\ next_record_id' = IF NextRecord.id >= next_record_id
                       THEN NextRecord.id + 1 ELSE next_record_id
  /\ pos' = pos + 1 /\ enacted' = {}
  /\ UNCHANGED <<mode, logVars, appending, flushing, reading, reading_state, flush_pc,
                 cleanVars, replay_queue, next_log_id, dataVars, ghosts>>

\* Mutant: the reader does not become idle at the end of the file.
EndOfLogReading ==
  /\ Enacting /\ reading # None /\ reading_state = "Reading" /\ ~More
  /\ UNCHANGED vars

\* A file that ends before the header of a record is at its end.
EndOfLog ==
  /\ Enacting /\ reading # None /\ reading_state = "Reading"
  /\ More => NextRecord.state = "short"
  /\ reading_state' = "Idle"
  /\ UNCHANGED <<mode, logVars, appending, flushing, reading, pos, enacted, flush_pc,
                 cleanVars, replay_queue, counters, dataVars, ghosts>>

DropLog(f) ==
  /\ disk' = [disk EXCEPT ![f] = None]
  /\ synced' = [synced EXCEPT ![f] = 0]

\* A record that cannot be read or is out of order ends the replay.
BadRecord == mode = "replay" /\ More /\ ~Valid /\ NextRecord.state # "short"

\* clear_replay_logs removes the file that is read and then the files that
\* have not been replayed.
ClearReplayLogs ==
  /\ BadRecord
  /\ mode' = "clearing"
  /\ DropLog(reading)
  /\ reading' = None /\ pos' = 0 /\ enacted' = {} /\ reading_state' = "Idle"
  /\ UNCHANGED <<appending, flushing, flush_pc, cleanVars, replay_queue, counters,
                 dataVars, ghosts>>

ClearNext ==
  /\ mode = "clearing"
  /\ IF replay_queue = <<>>
     THEN /\ mode' = "replay"
          /\ UNCHANGED <<logVars, replay_queue>>
     ELSE /\ DropLog(Head(replay_queue))
          /\ replay_queue' = Tail(replay_queue)
          /\ UNCHANGED mode
  /\ UNCHANGED <<appending, flushing, readVars, flush_pc, cleanVars, counters,
                 dataVars, ghosts>>

(***************************************************************************)
(* The cleanup worker: cleanup_logs and clean_logs.                        *)
(***************************************************************************)
\* Mutant: the newest logs are cleaned in place of the oldest.
CleanupNewest(keep, step) ==
  /\ cleaning.step = "idle"
  /\ cleaning' = [step |-> step, done |-> {},
                  todo |-> SubSeq(cleanup_queue, keep + 1, Len(cleanup_queue))]
  /\ cleanup_queue' = SubSeq(cleanup_queue, 1, keep)

\* The number of logs to clean is taken before the columns are flushed.
CleanupStart(keep, step) ==
  LET n == Len(cleanup_queue) - keep IN
  /\ cleaning.step = "idle"
  /\ cleaning' = [step |-> step, todo |-> SubSeq(cleanup_queue, 1, n), done |-> {}]
  /\ cleanup_queue' = SubSeq(cleanup_queue, n + 1, Len(cleanup_queue))

CleanupLogs ==
  LET keep == IF SyncData THEN 0 ELSE KEEP_LOGS IN
  /\ mode = "up" /\ Len(cleanup_queue) > keep
  /\ CleanupStart(keep, IF SyncData THEN "flush" ELSE "truncate")
  /\ UNCHANGED <<mode, logVars, appending, flushing, readVars, flush_pc, log_pool,
                 replay_queue, counters, dataVars, ghosts>>

\* Mutant: the tables are not flushed.
FlushNothing ==
  /\ cleaning.step = "flush"
  /\ cleaning' = [cleaning EXCEPT !.step = "truncate"]
  /\ UNCHANGED <<mode, logVars, appending, flushing, readVars, flush_pc, cleanup_queue,
                 log_pool, replay_queue, counters, dataVars, ghosts>>

\* TableFile::flush syncs the file when the flag is set.
TableFlush ==
  /\ medium' = IF dirty THEN [c \in Cells |-> {table[c]}] ELSE medium
  /\ dirty' = FALSE

\* Column::flush of every column.
FlushColumns ==
  /\ cleaning.step = "flush"
  /\ TableFlush
  /\ missed' = IF ~dirty \/ missed = "lost" THEN missed
               ELSE IF writing = None THEN "no" ELSE "missed"
  /\ cleaning' = [cleaning EXCEPT !.step = "truncate"]
  /\ UNCHANGED <<mode, logVars, appending, flushing, readVars, flush_pc, cleanup_queue,
                 log_pool, replay_queue, counters, table, writing, history, hardened,
                 expected, crashes>>

TruncateLog ==
  /\ cleaning.step = "truncate" /\ cleaning.todo # <<>>
  /\ disk' = [disk EXCEPT ![Head(cleaning.todo)] = <<>>]
  /\ synced' = [synced EXCEPT ![Head(cleaning.todo)] = 0]
  /\ cleaning' = [cleaning EXCEPT !.todo = Tail(@), !.done = @ \cup {Head(cleaning.todo)}]
  /\ UNCHANGED <<mode, appending, flushing, readVars, flush_pc, cleanup_queue, log_pool,
                 replay_queue, counters, dataVars, ghosts>>

\* The emptied files go to the pool, lowest ids first; surplus files are removed.
ReturnToPool ==
  LET pool == SetToSortSeq(ToSet(log_pool) \cup cleaning.done, <)
      kept == SubSeq(pool, 1, IF Len(pool) < MAX_LOG_POOL_SIZE THEN Len(pool)
                              ELSE MAX_LOG_POOL_SIZE)
  IN
  /\ cleaning.step = "truncate" /\ cleaning.todo = <<>>
  /\ log_pool' = kept
  /\ disk' = [f \in LogIds |-> IF f \in ToSet(pool) \ ToSet(kept) THEN None ELSE disk[f]]
  /\ cleaning' = Idle
  /\ mode' = IF mode = "clean" THEN "kill" ELSE mode
  /\ UNCHANGED <<synced, appending, flushing, readVars, flush_pc, cleanup_queue,
                 replay_queue, counters, dataVars, ghosts>>

(***************************************************************************)
(* Opening: Log::open and replay_all_logs.                                 *)
(***************************************************************************)
Found == {f \in LogIds : Written(f) # <<>>}

FirstId(f) == disk[f][1].id

\* open_log_file fails to read the first record id of a file that is too short.
CanOpen == \A f \in Found : disk[f][1].state # "short"

\* Mutant: the last enacted record is thought to be one earlier.
OpenTooEarly ==
  /\ mode = "closed" /\ CanOpen
  /\ mode' = "replay"
  /\ disk' = [f \in LogIds |-> IF f \in Found THEN disk[f] ELSE None]
  /\ replay_queue' = SetToSortSeq(Found, LAMBDA f, g : FirstId(f) < FirstId(g))
  /\ last_enacted' = IF Found = {} THEN 1 ELSE Min({FirstId(f) : f \in Found}) - 2
  /\ next_log_id' = IF Found = {} THEN 0 ELSE Max(Found) + 1
  /\ UNCHANGED <<synced, appending, flushing, readVars, flush_pc, cleanVars,
                 next_record_id, dataVars, ghosts>>

\* Empty files are removed; the others are replayed in the order of their ids.
Open ==
  /\ mode = "closed" /\ CanOpen
  /\ mode' = "replay"
  /\ disk' = [f \in LogIds |-> IF f \in Found THEN disk[f] ELSE None]
  /\ replay_queue' = SetToSortSeq(Found, LAMBDA f, g : FirstId(f) < FirstId(g))
  /\ last_enacted' = IF Found = {} THEN 1 ELSE Min({FirstId(f) : f \in Found}) - 1
  /\ next_log_id' = IF Found = {} THEN 0 ELSE Max(Found) + 1
  /\ UNCHANGED <<synced, appending, flushing, readVars, flush_pc, cleanVars,
                 next_record_id, dataVars, ghosts>>

\* The commits whose effect the tables show.
Shown == {n \in 0..Len(history) : table = StateAfter(n)}

\* The file that was replayed goes to the cleanup queue.  When none is left the
\* database is up, and the commits that were lost are forgotten.
ReplayNext ==
  /\ mode = "replay" /\ reading_state = "Idle"
  /\ cleanup_queue' = IF reading # None THEN Append(cleanup_queue, reading)
                      ELSE cleanup_queue
  /\ IF replay_queue # <<>>
     THEN /\ reading' = Head(replay_queue) /\ replay_queue' = Tail(replay_queue)
          /\ reading_state' = "Reading"
          /\ UNCHANGED <<mode, history>>
     ELSE /\ reading' = None
          /\ mode' = "up"
          /\ history' = IF Shown = {} THEN history ELSE SubSeq(history, 1, Max(Shown))
          /\ UNCHANGED <<reading_state, replay_queue>>
  /\ pos' = 0 /\ enacted' = {}
  /\ UNCHANGED <<logVars, appending, flushing, flush_pc, cleaning, log_pool, counters,
                 dataVars, hardened, expected, missed, crashes>>

(***************************************************************************)
(* Closing: kill_logs, when the workers have left.                         *)
(***************************************************************************)
Close ==
  /\ mode = "up" /\ flush_pc = "ready" /\ cleaning = Idle
  /\ enacted = {} /\ writing = None
  /\ mode' = "enact1"
  /\ UNCHANGED <<logVars, appending, flushing, readVars, flush_pc, cleanVars,
                 replay_queue, counters, dataVars, ghosts>>

\* flush_logs(0) on one thread.
KillFlush ==
  /\ mode \in {"enact1", "enact2"} /\ reading_state = "Idle"
  /\ mode' = IF mode = "enact1" THEN "process" ELSE "enact3"
  /\ Rotated(cleanup_queue)
  /\ flushing' = appending /\ appending' = None
  /\ IF SyncWal /\ appending # None
     THEN /\ synced' = [synced EXCEPT ![appending] = Len(disk[appending])]
          /\ hardened' = Last(disk[appending]).gen
     ELSE UNCHANGED <<synced, hardened>>
  /\ UNCHANGED <<disk, flush_pc, cleaning, log_pool, replay_queue, counters, dataVars,
                 history, expected, missed, crashes>>

\* The leftover commits are logged.
KillProcess ==
  /\ mode = "process"
  /\ mode' = "enact2"
  /\ UNCHANGED <<logVars, appending, flushing, readVars, flush_pc, cleanVars,
                 replay_queue, counters, dataVars, ghosts>>

CleanAllLogs ==
  /\ mode = "enact3" /\ reading_state = "Idle"
  /\ mode' = "clean"
  /\ CleanupStart(0, "flush")
  /\ UNCHANGED <<logVars, appending, flushing, readVars, flush_pc, log_pool,
                 replay_queue, counters, dataVars, ghosts>>

\* Log::kill_logs removes the pool and the file that was read.  The file that is
\* being flushed stays and is replayed by the next open.
KillLogs ==
  /\ mode = "kill"
  /\ mode' = "closed"
  /\ disk' = [f \in LogIds |-> IF f = reading \/ f \in ToSet(log_pool) THEN None ELSE disk[f]]
  /\ synced' = [f \in LogIds |-> IF disk'[f] = None THEN 0 ELSE synced[f]]
  /\ hardened' = IF SyncWal THEN Len(history) ELSE hardened
  /\ expected' = Len(history)
  /\ Closed
  /\ UNCHANGED <<table, medium, history, missed, crashes>>

(***************************************************************************)
(* Crashes.                                                                *)
(***************************************************************************)
Torn(tear, id) == [id |-> id, gen |-> 0, state |-> tear]

Planned(kind) ==
  /\ crashes' = Append(crashes, kind)
  /\ \E plan \in CrashPlans : IsPrefix(crashes', plan)

\* The process dies, perhaps while the log worker writes a record.
Crash ==
  /\ mode # "closed"
  /\ mode' = "closed"
  /\ \/ Planned("kill") /\ UNCHANGED disk
     \/ /\ Planned("tear")
        /\ mode \in {"up", "process"} /\ AppendTo \in LogIds
        /\ \E tear \in Tears :
             disk' = [disk EXCEPT ![AppendTo] =
                        Append(Written(AppendTo), Torn(tear, next_record_id))]
  /\ expected' = IF mode \in {"replay", "clearing"} THEN expected ELSE Len(history)
  /\ Closed
  /\ UNCHANGED <<synced, table, medium, history, hardened, missed>>

\* The machine stops.  A log file keeps what is synced and perhaps more; the
\* record after that may be torn.
PowerLoss ==
  LET unsynced == {f \in Found : synced[f] < Len(disk[f])} IN
  /\ Planned("power")
  /\ mode' = "closed"
  /\ \E keep \in [unsynced -> 0..MaxRecords], tear \in [unsynced -> Tears \cup {None}] :
       /\ \A f \in unsynced : /\ keep[f] \in synced[f]..Len(disk[f])
                              /\ tear[f] # None => keep[f] < Len(disk[f])
       /\ InOrder => \A f, g \in unsynced :
            (FirstId(f) < FirstId(g) /\ keep[f] < Len(disk[f]))
              => keep[g] = 0 /\ tear[g] = None
       /\ disk' = [f \in LogIds |->
            IF f \notin unsynced THEN disk[f]
            ELSE SubSeq(disk[f], 1, keep[f]) \o
                   IF tear[f] = None THEN <<>>
                   ELSE <<Torn(tear[f], disk[f][keep[f] + 1].id)>>]
       /\ synced' = [f \in LogIds |-> Len(IF disk'[f] = None THEN <<>> ELSE disk'[f])]
  /\ table' \in [Cells -> 0..MaxRecords] /\ \A c \in Cells : table'[c] \in medium[c]
  /\ medium' = [c \in Cells |-> {table'[c]}]
  /\ expected' = hardened
  /\ missed' = IF missed = "no" THEN "no" ELSE "lost"
  /\ Closed
  /\ UNCHANGED <<history, hardened>>

----------------------------------------------------------------------------
Next ==
  \/ Open \/ ReplayNext \/ ClearReplayLogs \/ ClearNext
  \/ \E cells \in SUBSET Cells \ {{}} : EndRecord(cells)
  \/ FlushRotate \/ FlushTake \/ FlushSync
  \/ EndRead \/ EndOfLog \/ \E c \in Cells : WriteAt(c) \/ EnactCell(c)
  \/ CleanupLogs \/ FlushColumns \/ TruncateLog \/ ReturnToPool
  \/ Close \/ KillFlush \/ KillProcess \/ CleanAllLogs \/ KillLogs
  \/ Crash \/ PowerLoss

Spec == Init /\ [][Next]_vars

----------------------------------------------------------------------------
(***************************************************************************)
(* Correctness.                                                            *)
(***************************************************************************)
Modes == {"closed", "replay", "clearing", "up", "enact1", "process", "enact2",
          "enact3", "clean", "kill"}

Running == mode \notin {"closed", "replay", "clearing"}

TypeOK ==
  /\ mode \in Modes
  /\ \A f \in LogIds : disk[f] = None \/ disk[f] \in Seq(Record)
  /\ \A f \in LogIds : synced[f] \in 0..Len(Written(f))
  /\ {appending, flushing, reading} \subseteq LogIds \cup {None}
  /\ reading_state \in {"Reading", "Idle"}
  /\ pos \in Nat /\ enacted \subseteq Cells
  /\ flush_pc \in {"ready", "sync"}
  /\ {cleanup_queue, log_pool, replay_queue, cleaning.todo} \subseteq Seq(LogIds)
  /\ cleaning.step \in {"idle", "flush", "truncate"} /\ cleaning.done \subseteq LogIds
  /\ {next_record_id, next_log_id, last_enacted} \subseteq Nat
  /\ table \in [Cells -> Nat] /\ medium \in [Cells -> SUBSET Nat]
  /\ dirty \in BOOLEAN /\ missed \in {"no", "missed", "lost"} /\ writing \in Cells \cup {None}
  /\ history \in Seq(SUBSET Cells) /\ hardened \in Nat /\ expected \in Nat

Opt(f) == IF f = None THEN <<>> ELSE <<f>>

\* The log files in use, oldest first.
InUse == cleaning.todo \o cleanup_queue \o Opt(reading) \o replay_queue
           \o Opt(flushing) \o Opt(appending)

WholeRecords(f) == SelectSeq(disk[f], LAMBDA r : r.state = "whole")

Logged == FlattenSeq([i \in 1..Len(InUse) |-> WholeRecords(InUse[i])])

\* Every log file has one role, no file with records is without one, and in the
\* order in which enact_logs and a later replay read them the records have
\* consecutive ids that end with the last record written: flush_one, replay_next,
\* clean_logs and the reuse of pooled files never reorder or skip a log.  (When a
\* record is torn, clear_replay_logs removes the whole file and leaves a gap.)
LogOrder ==
  (Running /\ ToSet(crashes) \subseteq {"kill"}) =>
    LET files == InUse \o log_pool \o SetToSeq(cleaning.done) IN
    /\ IsInjective(files)
    /\ Found \subseteq ToSet(InUse)
    /\ \A i \in 1..Len(Logged) : Logged[i].id = next_record_id - 1 - Len(Logged) + i

\* Whatever the moment of the crash, also in the middle of a replay, of kill_logs
\* or of a record, replay_all_logs restores the tables to the state after some
\* prefix of the commits, and the prefix holds every commit that had to survive.
\* (Except when the power fails after a flush has missed a write.)
RecoveryIsPrefix ==
  [][(mode = "replay" /\ mode' = "up" /\ missed # "lost")
       => \E n \in expected..Len(history) : table = StateAfter(n)]_vars

\* README.md: "Database should be restored to consistent state if IO is
\* interrupted at any point."  The weaker half of RecoveryIsPrefix: some prefix.
RecoveryIsConsistent ==
  [][(mode = "replay" /\ mode' = "up")
       => \E n \in 0..Len(history) : table = StateAfter(n)]_vars

\* A log is emptied or removed only when the medium holds its writes.
WritesOnMedium(f) ==
  \A i \in 1..Len(disk[f]) :
    disk[f][i].state = "whole" =>
      \A c \in history[disk[f][i].gen] : \A g \in medium[c] : g >= disk[f][i].gen

Removes(f) == Written(f) # <<>> /\ disk'[f] \in {None, <<>>}

\* cleanup_logs, clean_all_logs and Log::kill_logs give up the records of a log
\* only after an fsync of the tables that covers them, although the commit worker
\* goes on writing and queueing logs meanwhile.  (Except when a flush has come
\* between the flag and the write of write_at: TableFile::flush takes the flag, the
\* write lands after the fsync, and the next flush finds the file clean.)
CleanupAfterSync ==
  [][Running /\ crashes' = crashes /\ missed = "no"
       => \A f \in LogIds : Removes(f) => WritesOnMedium(f)]_vars

\* "fsync WAL to disk before committing any changes": while the database is up or
\* shuts down, enact_logs writes no cell whose record a power loss could take away,
\* although the log worker, the flush worker and kill_logs move the files meanwhile.
\* (A replay writes what it finds, synced or not.)
WriteAhead ==
  [][(SyncWal /\ Running /\ table' # table /\ crashes' = crashes)
       => pos < synced[reading]]_vars

\* When the process is scheduled, opening and closing take their steps.
Recovery == Open \/ ReplayNext \/ ClearReplayLogs \/ ClearNext
              \/ (mode = "replay" /\ (EndRead \/ EndOfLog \/ \E c \in Cells : WriteAt(c) \/ EnactCell(c)))

Shutdown ==
  mode # "up" /\ (\/ KillFlush \/ KillProcess \/ CleanAllLogs \/ KillLogs
                  \/ FlushColumns \/ TruncateLog \/ ReturnToPool
                  \/ EndRead \/ EndOfLog \/ \E c \in Cells : WriteAt(c) \/ EnactCell(c))

FairSpec == Spec /\ WF_vars(Recovery) /\ WF_vars(Shutdown)

\* replay_all_logs comes to an end, whatever it finds, and kill_logs never waits
\* for a reader that nobody runs any more: the handle opens and closes.
OpensAndCloses ==
  /\ (mode \in {"closed", "replay", "clearing"}) ~> (mode = "up")
  /\ (mode = "enact1") ~> (mode = "closed")
============================================================================
