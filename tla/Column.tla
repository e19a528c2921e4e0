------------------------------- MODULE Column -------------------------------
(***************************************************************************)
(* One column: its current index table, the older index tables that are    *)
(* still being reindexed, its value tables and its statistics, with the    *)
(* log worker that plans changes and reindex batches, the commit worker    *)
(* that enacts their records and drops index tables, a reader, a clean     *)
(* close, crashes and the replay of the log.                               *)
(*                                                                         *)
(* The tables are modelled as everybody sees them: the file with the log   *)
(* overlay on top.  That the overlay and the file agree is the subject of  *)
(* CommitPipeline, that replay restores what was logged that of            *)
(* WriteAheadLog; here a crash keeps every record that was logged.         *)
(***************************************************************************)
EXTENDS IndexTable, Statistics, Sequences, SequencesExt

CONSTANTS
  Keys,                 (* records [word, rest]: the part of the key that  *)
                        (* the index looks at, and the rest of the key     *)
  Values, Size, Packed, (* the sizes of values, plain and compressed       *)
  Preimage,             (* Preimage[k] is the value whose hash is k        *)
  Scenarios,            (* what to explore: see ColumnAssumption           *)
  TierSizes,            (* value_size of each tier but the last            *)
  Treshold,             (* compression treshold                            *)
  PK_BITS,              (* low bits of the word that a slot repeats        *)
  START_BITS,
  COMPRESSED_MASK,
  MAX_REBALANCE_BATCH,
  MaxBits               (* bound: the largest index that is explored       *)

\* ColumnOptions::is_valid: the last tier is not among the sizes, and a size leaves the
\* bit alone that marks a compressed value.
IsValid ==
  /\ Len(TierSizes) <= 2 ^ SIZE_TIERS_BITS - 1
  /\ \A i \in DOMAIN TierSizes : TierSizes[i] < COMPRESSED_MASK

ASSUME ColumnAssumption ==
  /\ \A k \in Keys : k.word \in Words /\ k.rest \in Nat \ {0} (* keys are spread uniformly:  *)
                                                           (* none ends in 200 zero bits   *)
  /\ \A s \in Scenarios :
       /\ s.kind \in {"plain", "preimage", "counted"}
       /\ Len(s.loaded) <= CHUNK_ENTRIES /\ ToSet(s.loaded) \subseteq Keys
       /\ s.writes \subseteq Keys              (* keys that commits change            *)
       /\ s.reads \subseteq Keys               (* keys that the reader looks up       *)
       /\ s.stats \in BOOLEAN                 (* are collect_stats and clear_stats called? *)
       /\ s.ops \in Nat /\ s.stops \in Nat     (* bounds: changes; crashes and closes *)
  /\ {PK_BITS, START_BITS, MAX_REBALANCE_BATCH, MaxBits} \subseteq Nat
  /\ AddressBits(MaxBits + 1) <= ENTRY_LEN
  /\ PK_BITS >= CHUNK_ENTRIES_BITS + SIZE_TIERS_BITS
  /\ IsValid

VARIABLES
  scene,                (* the scenario; its kind: preimage and ref_counted *)
  column,               (* tables, reindex.queue and stats                 *)
  progress,             (* reindex.progress                                *)
  next_reindex, last_enacted,
  log, enacted,         (* records since the last cleanup; how many are enacted *)
  next_record_id,
  files,                (* index tables (their bits) that have a file      *)
  saved,                (* the statistics kept in each of these files      *)
  log_worker, commit_worker,
  mode,                 (* up, closed, replay, or why opening failed       *)
  reader,
  ops, stops,
  stored,               (* history: what the column was told to hold       *)
  lost,                 (* history: keys whose new address found no place  *)
  orphans,              (* history: slots claimed and then not indexed     *)
  exact                 (* history: statistics not known to be off         *)

vars == <<scene, column, progress, next_reindex, last_enacted, log, enacted,
          next_record_id, files, saved, log_worker, commit_worker, mode, reader,
          ops, stops, stored, lost, orphans, exact>>

None == "none"
kind == scene.kind
preimage == kind \in {"preimage", "counted"}
ref_counted == kind = "counted"

(***************************************************************************)
(* Values and slots.                                                       *)
(***************************************************************************)
Tiers == 0..Len(TierSizes)
\* The tier that has no size of its own holds values in several parts.
LastTier == Len(TierSizes)

Compressed(v) == Size[v] > Treshold /\ Packed[v] < Size[v]
StoredLen(v) == IF Compressed(v) THEN Packed[v] ELSE Size[v]

\* The tier of a value: the first that it fits in, the last when there is none.
TargetTier(v) ==
  Min({t \in Tiers : t = LastTier \/ StoredLen(v) <= TierSizes[t + 1]})

PartialKey(key) == <<key.word % 2 ^ PK_BITS, key.rest>>

Tombstone == [pk |-> <<>>, val |-> None, rc |-> 0]
Slot(key, v) == [pk |-> PartialKey(key), val |-> v, rc |-> 1]

\* The slots of a tier and its list of removed slots, the last removed at the end.
EmptyTier == [slots |-> <<>>, removed |-> <<>>]

NextFree(tier) == IF tier.removed = <<>> THEN Len(tier.slots) + 1 ELSE Last(tier.removed)

Claim(tier, slot) ==
  IF tier.removed = <<>> THEN [tier EXCEPT !.slots = Append(@, slot)]
  ELSE [slots |-> [tier.slots EXCEPT ![NextFree(tier)] = slot], removed |-> Front(tier.removed)]

Clear(tier, offset) ==
  [slots |-> [tier.slots EXCEPT ![offset] = Tombstone], removed |-> Append(tier.removed, offset)]

SlotAt(c, address) == c.value[SizeTier(address)].slots[Offset(address)]
HasKeyAt(c, address, key) == SlotAt(c, address).pk = PartialKey(key)

(***************************************************************************)
(* Searching.                                                              *)
(***************************************************************************)
NotFound == [table |-> 0, sub |-> 0, address |-> 0]

ChunkOf(c, bits, word) == c.index[bits][ChunkIndex(word, bits)]

SearchIndex(c, bits, key) ==
  LET chunk == ChunkOf(c, bits, key.word)
      hits  == {i \in Candidates(key.word, 0, chunk, bits) :
                  HasKeyAt(c, EntryAddress(chunk[i], bits), key)}
  IN IF hits = {} THEN NotFound
     ELSE [table |-> bits, sub |-> Min(hits),
           address |-> EntryAddress(chunk[Min(hits)], bits)]

\* Mutant: the older indexes are searched first.
SearchOldFirst(c, key) ==
  LET tables == Append(c.queue, c.bits)
      hits == {i \in DOMAIN tables : SearchIndex(c, tables[i], key) # NotFound}
  IN IF hits = {} THEN NotFound ELSE SearchIndex(c, tables[Min(hits)], key)

\* The current index, then the ones in the reindex queue.
SearchAllIndexes(c, key) ==
  LET tables == <<c.bits>> \o c.queue
      hits == {i \in DOMAIN tables : SearchIndex(c, tables[i], key) # NotFound}
  IN IF hits = {} THEN NotFound ELSE SearchIndex(c, tables[Min(hits)], key)

(***************************************************************************)
(* Planning.  A plan is a record of the column after it, the index tables  *)
(* it writes, whether it asks for a reindex, the slots it claimed for      *)
(* nothing and whether the key's new address found no place.               *)
(***************************************************************************)
Plan(c) == [col |-> c, tables |-> {}, reindex |-> FALSE, orphans |-> {}, lost |-> FALSE]

TriggerReindex(c) ==
  [c EXCEPT !.bits = @ + 1, !.queue = Append(@, c.bits),
            !.index = [b \in DOMAIN @ \cup {c.bits + 1} |->
                         IF b = c.bits + 1 THEN EmptyTable(b) ELSE @[b]]]

\* write_insert_plan and write_remove_plan of an index table.
NoSub == CHUNK_ENTRIES
InsertEntry(c, key, address, sub) ==
  PlanInsertChunk(key.word, address, ChunkOf(c, c.bits, key.word), sub, c.bits)

SetChunk(c, bits, word, chunk) == [c EXCEPT !.index[bits][ChunkIndex(word, bits)] = chunk]

NewAddress(c, v) == Address(NextFree(c.value[TargetTier(v)]), TargetTier(v))

\* Mutant: the statistics are updated before the index is tried.
RECURSIVE PlanInsertCountedTwice(_, _, _)
PlanInsertCountedTwice(c, key, v) ==
  LET address == NewAddress(c, v)
      claimed == [c EXCEPT !.value[TargetTier(v)] = Claim(@, Slot(key, v)),
                           !.stats = InsertVal(@, Size[v], StoredLen(v))]
      entry   == InsertEntry(claimed, key, address, NoSub)
      again   == PlanInsertCountedTwice(TriggerReindex(claimed), key, v)
  IN
  IF entry.outcome = "NeedReindex"
  THEN [again EXCEPT !.reindex = TRUE, !.orphans = @ \cup {address}]
  ELSE [Plan(SetChunk(claimed, c.bits, key.word, entry.chunk)) EXCEPT !.tables = {c.bits}]

\* A value for a key that no index has.  When there is no place for its entry the
\* plan starts over with a larger index; the slot claimed so far stays claimed.
RECURSIVE PlanInsert(_, _, _)
PlanInsert(c, key, v) ==
  LET address == NewAddress(c, v)
      claimed == [c EXCEPT !.value[TargetTier(v)] = Claim(@, Slot(key, v))]
      entry   == InsertEntry(claimed, key, address, NoSub)
      again   == PlanInsert(TriggerReindex(claimed), key, v)
  IN
  IF entry.outcome = "NeedReindex"
  THEN [again EXCEPT !.reindex = TRUE, !.orphans = @ \cup {address}]
  ELSE [Plan([SetChunk(claimed, c.bits, key.word, entry.chunk)
                EXCEPT !.stats = InsertVal(@, Size[v], StoredLen(v))])
          EXCEPT !.tables = {c.bits}]

\* Mutant: the entry of a value that moves is put in the current index under the
\* sub-index that an older index has it under.
PlanReplaceInPlace(c, key, v, found) ==
  LET tier == SizeTier(found.address)
      address == NewAddress(c, v)
      moved == [c EXCEPT !.value = [@ EXCEPT ![tier] = Clear(@, Offset(found.address)),
                                             ![TargetTier(v)] = Claim(@, Slot(key, v))]]
      entry == InsertEntry(moved, key, address, found.sub)
  IN
  IF tier = TargetTier(v)
  THEN Plan([c EXCEPT !.value[tier].slots[Offset(found.address)] = Slot(key, v)])
  ELSE [Plan(SetChunk(moved, c.bits, key.word, entry.chunk)) EXCEPT !.tables = {c.bits}]

\* A new value for a key that has one.  A value of the same tier is overwritten; one
\* of another tier moves, and its entry with it, or gets an entry in the current index
\* when an older one had it.  Nobody looks at whether that entry found a place.
PlanReplace(c, key, v, found) ==
  LET old   == SlotAt(c, found.address).val
      tier  == SizeTier(found.address)
      same  == [c EXCEPT !.value[tier].slots[Offset(found.address)] = Slot(key, v),
                         !.stats = ReplaceVal(@, StoredLen(old), Size[old], Size[v], StoredLen(v))]
      address == NewAddress(c, v)
      moved == [c EXCEPT !.value = [@ EXCEPT ![tier] = Clear(@, Offset(found.address)),
                                             ![TargetTier(v)] = Claim(@, Slot(key, v))],
                         !.stats = same.stats]
      entry == InsertEntry(moved, key, address,
                           IF found.table = c.bits THEN found.sub ELSE NoSub)
  IN
  IF tier = TargetTier(v) THEN Plan(same)
  ELSE IF entry.outcome = "NeedReindex"
  THEN [Plan(moved) EXCEPT !.reindex = TRUE, !.orphans = {address}, !.lost = TRUE]
  ELSE [Plan(SetChunk(moved, c.bits, key.word, entry.chunk)) EXCEPT !.tables = {c.bits}]

\* Mutant: only the slot is removed.
PlanRemoveSlotOnly(c, key, found) ==
  Plan([c EXCEPT !.value[SizeTier(found.address)] = Clear(@, Offset(found.address)),
                 !.stats = RemoveVal(@, Size[SlotAt(c, found.address).val],
                                     StoredLen(SlotAt(c, found.address).val))])

\* Removing a key that is there: a reference less, or the slot and the entry.
PlanRemove(c, key, found) ==
  LET offset == Offset(found.address)
      tier   == SizeTier(found.address)
      slot   == SlotAt(c, found.address)
      entry  == PlanRemoveChunk(key.word, ChunkOf(c, found.table, key.word), found.sub, found.table)
      gone   == [c EXCEPT !.value[tier] = Clear(@, offset),
                          !.stats = RemoveVal(@, Size[slot.val], StoredLen(slot.val))]
  IN
  IF ref_counted /\ slot.rc > 1 THEN Plan([c EXCEPT !.value[tier].slots[offset].rc = @ - 1])
  ELSE [Plan(SetChunk(gone, found.table, key.word, entry)) EXCEPT !.tables = {found.table}]

WritePlan(c, key, v) ==
  LET found == SearchAllIndexes(c, key) IN
  IF found = NotFound
  THEN IF v = None THEN Plan(c) ELSE PlanInsert(c, key, v)
  ELSE IF v = None THEN PlanRemove(c, key, found)
  ELSE IF ref_counted
  THEN Plan([c EXCEPT !.value[SizeTier(found.address)].slots[Offset(found.address)].rc = @ + 1])
  ELSE IF preimage THEN Plan(c)
  ELSE PlanReplace(c, key, v, found)

\* Mutant: an entry that finds a full chunk is left behind.
WriteReindexPlanNoTrigger(plan, key, address) ==
  LET c == plan.col
      entry == InsertEntry(c, key, address, NoSub)
  IN
  IF SearchIndex(c, c.bits, key) # NotFound \/ entry.outcome = "NeedReindex" THEN plan
  ELSE [plan EXCEPT !.col = SetChunk(c, c.bits, key.word, entry.chunk),
                    !.tables = @ \cup {c.bits}]

\* An entry of an older index is copied to the current one, unless that has an entry
\* for its key.  Only the prefix of the key is known: the rest is taken as zeros.
RECURSIVE WriteReindexPlan(_, _, _)
WriteReindexPlan(plan, key, address) ==
  LET c == plan.col
      entry == InsertEntry(c, key, address, NoSub)
      again == WriteReindexPlan([plan EXCEPT !.col = TriggerReindex(c)], key, address)
  IN
  IF SearchIndex(c, c.bits, key) # NotFound THEN plan
  ELSE IF entry.outcome = "NeedReindex" THEN [again EXCEPT !.reindex = TRUE]
  ELSE [plan EXCEPT !.col = SetChunk(c, c.bits, key.word, entry.chunk),
                    !.tables = @ \cup {c.bits}]

(***************************************************************************)
(* Reindex batches.                                                        *)
(***************************************************************************)
Pending(c, done) == c.queue # <<>> /\ done # TotalChunks(Head(c.queue))

\* The entries of the chunks from, ..., to - 1 of a table, as places in it.
Places(table, from, to) ==
  SelectSeq([n \in 1..(to - from) * CHUNK_ENTRIES |-> from * CHUNK_ENTRIES + n - 1],
            LAMBDA n : table[n \div CHUNK_ENTRIES][n % CHUNK_ENTRIES] # Empty)

\* Chunks are taken until the batch is full or the table ends.
BatchEnd(table, bits, from) ==
  Min({to \in from + 1..TotalChunks(bits) :
         to = TotalChunks(bits) \/ Len(Places(table, from, to)) >= MAX_REBALANCE_BATCH})

BatchPlan(c, from) ==
  LET bits  == Head(c.queue)
      table == c.index[bits]
      copy(plan, n) ==
        LET chunk == n \div CHUNK_ENTRIES
            entry == table[chunk][n % CHUNK_ENTRIES]
        IN WriteReindexPlan(plan, [word |-> RecoverKeyPrefix(chunk, entry, bits), rest |-> 0],
                            EntryAddress(entry, bits))
  IN FoldLeft(copy, Plan(c), Places(table, from, BatchEnd(table, bits, from)))

(***************************************************************************)
(* Initial states: a new column.                                           *)
(***************************************************************************)
NoReader == [pc |-> "idle"]

NewColumn ==
  [bits |-> START_BITS, queue |-> <<>>, index |-> [b \in {START_BITS} |-> EmptyTable(b)],
   value |-> [t \in Tiers |-> EmptyTier], stats |-> EmptyStats]

\* A column that was closed after these keys were inserted.
Loaded(keys) == FoldLeft(LAMBDA c, k : PlanInsert(c, k, Preimage[k]).col, NewColumn, keys)

Init ==
  /\ scene \in Scenarios
  /\ column = Loaded(scene.loaded)
  /\ files = IF scene.loaded = <<>> THEN {} ELSE {START_BITS}
  /\ saved = [b \in files |-> ToSlice(column.stats)]
  /\ stored = [k \in Keys |-> IF k \in ToSet(scene.loaded) THEN Slot(k, Preimage[k]) ELSE Tombstone]
  /\ progress = 0 /\ next_reindex = 1 /\ last_enacted = 1
  /\ log = <<>> /\ enacted = 0 /\ next_record_id = 1
  /\ log_worker = "idle" /\ commit_worker = "idle" /\ mode = "up"
  /\ reader = NoReader
  /\ ops = 0 /\ stops = 0
  /\ lost = {} /\ orphans = {} /\ exact = TRUE

history == <<stored, lost, orphans, exact>>
disk == <<files, saved>>

\* Who holds tables.read(), and who also reindex.read(): a larger index is put in
\* place under both locks, an index dropped under the second.
HoldsTables == reader.pc # "idle"
HoldsReindex == HoldsTables /\ reader.phase = "queue"

Logged(plan, drop) ==
  /\ plan.col.bits <= MaxBits
  /\ plan.col.bits # column.bits => ~HoldsTables
  /\ column' = plan.col
  /\ log' = Append(log, [id |-> next_record_id, tables |-> plan.tables, drop |-> drop])
  /\ next_record_id' = next_record_id + 1
  /\ next_reindex' = IF plan.reindex THEN next_record_id ELSE next_reindex
  /\ orphans' = orphans \cup plan.orphans

(***************************************************************************)
(* The log worker: commits of one change, and reindex batches.             *)
(***************************************************************************)
\* What the column was told to hold.
Told(k, v) ==
  LET was == stored[k] IN
  IF v = None THEN IF was.rc > 1 THEN [was EXCEPT !.rc = @ - 1] ELSE Tombstone
  ELSE IF was # Tombstone /\ ref_counted THEN [was EXCEPT !.rc = @ + 1]
  ELSE IF was # Tombstone /\ preimage THEN was
  ELSE Slot(k, v)

ProcessCommit(k, v) ==
  LET plan == WritePlan(column, k, v)
      before == SearchAllIndexes(column, k).address
      after  == SearchAllIndexes(column', k).address
  IN
  /\ mode = "up" /\ log_worker = "idle"
  /\ ops < scene.ops /\ ops' = ops + 1
  /\ Logged(plan, 0)
  /\ stored' = [stored EXCEPT ![k] = Told(k, v)]
  /\ lost' = IF plan.lost THEN lost \cup {k} ELSE IF after # 0 \/ v = None THEN lost \ {k} ELSE lost
  /\ exact' = (exact /\ ~(kind = "plain" /\ v # None /\ before # 0
                          /\ Compressed(SlotAt(column, before).val)))
  /\ reader' = IF reader.pc # "idle" /\ reader.key = k
               THEN [reader EXCEPT !.seen = @ \cup {stored'[k].val}, !.moved = @ \/ before # after]
               ELSE reader
  /\ UNCHANGED <<scene, progress, last_enacted, enacted, disk, log_worker, commit_worker, mode, stops>>

\* process_reindex, up to the test of next_reindex.
CheckReindex ==
  /\ mode = "up" /\ log_worker = "idle"
  /\ next_reindex # 0 /\ next_reindex <= last_enacted
  /\ log_worker' = "reindex"
  /\ UNCHANGED <<scene, column, progress, next_reindex, last_enacted, log, enacted, next_record_id,
                 disk, commit_worker, mode, reader, ops, stops, history>>

\* column.reindex() found entries or an index to drop: a record for them.
ReindexBatch ==
  LET bits == Head(column.queue)
      end  == BatchEnd(column.index[bits], bits, progress)
  IN
  /\ log_worker = "reindex" /\ Pending(column, progress)
  /\ Logged(BatchPlan(column, progress), IF end = TotalChunks(bits) THEN bits ELSE 0)
  /\ progress' = end
  /\ log_worker' = "idle"
  /\ UNCHANGED <<scene, last_enacted, enacted, disk, commit_worker, mode, reader, ops, stops,
                 stored, lost, exact>>

\* column.reindex() found nothing ...
NothingToReindex ==
  /\ log_worker = "reindex" /\ ~Pending(column, progress)
  /\ log_worker' = "store"
  /\ UNCHANGED <<scene, column, progress, next_reindex, last_enacted, log, enacted, next_record_id,
                 disk, commit_worker, mode, reader, ops, stops, history>>

\* ... and no reindex is due any more.
StoreNoReindex ==
  /\ log_worker = "store"
  /\ next_reindex' = 0 /\ log_worker' = "idle"
  /\ UNCHANGED <<scene, column, progress, last_enacted, log, enacted, next_record_id,
                 disk, commit_worker, mode, reader, ops, stops, history>>

(***************************************************************************)
(* The commit worker enacts the next record; the cleanup worker forgets    *)
(* enacted ones.                                                           *)
(***************************************************************************)
\* A new index file holds no statistics.
Mapped(tables) ==
  /\ files' = files \cup tables
  /\ saved' = [b \in files' |-> IF b \in files THEN saved[b] ELSE ZeroSlice]

Record == log[enacted + 1]

EnactRecord ==
  /\ mode = "up" /\ commit_worker = "idle" /\ enacted < Len(log)
  /\ IF ~(Record.tables \subseteq {column.bits} \cup ToSet(column.queue))
     THEN mode' = "missing" /\ UNCHANGED <<disk, last_enacted, enacted, commit_worker>>
     ELSE /\ Mapped(Record.tables) /\ UNCHANGED mode
          /\ IF Record.drop = 0
             THEN /\ last_enacted' = Record.id /\ enacted' = enacted + 1
                  /\ UNCHANGED commit_worker
             ELSE commit_worker' = "drop" /\ UNCHANGED <<last_enacted, enacted>>
  /\ UNCHANGED <<scene, column, progress, next_reindex, log, next_record_id, log_worker,
                 reader, ops, stops, history>>

\* drop_index: the front of the queue and its file.
Dropped(c, bits) ==
  [c EXCEPT !.queue = Tail(@), !.index = [b \in DOMAIN @ \ {bits} |-> @[b]]]

IsFront(c, bits) == c.queue # <<>> /\ Head(c.queue) = bits

DropIndex ==
  /\ commit_worker = "drop" /\ ~HoldsReindex
  /\ IsFront(column, Record.drop) /\ Record.drop \in files
  /\ column' = Dropped(column, Record.drop)
  /\ progress' = 0
  /\ files' = files \ {Record.drop} /\ saved' = [b \in files' |-> saved[b]]
  /\ commit_worker' = "dropped"
  /\ reader' = IF HoldsTables THEN [reader EXCEPT !.dropped = TRUE] ELSE reader
  /\ UNCHANGED <<scene, next_reindex, last_enacted, log, enacted, next_record_id, log_worker, mode,
                 ops, stops, history>>

\* Mutant: the next reindex is not scheduled.
FinishDropOnly ==
  /\ commit_worker = "dropped"
  /\ last_enacted' = Record.id /\ enacted' = enacted + 1
  /\ commit_worker' = "idle"
  /\ UNCHANGED <<scene, column, progress, next_reindex, log, next_record_id, disk, log_worker,
                 mode, reader, ops, stops, history>>

\* start_reindex, then the record is enacted.
FinishDrop ==
  /\ commit_worker = "dropped"
  /\ next_reindex' = Record.id
  /\ last_enacted' = Record.id /\ enacted' = enacted + 1
  /\ commit_worker' = "idle"
  /\ UNCHANGED <<scene, column, progress, log, next_record_id, disk, log_worker, mode, reader,
                 ops, stops, history>>

\* clean_logs: log files of enacted records are removed, oldest first.  (Removing some
\* of them is removing all of them earlier; only a later stop shows the difference.)
CleanLogs ==
  /\ mode = "up" /\ commit_worker = "idle" /\ enacted > 0 /\ stops < scene.stops
  /\ log' = SubSeq(log, enacted + 1, Len(log)) /\ enacted' = 0
  /\ UNCHANGED <<scene, column, progress, next_reindex, last_enacted, next_record_id, disk,
                 log_worker, commit_worker, mode, reader, ops, stops, history>>

(***************************************************************************)
(* A reader: Column::get.                                                  *)
(***************************************************************************)
Get(k) ==
  /\ mode = "up" /\ reader.pc = "idle"
  /\ reader' = [pc |-> "entry", phase |-> "index", key |-> k, table |-> column.bits, rest |-> <<>>,
                from |-> 0, entry |-> Empty, result |-> None,
                seen |-> {stored[k].val}, moved |-> FALSE, dropped |-> FALSE]

\* index.get: the next entry that may be the key's.
GetEntry ==
  LET found == FindEntry(reader.key.word, reader.from,
                         ChunkOf(column, reader.table, reader.key.word), reader.table)
  IN
  /\ reader.pc = "entry"
  /\ reader' = IF found.entry # Empty
               THEN [reader EXCEPT !.pc = "value", !.entry = found.entry, !.from = found.sub + 1]
               ELSE [reader EXCEPT !.pc = "table"]

\* The value table is asked for the key at the entry's address.
GetValue ==
  LET address == EntryAddress(reader.entry, reader.table) IN
  /\ reader.pc = "value"
  /\ reader' = IF HasKeyAt(column, address, reader.key)
               THEN [reader EXCEPT !.pc = "done", !.result = SlotAt(column, address).val]
               ELSE [reader EXCEPT !.pc = "entry"]

\* Mutant: only the current index is searched.
GetTableNoQueue == reader.pc = "table" /\ reader' = [reader EXCEPT !.phase = "queue", !.pc = "done"]

\* The next index: those in the reindex queue, whose lock is taken now.
GetTable ==
  LET tables == IF reader.phase = "index" THEN column.queue ELSE reader.rest IN
  /\ reader.pc = "table"
  /\ reader' = IF tables = <<>> THEN [reader EXCEPT !.phase = "queue", !.pc = "done"]
               ELSE [reader EXCEPT !.phase = "queue", !.pc = "entry", !.from = 0,
                                   !.table = Head(tables), !.rest = Tail(tables)]

GetReturns == reader.pc = "done" /\ reader' = NoReader

Reader ==
  /\ (\E k \in scene.reads : Get(k)) \/ GetEntry \/ GetValue \/ GetTable \/ GetReturns
  /\ UNCHANGED <<scene, column, progress, next_reindex, last_enacted, log, enacted, next_record_id,
                 disk, log_worker, commit_worker, mode, ops, stops, history>>

(***************************************************************************)
(* Closing, crashing, opening.                                             *)
(***************************************************************************)
\* The statistics are kept in the file of the current index, when it has one.
LoadStats(bits) == IF bits \in files THEN FromSlice(saved[bits]) ELSE EmptyStats

WriteStats(bits, stats) == [b \in files |-> IF b = bits THEN ToSlice(stats) ELSE saved[b]]

\* Db::collect_stats and Db::clear_stats: only the file is written.  (Only a later stop
\* shows the difference.)
CollectStats == saved' = WriteStats(column.bits, column.stats)

ClearStats == saved' = WriteStats(column.bits, EmptyStats)

StatsCalls ==
  /\ mode = "up" /\ scene.stats /\ stops < scene.stops
  /\ CollectStats \/ ClearStats
  /\ UNCHANGED <<scene, column, progress, next_reindex, last_enacted, log, enacted, next_record_id,
                 files, log_worker, commit_worker, mode, reader, ops, stops, history>>

\* The database is dropped: the records are enacted, the logs removed, and the
\* statistics written, over those that clear_stats may have left.
Close ==
  /\ mode = "up" /\ ~HoldsTables /\ log_worker = "idle" /\ commit_worker = "idle"
  /\ enacted = Len(log)
  /\ stops < scene.stops /\ stops' = stops + 1
  /\ mode' = "closed"
  /\ log' = <<>> /\ enacted' = 0 /\ next_record_id' = 1
  /\ CollectStats
  /\ UNCHANGED <<scene, column, progress, next_reindex, last_enacted, files, log_worker,
                 commit_worker, reader, ops, history>>

Crash ==
  /\ mode \in {"up", "replay"}
  /\ stops < scene.stops /\ stops' = stops + 1
  /\ mode' = "closed"
  /\ reader' = NoReader /\ log_worker' = "idle" /\ commit_worker' = "idle"
  /\ exact' = FALSE
  /\ UNCHANGED <<scene, column, progress, next_reindex, last_enacted, log, enacted, next_record_id,
                 disk, ops, stored, lost, orphans>>

\* The bits that open_existing finds a file for.
Existing == {bits \in START_BITS..64 : bits \in files}

\* Mutant: the older indexes are queued in the order in which they are met.
OpenIndexReversed(c) ==
  LET top == IF Existing = {} THEN START_BITS ELSE Max(Existing) IN
  [c EXCEPT !.bits = top,
            !.queue = SetToSortSeq(Existing \ {top}, >),
            !.index = [b \in DOMAIN @ \cup {top} |-> IF b \in DOMAIN @ THEN @[b] ELSE EmptyTable(b)],
            !.stats = LoadStats(top)]

\* open_index: the file with the most bits is the current index, the others wait to
\* be reindexed, fewest bits first.
OpenIndex(c) ==
  LET top == IF Existing = {} THEN START_BITS ELSE Max(Existing) IN
  [c EXCEPT !.bits = top,
            !.queue = SetToSortSeq(Existing \ {top}, <),
            !.index = [b \in DOMAIN @ \cup {top} |-> IF b \in DOMAIN @ THEN @[b] ELSE EmptyTable(b)],
            !.stats = LoadStats(top)]

Open ==
  /\ mode = "closed"
  /\ column' = OpenIndex(column)
  /\ progress' = 0 /\ next_reindex' = 1
  /\ enacted' = 0
  /\ last_enacted' = IF log = <<>> THEN 1 ELSE log[1].id - 1
  /\ mode' = IF log = <<>> THEN "up" ELSE "replay"
  /\ UNCHANGED <<scene, log, next_record_id, disk, log_worker, commit_worker, reader, ops, stops, history>>

\* validate_plan: a reindex is triggered until there is a table of that many bits.
Relaunched(c, top) ==
  [c EXCEPT !.bits = top, !.queue = @ \o [i \in 1..top - c.bits |-> c.bits + i - 1]]

\* A record is validated, then enacted.  A table that was dropped is never reached:
\* the bits of the index grow until they overflow their byte.
Replay ==
  LET missing == Record.tables \ ({column.bits} \cup ToSet(column.queue))
      c == IF missing = {} THEN column ELSE Relaunched(column, Max(missing))
  IN
  /\ mode = "replay"
  /\ IF \E b \in missing : b < column.bits
     THEN mode' = "overflow" /\ UNCHANGED <<column, progress, disk, next_reindex, last_enacted, enacted>>
     ELSE /\ IF IsFront(c, Record.drop)
             THEN /\ column' = Dropped(c, Record.drop) /\ progress' = 0
                  /\ files' = (files \cup Record.tables) \ {Record.drop}
             ELSE /\ column' = c /\ files' = files \cup Record.tables /\ UNCHANGED progress
          /\ saved' = [b \in files' |-> IF b \in files THEN saved[b] ELSE ZeroSlice]
          /\ next_reindex' = IF Record.drop # 0 THEN Record.id ELSE next_reindex
          /\ last_enacted' = Record.id /\ enacted' = enacted + 1
          /\ mode' = IF enacted + 1 = Len(log) THEN "up" ELSE "replay"
  /\ UNCHANGED <<scene, log, next_record_id, log_worker, commit_worker, reader, ops, stops, history>>

Next ==
  \/ \E k \in scene.writes : \E v \in (IF preimage THEN {Preimage[k]} ELSE Values) \cup {None} :
       ProcessCommit(k, v)
  \/ CheckReindex \/ ReindexBatch \/ NothingToReindex \/ StoreNoReindex
  \/ EnactRecord \/ DropIndex \/ FinishDrop \/ CleanLogs
  \/ Reader
  \/ StatsCalls \/ Close \/ Crash \/ Open \/ Replay

Spec == Init /\ [][Next]_vars

(***************************************************************************)
(* Properties.                                                             *)
(***************************************************************************)
IndexTables(c) == {c.bits} \cup ToSet(c.queue)

\* The entries of the tables in use, as the addresses they hold.
Referenced(c) ==
  UNION {{EntryAddress(chunk[i], b) : i \in {j \in SubIndexes : chunk[j] # Empty}} :
           <<b, chunk>> \in UNION {{<<b, c.index[b][n]>> : n \in Chunks(b)} : b \in IndexTables(c)}}

Occupied(c) ==
  {a \in {Address(o, t) : o \in 1..Len(scene.loaded) + scene.ops + MaxBits, t \in Tiers} :
     Offset(a) \in DOMAIN c.value[SizeTier(a)].slots /\ SlotAt(c, a) # Tombstone}

\* The variables have their types, entries are words and point at slots that exist,
\* and the indexes in the queue are smaller than the current one, in order.
TypeOK ==
  /\ scene \in Scenarios
  /\ mode \in {"up", "closed", "replay", "overflow", "missing"}
  /\ column.bits \in START_BITS..MaxBits
  /\ mode = "up" =>
       /\ IndexTables(column) \subseteq DOMAIN column.index
       /\ files \subseteq IndexTables(column)
       /\ \A i \in 1..Len(column.queue) :
            column.queue[i] < (IF i = Len(column.queue) THEN column.bits ELSE column.queue[i + 1])
       /\ \A a \in Referenced(column) : Offset(a) \in DOMAIN column.value[SizeTier(a)].slots
  /\ \A b \in DOMAIN column.index : column.index[b] \in [Chunks(b) -> [SubIndexes -> Words]]
  /\ enacted \in 0..Len(log)
  /\ log_worker \in {"idle", "reindex", "store"}
  /\ commit_worker \in {"idle", "drop", "dropped"}
  /\ reader.pc \in {"idle", "entry", "value", "table", "done"}
  /\ DOMAIN saved = files

\* Column::get and write_plan find every key that the column was told to hold, with its
\* value and its reference count, in the current index or in one that waits to be
\* reindexed, at every moment of a reindex and after every restart.  The exception: a
\* value that moved to another tier while its entry was in an older index, and whose new
\* entry found a full chunk (column.rs:368 returns NeedReindex and nobody retries).
KeysAreFound ==
  mode = "up" =>
    \A k \in Keys \ lost :
      LET found == SearchAllIndexes(column, k) IN
      IF stored[k] = Tombstone THEN found = NotFound
      ELSE found # NotFound /\ SlotAt(column, found.address) = stored[k]

\* Every slot that is in use has an index entry that leads to it, but for the slots that
\* write_plan claimed before it found that it has to start over with a larger index (one
\* for each reindex it triggers) or whose entry found no place.
SlotsAreIndexed ==
  mode = "up" => Occupied(column) \subseteq Referenced(column) \cup orphans

\* A get that overlaps commits and reindexing returns a value that the key had during
\* the get.  It misses a key that was there throughout only when the value moved to
\* another tier, or an index was dropped, between two of its steps.
ReadsAreCurrent ==
  reader.pc = "done" =>
    \/ reader.result \in reader.seen
    \/ reader.result = None /\ (reader.moved \/ reader.dropped \/ reader.key \in lost)

\* A reindex that has work left stays scheduled: once a database is open, only
\* the store of 0 at the end of process_reindex (db.rs:443), made after commit_worker
\* scheduled the next one, can leave an index in the queue with nobody to continue it.
Scheduled == Pending(column, progress) /\ commit_worker # "dropped" => next_reindex # 0
ReindexStaysScheduled ==
  [][(mode = "up" /\ mode' = "up" /\ Scheduled) => (Scheduled' \/ log_worker = "store")]_vars

\* Every record can be enacted: no plan writes to an index table that an earlier record
\* drops, although write_plan searches that table until the record is enacted.  The
\* exception: a reindex that triggers another one copies entries into a table that is then
\* itself in the queue, behind the one to be dropped, so that write_plan finds the old
\* entry first; enact_plan then stops with "Missing table" (column.rs:455).
RecordsCanBeEnacted == mode = "missing" => column.queue # <<>>

\* The statistics of the values are those of the values in the column, through
\* reindexing and a clean close, until a crash loses them or a compressed value is
\* replaced (replace_val then gets its first two arguments in the wrong order).
StatsOf(held) ==
  FoldSet(LAMBDA k, stats : IF held[k] = Tombstone THEN stats
                            ELSE InsertVal(stats, Size[held[k].val], StoredLen(held[k].val)),
          EmptyStats, Keys)
StatsAreExact == mode = "up" /\ exact /\ lost = {} => column.stats = StatsOf(stored)

(***************************************************************************)
(* Iteration, as migration and check use it.                               *)
(***************************************************************************)
\* An entry stands for the key with its prefix and with the rest that the slot has.
IterKey(chunk, entry, bits, pk) ==
  [word |-> (RecoverKeyPrefix(chunk, entry, bits) \div 2 ^ PK_BITS) * 2 ^ PK_BITS + pk[1],
   rest |-> pk[2]]

\* The entries of the current index, as <<chunk, entry>>; migration skips those that lead
\* to a table it has walked already.
IterEntries(c, skip_preimage_indexes) ==
  {<<p[1], c.index[c.bits][p[1]][p[2]]>> :
     p \in {q \in Chunks(c.bits) \X SubIndexes :
             LET entry == c.index[c.bits][q[1]][q[2]] IN
             /\ entry # Empty
             /\ skip_preimage_indexes /\ preimage
                  => SizeTier(EntryAddress(entry, c.bits)) = LastTier}}

SlotOf(c, e) == SlotAt(c, EntryAddress(e[2], c.bits))

\* The entries that are reported as corrupted: they lead to a removed slot.
IterCorrupted(c, skip) == {e \in IterEntries(c, skip) : SlotOf(c, e) = Tombstone}

IterIndex(c, skip) ==
  {[key |-> IterKey(e[1], e[2], c.bits, SlotOf(c, e).pk), slot |-> SlotOf(c, e)] :
     e \in IterEntries(c, skip) \ IterCorrupted(c, skip)}

\* Value tables other than the last are walked slot by slot; the key is the hash of
\* the value.
IterValues(c) ==
  {[key |-> CHOOSE k \in Keys : Preimage[k] = slot.val, slot |-> slot] :
     slot \in UNION {ToSet(c.value[t].slots) \ {Tombstone} : t \in Tiers \ {LastTier}}}

\* iter_while, which migration uses.
IterItems(c) == (IF preimage THEN IterValues(c) ELSE {}) \cup IterIndex(c, TRUE)

\* check_from_index, which goes on after a corrupted entry.
CheckItems(c) == IterIndex(c, FALSE)

Held(k) == [key |-> k, slot |-> stored[k]]

\* An iteration of a column that has no index to reindex yields every key it holds, put
\* together again from the index entry and the slot, with its value and count: the
\* iteration of a migration as well as that of a check.
IterationIsComplete ==
  mode = "up" /\ column.queue = <<>> =>
    \A k \in Keys \ lost :
      stored[k] # Tombstone => Held(k) \in IterItems(column) \cap CheckItems(column)

\* In a column of preimages that was reindexed at most once, and not stopped since it was
\* loaded, an iteration meets no entry without a value (which would end a migration with
\* an error), a check yields nothing that the column does not hold, and a migration
\* nothing but that and the slots that write_plan left behind.  (Otherwise entries of
\* removed slots reach the current index: a value that moves to another tier leaves one
\* behind, a stopped reindex starts over, and one that triggers the next has made copies
\* that a removal, which finds the oldest first, does not reach.)
IterationIsExact ==
  mode = "up" /\ column.queue = <<>> /\ column.bits <= START_BITS + 1 /\ stops = 0 /\ preimage =>
    LET held == {Held(k) : k \in {j \in Keys : stored[j] # Tombstone}} IN
    /\ IterCorrupted(column, FALSE) = {}
    /\ CheckItems(column) \subseteq held
    /\ \A item \in IterItems(column) \ held :
         \E a \in orphans : SlotAt(column, a) = item.slot

\* README.md:23: "Database should be restored to consistent state if IO is interrupted
\* at any point."  Here: an interrupted database can be opened again.
CanBeReopened == mode # "overflow"
=============================================================================
