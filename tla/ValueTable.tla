---------------------------- MODULE ValueTable ----------------------------
(***************************************************************************)
(* One value table with multipart entries: its slots, the list of free     *)
(* slots, its file, and the slots on their way through the log.            *)
(*                                                                         *)
(* The log worker plans the operations of a commit on the table (`plan`),  *)
(* end_record shows them in the log overlay, the commit worker writes them *)
(* to the file slot by slot.  A reader follows the chain of a value, one   *)
(* slot at a time, overlay first.  The log keeps its records and their     *)
(* order over a crash: that is the subject of WriteAheadLog.               *)
(*                                                                         *)
(* Sizes are in units: a slot has SlotSpace of them, a link to the next    *)
(* part takes INDEX_SIZE, the reference count and the partial key together *)
(* take HeaderSize.  A value is a sequence of Length[v] units <<v, j>>.    *)
(* The index is the ghost `live`: where the entry of a key begins.         *)
(***************************************************************************)
EXTENDS Integers, FiniteSets, SequencesExt

CONSTANTS
  Keys, Values, None,
  Length,          (* the units of a value                                 *)
  RefCounted,      (* may the column be counted, may it not: {TRUE, FALSE}  *)
  LOCKED_REF,
  SlotSpace, INDEX_SIZE, HeaderSize,
  GrowSlots,       (* GROW_SIZE_BYTES / entry_size                         *)
  CommitsLeft,     (* may commits be queued behind one that fails?         *)
  MaxSlots,        (* bound on the slots                                   *)
  MaxOps,          (* bound on the operations                              *)
  MaxRecordOps,    (* bound on the operations of a commit                  *)
  MaxStops         (* bound on the crashes and shutdowns                   *)

LinkSpace == SlotSpace - INDEX_SIZE

ASSUME SizesAssumption ==
  /\ Length \in [Values -> Nat]
  /\ {SlotSpace, INDEX_SIZE, HeaderSize, LOCKED_REF, GrowSlots, MaxSlots, MaxOps,
      MaxRecordOps, MaxStops} \subseteq Nat
  /\ LinkSpace > HeaderSize /\ GrowSlots > 0 /\ LOCKED_REF > 1
  /\ RefCounted \subseteq BOOLEAN /\ CommitsLeft \in BOOLEAN

Slots == 1..MaxSlots

VARIABLES
  ref_counted,     (* never changes                                        *)
  filled, last_removed, dirty_header,   (* ValueTable                      *)
  exists, length, capacity,   (* TableFile: its file, the slots in it, and *)
                              (* the slots it believes to be in it         *)
  file,            (* the slots in the file                                *)
  header,          (* slot 0: what the file holds of last_removed, filled  *)
  plan,            (* LogWriter: the slots that the record will change     *)
  overlay,         (* LogOverlays: [id, entry] or None for every slot      *)
  log,             (* the records that are not enacted                     *)
  record_id, enacted,   (* the last record; the slots of log[1] in the file*)
  mode,            (* "up", "drop" (kill_logs), "closed" or "replay"       *)
  live,            (* ghost: [at, value, rc] or None for every key         *)
  restored,        (* ghost: live as of the last enacted record            *)
  shown, cleaning, (* ghost: planned keys that are in the commit overlay;  *)
                   (* are they about to be removed from it?                *)
  index,           (* ghost: live as of the last ended record              *)
  reader,
  ops, planned, stops

header_vars == <<filled, last_removed, dirty_header>>
file_vars == <<exists, length, capacity, file, header>>
plan_vars == <<plan, live, shown, cleaning, planned>>
log_vars == <<overlay, log, record_id, index>>
enact_vars == <<enacted, restored>>
vars == <<ref_counted, header_vars, file_vars, plan_vars, log_vars, enact_vars, mode, reader,
          ops, stops>>

----------------------------------------------------------------------------
(***************************************************************************)
(* Entries.  mark is the first two bytes; an entry with mark "size" is a   *)
(* complete entry or the last part of a value.  A slot that was never      *)
(* written is all zero, which reads as an entry of size 0.                 *)
(***************************************************************************)
Entry(mark, next, rc, data) == [mark |-> mark, next |-> next, rc |-> rc, data |-> data]

Zero == Entry("size", 0, 0, <<>>)
Tombstone(next) == Entry("tombstone", next, 0, <<>>)
IsMulti(e) == e.mark \in {"multihead", "multipart"}

ZeroHeader == [last_removed |-> 0, filled |-> 0]

Units(v) == [j \in 1..Length[v] |-> <<v, j>>]

\* Partial key and counter, and the units of the value behind them.
Content(k, v) == [j \in 1..HeaderSize |-> k] \o Units(v)

\* How many slots overwrite_chain uses.
PartCount(size) ==
  CHOOSE n \in 1..MaxSlots + 1 :
    /\ size - (n - 1) * LinkSpace <= SlotSpace
    /\ n > 1 => size - (n - 2) * LinkSpace > SlotSpace

\* What overwrite_chain writes to the slots s, one part to each.
Parts(k, v, s) ==
  LET c == Content(k, v) IN
  [j \in 1..Len(s) |->
     IF j < Len(s)
     THEN Entry(IF j = 1 THEN "multihead" ELSE "multipart", s[j + 1],
                IF j = 1 THEN 1 ELSE 0,
                SubSeq(c, (j - 1) * LinkSpace + 1, j * LinkSpace))
     ELSE Entry("size", 0, IF j = 1 THEN 1 ELSE 0,
                SubSeq(c, (j - 1) * LinkSpace + 1, Len(c)))]

----------------------------------------------------------------------------
(***************************************************************************)
(* What the log worker sees: its plan, the log overlays, the file.         *)
(***************************************************************************)
View(i) ==
  IF plan[i] # None THEN plan[i]
  ELSE IF overlay[i] # None THEN overlay[i].entry ELSE file[i]

\* read_exact_at fails behind the end of the file.
Readable(i) == plan[i] # None \/ overlay[i] # None \/ (exists /\ i < length)

\* The slots of the chain that begins in slot i.
Chain(i) ==
  LET walk[n \in 0..MaxSlots] ==
        IF n = 0 THEN <<i>>
        ELSE LET last == View(Last(walk[n - 1])) IN
             IF IsMulti(last) THEN Append(walk[n - 1], last.next) ELSE walk[n - 1]
  IN walk[MaxSlots]

\* Mutant: last_removed is not stored.
NextFreeStays(p) ==
  IF p.last_removed # 0 THEN [p EXCEPT !.got = Append(@, p.last_removed)]
  ELSE [p EXCEPT !.filled = @ + 1, !.got = Append(@, p.filled)]

\* next_free, called on the pointers p; p.got collects its results.
NextFree(p) ==
  IF p.last_removed # 0
  THEN [p EXCEPT !.last_removed = View(p.last_removed).next,
                 !.got = Append(@, p.last_removed)]
  ELSE [p EXCEPT !.filled = @ + 1, !.got = Append(@, p.filled)]

\* n calls of next_free.
Allocate(n) ==
  LET call[m \in 0..n] ==
        IF m = 0 THEN [last_removed |-> last_removed, filled |-> filled, got |-> <<>>]
        ELSE NextFree(call[m - 1])
  IN call[n]

\* clear_chain: the slots s become free one after the other, the last one
\* at the head of the list.
Freed(s) ==
  [j \in 1..Len(s) |-> Tombstone(IF j = 1 THEN last_removed ELSE s[j - 1])]

\* LogWriter::insert_value of entries[j] at s[j], for every j.
Inserted(p, s, entries) ==
  [i \in Slots |-> IF i \in Range(s) THEN entries[CHOOSE j \in DOMAIN s : s[j] = i]
                   ELSE p[i]]

Nothing == [i \in Slots |-> None]
NoReader == [pc |-> "idle", key |-> None, value |-> None, slot |-> 0, part |-> 0,
             got |-> <<>>, answer |-> None]

Init ==
  /\ ref_counted \in RefCounted
  /\ filled = 1 /\ last_removed = 0 /\ dirty_header = FALSE
  /\ exists = FALSE /\ length = 0 /\ capacity = 0
  /\ file = [i \in Slots |-> Zero] /\ header = ZeroHeader
  /\ plan = Nothing /\ overlay = Nothing /\ log = <<>> /\ record_id = 0
  /\ enacted = {} /\ mode = "up"
  /\ live = [k \in Keys |-> None] /\ index = live /\ restored = live
  /\ shown = {} /\ cleaning = FALSE /\ reader = NoReader /\ ops = 0 /\ planned = 0 /\ stops = 0

(***************************************************************************)
(* The log worker plans a commit, and kill_logs after it.                  *)
(*                                                                         *)
(* An operation on a key that the commit overlay shows does not meet a     *)
(* reader of the key behind the overlay: commit_raw waits for the reader's *)
(* lock, and a reader that comes later is answered by the overlay.         *)
(***************************************************************************)
Plan ==
  /\ mode \in (IF CommitsLeft THEN {"up", "drop"} ELSE {"up"})
  /\ ~cleaning /\ ops < MaxOps /\ planned < MaxRecordOps
  /\ ops' = ops + 1 /\ planned' = planned + 1
  /\ UNCHANGED <<cleaning, ref_counted, file_vars, log_vars, enact_vars, mode, reader, stops>>

Shown(k) == reader.key # k /\ shown' = shown \cup {k}

\* has_key_at, for the slot that the index has for k.
HasKeyAt(k) ==
  /\ live[k] # None
  /\ LET e == View(live[k].at) IN e.mark # "tombstone" /\ e.data # <<>> /\ Head(e.data) = k

\* write_insert_plan.
WriteInsertPlan(k, v) ==
  LET new == Allocate(PartCount(HeaderSize + Length[v])) IN
  /\ Plan /\ Shown(k) /\ ~HasKeyAt(k)
  /\ new.filled <= MaxSlots + 1 /\ \A i \in Range(new.got) : i < filled => Readable(i)
  /\ plan' = Inserted(plan, new.got, Parts(k, v, new.got))
  /\ last_removed' = new.last_removed /\ filled' = new.filled /\ dirty_header' = TRUE
  /\ live' = [live EXCEPT ![k] = [at |-> new.got[1], value |-> v, rc |-> 1]]

\* write_replace_plan with a value that needs more slots ...
WriteReplaceLonger(k, v) ==
  LET old == Chain(live[k].at)
      n == PartCount(HeaderSize + Length[v]) - Len(old)
      new == Allocate(n)
      s == old \o new.got
  IN
  /\ Plan /\ Shown(k) /\ ~ref_counted /\ HasKeyAt(k)
  /\ n > 0 /\ new.filled <= MaxSlots + 1
  /\ \A i \in Range(s) : i < filled => Readable(i)
  /\ plan' = Inserted(plan, s, Parts(k, v, s))
  /\ last_removed' = new.last_removed /\ filled' = new.filled /\ dirty_header' = TRUE
  /\ live' = [live EXCEPT ![k].value = v]

\* ... and with one that does not: clear_chain frees the rest of the chain.
WriteReplaceShorter(k, v) ==
  LET old == Chain(live[k].at)
      n == PartCount(HeaderSize + Length[v])
      s == SubSeq(old, 1, n)
      rest == SubSeq(old, n + 1, Len(old))
  IN
  /\ Plan /\ Shown(k) /\ ~ref_counted /\ HasKeyAt(k)
  /\ n <= Len(old) /\ \A i \in Range(old) : Readable(i)
  /\ plan' = Inserted(Inserted(plan, s, Parts(k, v, s)), rest, Freed(rest))
  /\ last_removed' = IF rest = <<>> THEN last_removed ELSE Last(rest)
  /\ dirty_header' = (dirty_header \/ rest # <<>>)
  /\ live' = [live EXCEPT ![k].value = v]
  /\ UNCHANGED filled

\* Mutant: clear_slot does not mark the header dirty.
RemoveChainClean(k) ==
  LET s == Chain(live[k].at) IN
  /\ \A i \in Range(s) : Readable(i)
  /\ plan' = Inserted(plan, s, Freed(s))
  /\ last_removed' = Last(s) /\ live' = [live EXCEPT ![k] = None]
  /\ UNCHANGED <<filled, dirty_header>>

\* write_remove_plan.
RemoveChain(k) ==
  LET s == Chain(live[k].at) IN
  /\ \A i \in Range(s) : Readable(i)
  /\ plan' = Inserted(plan, s, Freed(s))
  /\ last_removed' = Last(s) /\ dirty_header' = TRUE
  /\ live' = [live EXCEPT ![k] = None]
  /\ UNCHANGED filled

WriteRemovePlan(k) ==
  /\ Plan /\ Shown(k) /\ ~ref_counted /\ HasKeyAt(k)
  /\ RemoveChain(k)

\* change_ref stores the counter of the head with the rest of its slot.
ChangeRef(k, counter) ==
  LET i == live[k].at IN
  /\ Readable(i)
  /\ plan' = [plan EXCEPT ![i] = [View(i) EXCEPT !.rc = counter]]
  /\ live' = [live EXCEPT ![k].rc = counter]
  /\ UNCHANGED header_vars

Counter(k) == View(live[k].at).rc

\* write_inc_ref.
WriteIncRef(k) ==
  /\ Plan /\ Shown(k) /\ ref_counted /\ HasKeyAt(k)
  /\ ChangeRef(k, IF Counter(k) >= LOCKED_REF - 1 THEN LOCKED_REF ELSE Counter(k) + 1)

\* write_dec_ref.  commit_raw does not put it in the commit overlay.
WriteDecRef(k) ==
  /\ Plan /\ ref_counted /\ HasKeyAt(k)
  /\ IF Counter(k) = LOCKED_REF THEN ChangeRef(k, LOCKED_REF)
     ELSE IF Counter(k) > 1 THEN ChangeRef(k, Counter(k) - 1) ELSE RemoveChain(k)
  /\ UNCHANGED shown

\* process_commits: complete_plan and end_record ...
EndRecord ==
  /\ planned > 0
  /\ record_id' = record_id + 1
  /\ log' = Append(log, [id |-> record_id', slots |-> plan, live |-> live,
                         header |-> IF dirty_header
                                    THEN [last_removed |-> last_removed, filled |-> filled]
                                    ELSE None])
  /\ overlay' = [i \in Slots |-> IF plan[i] = None THEN overlay[i]
                                  ELSE [id |-> record_id', entry |-> plan[i]]]
  /\ dirty_header' = FALSE /\ plan' = Nothing /\ index' = live
  /\ cleaning' = TRUE /\ planned' = 0
  /\ UNCHANGED <<ref_counted, filled, last_removed, file_vars, live, shown, enact_vars,
                 mode, reader, ops, stops>>

\* ... and the cleanup of the commit overlay, for which it takes the lock that
\* a reader holds until its answer is complete.
CleanCommitOverlay ==
  /\ cleaning /\ reader.pc \notin {"overlay", "file"}
  /\ cleaning' = FALSE /\ shown' = {}
  /\ UNCHANGED <<ref_counted, header_vars, file_vars, plan, live, planned, log_vars,
                 enact_vars, mode, reader, ops, stops>>

\* A write_plan or end_record (after complete_plan) fails: the record is
\* dropped, the pointers are not.  The log worker stops; when the database is
\* dropped, kill_logs goes on with the commits that are left.
PlanFails ==
  /\ mode = "up" /\ planned > 0
  /\ mode' = "drop" /\ reader' = NoReader
  /\ dirty_header' \in {dirty_header, FALSE}
  /\ plan' = Nothing /\ live' = index /\ shown' = {} /\ planned' = 0
  /\ UNCHANGED <<cleaning, ref_counted, filled, last_removed, file_vars, log_vars, enact_vars, ops,
                 stops>>

(***************************************************************************)
(* The commit worker enacts the first record, in any order of its slots.   *)
(***************************************************************************)
Pending ==
  {i \in Slots : log[1].slots[i] # None} \cup (IF log[1].header # None THEN {0} ELSE {})

\* ValueTable::enact_plan and TableFile::grow.  Every growth sets the length
\* of the file to the new capacity.
EnactSlot(i) ==
  LET grows == i >= capacity
      kept == IF grows /\ capacity + GrowSlots < length THEN capacity + GrowSlots
              ELSE length
  IN
  /\ mode # "closed" /\ log # <<>> /\ i \in Pending \ enacted
  /\ capacity' = IF grows THEN (i \div GrowSlots + 1) * GrowSlots ELSE capacity
  /\ length' = IF grows THEN capacity' ELSE length
  /\ exists' = TRUE
  /\ file' = [j \in Slots |-> IF j = i THEN log[1].slots[i]
                              ELSE IF j < kept THEN file[j] ELSE Zero]
  /\ header' = IF i = 0 THEN log[1].header ELSE header
  /\ enacted' = enacted \cup {i}
  /\ UNCHANGED <<ref_counted, header_vars, plan_vars, log_vars, restored, mode, reader,
                 ops, stops>>

\* Mutant: end_read removes the entries of later records too.
EndReadAnyRecord ==
  /\ mode # "closed" /\ log # <<>> /\ enacted = Pending
  /\ overlay' = [i \in Slots |-> IF log[1].slots[i] # None THEN None ELSE overlay[i]]
  /\ log' = Tail(log) /\ restored' = log[1].live /\ enacted' = {}
  /\ UNCHANGED <<ref_counted, header_vars, file_vars, plan_vars, record_id, index, mode,
                 reader, ops, stops>>

\* Log::end_read.
EndRead ==
  /\ mode # "closed" /\ log # <<>> /\ enacted = Pending
  /\ overlay' = [i \in Slots |->
                   IF /\ log[1].slots[i] # None /\ overlay[i] # None
                      /\ overlay[i].id = log[1].id
                   THEN None ELSE overlay[i]]
  /\ log' = Tail(log) /\ restored' = log[1].live /\ enacted' = {}
  /\ UNCHANGED <<ref_counted, header_vars, file_vars, plan_vars, record_id, index, mode,
                 reader, ops, stops>>

(***************************************************************************)
(* Crash, shutdown, open.                                                  *)
(***************************************************************************)
\* The process ends.  Records that were not synced may be lost, and TableFile
\* may have created its file but not yet sized it.
Stop ==
  /\ mode # "closed" /\ stops < MaxStops /\ stops' = stops + 1
  /\ mode' = "closed"
  /\ \E n \in (IF enacted = {} THEN 0 ELSE 1)..Len(log) :
       /\ log' = SubSeq(log, 1, n)
       /\ live' = (IF n = 0 THEN restored ELSE log[n].live)
  /\ index' = live'
  /\ exists' \in {exists, exists \/ log # <<>>}
  /\ filled' = 1 /\ last_removed' = 0 /\ dirty_header' = FALSE /\ capacity' = 0
  /\ plan' = Nothing /\ overlay' = Nothing /\ shown' = {} /\ cleaning' = FALSE
  /\ planned' = 0 /\ enacted' = {} /\ reader' = NoReader
  /\ UNCHANGED <<ref_counted, length, file, header, record_id, restored, ops>>

\* Mutant: the header of a new file is taken as it is.
ReadHeaderOnly == last_removed' = header.last_removed /\ filled' = header.filled

\* ValueTable::refresh_metadata.
ReadHeader ==
  /\ last_removed' = header.last_removed
  /\ filled' = IF header.filled = 0 THEN 1 ELSE header.filled

\* TableFile::open and ValueTable::open.
Open ==
  /\ mode = "closed" /\ mode' = "replay"
  /\ IF exists /\ length = 0
     THEN capacity' = GrowSlots /\ length' = GrowSlots
     ELSE capacity' = 0 /\ length' = length
  /\ IF exists THEN ReadHeader ELSE UNCHANGED <<last_removed, filled>>
  /\ UNCHANGED <<ref_counted, dirty_header, exists, file, header, plan_vars, log_vars,
                 enact_vars, reader, ops, stops>>

\* replay_all_logs has enacted every record and calls refresh_metadata.
Replayed ==
  /\ mode = "replay" /\ log = <<>> /\ mode' = "up"
  /\ IF exists THEN ReadHeader ELSE UNCHANGED <<last_removed, filled>>
  /\ UNCHANGED <<ref_counted, dirty_header, file_vars, plan_vars, log_vars, enact_vars,
                 reader, ops, stops>>

(***************************************************************************)
(* A reader: DbInner::get behind the commit overlay.                       *)
(***************************************************************************)
Read(r) ==
  /\ reader' = r
  /\ UNCHANGED <<ref_counted, header_vars, file_vars, plan_vars, log_vars, enact_vars,
                 mode, ops, stops>>

\* get finds the entry of k in the index.
Get(k) ==
  /\ mode = "up" /\ reader.pc = "idle" /\ k \notin shown /\ index[k] # None
  /\ Read([NoReader EXCEPT !.pc = "overlay", !.key = k, !.value = index[k].value,
                           !.slot = index[k].at])

\* One turn of the loop of for_parts, with the entry it has read.
ForParts(e) ==
  LET got == IF reader.part = 0 THEN SubSeq(e.data, HeaderSize + 1, Len(e.data))
             ELSE reader.got \o e.data
      missed == \/ e.mark = "tombstone"
                \/ reader.part = 0 /\ (e.data = <<>> \/ Head(e.data) # reader.key)
  IN
  Read(IF missed THEN [reader EXCEPT !.pc = "done", !.got = <<>>]
       ELSE IF IsMulti(e) THEN [reader EXCEPT !.pc = "overlay", !.slot = e.next,
                                              !.part = @ + 1, !.got = got]
       ELSE [reader EXCEPT !.pc = "done", !.answer = got, !.got = <<>>])

QueryOverlay ==
  /\ reader.pc = "overlay"
  /\ IF overlay[reader.slot] # None THEN ForParts(overlay[reader.slot].entry)
     ELSE Read([reader EXCEPT !.pc = "file"])

QueryFile ==
  /\ reader.pc = "file"
  /\ IF exists /\ reader.slot < length THEN ForParts(file[reader.slot])
     ELSE Read([reader EXCEPT !.pc = "failed"])

Return ==
  /\ reader.pc \in {"done", "failed"}
  /\ Read(NoReader)

Next ==
  \/ \E k \in Keys, v \in Values :
       WriteInsertPlan(k, v) \/ WriteReplaceLonger(k, v) \/ WriteReplaceShorter(k, v)
  \/ \E k \in Keys : WriteRemovePlan(k) \/ WriteIncRef(k) \/ WriteDecRef(k)
  \/ EndRecord \/ CleanCommitOverlay \/ PlanFails
  \/ (\E i \in 0..MaxSlots : EnactSlot(i)) \/ EndRead
  \/ Stop \/ Open \/ Replayed
  \/ (\E k \in Keys : Get(k)) \/ QueryOverlay \/ QueryFile \/ Return

Spec == Init /\ [][Next]_vars

----------------------------------------------------------------------------
(***************************************************************************)
(* Properties.                                                             *)
(***************************************************************************)
Entries ==
  [mark : {"size", "multihead", "multipart", "tombstone"}, next : 0..MaxSlots,
   rc : 0..LOCKED_REF, data : Seq(Keys \cup (Values \X Nat))]

\* The types of the table, its file, the log and the reader.
TypeOK ==
  /\ filled \in 1..MaxSlots + 1 /\ last_removed \in 0..MaxSlots
  /\ dirty_header \in BOOLEAN /\ exists \in BOOLEAN
  /\ length \in Nat /\ capacity \in 0..length
  /\ file \in [Slots -> Entries]
  /\ header \in [last_removed : 0..MaxSlots, filled : 0..MaxSlots + 1]
  /\ plan \in [Slots -> Entries \cup {None}]
  /\ \A i \in Slots : overlay[i] = None \/ overlay[i].entry \in Entries
  /\ enacted \subseteq 0..MaxSlots /\ mode \in {"up", "drop", "closed", "replay"}
  /\ live \in [Keys -> [at : Slots, value : Values, rc : 1..LOCKED_REF] \cup {None}]
  /\ reader.pc \in {"idle", "overlay", "file", "done", "failed"}

\* The free slots from last_removed on; a list that ends in a cycle or in a
\* slot that is not free is not a free list.
FreeList ==
  LET walk[n \in 0..MaxSlots] ==
        IF n = 0 THEN (IF last_removed = 0 THEN <<>> ELSE <<last_removed>>)
        ELSE LET w == walk[n - 1] IN
             IF w = <<>> \/ View(Last(w)).next = 0 THEN w
             ELSE Append(w, View(Last(w)).next)
  IN walk[MaxSlots]

\* Every slot below `filled` is in the free list or in the chain of one key,
\* once: overwrite_chain and clear_chain neither leak a slot nor use one twice,
\* and the header that complete_plan logs brings the list back after a crash.
SlotsArePartitioned ==
  mode = "up" =>
    LET free == FreeList
        used == {k \in Keys : live[k] # None}
        chain == [k \in used |-> Chain(live[k].at)]
    IN
    /\ IsInjective(free) /\ \A i \in Range(free) : View(i).mark = "tombstone"
    /\ \A k \in used : IsInjective(chain[k]) /\ Range(chain[k]) \cap Range(free) = {}
    /\ \A j, k \in used : j # k => Range(chain[j]) \cap Range(chain[k]) = {}
    /\ Range(free) \cup UNION {Range(chain[k]) : k \in used} = 1..filled - 1

\* for_parts finds through the log worker's view what was stored under k: its
\* units in their order, its key and its counter.
IsStored(k) ==
  LET s == Chain(live[k].at) IN
  /\ \A i \in Range(s) : Readable(i) /\ View(i).mark # "tombstone"
  /\ View(s[1]).rc = live[k].rc
  /\ FlattenSeq([j \in DOMAIN s |-> View(s[j]).data]) = Content(k, live[k].value)

\* Every value is stored whole under its key, while overwrite_chain, clear_chain
\* and change_ref work on its neighbours, and after a failed commit and a
\* restart; no commit is queued behind the failed one.
ValuesAreStored ==
  mode \in {"up", "drop"} => \A k \in Keys : live[k] # None => IsStored(k)

\* A get answers with the whole value that its key had when the get left the
\* commit overlay, while the chain moves from the overlay to the file under it.
\* The exception: the value is counted and its last reference is removed during
\* the get.  commit_raw keeps dereferences out of the commit overlay (db.rs:269)
\* and for_parts compares the key in the first part only (table.rs:409), so the
\* get can go on in a slot that another value has taken.
ReadsAreWhole ==
  reader.pc = "done" =>
    \/ reader.answer = Units(reader.value)
    \/ ref_counted /\ index[reader.key] = None

\* "Value table is linear array of fixed-size entries that can grow as
\* necessary" (README.md:34): TableFile::grow keeps the entries that the record
\* does not write.
GrowthKeepsEntries ==
  [][\A i \in Slots : i < length /\ file'[i] # file[i] => i \in Pending]_vars

\* "Database should be restored to consistent state if IO is interrupted at any
\* point" (README.md:23), also when it is a plan that a read or a write of the
\* log interrupts: the values that were logged are stored.
RestoredIsConsistent ==
  mode = "up" => \A k \in Keys : live[k] # None => IsStored(k)

============================================================================
