# Verification of axia-db

TLA+ specifications of the database in `src/`, checked with TLC on small
instances and, for the commit pipeline, proved with TLAPS for every instance.

## The system

A database is a directory with one index and 16 value tables per column, and a
set of log files. A commit passes through these places:

    commit_raw -> commit queue + commit overlay          (caller)
    process_commits -> log record + log overlays         (log worker)
    flush_one: appending -> flushing (fsync) -> reading  (flush worker)
    enact_logs -> tables; end_read clears the overlays   (commit worker)
    cleanup_logs: fsync tables, truncate log, pool       (cleanup worker)

| Part | State | Operations | Interacts with |
|---|---|---|---|
| Commit pipeline (`db.rs`) | queue, commit overlay, record ids | `commit_raw`, `process_commits`, `get` | log, columns |
| Log (`log.rs`) | overlays, log files and their roles, reading state | `end_record`, `flush_one`, `read_next`, `end_read`, `clean_logs`, `replay_next`, `clear_replay_logs`, `kill_logs` | all workers |
| Workers (`db.rs`) | condition variables, `shutdown`, `bg_err`, log queue bytes | four worker loops, `store_err`, `Drop` | pipeline, log |
| Column (`column.rs`) | current index, reindex queue, value tables | `get`, `write_plan`, `enact_plan`, `reindex`, `drop_index` | index, tables, log |
| Value table (`table.rs`) | slots, free list, filled count, multipart chains, reference counts | insert, replace, remove, inc/dec reference | log, file |
| Index (`index.rs`) | chunks of 64 entries | insert, remove, search | log |
| Table file (`file.rs`) | capacity, dirty flag | read, write, grow, flush | operating system |
| Options (`options.rs`) | metadata file | load, write, compare | column, migration |
| Migration (`migration.rs`, `admin/`) | source, destination and temporary directory | iterate and commit, copy, move, write metadata | two databases |
| Statistics (`stats.rs`), compression (`compress.rs`) | counters in the index header | insert, replace, remove a value; choice of the tier | column |

What is hard to test here: `get` looks in three places while two workers move the
key between them; each worker updates a shared place after a later commit may
have replaced its entry; a crash can fall between any two file operations, also
during a replay or a shutdown; the queues have limits and the workers wait for
each other; a shutdown or an error races with a worker that is about to wait; an
index is copied into a larger one in batches while commits change both.
`PROJECT.json` lists these hazards with their lines, including those that no
property covers.

## Modules

| Module | Models |
|---|---|
| `Cells` | what a commit does to one key: `Column::write_plan` and the reference counts of `ValueTable::change_ref` |
| `AtomicStore` | the abstract specification: a map changed by atomic commits, and gets |
| `CommitPipeline` | queue, overlays, log, tables and readers of an open database |
| `CommitPipelineLemmas`, `CommitPipelineSteps`, `CommitPipelineProofs` | its proofs: operators and frames, the steps of the workers, readers and theorems |
| `WriteAheadLog` | log files, replay, cleanup, shutdown, crashes, the dirty flag of table files |
| `Workers` | threads, condition variables, limits, errors, `Drop` |
| `ValueTable` | slots, free list, multipart chains and counters of one value table, its file, its records in the log, a reader |
| `IndexTable` | index entries and addresses as bit fields of words, chunks, search, recovery of key prefixes |
| `Statistics` | the histogram and counters of values, with their width |
| `Column` | current index, reindex queue, value tiers and statistics of one column; log worker, commit worker, reader, close, crash and replay; iteration |
| `Migration` | `migrate`, the command around it, metadata files, interruptions |
| `MC*` | instances for TLC |

`CommitPipeline` cuts `process_commits`, `enact_logs` and `get` at their critical
sections. An index chunk and a value slot are one cell. This loses no
interleaving that matters to a plain key: `get` holds the commit overlay's read
lock to its end, so no commit of a key that is not in the overlay is pending and
neither its chunk entry nor its slot changes during the get. Records that
reindexing creates are not part of the module. A counted column that is not a
preimage column is excluded by `KindsAssumption`, although the code accepts it.

`WriteAheadLog` gives each log file one role at a time and keeps, for every
record, whether it is whole or what a crash left of it. `disk` survives the
death of the process. `synced` and `medium` say what survives a power loss. It
assumes that creating, truncating and removing a log file is durable. The
cleanup worker takes its files from the queue when it starts; the code counts
them first and drains them after the flush, which is the same because nobody
else removes from the front. `TableFile::write_at` is two steps, the flag and the
write. A flush between them clears the flag and syncs without the write; the next
flush then finds the file clean, and the log of the write is truncated although
the medium does not hold it. The ghost `missed` says that this has happened;
`CleanupAfterSync` speaks about behaviours in which it has not, and
`RecoveryIsPrefix` about those in which no power loss followed.

`Workers` cuts the threads at their mutexes. parking_lot condition variables have
no spurious wake-ups. The cleanup worker waits for nobody and is left out;
`process_reindex` is in `Column`. Errors are those of `write_plan`, of the fsync in `flush_one`
and of `enact_plan`.

`ValueTable` models the table with multipart entries. Sizes are in units, a value
is the sequence of its units, and an entry keeps its mark, its link, its counter
and the units in it. An operation of the log worker (`WriteInsertPlan`,
`WriteReplaceLonger`, ...) is one action that changes the plan of the record and
the cached pointers; `EndRecord` shows the record in the log overlay,
`CleanCommitOverlay` ends it when no reader holds the commit overlay. The commit
worker writes the slots of a record one at a time, in any order, because
`LogChange` keeps them in a hash map. The reader makes one step for the overlay
and one for the file in each part. The index is a ghost, `live`. A read behind
the end of the file is an error, so an operation that needs one is not possible;
`PlanFails` is the failure of an operation or of `end_record` after some pointers
changed. A failure before the first change leaves nothing behind. The log itself
loses records only at its end: the rest is the subject of `WriteAheadLog`. In a
table of fixed-size entries every value has one slot.

`Column` shows the tables as every thread sees them, files with overlays on top,
and leaves the rest to the modules above. A record keeps the tables it writes, the
column after it and the index it drops. `write_plan` is one action, with its
retries: it holds the locks of the tables throughout. `process_reindex` is four
(`CheckReindex`, `ReindexBatch`, `NothingToReindex`, `StoreNoReindex`), because
the commit worker stores `next_reindex` between them; enacting a `DropTable`
record is two (`DropIndex`, `FinishDrop`) for the same reason. `get` takes one
step for each entry, for each value and for each index. Words are short (6 bits
in the runs), so that the arithmetic of entries, chunks and prefixes is the
code's with other constants. Keys are spread uniformly: a key that ends in 200
zero bits, which reindexing skips, is excluded by `ColumnAssumption`. The
variable `scene` holds the column's kind and what is done to it. The iterations
of migration and check are sets, computed from the state, because nothing else
runs on the databases they open.

`Migration` has one action for each file operation and each batch of commits; a
migration can be interrupted at each of them and run again. The source is what
its iteration yields: keys that only an older index holds are `hidden`, a column
with an entry for a removed slot is `stale`, both as `Column` shows them. A
destination can meet an I/O error in the background, after which its commits
fail until it is opened again. A metadata file can be cut short while it is
written. The command clears the destination before (`clear_dest`) and removes it
after an overwriting migration.

## Runs

| Run | Bounds | Shows |
|---|---|---|
| `commit_pipeline` | a plain and a counted key, 2 values, 2 commits, 1 reader | `IInv` and what follows from it: reads are current, referenced values are found, overlays drain, the pipeline implements `AtomicStore` |
| `any_crash` | 2 cells, 3 records, 3 log files; 2 kills, the second also within a record, or 1 kill within a record, or 1 power loss | logs keep their order; what had to survive is recovered; no table write precedes the fsync of its record; logs are given up only for data that is synced |
| `no_sync` | both fsyncs off, 1 kept log, 1 crash, fair | nothing is lost in a process crash; opening and closing terminate |
| `workers` | 1 committer, 3 commits of size 1 or 2, errors, drop, fair | the byte counter is exact up to the record in hand; commits are logged in order and once; the queue stays bounded; callers return; commits are logged and logs enacted unless an error or a drop stops the workers |
| `value_table` | 2 keys, values of 1, 2 and 3 slots, 4 slots, 3 operations in records of at most 2, counted or not, 1 stop | every slot is free or in one chain; values are stored whole, also after a failed plan with no commit behind it; reads are whole while the chain moves |
| `column` | 4 keys, 2 tiers, chunks of 2 entries, indexes of 1 to 3 bits; six scenarios of up to 3 changes and 2 stops | every key is found with its value and count; slots are indexed; gets are current; records can be enacted; a reindex stays scheduled; statistics are exact; iterations are complete and exact |
| `migration` | 2 columns, 2 keys, every kind into every other, batches of 2, 2 starts | what is migrated is faithful, files and metadata agree, nothing is lost, errors are reported, healthy migrations succeed |

Two commits suffice for the pipeline because its hazards need one commit that is
being cleaned up and one that replaced its entry. Three records in three files
put one file in each of the roles appending, flushing and reading, and force the
reuse of a pooled file. The limits in `Workers` are small enough for both queues
to fill. Three operations on a value table are enough to fill it, free a part of
it and use the freed slots for another key; a growth unit of five slots keeps the
file longer than the table, so that the passing run is about the slots, and
`reopen_truncates` makes it two. `CommitsLeft` says whether commits are queued
behind one that fails; `LOCKED_REF` is 2, so that the counter reaches it. In
`Column` the keys share chunks of the first index and two of them differ only in
what the slot keeps, so that inserting the third key starts a reindex, and the
reindex can start another; batches of two entries need several records. One
change during a reindex meets an entry that was copied, one that was not, or one
in an index about to be dropped; with two stops a replay is itself interrupted. A
batch of two changes puts commits inside a column, between the references of a
key, and across the end of a column.

Deadlock checking is off in the pipeline, worker, value table, column and migration runs, where the
bound on operations or an idle database ends a behaviour, and in `any_crash`,
where a log file cut within its first nine bytes keeps the database closed.

Fairness: weak fairness for each worker, for a woken caller and for the steps of
opening and closing, which is what a scheduler that runs every runnable thread
gives. No fairness on calls, drops, errors or crashes.

Five runs end in a violation. Each states what a text of the repository says.

| Run | What the code does |
|---|---|
| `torn_twice` | after a torn record `clear_replay_logs` removes a file whose earlier records were replayed; a second crash before the older files are cleaned mixes commits |
| `drop_hangs` | `shutdown` can be missed by a worker that is about to wait |
| `reopen_truncates` | `TableFile::open` leaves the capacity of a file it finds at zero, so the first `grow` shortens the file to one growth unit |
| `failed_plan` | a commit that fails leaves `last_removed` and `filled` changed; `kill_logs` logs the commits behind it, which take the slots of live values |
| `reindex_replay` | the log holds a record for an index that a later record dropped; `validate_plan` looks for it by triggering reindexes, which only make larger ones |

The passing properties name the exceptions that the code makes; each is a
behaviour that TLC showed before it was excluded.

| Property | Exception |
|---|---|
| `CleanupAfterSync`, `RecoveryIsPrefix` | a flush between the flag and the write of `write_at` (`file.rs:124`) |
| `ReadsAreWhole` | the last reference of a counted value is removed during the get: the slots can be another value's by then (`table.rs:409`) |
| `KeysAreFound` | a value changes its tier while its entry is in an older index, and its chunk in the current one is full: the key is lost (`column.rs:368`) |
| `SlotsAreIndexed`, `IterationIsExact` | a slot claimed before a retry of `write_plan` (`column.rs:382`); entries of removed slots after a second reindex or a restart |
| `ReadsAreCurrent` of `Column` | a get misses a key whose value moves, or whose old index is dropped, between two of its steps (`column.rs:83`) |
| `ReindexStaysScheduled` | the store of 0 at `db.rs:443` after another thread scheduled a reindex |
| `RecordsCanBeEnacted` | a second reindex triggered by the first: `write_plan` finds the entry of the index to be dropped first |
| `StatsAreExact` | a compressed value is replaced (`column.rs:352`); a crash |
| `MigrationIsFaithful` | counted to plain: a key with several references gets an empty value; keys in older indexes; a destination with errors or with what an earlier run left |
| `NothingIsLost` | the same, and a restart with files that the metadata does not describe, or with `clear_dest` when the column is only in the destination |
| `NoticedErrorsAreReported` | a later column is copied, and the destination opened again |
| `HealthyMigrationSucceeds` | a compression treshold other than the default, which metadata does not keep; entries of removed slots |

Three more disagreements follow from the models without a run of their own. A
dereference is not in the commit overlay, so two queries can see half a commit. A
log file of one to eight bytes makes `open` fail. With `InOrder = FALSE`, a power
loss that keeps a later log file and loses an earlier one is not noticed.

## Proofs

`CommitPipelineProofs`, on top of the lemmas in `CommitPipelineLemmas` and
`CommitPipelineSteps`, proves, for all constants that satisfy the named
assumptions of `Cells` and `CommitPipeline`:

- `StagesAgree`: `Spec => []IInv`
- `TypeCorrect`, `ViewCorrect`, `DrainCorrect`: the invariants
- `ReadsCorrect`, `ReferencedCorrect`: the action properties of `get`
- `Refinement`: the pipeline implements `AtomicStore`

None of the properties is inductive: a read is current only if whatever the
reader has found empty so far stays irrelevant. `IInv` therefore relates every
place to the ghost `hist`, the maps after 0, 1, 2, ... commits. The queue holds
the commits after `Popped`, the log the records after `Enacted`, the tables
`hist[Enacted]` with the cells already written by the next record. An overlay
entry belongs to a pending commit or record, and where there is none the cell is
`Settled`: its value does not change up to the last commit, or its count only
falls. There is one lemma per action; frame lemmas carry the facts about `hist`
over a commit. The proof is in three modules because tlapm handles shorter modules
more reliably.

Only model-checked: everything about `WriteAheadLog`, `Workers`, `ValueTable`,
`IndexTable`, `Statistics`, `Column` and `Migration`. Out of reach of the prover: liveness under fairness and `ENABLED`, induction over data, and
modules with `RECURSIVE` operators.

## Not modelled, and the plan

1. The composition of `Column` with the log at the level of chunks and slots:
   power losses during a reindex, and `Column::flush`, which leaves out the
   indexes in the reindex queue.
2. Several committers, and calls after a background error, in `Workers`.
3. Proofs: `SlotsArePartitioned` of `ValueTable`, `LogOrder` and
   `CleanupAfterSync` of `WriteAheadLog`, `LogBytesExact` and `LoggedInOrder` of
   `Workers`, the field arithmetic of `IndexTable`.

Left out because no property depends on it: the codecs (external; their result
selects a tier), the salt and the hash of keys, printed summaries and dumps,
counters of queries and commits, error types and display. The benchmark only
drives the public interface with random data, and `admin/src/bench/sizes.rs`, the
longest file of the repository, is a table of numbers. The other commands of the
administration tool make one call each.
