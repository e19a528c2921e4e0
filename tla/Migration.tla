----------------------------- MODULE Migration ------------------------------
(***************************************************************************)
(* migrate(): the columns of a database are iterated and committed to a    *)
(* second one that has other options; columns that need no change are      *)
(* copied file by file.  With overwrite every migrated column is then      *)
(* moved back in place of the original, which waits in a temporary         *)
(* directory until the metadata is written.  The command that calls it can *)
(* be told to clear the destination first.                                 *)
(*                                                                         *)
(* Three directories hold the files of columns: the source ("from"), the   *)
(* destination ("to") and the temporary one ("tmp").  A column is an index *)
(* and a table file, in the version of the source ("old") or of the        *)
(* destination ("new").  The migration can crash between any two steps and *)
(* be run again; the destination can meet an I/O error in the background.  *)
(***************************************************************************)
EXTENDS Integers, Sequences, SequencesExt, FiniteSets, Functions

CONSTANTS
  Keys,
  Cols,           (* columns 1..n                                          *)
  Scenarios,      (* the databases and the options of the migration        *)
  COMMIT_SIZE,
  MaxRuns         (* bound: how often the migration is started             *)

Kinds == {"plain", "preimage", "counted"}
\* Column options: the kind of column, and whether the compression treshold is the default.
ColumnOptions == [kind : Kinds, default : BOOLEAN]

ASSUME MigrationAssumption ==
  /\ COMMIT_SIZE \in Nat \ {0} /\ MaxRuns \in Nat
  /\ Cols = 1..Cardinality(Cols)
  /\ \A s \in Scenarios :
       /\ s.overwrite \in BOOLEAN /\ s.clear_dest \in BOOLEAN /\ s.force \subseteq Cols /\ s.faulty \in BOOLEAN
       /\ s.source \in [Cols -> ColumnOptions] /\ s.to \in [Cols -> ColumnOptions]
       /\ s.content \in [Cols -> [Keys -> Nat]]      (* reference counts; 0: no such key *)
       /\ s.hidden \in [Cols -> SUBSET Keys]         (* keys that only an older index has *)
       /\ s.stale \subseteq Cols                     (* an entry leads to a removed slot  *)

VARIABLES
  scene,
  pc, col,          (* where the migration is, and the column it is at     *)
  columns,          (* source_options.columns                              *)
  todo,             (* keys that the iteration has yet to yield            *)
  commit,           (* changes not committed yet: <<column, key, value>>   *)
  dest, session,    (* the destination as it was opened; batches since     *)
  moved,            (* what the new files hold that were moved back        *)
  bg_err,           (* the destination's background error                  *)
  meta_from, meta_to, (* metadata files: options, or Missing or Torn       *)
  dirs,             (* the files of each column in each directory          *)
  runs, result,
  noticed,          (* history: the column whose iteration a commit error ended *)
  fault,            (* history: the destination met an error               *)
  mixed             (* history: started again with files that the source's *)
                    (* metadata does not describe, or without any          *)

vars == <<scene, pc, col, columns, todo, commit, dest, session, moved, bg_err, meta_from, meta_to, dirs,
          runs, result, noticed, fault, mixed>>

None == "none"
\* Metadata files that hold no options: one cut short, and one that is not there.
Torn == <<>>
Missing == [c \in {0} |-> {}]
Parts == {"index", "table"}
Old == {<<"old", p>> : p \in Parts}
New == {<<"new", p>> : p \in Parts}

(***************************************************************************)
(* Metadata.                                                               *)
(***************************************************************************)
\* The fields of a column's line; the compression treshold is not among them.
AsString(options) == [kind |-> options.kind]

\* Mutant: the kind is not read.
FromStringPlain(line) == [kind |-> "plain", default |-> TRUE]

FromString(line) == [kind |-> line.kind, default |-> TRUE]

\* The lines that are written, as they are read again.
Written(options) == [c \in Cols |-> FromString(AsString(options[c]))]

\* load_and_validate_metadata of a file that is there.
Validates(meta, options) == meta # Torn /\ meta = options

ToMigrate == scene.force \cup {c \in Cols : columns[c] # scene.to[c]}

(***************************************************************************)
(* What commits do to the destination.                                     *)
(***************************************************************************)
Absent == [val |-> None, rc |-> 0]
NoCells == [c \in Cols |-> [k \in Keys |-> Absent]]

ApplyChange(cells, change) ==
  LET c == change[1]
      k == change[2]
      cell == cells[c][k]
      kind == scene.to[c].kind
  IN [cells EXCEPT ![c][k] =
        IF cell = Absent \/ kind = "plain" THEN [val |-> change[3], rc |-> 1]
        ELSE IF kind = "counted" THEN [cell EXCEPT !.rc = @ + 1] ELSE cell]

Applied(cells, batches) == FoldLeft(ApplyChange, cells, FlattenSeq(batches))

DestContent == Applied(dest, session)

(***************************************************************************)
(* Initial states: a source database and no destination.                   *)
(***************************************************************************)
Init ==
  /\ scene \in Scenarios
  /\ pc = "prepare" /\ col = 1 /\ todo = {} /\ commit = <<>>
  /\ dest = NoCells /\ session = <<>>
  /\ moved = dest /\ bg_err = FALSE
  /\ meta_from = Written(scene.source) /\ meta_to = Missing /\ columns = meta_from
  /\ dirs = [from |-> [c \in Cols |-> Old], tmp |-> [c \in Cols |-> {}], to |-> [c \in Cols |-> {}]]
  /\ runs = 1 /\ result = None
  /\ noticed = 0 /\ fault = FALSE /\ mixed = FALSE

history == <<noticed, fault, mixed>>

Fail ==
  /\ result' = "error" /\ pc' = "done"
  /\ UNCHANGED <<scene, col, columns, todo, commit, dest, session, moved, bg_err, meta_from, meta_to, dirs, runs, history>>

(***************************************************************************)
(* Opening the databases.                                                  *)
(***************************************************************************)
RemoveDestDir ==
  /\ dirs' = [dirs EXCEPT !.to = [c \in Cols |-> {}]]
  /\ meta_to' = Missing /\ dest' = NoCells /\ session' = <<>>

\* What the command does before it calls migrate().
PrepareDest ==
  /\ pc = "prepare" /\ pc' = "start"
  /\ IF scene.clear_dest THEN RemoveDestDir ELSE UNCHANGED <<dirs, meta_to, dest, session>>
  /\ UNCHANGED <<scene, col, columns, todo, commit, moved, bg_err, meta_from, runs, result, history>>

\* The source's metadata is loaded and the source opened with the options in it.
Start ==
  /\ pc = "start"
  /\ IF meta_from = Torn THEN Fail
     ELSE /\ pc' = "open" /\ columns' = meta_from
          /\ UNCHANGED <<scene, col, todo, commit, dest, session, moved, bg_err, meta_from, meta_to, dirs,
                         runs, result, history>>

\* Db::open_or_create(to): the metadata is compared, or the file is created ...
OpenDest(next) ==
  /\ IF meta_to = Missing
     THEN meta_to' = Torn /\ pc' = "create" /\ UNCHANGED <<dest, session, bg_err, result>>
     ELSE /\ IF Validates(meta_to, scene.to) THEN pc' = next /\ UNCHANGED result
             ELSE pc' = "done" /\ result' = "error"
          /\ dest' = DestContent /\ session' = <<>> /\ bg_err' = FALSE
          /\ UNCHANGED meta_to

FirstOpen ==
  /\ pc = "open" /\ OpenDest("column")
  /\ UNCHANGED <<scene, col, columns, todo, commit, moved, meta_from, dirs, runs, history>>

\* ... and its lines are written.
CreateMetadata ==
  /\ pc = "create"
  /\ meta_to' = Written(scene.to) /\ pc' = "column"
  /\ UNCHANGED <<scene, col, columns, todo, commit, dest, session, moved, bg_err, meta_from, dirs, runs, result, history>>

(***************************************************************************)
(* The loop over the columns.                                              *)
(***************************************************************************)
Cell(rc) == IF rc = 0 THEN Absent ELSE [val |-> "full", rc |-> rc]
Original(c) == [k \in Keys |-> Cell(scene.content[c][k])]

\* Files of the destination under the options of the source are not understood.
NewUnderOldOptions(c) == dirs.from[c] \cap New # {} /\ columns[c] # Written(scene.to)[c]

\* What an iteration of the source's column yields.  Without an index file a plain
\* column is empty; other kinds are iterated by their tables.
SourceContent(c) ==
  IF dirs.from[c] = Old \/ (dirs.from[c] = {<<"old", "table">>} /\ scene.source[c].kind # "plain")
  THEN Original(c)
  ELSE IF dirs.from[c] = New /\ ~NewUnderOldOptions(c) THEN moved[c]
  ELSE [k \in Keys |-> Absent]

\* An entry without its value ends the iteration with an error.
SourceIsCorrupt(c) ==
  (dirs.from[c] = Old /\ c \in scene.stale) \/ dirs.from[c] = {<<"old", "index">>}

NextColumn ==
  /\ pc = "column"
  /\ IF col \notin Cols THEN pc' = "final" /\ UNCHANGED <<col, todo>>
     ELSE IF col \in ToMigrate
     THEN pc' = "iterate" /\ todo' = {k \in Keys : SourceContent(col)[k] # Absent} /\ UNCHANGED col
     ELSE IF scene.overwrite THEN col' = col + 1 /\ UNCHANGED <<pc, todo>>
     ELSE pc' = "copy" /\ UNCHANGED <<col, todo>>
  /\ UNCHANGED <<scene, columns, commit, dest, session, moved, bg_err, meta_from, meta_to, dirs, runs, result,
                 history>>

\* Mutant: a key is migrated with one reference.
ChangesOnce(c, k) == <<<<c, k, SourceContent(c)[k].val>>>>

\* One change for each reference; only the first has the value, which it takes.
Changes(c, k) ==
  [i \in 1..SourceContent(c)[k].rc |-> <<c, k, IF i = 1 THEN SourceContent(c)[k].val ELSE "empty">>]

\* Mutant: a batch is committed when it is too full.
YieldLate(k) ==
  LET all == commit \o Changes(col, k) IN
  /\ pc = "iterate" /\ k \in todo
  /\ IF Len(all) <= COMMIT_SIZE
     THEN commit' = all /\ todo' = todo \ {k} /\ UNCHANGED <<pc, session, noticed>>
     ELSE /\ ~bg_err /\ session' = Append(session, SubSeq(all, 1, COMMIT_SIZE))
          /\ commit' = SubSeq(all, COMMIT_SIZE + 1, Len(all))
          /\ todo' = todo \ {k} /\ UNCHANGED <<pc, noticed>>
  /\ UNCHANGED <<scene, col, columns, dest, moved, bg_err, meta_from, meta_to, dirs, runs, result, fault, mixed>>

\* The closure of the iteration.  A full batch is committed; an error ends the iteration,
\* which reports none.
Yield(k) ==
  LET all == commit \o Changes(col, k) IN
  /\ pc = "iterate" /\ k \in todo
  /\ IF Len(all) < COMMIT_SIZE
     THEN commit' = all /\ todo' = todo \ {k} /\ UNCHANGED <<pc, session, noticed>>
     ELSE IF bg_err
     THEN commit' = <<>> /\ todo' = {} /\ pc' = "iterated" /\ noticed' = col /\ UNCHANGED session
     ELSE /\ session' = Append(session, SubSeq(all, 1, COMMIT_SIZE))
          /\ commit' = SubSeq(all, COMMIT_SIZE + 1, Len(all))
          /\ todo' = todo \ {k} /\ UNCHANGED <<pc, noticed>>
  /\ UNCHANGED <<scene, col, columns, dest, moved, bg_err, meta_from, meta_to, dirs, runs, result, fault, mixed>>

IterationFails == pc = "iterate" /\ SourceIsCorrupt(col) /\ Fail

\* Keys that only an older index has are met if they were reindexed in time.
IterationEnds ==
  /\ pc = "iterate" /\ ~SourceIsCorrupt(col)
  /\ todo \subseteq (IF dirs.from[col] = Old THEN scene.hidden[col] ELSE {})
  /\ todo' = {} /\ pc' = "iterated"
  /\ UNCHANGED <<scene, col, columns, commit, dest, session, moved, bg_err, meta_from, meta_to, dirs, runs, result,
                 history>>

\* Without overwrite the rest of the batch waits for the next column.
Iterated ==
  /\ pc = "iterated" /\ ~scene.overwrite
  /\ pc' = "column" /\ col' = col + 1
  /\ UNCHANGED <<scene, columns, todo, commit, dest, session, moved, bg_err, meta_from, meta_to, dirs, runs, result,
                 history>>

\* Mutant: the rest of the batch is not committed.
CommitRestForgotten ==
  /\ pc = "iterated" /\ scene.overwrite
  /\ IF bg_err THEN Fail
     ELSE /\ commit' = <<>> /\ pc' = "reopen"
          /\ UNCHANGED <<scene, col, columns, todo, dest, session, moved, bg_err, meta_from, meta_to, dirs,
                         runs, result, history>>

\* With overwrite it is committed now.
CommitRest ==
  /\ pc = "iterated" /\ scene.overwrite
  /\ IF bg_err THEN Fail
     ELSE /\ session' = Append(session, commit) /\ commit' = <<>> /\ pc' = "reopen"
          /\ UNCHANGED <<scene, col, columns, todo, dest, moved, bg_err, meta_from, meta_to, dirs, runs, result,
                         history>>

\* The destination is closed, which writes its files, and opened again.
Reopen ==
  /\ pc = "reopen" /\ OpenDest("clear")
  /\ dirs' = IF dirs.to[col] = {} /\ \E k \in Keys : DestContent[col][k] # Absent
             THEN [dirs EXCEPT !.to[col] = New] ELSE dirs
  /\ UNCHANGED <<scene, col, columns, todo, commit, moved, meta_from, runs, history>>

(***************************************************************************)
(* Overwriting a column of the source, and copying one.                    *)
(***************************************************************************)
Unmoved == <<scene, col, todo, commit, session, bg_err, meta_to, runs, result, history>>

\* Both databases are closed and the temporary directory is emptied.
ClearTmp ==
  /\ pc = "clear" /\ pc' = "out"
  /\ dirs' = [dirs EXCEPT !.tmp = [c \in Cols |-> {}]]
  /\ UNCHANGED <<columns, dest, moved, meta_from, Unmoved>>

\* deplace_column: one file is renamed.
Rename(a, b, f) == dirs' = [dirs EXCEPT ![a][col] = @ \ {f}, ![b][col] = @ \cup {f}]

MoveOut ==
  /\ pc = "out"
  /\ IF dirs.from[col] = {} THEN pc' = "in" /\ UNCHANGED dirs
     ELSE UNCHANGED pc /\ \E f \in dirs.from[col] : Rename("from", "tmp", f)
  /\ UNCHANGED <<columns, dest, moved, meta_from, Unmoved>>

\* Mutant: only the index is moved.
MoveInIndex ==
  /\ pc = "in" /\ pc' = "truncate"
  /\ IF <<"new", "index">> \in dirs.to[col] THEN Rename("to", "from", <<"new", "index">>) ELSE UNCHANGED dirs
  /\ moved' = [moved EXCEPT ![col] = dest[col]]
  /\ UNCHANGED <<columns, dest, meta_from, Unmoved>>

MoveIn ==
  /\ pc = "in"
  /\ IF dirs.to[col] # {}
     THEN /\ \E f \in dirs.to[col] : Rename("to", "from", f)
          /\ moved' = [moved EXCEPT ![col] = dest[col]]
          /\ dest' = [dest EXCEPT ![col] = IF dirs'.to[col] = {} THEN NoCells[col] ELSE @]
          /\ UNCHANGED pc
     ELSE /\ pc' = "truncate" /\ UNCHANGED <<dirs, dest>>
          /\ moved' = [moved EXCEPT ![col] = IF dirs.from[col] = {} THEN NoCells[col] ELSE @]
  /\ UNCHANGED <<columns, meta_from, Unmoved>>

\* write_metadata: the file is truncated, then its lines are written.
TruncateMetadata ==
  /\ pc = "truncate" /\ pc' = "write"
  /\ columns' = [columns EXCEPT ![col] = scene.to[col]]
  /\ meta_from' = Torn
  /\ UNCHANGED <<dest, moved, dirs, Unmoved>>

WriteMetadata ==
  /\ pc = "write" /\ pc' = "cleanup"
  /\ meta_from' = Written(columns)
  /\ UNCHANGED <<columns, dest, moved, dirs, Unmoved>>

RemoveTmp ==
  /\ pc = "cleanup" /\ pc' = "again"
  /\ dirs' = [dirs EXCEPT !.tmp = [c \in Cols |-> {}]]
  /\ UNCHANGED <<columns, dest, moved, meta_from, Unmoved>>

\* Both databases are opened for the next column.
OpenAgain ==
  /\ pc = "again"
  /\ IF ~Validates(meta_from, columns) THEN Fail
     ELSE /\ OpenDest("column") /\ col' = col + 1
          /\ UNCHANGED <<scene, columns, todo, commit, moved, meta_from, dirs, runs, history>>

\* copy_column, with the destination closed; it is opened again after that.
CopyColumn ==
  /\ pc = "copy"
  /\ IF dirs.from[col] \subseteq dirs.to[col]
     THEN /\ OpenDest("column") /\ col' = col + 1 /\ UNCHANGED dirs
     ELSE /\ \E f \in dirs.from[col] \ dirs.to[col] : dirs' = [dirs EXCEPT !.to[col] = @ \cup {f}]
          /\ UNCHANGED <<pc, col, dest, session, bg_err, result, meta_to>>
  /\ UNCHANGED <<scene, columns, todo, commit, moved, meta_from, runs, history>>

\* Mutant: the result of the last commit is ignored.
CommitLastUnchecked ==
  /\ pc = "final"
  /\ session' = IF bg_err THEN session ELSE Append(session, commit)
  /\ commit' = <<>> /\ pc' = "ok" /\ result' = "ok"
  /\ UNCHANGED <<scene, col, columns, todo, dest, moved, bg_err, meta_from, meta_to, dirs, runs, history>>

\* What is left of the last batch; then the databases are closed.
CommitLast ==
  /\ pc = "final"
  /\ IF bg_err THEN Fail
     ELSE /\ session' = Append(session, commit) /\ commit' = <<>>
          /\ pc' = "ok" /\ result' = "ok"
          /\ UNCHANGED <<scene, col, columns, todo, dest, moved, bg_err, meta_from, meta_to, dirs, runs,
                         history>>

\* When the source was overwritten, the command removes what is left of the destination.
RemoveDest ==
  /\ pc = "ok" /\ scene.overwrite /\ pc' = "done"
  /\ RemoveDestDir
  /\ UNCHANGED <<scene, col, columns, todo, commit, moved, bg_err, meta_from, runs, result, history>>

(***************************************************************************)
(* Faults.                                                                 *)
(***************************************************************************)
\* A worker of the destination meets an I/O error: the batches it has not written are lost.
DestFails ==
  /\ scene.faulty /\ ~bg_err
  /\ pc \in {"column", "iterate", "iterated", "reopen", "final"}
  /\ \E n \in 0..Len(session) : session' = SubSeq(session, 1, n)
  /\ bg_err' = TRUE /\ fault' = TRUE
  /\ UNCHANGED <<scene, pc, col, columns, todo, commit, dest, moved, meta_from, meta_to, dirs, runs, result,
                 noticed, mixed>>

\* The files of a column in the source are not those that its metadata describes.
Mixed ==
  \E c \in Cols :
    /\ meta_from # Torn /\ dirs.from[c] \notin {Old, {}}
    /\ ~(dirs.from[c] = New /\ meta_from[c] = Written(scene.to)[c])

\* The only whole copy of a column is in the destination, which will be cleared.
OnlyInDest == scene.clear_dest /\ \E c \in Cols : dirs.from[c] = {} /\ dirs.tmp[c] # {}

\* The migration is interrupted, or has failed, and is started again.
Restart ==
  /\ runs < MaxRuns /\ runs' = runs + 1
  /\ result # "ok" /\ result' = None
  /\ pc' = "prepare" /\ col' = 1 /\ todo' = {} /\ commit' = <<>>
  /\ \E n \in 0..Len(session) : dest' = Applied(dest, SubSeq(session, 1, n))
  /\ session' = <<>> /\ bg_err' = FALSE
  /\ mixed' = (mixed \/ Mixed \/ OnlyInDest) /\ noticed' = 0
  /\ UNCHANGED <<scene, columns, moved, meta_from, meta_to, dirs, fault>>

Next ==
  \/ PrepareDest \/ Start \/ FirstOpen \/ CreateMetadata \/ NextColumn
  \/ (\E k \in Keys : Yield(k)) \/ IterationFails \/ IterationEnds \/ Iterated \/ CommitRest
  \/ Reopen \/ ClearTmp \/ MoveOut \/ MoveIn \/ TruncateMetadata \/ WriteMetadata \/ RemoveTmp
  \/ OpenAgain \/ CopyColumn \/ CommitLast \/ RemoveDest
  \/ DestFails \/ Restart

Spec == Init /\ [][Next]_vars

(***************************************************************************)
(* Properties.                                                             *)
(***************************************************************************)
Migrated == scene.force \cup {c \in Cols : Written(scene.source)[c] # scene.to[c]}

Cells == [val : {"none", "full", "empty"}, rc : Nat]
Metadata == [Cols -> ColumnOptions]

\* The variables have their types, and a batch that is full is committed at once.
TypeOK ==
  /\ scene \in Scenarios /\ col \in 1..Cardinality(Cols) + 1
  /\ todo \subseteq Keys /\ Len(commit) < COMMIT_SIZE
  /\ dest \in [Cols -> [Keys -> Cells]] /\ moved \in [Cols -> [Keys -> Cells]]
  /\ \A i \in DOMAIN session : Len(session[i]) <= COMMIT_SIZE
  /\ columns \in Metadata
  /\ meta_from = Torn \/ meta_from \in Metadata
  /\ meta_to \in {Missing, Torn} \/ meta_to \in Metadata
  /\ dirs \in [{"from", "tmp", "to"} -> [Cols -> SUBSET (Old \cup New)]]
  /\ runs \in 1..MaxRuns /\ result \in {None, "ok", "error"}
  /\ bg_err \in BOOLEAN /\ fault \in BOOLEAN /\ mixed \in BOOLEAN /\ noticed \in {0} \cup Cols

\* What the destination has to hold for a key that the source has n references to.
\* The changes after the first carry an empty value, which a plain column takes.
Faithful(cells, c) ==
  \A k \in Keys \ scene.hidden[c] :
    LET n == scene.content[c][k]
        kind == scene.to[c].kind
    IN IF n = 0 THEN cells[k] = Absent
       ELSE /\ cells[k].rc = (IF kind = "counted" THEN n ELSE 1)
            /\ cells[k].val = "full" \/ (kind = "plain" /\ n > 1)

\* A migration that is run for the first time, or again after the destination was cleared
\* and with the source as it was.
Fresh == runs = 1 \/ (scene.clear_dest /\ ~scene.overwrite)

\* A migration that returns Ok has carried over every key that the current indexes of
\* the source lead to, with its value and its references; columns that did not need it
\* are there as they were.  The exceptions: a plain column made from a counted one gets
\* empty values (the references after the first are committed with what mem::take left),
\* and the destination had errors or what an earlier run left.
MigrationIsFaithful ==
  result = "ok" /\ Fresh /\ ~fault =>
    \A c \in Cols :
      IF c \in Migrated THEN Faithful(IF scene.overwrite THEN moved[c] ELSE DestContent[c], c)
      ELSE IF scene.overwrite THEN dirs.from[c] = Old ELSE Old \subseteq dirs.to[c]

\* After an overwriting migration that returns Ok, on the first run or a later one, the
\* metadata of the source describes the files that are there, and nothing is left behind.
SourceMatchesMetadata ==
  result = "ok" /\ scene.overwrite /\ ~mixed =>
    \A c \in Cols :
      /\ dirs.from[c] \in {{}, New} \/ (c \notin Migrated /\ dirs.from[c] = Old)
      /\ c \in Migrated => meta_from[c] = Written(scene.to)[c]
      /\ dirs.from[c] # Old => dirs.to[c] = {} /\ dirs.tmp[c] \cap New = {}

\* Wherever the migration is interrupted, and when it is started again after that, every
\* column is somewhere in full: the original in the source or the temporary directory,
\* or the migrated column, with every key and at least its references.  The exceptions:
\* a migration that loses values by design of the loop (see above, and keys in older
\* indexes), a destination that failed, and a start under metadata that does not
\* describe the files, or with clear_dest when the only column in use was there: the
\* source's column is then empty and ClearTmp removes the original.
KeepsAll(cells, c) ==
  \A k \in Keys : LET n == scene.content[c][k] IN
    n > 0 => cells[k].val = "full" /\ cells[k].rc >= (IF scene.to[c].kind = "counted" THEN n ELSE 1)
Lossless(c) ==
  scene.hidden[c] = {} /\ (scene.to[c].kind = "plain" => \A k \in Keys : scene.content[c][k] <= 1)
NothingIsLost ==
  ~fault /\ ~mixed =>
    \A c \in Cols : Lossless(c) =>
      \/ Old \subseteq dirs.from[c] \cup dirs.tmp[c]
      \/ /\ New \subseteq dirs.from[c] \cup dirs.to[c]
         /\ KeepsAll(moved[c], c) \/ KeepsAll(DestContent[c], c)

\* A commit error that ended an iteration early makes the migration return an error,
\* unless a later column is copied: the destination is then opened again, which forgets
\* its background error.
NoticedErrorsAreReported ==
  result = "ok" /\ noticed # 0 =>
    ~scene.overwrite /\ \E c \in Cols \ Migrated : c > noticed

\* The migration of a database with no entry that leads to a removed slot, to options with
\* the default compression treshold (metadata does not keep another one), into a place
\* that is empty and has no I/O errors, does not fail.
HealthyMigrationSucceeds ==
  result = "error" =>
    \/ fault \/ ~Fresh \/ scene.stale # {}
    \/ \E c \in Cols : ~scene.to[c].default
=============================================================================
