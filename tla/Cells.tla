------------------------------- MODULE Cells -------------------------------
(***************************************************************************)
(* What a commit does to one key.                                          *)
(*                                                                         *)
(* The key space of all columns is one set, Keys.  A column is plain,      *)
(* preimage (the value is determined by the key) or preimage and reference *)
(* counted, so the column options become subsets of Keys.  The code does   *)
(* not reject a counted column that is no preimage column; there a second  *)
(* insertion with another value only counts, and such columns are left out.*)
(* A cell is what the index and the value table hold for one key together: *)
(* its reference count (1 in columns that do not count) and its value.     *)
(***************************************************************************)
EXTENDS Integers

CONSTANTS
  Keys,        (* all keys, of all columns                                  *)
  Preimage,    (* keys of the columns with preimage = true                  *)
  RefCounted,  (* keys of the columns with ref_counted = true               *)
  Values,      (* values a commit may write                                 *)
  Image,       (* the one value a preimage key can have                     *)
  LOCKED_REF,  (* the reference count that is never changed again           *)
  None,        (* Option::None                                              *)
  Keep         (* the mark of a key that is not in a changeset              *)

ASSUME KindsAssumption ==
  /\ RefCounted \subseteq Preimage
  /\ Preimage \subseteq Keys
  /\ Image \in [Preimage -> Values]

ASSUME RefsAssumption == LOCKED_REF \in Nat /\ LOCKED_REF > 1

(***************************************************************************)
(* Cells and changesets.                                                   *)
(***************************************************************************)
Option == Values \cup {None}

Cell == [refs : 0..LOCKED_REF, value : Option]

ASSUME MarksAssumption ==
  /\ None \notin Values /\ Keep \notin Values /\ None # Keep
  /\ None \notin Cell

Absent == [refs |-> 0, value |-> None]

\* The cells a key of each kind of column can have.
CellOf(k) ==
  {Absent} \cup
    IF k \in RefCounted    THEN [refs : 1..LOCKED_REF, value : {Image[k]}]
    ELSE IF k \in Preimage THEN [refs : {1}, value : {Image[k]}]
    ELSE [refs : {1}, value : Values]

State == {s \in [Keys -> Cell] : \A k \in Keys : s[k] \in CellOf(k)}

Changeset ==
  {c \in [Keys -> Option \cup {Keep}] :
     \A k \in Preimage : c[k] \in {Image[k], None, Keep}}

\* ValueTable::change_ref with delta = 1 and delta = -1.
IncRef(n) == IF n >= LOCKED_REF - 1 THEN LOCKED_REF ELSE n + 1

DecRef(n) == IF n = LOCKED_REF \/ n = 0 THEN n ELSE n - 1

\* Column::write_plan for one key: the cell that replaces `cell`.
WriteCell(k, cell, op) ==
  IF op = None
  THEN IF k \in RefCounted /\ DecRef(cell.refs) > 0
       THEN [refs |-> DecRef(cell.refs), value |-> cell.value]
       ELSE Absent
  ELSE IF cell = Absent THEN [refs |-> 1, value |-> op]
       ELSE IF k \in RefCounted
            THEN [refs |-> IncRef(cell.refs), value |-> cell.value]
            ELSE IF k \in Preimage THEN cell
                 ELSE [refs |-> 1, value |-> op]

Apply(state, changeset) ==
  [k \in Keys |-> IF changeset[k] = Keep THEN state[k]
                  ELSE WriteCell(k, state[k], changeset[k])]

============================================================================
