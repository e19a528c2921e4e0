---------------------------- MODULE AtomicStore ----------------------------
(***************************************************************************)
(* What the database promises to the threads that share one open handle:   *)
(* a map from keys to cells that a commit changes in one step, and a get   *)
(* that answers from the map as it is when the get answers.                *)
(***************************************************************************)
EXTENDS Cells

CONSTANT Readers   (* threads that call get *)

VARIABLES
  store,   (* the map that all accepted commits have produced              *)
  reply    (* what the last get of each reader answered                    *)

vars == <<store, reply>>

NoReply == [key |-> None, value |-> None]

Init ==
  /\ store \in State
  /\ reply = [r \in Readers |-> NoReply]

\* A changeset is applied as a whole.
Commit(changeset) ==
  /\ store' = Apply(store, changeset)
  /\ UNCHANGED reply

\* The answers a get may give.  For a key of a column without reference counts
\* it is the value of the last commit.  For a reference counted key a value
\* that commits still refer to is found; one whose last reference has been
\* removed may still be found for a while.
Answers(k) ==
  IF k \in RefCounted /\ store[k] = Absent THEN {None, Image[k]}
  ELSE {store[k].value}

Get(r, k) ==
  /\ \E v \in Answers(k) : reply' = [reply EXCEPT ![r] = [key |-> k, value |-> v]]
  /\ UNCHANGED store

\* The reader has consumed the answer.
Forget(r) ==
  /\ reply' = [reply EXCEPT ![r] = NoReply]
  /\ UNCHANGED store

Next ==
  \/ \E c \in Changeset : Commit(c)
  \/ \E r \in Readers, k \in Keys : Get(r, k)
  \/ \E r \in Readers : Forget(r)

Spec == Init /\ [][Next]_vars
============================================================================
