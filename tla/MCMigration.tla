---------------------------- MODULE MCMigration -----------------------------
(***************************************************************************)
(* Databases of two columns with two keys.                                 *)
(***************************************************************************)
EXTENDS Migration

Opts(k) == [kind |-> k, default |-> TRUE]
Tuned(k) == [kind |-> k, default |-> FALSE]

Plain == <<Opts("plain"), Opts("plain")>>

\* Counts of the keys in a column.
Has(m, n) == "a" :> m @@ "b" :> n

Scene(over, clear, source, dest_options, force, content, hidden, stale, faulty) ==
  [overwrite |-> over, clear_dest |-> clear, source |-> source, to |-> dest_options, force |-> force, content |-> content,
   hidden |-> hidden, stale |-> stale, faulty |-> faulty]

NoneHidden == <<{}, {}>>
BothOnce == <<Has(1, 1), Has(1, 0)>>

MCCols == 1..2

\* Every kind of column into every other, both ways of migrating; a column that is copied
\* after one that is migrated; keys in an older index; a stale entry; another treshold.
MCScenarios ==
  {Scene(over, clear, <<Opts(j), Opts("plain")>>, <<Opts(k), Opts("plain")>>, force, content, NoneHidden, {}, faulty) :
     over \in BOOLEAN, clear \in BOOLEAN, j \in Kinds, k \in Kinds, force \in {{1}, {1, 2}},
     content \in {BothOnce, <<Has(2, 1), Has(1, 0)>>}, faulty \in BOOLEAN}
  \cup
  {Scene(over, FALSE, Plain, Plain, {1, 2}, BothOnce, <<{"b"}, {}>>, {}, FALSE) : over \in BOOLEAN}
  \cup
  {Scene(over, FALSE, Plain, Plain, {2}, BothOnce, NoneHidden, {2}, FALSE) : over \in BOOLEAN}
  \cup
  {Scene(over, FALSE, Plain, <<Tuned("plain"), Opts("plain")>>, {}, BothOnce, NoneHidden, {}, FALSE) :
     over \in BOOLEAN}
=============================================================================
