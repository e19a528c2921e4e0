------------------------------ MODULE MCColumn ------------------------------
(***************************************************************************)
(* Columns with words of 6 bits, chunks of 2 entries and 2 tiers: an index *)
(* of b bits splits the words by their first b bits, and an entry keeps    *)
(* the 4 - b bits that follow.                                             *)
(***************************************************************************)
EXTENDS Column

\* Two keys that only their partial keys tell apart (words 0000.01 and 0000.10), and two
\* that share a chunk with them up to 2 bits (0010.00 and 0011.00).
k1 == [word |-> 1, rest |-> 1]
k2 == [word |-> 2, rest |-> 1]
k3 == [word |-> 8, rest |-> 1]
k4 == [word |-> 12, rest |-> 1]
MCKeys == {k1, k2, k3, k4}

\* A small value, and a large one that is compressed and still goes to the last tier.
MCSize == [small |-> 1, large |-> 5, other |-> 1, fourth |-> 1]
MCPacked == [small |-> 1, large |-> 3, other |-> 1, fourth |-> 1]
MCValues == {"small", "large"}
MCPreimage == k1 :> "small" @@ k2 :> "large" @@ k3 :> "other" @@ k4 :> "fourth"

MCTierSizes == <<2>>

Scene(kind_of, keys, writes, reads, n, m) ==
  [kind |-> kind_of, loaded |-> keys, writes |-> writes, reads |-> reads, ops |-> n, stops |-> m,
   stats |-> m = 2]

\* A reindex while the values of keys in older indexes move and their chunks fill up;
\* the same with a crash or a close, and with a reader; columns whose values are
\* preimages, without and with reference counts; a new column that is stopped twice
\* and whose statistics are collected and cleared.
MCScenarios ==
  {Scene("plain", <<k1, k2>>, {k1, k3, k4}, {}, 3, 0),
   Scene("plain", <<k1, k2>>, {k1, k3}, {}, 2, 1),
   Scene("plain", <<k1, k2>>, {k1, k3}, {k1}, 2, 0),
   Scene("preimage", <<k1, k2>>, {k1, k3}, {}, 2, 1),
   Scene("counted", <<k1, k2>>, {k1, k3}, {}, 3, 1),
   Scene("plain", <<>>, {k1, k3}, {}, 1, 2)}

MCInterrupted == {Scene("preimage", <<k1, k2>>, {k1, k3}, {}, 2, 1)}
=============================================================================
