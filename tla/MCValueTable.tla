--------------------------- MODULE MCValueTable ---------------------------
\* An instance of ValueTable: values of one, two and three slots.
EXTENDS ValueTable, TLC

CONSTANTS a, b, one, two, three

MCKeys == {a, b}
MCValues == {one, two, three}
MCLength == (one :> 1) @@ (two :> 3) @@ (three :> 6)
MCSymmetry == Permutations(MCKeys)
============================================================================
