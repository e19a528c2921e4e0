-------------------------- MODULE MCWriteAheadLog --------------------------
(* WriteAheadLog for TLC: two cells of the tables. *)
EXTENDS WriteAheadLog

CONSTANTS a, b

MCCells == {a, b}
MCSymmetry == Permutations(MCCells)

\* The process is killed twice, the second time perhaps inside a record; or it is
\* killed inside a record; or the power fails.
MCAnyCrash == {<<"kill", "kill">>, <<"kill", "tear">>, <<"tear">>, <<"power">>}

MCOneKill == {<<"kill">>, <<"tear">>}
MCTwoTears == {<<"tear", "tear">>}
============================================================================
