-------------------------- MODULE MCCommitPipeline --------------------------
(* CommitPipeline for TLC: one key of each kind of column. *)
EXTENDS CommitPipeline

CONSTANTS plain, counted, v1, v2

MCKeys == {plain, counted}
MCPreimage == {counted}
MCRefCounted == {counted}
MCValues == {v1, v2}
MCImage == [k \in {counted} |-> v1]
=============================================================================
