-------------------------- MODULE MCReplacerCache --------------------------
(* A small instance of ReplacerCache for TLC.                             *)
EXTENDS ReplacerCache, TLC

\* All keys share a shard, so that they can push each other out of it.
OneShard == [k \in Key |-> CHOOSE s \in Shard : TRUE]

Symmetry == Permutations(Proc) \cup Permutations(Key)
=============================================================================
