------------------------------ MODULE MCPublish ------------------------------
(* Two releases of one major version. *)
EXTENDS Publish, TLC

OneMajor  == [v \in Versions |-> 2]
Symmetry  == Permutations(Runs)
=============================================================================
