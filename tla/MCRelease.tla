------------------------------ MODULE MCRelease ------------------------------
(* Jobs for TLC: upgrades with and without SAFE_UPGRADE, keeping all or two    *)
(* revisions, and rollbacks to the first revisions.                            *)
EXTENDS Release, TLC

MCJobs ==
  [action : {"upgrade"}, safe_upgrade : BOOLEAN, history_max : {0, 2}]
  \union [action : {"rollback"}, revision : {1, 2}, history_max : {0}]

\* For the run in which helm commands overlap
MCOverlapJobs ==
  [action : {"upgrade"}, safe_upgrade : {TRUE}, history_max : {0}]
  \union [action : {"upgrade"}, safe_upgrade : {FALSE}, history_max : {2}]
  \union [action : {"rollback"}, revision : {1}, history_max : {0}]

Symmetry == Permutations(Runs)
=============================================================================
