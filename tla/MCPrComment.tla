----------------------------- MODULE MCPrComment -----------------------------
(* Three runs on a pull request that outgrows the page.  No symmetry: a       *)
(* liveness property is checked.                                              *)
EXTENDS PrComment
=============================================================================
