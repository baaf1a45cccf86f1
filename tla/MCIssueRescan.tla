---------------------------- MODULE MCIssueRescan ----------------------------
(* The CVE is in two packages of an image, as one of a library and its tool. *)
EXTENDS IssueRescan

PackagesMC == [c \in CVEs |-> 2]
=============================================================================
