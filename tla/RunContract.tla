----------------------------- MODULE RunContract -----------------------------
(***************************************************************************)
(* What one run of the pipe promises the CI system that started it, in     *)
(* terms of two things only: what has become of the work it was asked to   *)
(* do (install, diff or roll back a release) and the verdict it returned.  *)
(* The work is attempted at most once, nothing happens after the verdict,  *)
(* and the verdict is "ok" only if the work was done.  An "error" promises *)
(* nothing about the work: a timeout leaves it unknown, and a failure      *)
(* after it leaves it done.  PipeRun implements this.                      *)
(***************************************************************************)
VARIABLES work, verdict

TypeOK ==
  /\ work \in {"none", "unknown", "done"}
  /\ verdict \in {"none", "ok", "error", "killed"}

Init == work = "none" /\ verdict = "none"

Attempt ==
  /\ work = "none" /\ verdict = "none"
  /\ work' \in {"unknown", "done"}
  /\ UNCHANGED verdict

Report ==
  /\ verdict = "none"
  /\ verdict' \in IF work = "done" THEN {"ok", "error"} ELSE {"error"}
  /\ UNCHANGED work

\* Stopped from outside, possibly in the middle of the attempt.
Abort ==
  /\ verdict = "none"
  /\ verdict' = "killed"
  /\ work' \in {work} \union (IF work = "none" THEN {"unknown"} ELSE {})

Next == Attempt \/ Report \/ Abort

Spec == Init /\ [][Next]_<<work, verdict>>
=============================================================================
