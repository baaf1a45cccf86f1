------------------------------ MODULE MCRunTime ------------------------------
(* Durations of up to three components; steps that take no time, a while, or *)
(* all the time they are given.                                              *)
EXTENDS RunTime, SequencesExt

TimeoutsMC == BoundedSeq({0, 2} \X Units, 3) \union {<< <<600, "s">> >>}
DelaysMC   == {0, 1, 5, 59, 119, 599, 1000}
=============================================================================
