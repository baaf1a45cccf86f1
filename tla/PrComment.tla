------------------------------ MODULE PrComment ------------------------------
(***************************************************************************)
(* The comments of one pull request and the diff runs that keep one of     *)
(* them up to date (bitbucket/pr_comment.py): GET the first page, look for *)
(* the marker, then POST or PUT.  Nothing makes the two requests one step; *)
(* a request can be handled by Bitbucket after its sender has given up,    *)
(* and only the first PageLen comments are looked at.                      *)
(***************************************************************************)
EXTENDS Naturals, Sequences, FiniteSets

CONSTANTS
  Posters,      \* the runs that post a diff on this pull request
  Other,        \* a comment of a person, or one that has been deleted
  PageLen,      \* ?pagelen=
  MaxComments   \* bound: comments ever made on the pull request

ASSUME PrCommentAssumption ==
  /\ Other \notin Posters
  /\ PageLen \in Nat \ {0} /\ MaxComments \in Nat
  /\ IsFiniteSet(Posters)

\* A comment's id is its position, its text the marker and the diff of a run, or
\* Other.
Comment == Posters \union {Other}

VARIABLES
  comments,   \* the pull request's comments, oldest first
  pc,         \* where each run is in post_diff_comment
  target,     \* existing_id, 0 for None
  answer,     \* Bitbucket's answer to its POST or PUT
  log,        \* the last thing it logged
  peak        \* history, read by no action: the most runs ever in flight at once

vars == <<comments, pc, target, answer, log, peak>>

TypeOK ==
  /\ comments \in Seq(Comment) /\ Len(comments) <= MaxComments
  /\ pc \in [Posters -> {"get", "send", "sent", "returned", "killed"}]
  /\ target \in [Posters -> 0 .. MaxComments]
  /\ answer \in [Posters -> {"none", "awaited", "ok", "error"}]
  /\ log \in [Posters -> {"none", "api_error", "unexpected_exception", "posted"}]
  /\ peak \in Nat

Init ==
  /\ comments = <<>>
  /\ pc = [p \in Posters |-> "get"]
  /\ target = [p \in Posters |-> 0]
  /\ answer = [p \in Posters |-> "none"]
  /\ log = [p \in Posters |-> "none"]
  /\ peak = 0

\* A run that acts on what it has read, or a request that Bitbucket still has.
Busy(p) == pc[p] = "send" \/ answer[p] = "awaited"
InFlight == {p \in Posters : Busy(p)}

\* The peak, when a run comes to be in flight.
PeakWith(p) ==
  LET now == Cardinality(InFlight \union {p}) IN IF now > peak THEN now ELSE peak

Ids     == 1 .. Len(comments)
Marked  == {n \in Ids : comments[n] \in Posters}
Page    == 1 .. PageLen   \* the first page of the listing

\* What a run finds the marker in.
Seen    == Marked \intersect Page

Return(p, event) ==
  /\ pc' = [pc EXCEPT ![p] = "returned"]
  /\ log' = [log EXCEPT ![p] = event]

-----------------------------------------------------------------------------
\* post_diff_comment: the first listed comment with the marker, if any.  A
\* status of 400 or more, a network error (whose body is no JSON) and an
\* exception all end the call.
Get(p) ==
  /\ pc[p] = "get"
  /\ \/ /\ IF Seen = {} THEN target' = target
           ELSE \E n \in Seen : /\ \A m \in Seen : n <= m
                                /\ target' = [target EXCEPT ![p] = n]
        /\ pc' = [pc EXCEPT ![p] = "send"]
        /\ peak' = PeakWith(p)
        /\ UNCHANGED log
     \/ /\ \E event \in {"api_error", "unexpected_exception"} : Return(p, event)
        /\ UNCHANGED <<target, peak>>
  /\ UNCHANGED <<comments, answer>>

Send(p) ==
  /\ pc[p] = "send"
  /\ pc' = [pc EXCEPT ![p] = "sent"]
  /\ answer' = [answer EXCEPT ![p] = "awaited"]
  /\ UNCHANGED <<comments, target, log, peak>>

\* Bitbucket handles the request, or rejects it: a PUT always if the comment is
\* gone.
Handle(p) ==
  /\ answer[p] = "awaited"
  /\ \/ /\ target[p] = 0
        /\ Len(comments) < MaxComments
        /\ comments' = Append(comments, p)
        /\ answer' = [answer EXCEPT ![p] = "ok"]
     \/ /\ target[p] \in Marked
        /\ comments' = [comments EXCEPT ![target[p]] = p]
        /\ answer' = [answer EXCEPT ![p] = "ok"]
     \/ /\ answer' = [answer EXCEPT ![p] = "error"]
        /\ UNCHANGED comments
  /\ UNCHANGED <<pc, target, log, peak>>

\* Mutant: the answer is handed on as it came.
ReceiveRaw(p) ==
  /\ pc[p] = "sent" /\ answer[p] \in {"ok", "error"}
  /\ Return(p, answer[p])
  /\ UNCHANGED <<comments, target, answer, peak>>

Receive(p) ==
  /\ pc[p] = "sent" /\ answer[p] \in {"ok", "error"}
  /\ Return(p, IF answer[p] = "ok" THEN "posted" ELSE "api_error")
  /\ UNCHANGED <<comments, target, answer, peak>>

\* Mutant: a request without an answer is sent again, without looking again.
GiveUpRetry(p) ==
  /\ pc[p] = "sent"
  /\ \/ pc' = [pc EXCEPT ![p] = "send"] /\ UNCHANGED log
     \/ Return(p, "unexpected_exception")
  /\ UNCHANGED <<comments, target, answer, peak>>

\* Mutant: urlopen without a timeout.
GiveUpAnswered(p) ==
  /\ pc[p] = "sent" /\ answer[p] \in {"ok", "error"}
  /\ \E event \in {"posted", "unexpected_exception"} : Return(p, event)
  /\ UNCHANGED <<comments, target, answer, peak>>

\* No answer within _HTTP_TIMEOUT_SECONDS, or none that can be read.  A URLError
\* is status 0, which is not ">= 400"; any other exception is swallowed by
\* _maybe_post_pr_comment.  Bitbucket may have handled the request or still do so.
GiveUp(p) ==
  /\ pc[p] = "sent"
  /\ \E event \in {"posted", "unexpected_exception"} : Return(p, event)
  /\ UNCHANGED <<comments, target, answer, peak>>

Kill(p) ==
  /\ pc[p] \notin {"returned", "killed"}
  /\ pc' = [pc EXCEPT ![p] = "killed"]
  /\ UNCHANGED <<comments, target, answer, log, peak>>

-----------------------------------------------------------------------------
\* Other people

PersonComments ==
  /\ Len(comments) < MaxComments
  /\ comments' = Append(comments, Other)
  /\ UNCHANGED <<pc, target, answer, log, peak>>

PersonDeletes ==
  /\ \E n \in Marked : comments' = [comments EXCEPT ![n] = Other]
  /\ UNCHANGED <<pc, target, answer, log, peak>>

Next ==
  \/ \E p \in Posters :
       Get(p) \/ Send(p) \/ Handle(p) \/ Receive(p) \/ GiveUp(p) \/ Kill(p)
  \/ PersonComments \/ PersonDeletes

Spec == Init /\ [][Next]_vars

\* urlopen has a timeout: every call of a run returns, whatever Bitbucket does.
FairSpec == Spec /\ \A p \in Posters : WF_vars(Send(p) \/ Receive(p) \/ GiveUp(p))

-----------------------------------------------------------------------------
\* Properties

\* The page a run looks at never shows more diff comments than the most runs that
\* were in flight at one time, one if they always followed one another: however
\* many runs there have been, in whatever order their requests are handled, however
\* late, though they are killed, their requests lost, comments deleted in between
\* and others pushed past the page.  (docs/migration/v1-to-v2.md: a single comment;
\* post_diff_comment)
CommentsBounded == Cardinality(Marked \intersect Page) <= peak

\* A run that has looked at the comments gets past its request whether or not
\* it is answered: the diff run behind it goes on.  (_HTTP_TIMEOUT_SECONDS,
\* _maybe_post_pr_comment)
PostingEnds == \A p \in Posters : pc[p] = "send" ~> pc[p] \in {"returned", "killed"}
=============================================================================
