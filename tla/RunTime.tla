------------------------------- MODULE RunTime -------------------------------
(***************************************************************************)
(* The time a run takes, from the minting of the cluster token to the end  *)
(* of its last helm command.  The token lives fifteen minutes and is never *)
(* renewed; every process the run starts on the way, but helm history, has *)
(* a time limit of its own, and the last one has TIMEOUT, which the pipe   *)
(* and helm take apart each in its own way.                                *)
(***************************************************************************)
EXTENDS Integers, Sequences

CONSTANTS
  Timeouts,  \* values of TIMEOUT, as the numbers and units a duration consists of
  Delays,    \* the times a step may take, in seconds
  Local      \* the most that unpacking, checking and writing files takes

Units == {"h", "m", "s"}

ASSUME RunTimeAssumption ==
  /\ Timeouts \subseteq Seq(Nat \X Units)
  /\ Delays \subseteq Nat
  /\ Local \in Nat

\* A token is accepted for fifteen minutes.
TokenLife == 900

\* The timeout= of each sub-command that gets the chart.
Limit == [repo_add |-> 60, repo_update |-> 120, pull_repo |-> 600,
          registry_login |-> 60, cosign |-> 120, pull_oci |-> 600]

FetchSteps == DOMAIN Limit
HelmSteps  == {"upgrade", "diff", "rollback"}
Ended      == {"ok", "failed", "timed out", "refused"}

Settings == [action : HelmSteps, chart : {"local", "repo", "oci"},
             login : BOOLEAN, verify : BOOLEAN, timeout : Timeouts]

VARIABLES
  s,        \* the settings of the run
  pc,       \* the step it is at
  now,      \* seconds since the token was minted
  started,  \* when the last helm command that talks to the cluster was started
  timer     \* how long subprocess.run lets that command run

vars == <<s, pc, now, started, timer>>

TypeOK ==
  /\ s \in Settings
  /\ pc \in FetchSteps \union {"prepare", "history"} \union HelmSteps \union Ended
  /\ now \in Nat /\ started \in 0 .. now /\ timer \in Nat

-----------------------------------------------------------------------------
\* Durations

\* The number a named group of the pattern has matched, or 0.
Group(d, u) ==
  IF \E i \in DOMAIN d : d[i][2] = u
  THEN d[CHOOSE i \in DOMAIN d : d[i][2] = u][1] ELSE 0

Seconds(d) == 3600 * Group(d, "h") + 60 * Group(d, "m") + Group(d, "s")

\* Mutant: minutes and seconds in any order.
MatchesMixed(d) == \A i, j \in DOMAIN d : i < j => d[j][2] # "h"

\* Each unit once at most, hours before minutes before seconds.
Matches(d) ==
  \A i, j \in DOMAIN d : i < j =>
    <<d[i][2], d[j][2]>> \in {<<"h", "m">>, <<"h", "s">>, <<"m", "s">>}

Valid(d) == Matches(d) /\ d # <<>> /\ Seconds(d) # 0

\* What helm makes of its --timeout: Go adds up the components, in any order.
HelmSeconds(d) ==
  LET f[i \in 0 .. Len(d)] ==
        IF i = 0 THEN 0
        ELSE f[i - 1] + d[i][1] * [h |-> 3600, m |-> 60, s |-> 1][d[i][2]]
  IN  f[Len(d)]

-----------------------------------------------------------------------------
\* The steps of a run

FirstStep(c) ==
  IF c.action = "rollback" \/ c.chart = "local" THEN "prepare"
  ELSE IF c.chart = "repo" THEN "repo_add"
  ELSE IF c.login THEN "registry_login"
  ELSE IF c.verify THEN "cosign" ELSE "pull_oci"

\* Mutant: a pull is tried again.
AfterRetrying(step) ==
  CASE step = "repo_add" -> {"repo_update"}
    [] step = "repo_update" -> {"pull_repo"}
    [] step = "registry_login" -> IF s.verify THEN {"cosign"} ELSE {"pull_oci"}
    [] step = "cosign" -> {"pull_oci"}
    [] step \in {"pull_repo", "pull_oci"} -> {step, "prepare"}

After(step) ==
  CASE step = "repo_add" -> {"repo_update"}
    [] step = "repo_update" -> {"pull_repo"}
    [] step = "registry_login" -> IF s.verify THEN {"cosign"} ELSE {"pull_oci"}
    [] step = "cosign" -> {"pull_oci"}
    [] step \in {"pull_repo", "pull_oci"} -> {"prepare"}

Init ==
  /\ s \in Settings
  /\ pc = FirstStep(s)
  /\ now = 0 /\ started = 0 /\ timer = 0

\* Mutant: a clock that can be set back.
SpendWallClock(d) == now' \in {now + d, now - d} /\ UNCHANGED s

\* A step that takes d seconds, by a monotonic clock.
Spend(d) == now' = now + d /\ UNCHANGED s

Fetch ==
  /\ pc \in FetchSteps
  /\ \E d \in Delays : d < Limit[pc] /\ Spend(d)
  /\ pc' \in After(pc) \union {"failed"}
  /\ UNCHANGED <<started, timer>>

FetchTimesOut ==
  /\ pc \in FetchSteps
  /\ Spend(Limit[pc])
  /\ pc' = "failed"
  /\ UNCHANGED <<started, timer>>

\* Mutant: an unparsed TIMEOUT leaves the command without a limit.
StartUnlimited(command) ==
  /\ started' = now'
  /\ pc' = command
  /\ timer' = IF Valid(s.timeout) THEN Seconds(s.timeout) ELSE 2 * TokenLife

\* _parse_timeout comes after everything else; what it rejects is a ValueError.
Start(command) ==
  /\ started' = now'
  /\ IF Valid(s.timeout) THEN pc' = command /\ timer' = Seconds(s.timeout)
     ELSE pc' = "refused" /\ UNCHANGED timer

\* Discovery of the chart, the look at its values, the kubeconfig.
Prepare ==
  /\ pc = "prepare"
  /\ \E d \in Delays : d <= Local /\ Spend(d)
  /\ \/ pc' = "failed" /\ UNCHANGED <<started, timer>>
     \/ s.action # "rollback" /\ Start(s.action)
     \/ s.action = "rollback" /\ pc' = "history" /\ started' = now' /\ UNCHANGED timer

\* helm history runs without a limit.
History ==
  /\ pc = "history"
  /\ \E d \in Delays : Spend(d)
  /\ \/ pc' = "failed" /\ UNCHANGED <<started, timer>>
     \/ Start("rollback")

Helm ==
  /\ pc \in HelmSteps
  /\ \E d \in Delays : d < timer /\ Spend(d)
  /\ pc' \in {"ok", "failed"}
  /\ UNCHANGED <<started, timer>>

HelmTimesOut ==
  /\ pc \in HelmSteps
  /\ Spend(timer)
  /\ pc' = "timed out"
  /\ UNCHANGED <<started, timer>>

Next == Fetch \/ FetchTimesOut \/ Prepare \/ History \/ Helm \/ HelmTimesOut

Spec == Init /\ [][Next]_vars

-----------------------------------------------------------------------------
\* Properties

\* However slowly the chart is fetched, helm starts with a token that has not
\* expired.  (Not so for helm rollback, which comes after helm history.)
StartsWithLiveToken == pc \in {"upgrade", "diff", "history"} => started < TokenLife

\* The sum of the limits of the steps before helm.
FetchLimit ==
  CASE s.chart = "local" -> 0
    [] s.chart = "repo" -> Limit.repo_add + Limit.repo_update + Limit.pull_repo
    [] s.chart = "oci" -> (IF s.login THEN Limit.registry_login ELSE 0)
                          + (IF s.verify THEN Limit.cosign ELSE 0) + Limit.pull_oci

\* An upgrade or diff ends, with its processes stopped, within the sum of the
\* limits of its steps and TIMEOUT.  As TIMEOUT is 600 s by default, only a
\* local chart leaves room for that within the life of the token.
EndsInTime ==
  s.action # "rollback" =>
    now <= FetchLimit + Local + IF Valid(s.timeout) THEN Seconds(s.timeout) ELSE 0

\* The timer of subprocess.run is the duration that helm takes TIMEOUT for, when
\* it is passed on as --timeout.  (helm/client.py: Go-duration string)
TimersAgree == pc \in HelmSteps => timer = HelmSeconds(s.timeout)
=============================================================================
