------------------------------- MODULE Release -------------------------------
(***************************************************************************)
(* One helm release and the runs of the pipe that upgrade it or roll it    *)
(* back: what SAFE_UPGRADE, the marker "pipe:safe-upgrade", the rollback   *)
(* pre-flight, HISTORY_MAX and the subprocess timeout make of the release  *)
(* history when runs overlap, fail, time out or are killed.  The pipe has  *)
(* no lock: all that keeps two runs apart is that helm refuses an upgrade  *)
(* while the newest revision is pending.  Helm does not refuse a rollback  *)
(* then, and a failed upgrade that is about to be undone is not pending.   *)
(* With Exclusive the pipelines keep the helm commands apart themselves.   *)
(* The run's own steps before and after helm are in PipeRun.               *)
(***************************************************************************)
EXTENDS Integers, FiniteSets

CONSTANTS
  Runs,            \* the runs of the pipe against this release
  Jobs,            \* what a run may be asked to do
  Base,            \* the content of a revision that was there before
  NoContent,       \* nothing is deployed
  HelmDefaultMax,  \* helm's --history-max when none is passed
  Exclusive        \* the pipelines keep the helm commands of two runs apart

NoMax == -1   \* HISTORY_MAX unset

JobType ==
  [action : {"upgrade"}, safe_upgrade : BOOLEAN, history_max : Nat \union {NoMax}]
  \union
  [action : {"rollback"}, revision : Nat, history_max : Nat \union {NoMax}]

Contents == Runs \union {Base}   \* each upgrade brings a content of its own

ASSUME ReleaseAssumption ==
  /\ Jobs \subseteq JobType
  /\ Base \notin Runs /\ NoContent \notin Contents
  /\ HelmDefaultMax \in Nat
  /\ Exclusive \in BOOLEAN

Statuses == {"pending", "deployed", "superseded", "failed"}
Revision == [status : Statuses, marked : BOOLEAN, content : Contents, by : Contents]

NoExit == -1
Killed == -2

VARIABLES
  job,        \* what each run was asked to do
  pc,         \* where each run is
  exit,       \* its exit status
  mine,       \* the newest revision it has created, 0 if none
  prev,       \* the revision helm found current when it began, 0 if none
  hist,       \* the release history: revision number -> revision
  live,       \* the content last applied to the cluster
  ready,      \* whether the workloads pass their readiness checks
  converged   \* the contents that were live and ready at some time

vars == <<job, pc, exit, mine, prev, hist, live, ready, converged>>
cluster == <<live, ready, converged>>

TypeOK ==
  /\ job \in [Runs -> Jobs]
  /\ pc \in [Runs -> {"start", "rollback", "apply", "wait", "undo", "restore", "ended"}]
  /\ exit \in [Runs -> {NoExit, Killed, 0, 4, 5, 6}]
  /\ mine \in [Runs -> Nat]
  /\ prev \in [Runs -> Nat]
  /\ DOMAIN hist \subseteq Nat \ {0}
  /\ \A n \in DOMAIN hist : hist[n] \in Revision
  /\ live \in Contents \union {NoContent}
  /\ ready \in BOOLEAN
  /\ converged \subseteq Contents

\* A release that does not exist, or one revision deployed with or without
\* SAFE_UPGRADE (whose workloads, without it, may never have become ready).
Init ==
  /\ job \in [Runs -> Jobs]
  /\ pc = [r \in Runs |-> "start"]
  /\ exit = [r \in Runs |-> NoExit]
  /\ mine = [r \in Runs |-> 0]
  /\ prev = [r \in Runs |-> 0]
  /\ \/ /\ hist = [n \in {} |-> 0]
        /\ live = NoContent /\ ready = FALSE /\ converged = {}
     \/ \E safe \in BOOLEAN :
          /\ hist = [n \in {1} |-> [status |-> "deployed", marked |-> safe,
                                    content |-> Base, by |-> Base]]
          /\ live = Base /\ ready = safe
          /\ converged = IF safe THEN {Base} ELSE {}

-----------------------------------------------------------------------------
\* The release history

Numbers    == DOMAIN hist
Newest(S)  == {n \in S : \A m \in S : m <= n}
Latest     == IF Numbers = {} THEN 0 ELSE CHOOSE n \in Numbers : n \in Newest(Numbers)
WithStatus(S) == {n \in Numbers : hist[n].status \in S}
Locked     == Numbers # {} /\ hist[Latest].status = "pending"

Upgrades(r)  == job[r].action = "upgrade"
Rollbacks(r) == job[r].action = "rollback"
Safe(r)      == Upgrades(r) /\ job[r].safe_upgrade
Active(r)    == pc[r] \in {"apply", "wait", "undo", "restore"}
Alone        == Exclusive => \A r \in Runs : ~Active(r)

\* Mutant: HISTORY_MAX is tested for truth, so 0 counts as unset.
history_max_if_true(r) ==
  IF Upgrades(r) /\ job[r].history_max > 0 THEN job[r].history_max ELSE HelmDefaultMax

\* _build_argv: --history-max is passed whenever HISTORY_MAX is set, 0 included;
\* _build_rollback_argv never passes it.
history_max(r) ==
  IF Upgrades(r) /\ job[r].history_max # NoMax THEN job[r].history_max ELSE HelmDefaultMax

\* Before it adds a revision helm deletes the oldest ones, down to max - 1 and
\* never the newest deployed one; 0 is no limit.
Kept(max) ==
  LET spared   == Newest(WithStatus({"deployed"}))
      Newer(n) == {m \in Numbers \ spared : m >= n}
  IN  IF max = 0 THEN Numbers
      ELSE spared \union {n \in Numbers \ spared :
                            Cardinality(Newer(n)) + Cardinality(spared) <= max - 1}

\* Mutant: the next number is that of the newest revision.
CreateInPlace(r, content, max) ==
  LET new == Latest
  IN  /\ hist' = [n \in Kept(max) \union {new} |->
                    IF n = new THEN [status |-> "pending", marked |-> FALSE,
                                     content |-> content, by |-> r]
                    ELSE hist[n]]
      /\ mine' = [mine EXCEPT ![r] = new]

Create(r, content, max) ==
  LET new == Latest + 1
  IN  /\ hist' = [n \in Kept(max) \union {new} |->
                    IF n = new THEN [status |-> "pending", marked |-> FALSE,
                                     content |-> content, by |-> r]
                    ELSE hist[n]]
      /\ mine' = [mine EXCEPT ![r] = new]

\* Every revision in S gets the status, unless it has been pruned.
Record(S, status) ==
  [n \in Numbers |-> IF n \in S THEN [hist[n] EXCEPT !.status = status] ELSE hist[n]]

Goto(r, step) == pc' = [pc EXCEPT ![r] = step] /\ UNCHANGED exit
End(r, code)  == pc' = [pc EXCEPT ![r] = "ended"] /\ exit' = [exit EXCEPT ![r] = code]

-----------------------------------------------------------------------------
\* helm upgrade --install, as HelmClient.upgrade_install runs it

UpgradeBegins(r) ==
  /\ pc[r] = "start" /\ Upgrades(r)
  /\ ~Locked
  /\ Alone
  /\ Create(r, r, history_max(r))
  /\ LET deployed == WithStatus({"deployed"})
     IN  \E n \in IF deployed = {} THEN {Latest} ELSE Newest(deployed) :
           prev' = [prev EXCEPT ![r] = n]
  /\ Goto(r, "apply")
  /\ UNCHANGED <<job, cluster>>

\* helm ends with an error before it has created a revision: it refuses because
\* the newest one is pending, the revision to roll back to is gone, the chart
\* does not render, the cluster rejects the token.
HelmRefuses(r) ==
  /\ pc[r] = "rollback" \/ (pc[r] = "start" /\ Upgrades(r))
  /\ End(r, 5)
  /\ UNCHANGED <<job, mine, prev, hist, cluster>>

\* The manifests of the new revision, of an upgrade or a rollback, are applied.
Apply(r) ==
  /\ pc[r] = "apply" /\ mine[r] \in Numbers
  /\ live' = hist[mine[r]].content /\ ready' = FALSE
  /\ Goto(r, "wait")
  /\ UNCHANGED <<job, mine, prev, hist, converged>>

\* Mutant: SAFE_UPGRADE without --wait.
UpgradeSucceedsUnready(r) ==
  /\ pc[r] = "wait" /\ Upgrades(r) /\ mine[r] \in Numbers
  /\ hist' = [Record({prev[r]}, "superseded") EXCEPT
                ![mine[r]] = [@ EXCEPT !.status = "deployed", !.marked = Safe(r)]]
  /\ End(r, 0)
  /\ UNCHANGED <<job, mine, prev, cluster>>

\* --wait: the workloads are ready, whoever applied them last.  --description
\* becomes the revision's description only now.
UpgradeSucceeds(r) ==
  /\ pc[r] = "wait" /\ Upgrades(r) /\ mine[r] \in Numbers
  /\ Safe(r) => ready
  /\ hist' = [Record({prev[r]}, "superseded") EXCEPT
                ![mine[r]] = [@ EXCEPT !.status = "deployed", !.marked = Safe(r)]]
  /\ End(r, 0)
  /\ UNCHANGED <<job, mine, prev, cluster>>

\* Mutant: helm's return code is not looked at.
UpgradeFailureIgnored(r) ==
  /\ pc[r] \in {"apply", "wait"} /\ Upgrades(r)
  /\ hist' \in {hist, Record({mine[r]}, "failed")}
  /\ IF Safe(r) THEN Goto(r, "undo") ELSE End(r, 0)
  /\ UNCHANGED <<job, mine, prev, cluster>>

\* A failure is recorded, if the cluster can still be reached.  Some manifests
\* may have been applied.  --rollback-on-failure goes on to undo the upgrade.
UpgradeFails(r) ==
  /\ pc[r] \in {"apply", "wait"} /\ Upgrades(r)
  /\ hist' \in {hist, Record({mine[r]}, "failed")}
  /\ \/ UNCHANGED cluster
     \/ pc[r] = "apply" /\ live' = r /\ ready' = FALSE /\ UNCHANGED converged
  /\ IF Safe(r) THEN Goto(r, "undo") ELSE End(r, 5)
  /\ UNCHANGED <<job, mine, prev>>

\* ... a first install by uninstalling the release,
Uninstall(r) ==
  /\ pc[r] = "undo" /\ prev[r] = 0
  /\ hist' = [n \in {} |-> 0]
  /\ live' = NoContent /\ ready' = FALSE
  /\ End(r, 5)
  /\ UNCHANGED <<job, mine, prev, converged>>

\* ... an upgrade by rolling back to the newest revision that was ever deployed,
\* whether or not its workloads were ready.
Targets == WithStatus({"deployed", "superseded"})

AutoRollback(r) ==
  /\ pc[r] = "undo" /\ prev[r] # 0
  /\ \E n \in Newest(Targets) : Create(r, hist[n].content, 0) /\ live' = hist[n].content
  /\ ready' = FALSE
  /\ Goto(r, "restore")
  /\ UNCHANGED <<job, prev, converged>>

Restored(r) ==
  /\ pc[r] = "restore" /\ mine[r] \in Numbers /\ ready
  /\ hist' = [Record(WithStatus({"deployed"}), "superseded") EXCEPT
                ![mine[r]] = [@ EXCEPT !.status = "deployed"]]
  /\ End(r, 5)
  /\ UNCHANGED <<job, mine, prev, cluster>>

UndoFails(r) ==
  /\ pc[r] \in {"undo", "restore"}
  /\ hist' \in {hist, Record({mine[r]}, "failed")}
  /\ End(r, 5)
  /\ UNCHANGED <<job, mine, prev, cluster>>

-----------------------------------------------------------------------------
\* RollbackAction._run_rollback

\* Mutant: the pre-flight only asks whether the revision exists.
PreflightExists(r) ==
  /\ pc[r] = "start" /\ Rollbacks(r)
  /\ \/ job[r].revision \in Numbers /\ Goto(r, "rollback")
     \/ job[r].revision \notin Numbers /\ Numbers # {} /\ End(r, 4)
     \/ End(r, 5)
  /\ UNCHANGED <<job, mine, prev, hist, cluster>>

\* HelmClient.history and the pre-flight check: the revision is there and its
\* description carries the marker.
Preflight(r) ==
  /\ pc[r] = "start" /\ Rollbacks(r)
  /\ LET target   == job[r].revision
         accepted == target \in Numbers /\ hist[target].marked
     IN  \/ accepted /\ Goto(r, "rollback")
         \/ ~accepted /\ Numbers # {} /\ End(r, 4)
         \/ End(r, 5)
  /\ UNCHANGED <<job, mine, prev, hist, cluster>>

\* Mutant: helm rollback without a revision goes back by one.
RollbackToPrevious(r) ==
  /\ pc[r] = "rollback"
  /\ Latest - 1 \in Numbers
  /\ Alone
  /\ Create(r, hist[Latest - 1].content, history_max(r))
  /\ prev' = [prev EXCEPT ![r] = Latest]
  /\ Goto(r, "apply")
  /\ UNCHANGED <<job, cluster>>

\* helm reads the history again; it rolls back to whatever the number means now.
RollbackBegins(r) ==
  /\ pc[r] = "rollback"
  /\ job[r].revision \in Numbers
  /\ Alone
  /\ Create(r, hist[job[r].revision].content, history_max(r))
  /\ prev' = [prev EXCEPT ![r] = Latest]
  /\ Goto(r, "apply")
  /\ UNCHANGED <<job, cluster>>

\* There is no --wait: helm is done once the manifests are applied.
RollbackSucceeds(r) ==
  /\ pc[r] = "wait" /\ Rollbacks(r) /\ mine[r] \in Numbers
  /\ hist' = [Record(WithStatus({"deployed"}), "superseded") EXCEPT
                ![mine[r]] = [@ EXCEPT !.status = "deployed"]]
  /\ End(r, 0)
  /\ UNCHANGED <<job, mine, prev, cluster>>

RollbackFails(r) ==
  /\ pc[r] \in {"apply", "wait"} /\ Rollbacks(r)
  /\ \/ UNCHANGED hist
     \/ hist' = [n \in Numbers |->
                   IF n = mine[r] THEN [hist[n] EXCEPT !.status = "failed"]
                   ELSE IF n = prev[r] THEN [hist[n] EXCEPT !.status = "superseded"]
                   ELSE hist[n]]
  /\ \/ UNCHANGED cluster
     \/ /\ pc[r] = "apply" /\ mine[r] \in Numbers
        /\ live' = hist[mine[r]].content /\ ready' = FALSE /\ UNCHANGED converged
  /\ End(r, 5)
  /\ UNCHANGED <<job, mine, prev>>

-----------------------------------------------------------------------------
\* The ends the pipe or the CI system impose, and the cluster

\* Mutant: an expired timer counts as success.
TimeoutIgnored(r) ==
  /\ pc[r] # "ended" /\ ~(pc[r] = "start" /\ Rollbacks(r))
  /\ End(r, 0)
  /\ UNCHANGED <<job, mine, prev, hist, cluster>>

\* subprocess.run(timeout=_parse_timeout(TIMEOUT)) kills helm with SIGKILL after
\* the very time helm was given for the upgrade; helm history has no timer.
Timeout(r) ==
  /\ pc[r] # "ended" /\ ~(pc[r] = "start" /\ Rollbacks(r))
  /\ End(r, 6)
  /\ UNCHANGED <<job, mine, prev, hist, cluster>>

Kill(r) ==
  /\ pc[r] # "ended"
  /\ End(r, Killed)
  /\ UNCHANGED <<job, mine, prev, hist, cluster>>

Converge ==
  /\ live # NoContent /\ ~ready
  /\ ready' = TRUE /\ converged' = converged \union {live}
  /\ UNCHANGED <<job, pc, exit, mine, prev, hist, live>>

Upgrade(r) ==
  \/ UpgradeBegins(r) \/ UpgradeSucceeds(r) \/ UpgradeFails(r)
  \/ Uninstall(r) \/ AutoRollback(r) \/ Restored(r) \/ UndoFails(r)

Rollback(r) ==
  Preflight(r) \/ RollbackBegins(r) \/ RollbackSucceeds(r) \/ RollbackFails(r)

Next ==
  \/ Converge
  \/ \E r \in Runs : Upgrade(r) \/ Rollback(r) \/ HelmRefuses(r) \/ Apply(r)
                       \/ Timeout(r) \/ Kill(r)

Spec == Init /\ [][Next]_vars

-----------------------------------------------------------------------------
\* Properties

\* Only a deployment whose workloads passed their readiness checks carries the
\* marker that authorises a rollback to it.  (docs/migration/v1-to-v2.md,
\* _build_argv, the pre-flight check)
MarkedMeansConverged ==
  \A n \in Numbers : hist[n].marked => hist[n].content \in converged

\* A rollback, in progress or done, puts back a content that has been ready
\* before, although helm reads the history after the check.  (_run_rollback)
RollbackRestoresConverged ==
  \A n \in Numbers : hist[n].by \in Runs /\ Rollbacks(hist[n].by)
                       => hist[n].content \in converged

\* A run that reported success and is still the last word on the release is
\* what the cluster runs; after SAFE_UPGRADE, what has been seen ready.
\* (upgrade_install's and rollback's return codes)
ExitZeroIsLive ==
  \A r \in Runs : exit[r] = 0 /\ mine[r] = Latest =>
    /\ hist[Latest].status = "deployed"
    /\ live = hist[Latest].content
    /\ Safe(r) => hist[Latest].marked /\ live \in converged

\* A revision that stays pending, and locks the release, belongs to a run that
\* is at work or has not reported success.  (the codes of errors.py)
PendingMeansUnfinished ==
  \A n \in Numbers : \A r \in Runs :
    hist[n].status = "pending" /\ hist[n].by = r => exit[r] \notin {0, 4}

\* HISTORY_MAX=0 is no limit, not an unset one: such an upgrade deletes no
\* revision, except by undoing a first install.  (_build_argv)
UnlimitedUpgradeKeepsHistory ==
  [][ \A r \in Runs :
        Upgrades(r) /\ job[r].history_max = 0 /\ pc[r] # pc'[r] /\ prev'[r] # 0
          => Numbers \subseteq DOMAIN hist' ]_vars

\* What the marker promises (MarkedRollback), in terms of the history: the
\* revisions with the marker, the rollbacks past their pre-flight check and the
\* contents rollbacks have put back.
Vouched == [n \in {m \in Numbers : hist[m].marked} |-> hist[n].content]
Asked   == [r \in {s \in Runs : pc[s] = "rollback"} |-> job[r].revision]
PutBack == {hist[n].content : n \in {m \in Numbers : hist[m].by \in Runs /\ Rollbacks(hist[m].by)}}

Promise == INSTANCE MarkedRollback
  WITH seen <- converged, vouched <- Vouched, asked <- Asked, restored <- PutBack

\* If helm commands do not overlap, the history that helm keeps, prunes and
\* numbers keeps that promise, although it is read twice, by the pre-flight check
\* and by helm rollback.  (_run_rollback, _build_argv)
KeepsPromise == Promise!Spec

-----------------------------------------------------------------------------
\* What documentation says of the release, and the code does not do

\* README.md: SAFE_UPGRADE is an atomic upgrade, with auto-rollback on failure:
\* one that reports a failure does not leave its revision pending.
SafeUpgradeIsAtomic ==
  \A r \in Runs : Safe(r) /\ exit[r] = 6 =>
    \A n \in Numbers : hist[n].by = r => hist[n].status # "pending"
=============================================================================
