------------------------------- MODULE PipeRun -------------------------------
(***************************************************************************)
(* One run of the pipe: the process started by cli.main(), from reading    *)
(* its settings to its exit status.  A run is sequential; what makes it    *)
(* hard is that every step can fail, that two resources (the chart's       *)
(* temporary directory and the kubeconfig file with the cluster token) are *)
(* released while an error unwinds, that releasing can itself fail, and    *)
(* that the CI system can kill the process between any two steps.          *)
(***************************************************************************)
EXTENDS Integers, FiniteSets

CONSTANT Settings   \* the settings a run may be started with

-----------------------------------------------------------------------------
\* Types and tables of the code

Actions  == {"upgrade", "diff", "rollback"}
EnvVars  == {"CLUSTER_NAME", "CHART", "RELEASE_NAME", "REVISION"}
CredVars == {"keys", "oidc_token", "role_arn", "audience"}

\* settings.py: the fields that steer control.  "malformed" is a repo:// spec
\* without a chart part or without REPO_URL; oci holds the optional steps of an
\* oci:// chart; timeout tells whether _parse_timeout accepts TIMEOUT.
SettingsType ==
  [action  : Actions,
   dry_run : BOOLEAN,
   unset   : SUBSET EnvVars,
   creds   : SUBSET CredVars,
   chart   : {"local", "repo", "oci", "malformed"},
   oci     : SUBSET {"login", "verify"},
   timeout : BOOLEAN]

ASSUME SettingsAssumption == Settings \subseteq SettingsType

\* errors.py: the classes of PipeError; "Exception" is any other exception.
EarlyErrors == {"ConfigurationError", "AuthenticationError",
                "ClusterAccessError", "EksTokenError", "ChartResolutionError"}

\* Mutant: helm's "chart not found" becomes the chart sources' error.
HelmErrorsWithChart == {"HelmExecutionError", "HelmTimeoutError", "ChartResolutionError"}

HelmErrors == {"HelmExecutionError", "HelmTimeoutError"}
PipeErrors  == EarlyErrors \union HelmErrors \union {"KubeconfigError"}
Raised      == PipeErrors \union {"OSError", "Exception"}

\* Mutant: the codes of the last two classes are off by one.
exit_code_shifted(e) ==
  CASE e = "ConfigurationError"   -> 1
    [] e = "AuthenticationError"  -> 2
    [] e \in {"ClusterAccessError", "EksTokenError"} -> 3
    [] e = "ChartResolutionError" -> 4
    [] e = "HelmExecutionError"   -> 5
    [] e = "HelmTimeoutError"     -> 7
    [] e = "KubeconfigError"      -> 8
    [] OTHER                      -> 99

exit_code(e) ==
  CASE e = "ConfigurationError"   -> 1
    [] e = "AuthenticationError"  -> 2
    [] e \in {"ClusterAccessError", "EksTokenError"} -> 3
    [] e = "ChartResolutionError" -> 4
    [] e = "HelmExecutionError"   -> 5
    [] e = "HelmTimeoutError"     -> 6
    [] e = "KubeconfigError"      -> 7
    [] OTHER                      -> 99

FetchSteps == {"repo_add", "repo_update", "login", "verify", "pull"}
HelmSteps  == {"helm", "history", "rollback"}
Ended      == {"exited", "killed"}
Steps == {"settings", "select_strategy", "required", "credentials",
          "describe_cluster", "token", "select_chart_source", "chart",
          "mkdtemp", "fetch", "discover", "values_yaml", "mktemp", "chmod", "write",
          "unlink", "comment", "success", "rmtree", "fail"}
         \union HelmSteps \union Ended

NoExit == -1

VARIABLES
  settings,    \* the Settings object; never changes after construction
  pc,          \* the step the process is about to take
  exc,         \* the exception in flight or reported, "none" if none
  done,        \* the chart-fetching sub-commands that have succeeded
  chart_dir,   \* the remote chart's temporary directory
  kubeconfig,  \* the kubeconfig temporary file and what it holds
  helm,        \* what the action's final helm command returned
  cluster,     \* what the run has done to the release in the cluster
  said,        \* the messages sent through PipeIO
  exit         \* the process's exit status

vars == <<settings, pc, exc, done, chart_dir, kubeconfig, helm, cluster, said, exit>>

TypeOK ==
  /\ settings \in SettingsType
  /\ pc \in Steps
  /\ exc \in Raised \union {"none"}
  /\ done \in SUBSET FetchSteps
  /\ chart_dir \in {"none", "present", "left"}
  /\ kubeconfig \in {"none", "empty", "token"}
  /\ helm \in {"none", "ok", "failed"}
  /\ cluster \in {"untouched", "unknown", "changed"}
  /\ said \in SUBSET {"success", "fail"}
  /\ exit \in {NoExit, 0, 1, 2, 3, 4, 5, 6, 7, 99}

Init ==
  /\ settings \in Settings
  /\ pc = "settings"
  /\ exc = "none"
  /\ done = {}
  /\ chart_dir = "none"
  /\ kubeconfig = "none"
  /\ helm = "none"
  /\ cluster = "untouched"
  /\ said = {}
  /\ exit = NoExit

-----------------------------------------------------------------------------
\* Control shared by the steps

\* Mutant: DRY_RUN is not looked at.
ModeOfAction == settings.action

\* cli.main()'s dispatch: DRY_RUN turns an upgrade into a diff, and only that.
Mode == IF settings.action = "upgrade" /\ settings.dry_run
        THEN "diff" ELSE settings.action

Mutates == Mode \in {"upgrade", "rollback"}
Remote  == Mode # "rollback" /\ settings.chart \in {"repo", "oci"}

\* Where an exception goes next: the innermost cleanup still owed.
AfterChart == IF chart_dir = "present" THEN "rmtree" ELSE "fail"
Raise(e)   == exc' = e /\ pc' = AfterChart

\* A step that either hands over to the next one or raises one of its errors.
Step(step, errors, next) ==
  /\ pc = step
  /\ \/ pc' = next /\ UNCHANGED exc
     \/ \E e \in errors : Raise(e)

-----------------------------------------------------------------------------
\* cli.main(): settings and strategy

\* Settings() raises: a line on stderr, no PipeIO message, status 1.
LoadSettings ==
  /\ pc = "settings"
  /\ \/ pc' = "select_strategy" /\ UNCHANGED <<exc, exit>>
     \/ pc' = "exited" /\ exc' = "ConfigurationError" /\ exit' = 1
  /\ UNCHANGED <<settings, done, chart_dir, kubeconfig, helm, cluster, said>>

strategy ==
  LET Set(V) == V \subseteq settings.creds
  IN  CASE Set({"keys", "role_arn"}) -> "assume_role"
        [] Set({"keys"}) /\ ~Set({"role_arn"}) -> "static"
        [] Set({"oidc_token", "role_arn", "audience"}) /\ ~Set({"keys"}) -> "oidc"
        [] OTHER -> "none"

select_strategy ==
  /\ pc = "select_strategy"
  /\ IF strategy = "none"
     THEN Raise("ConfigurationError")
     ELSE pc' = "required" /\ UNCHANGED exc
  /\ UNCHANGED <<settings, done, chart_dir, kubeconfig, helm, cluster, said, exit>>

-----------------------------------------------------------------------------
\* The actions' common prefix: required fields, credentials, cluster, token

Required == {"CLUSTER_NAME", "RELEASE_NAME",
             IF Mode = "rollback" THEN "REVISION" ELSE "CHART"}

CheckRequired ==
  /\ pc = "required"
  /\ IF Required \intersect settings.unset # {}
     THEN Raise("ConfigurationError")
     ELSE pc' = "credentials" /\ UNCHANGED exc
  /\ UNCHANGED <<settings, done, chart_dir, kubeconfig, helm, cluster, said, exit>>

\* Static keys are handed over as they are; STS can refuse, and botocore's
\* connection errors are not translated.
CredentialErrors ==
  CASE strategy = "assume_role" -> {"AuthenticationError", "ConfigurationError", "Exception"}
    [] strategy = "oidc"        -> {"AuthenticationError", "Exception"}
    [] OTHER                    -> {}

get_credentials ==
  /\ Step("credentials", CredentialErrors, "describe_cluster")
  /\ UNCHANGED <<settings, done, chart_dir, kubeconfig, helm, cluster, said, exit>>

get_cluster_access ==
  /\ Step("describe_cluster", {"ClusterAccessError", "Exception"}, "token")
  /\ UNCHANGED <<settings, done, chart_dir, kubeconfig, helm, cluster, said, exit>>

generate_eks_token ==
  /\ Step("token", {"EksTokenError", "Exception"},
          IF Mode = "rollback" THEN "mktemp" ELSE "select_chart_source")
  /\ UNCHANGED <<settings, done, chart_dir, kubeconfig, helm, cluster, said, exit>>

-----------------------------------------------------------------------------
\* chart/: select a source and resolve it

select_chart_source ==
  /\ pc = "select_chart_source"
  /\ IF settings.chart = "malformed"
     THEN Raise("ConfigurationError")
     ELSE pc' = (IF Remote THEN "mkdtemp" ELSE "chart") /\ UNCHANGED exc
  /\ UNCHANGED <<settings, done, chart_dir, kubeconfig, helm, cluster, said, exit>>

AfterResolve == IF Mode = "upgrade" THEN "values_yaml" ELSE "mktemp"

\* LocalChart.resolve: the path, then Chart.yaml; read errors are not translated.
ResolveLocal ==
  /\ Step("chart", {"ChartResolutionError", "Exception"}, AfterResolve)
  /\ UNCHANGED <<settings, done, chart_dir, kubeconfig, helm, cluster, said, exit>>

\* The sub-commands RepoChart.resolve and OciChart.resolve owe, and their order.
Owed == {"pull"} \union (IF settings.chart = "repo"
                         THEN {"repo_add", "repo_update"} ELSE settings.oci)

\* Mutant: the chart is verified once it has been pulled.
PullThenVerify == [repo_add |-> 1, login |-> 1, repo_update |-> 2, verify |-> 3, pull |-> 2]

rank == [repo_add |-> 1, login |-> 1, repo_update |-> 2, verify |-> 2, pull |-> 3]

\* A failing mkdtemp leaves nothing to remove: it precedes the try block.
MakeChartDir ==
  /\ Step("mkdtemp", {"Exception"}, "fetch")
  /\ chart_dir' = IF exc' = "none" THEN "present" ELSE "none"
  /\ UNCHANGED <<settings, done, kubeconfig, helm, cluster, said, exit>>

\* _run_helm_subcommand, registry_login and _run_cosign_verify: a non-zero
\* return code or a timeout is a ChartResolutionError, a missing binary is not.
Fetch ==
  \E step \in Owed \ done :
    /\ \A other \in Owed \ done : rank[step] <= rank[other]
    /\ Step("fetch", {"ChartResolutionError", "Exception"},
            IF step = "pull" THEN "discover" ELSE "fetch")
    /\ done' = IF exc' = "none" THEN done \union {step} ELSE done
    /\ UNCHANGED <<settings, chart_dir, kubeconfig, helm, cluster, said, exit>>

\* Mutant: the directory is cleaned up when resolve() has found the chart in it.
DiscoverAndRemove ==
  /\ Step("discover", {"ChartResolutionError", "Exception"}, AfterResolve)
  /\ chart_dir' = IF exc' = "none" THEN "none" ELSE chart_dir
  /\ UNCHANGED <<settings, done, kubeconfig, helm, cluster, said, exit>>

\* Exactly one unpacked directory, with a Chart.yaml that parses.
DiscoverChart ==
  /\ Step("discover", {"ChartResolutionError", "Exception"}, AfterResolve)
  /\ UNCHANGED <<settings, done, chart_dir, kubeconfig, helm, cluster, said, exit>>

\* _check_bitbucket_values_yaml only warns, but does not catch a decoding error.
CheckValuesYaml ==
  /\ Step("values_yaml", {"Exception"}, "mktemp")
  /\ UNCHANGED <<settings, done, chart_dir, kubeconfig, helm, cluster, said, exit>>

-----------------------------------------------------------------------------
\* kube/kubeconfig.py: write_kubeconfig, entered and left around the helm call

\* NamedTemporaryFile and chmod precede the try block, inside the action's
\* "except OSError": their error is a KubeconfigError and nothing is unlinked.
CreateKubeconfig ==
  /\ Step("mktemp", {"KubeconfigError"}, "chmod")
  /\ kubeconfig' = IF exc' = "none" THEN "empty" ELSE "none"
  /\ UNCHANGED <<settings, done, chart_dir, helm, cluster, said, exit>>

ChmodKubeconfig ==
  /\ Step("chmod", {"KubeconfigError"}, "write")
  /\ UNCHANGED <<settings, done, chart_dir, kubeconfig, helm, cluster, said, exit>>

\* Mutant: the unlink follows the block, it is not in a finally clause.
RaiseWithoutFinally(e) == exc' = e /\ pc' = AfterChart

\* From here to the unlink an exception first runs the finally block.
RaiseInside(e) == exc' = e /\ pc' = "unlink"

FirstHelm == IF Mode = "rollback" THEN "history" ELSE "helm"

WriteKubeconfig ==
  /\ pc = "write"
  /\ \/ /\ kubeconfig' = "token" /\ pc' = FirstHelm /\ UNCHANGED exc
     \/ /\ kubeconfig' \in {"empty", "token"} /\ RaiseInside("OSError")
  /\ UNCHANGED <<settings, done, chart_dir, helm, cluster, said, exit>>

\* Mutant: a helm command that timed out is tried again, for ever.
UnlinkAndRetry ==
  /\ pc = "unlink"
  /\ kubeconfig' = "none"
  /\ IF exc = "HelmTimeoutError"
     THEN pc' = "mktemp" /\ exc' = "none"
     ELSE /\ exc' = IF exc = "OSError" THEN "KubeconfigError" ELSE exc
          /\ pc' = IF exc' # "none" THEN AfterChart
                   ELSE IF Mode = "diff" THEN "comment" ELSE "success"
  /\ UNCHANGED <<settings, done, chart_dir, helm, cluster, said, exit>>

\* finally: unlink, where only FileNotFoundError is suppressed; any other
\* OSError replaces the exception in flight, and the action's "except OSError"
\* turns it, or an OSError of the block, into KubeconfigError.
UnlinkKubeconfig ==
  /\ pc = "unlink"
  /\ \/ /\ kubeconfig' = "none"
        /\ exc' = IF exc = "OSError" THEN "KubeconfigError" ELSE exc
     \/ /\ exc' = "KubeconfigError"
        /\ UNCHANGED kubeconfig
  /\ pc' = IF exc' # "none" THEN AfterChart
           ELSE IF Mode = "diff" THEN "comment" ELSE "success"
  /\ UNCHANGED <<settings, done, chart_dir, helm, cluster, said, exit>>

-----------------------------------------------------------------------------
\* helm/client.py: the commands against the release

\* Mutant: a helm command that failed half-way is run again.
HelmCommandRetried(step) ==
  /\ pc = step
  /\ \/ /\ helm' = "ok" /\ pc' = "unlink"
        /\ cluster' = IF Mutates THEN "changed" ELSE cluster
     \/ /\ cluster' = (IF Mutates THEN "unknown" ELSE cluster)
        /\ UNCHANGED <<helm, pc>>
  /\ UNCHANGED <<settings, exc, done, chart_dir, kubeconfig, said, exit>>

\* How HelmClient.upgrade_install, diff and rollback can end once the argv is
\* built.  _parse_timeout raises before the process starts; a missing binary is
\* an OSError; a non-zero code, the expired timer (which kills helm), and output
\* that is not UTF-8 are seen when helm has already had time to act.  diff takes
\* code 1 for "there are differences"; without --detailed-exitcode, which it does
\* not pass, helm ends with 1 when it has failed.
HelmCommand(step) ==
  /\ pc = step
  /\ \/ /\ settings.timeout
        /\ helm' = "ok" /\ pc' = "unlink" /\ UNCHANGED exc
        /\ cluster' = IF Mutates THEN "changed" ELSE cluster
     \/ /\ settings.timeout /\ Mode = "diff"
        /\ helm' = "failed" /\ pc' = "unlink" /\ UNCHANGED <<exc, cluster>>
     \/ /\ settings.timeout
        /\ RaiseInside("OSError") /\ UNCHANGED <<helm, cluster>>
     \/ /\ settings.timeout
        /\ \E e \in HelmErrors \union {"Exception"} : RaiseInside(e)
        /\ cluster' \in IF Mutates THEN {"untouched", "unknown"} ELSE {cluster}
        /\ UNCHANGED helm
     \/ /\ ~settings.timeout
        /\ RaiseInside("Exception") /\ UNCHANGED <<helm, cluster>>
  /\ UNCHANGED <<settings, done, chart_dir, kubeconfig, said, exit>>

\* Mutant: a rollback that failed half-way starts over from the history.
RollbackFromHistory ==
  \/ HelmCommand("rollback")
  \/ /\ pc = "rollback" /\ pc' = "history"
     /\ cluster' = "unknown"
     /\ UNCHANGED <<settings, exc, done, chart_dir, kubeconfig, said, exit, helm>>

upgrade_or_diff == HelmCommand("helm")
rollback        == HelmCommand("rollback")

\* HelmClient.history and the pre-flight check of _run_rollback: the revision is
\* missing or does not carry the safe-upgrade marker.  helm history has no
\* subprocess timeout.
Preflight ==
  /\ pc = "history"
  /\ \/ pc' = "rollback" /\ UNCHANGED exc
     \/ \E e \in {"ChartResolutionError", "HelmExecutionError", "OSError", "Exception"} :
          RaiseInside(e)
  /\ UNCHANGED <<settings, done, chart_dir, kubeconfig, helm, cluster, said, exit>>

-----------------------------------------------------------------------------
\* The end of a run

\* _maybe_post_pr_comment: whatever happens, the diff run goes on.
PostComment ==
  /\ pc = "comment"
  /\ pc' = "success"
  /\ UNCHANGED <<settings, exc, done, chart_dir, kubeconfig, helm, cluster, said, exit>>

\* pipe.success is called inside the chart's with block: the directory is
\* removed after the message.
Success ==
  /\ pc = "success"
  /\ said' = said \union {"success"}
  /\ IF chart_dir = "present"
     THEN pc' = "rmtree" /\ UNCHANGED exit
     ELSE pc' = "exited" /\ exit' = 0
  /\ UNCHANGED <<settings, exc, done, chart_dir, kubeconfig, helm, cluster>>

\* Mutant: a return in the cleanup swallows the exception in flight.
ReturnInFinally ==
  /\ pc = "rmtree"
  /\ chart_dir' \in {"none", "left"}
  /\ pc' = "exited" /\ exit' = 0
  /\ UNCHANGED <<settings, exc, done, kubeconfig, helm, cluster, said>>

\* shutil.rmtree(ignore_errors=True)
RemoveChartDir ==
  /\ pc = "rmtree"
  /\ chart_dir' \in {"none", "left"}
  /\ IF exc = "none"
     THEN pc' = "exited" /\ exit' = 0
     ELSE pc' = "fail" /\ UNCHANGED exit
  /\ UNCHANGED <<settings, exc, done, kubeconfig, helm, cluster, said>>

\* cli.main()'s handlers: pipe.fail(...) and the error's code.  Whether the
\* toolkit's fail returns is not ours: main() relies on it returning, the v1
\* pipe (pipe/pipe.py) on it ending the process with status 1.
ToolkitFail(code) == {code, 1}

Fail ==
  /\ pc = "fail"
  /\ said' = said \union {"fail"}
  /\ exit' \in ToolkitFail(exit_code(exc))
  /\ pc' = "exited"
  /\ UNCHANGED <<settings, exc, done, chart_dir, kubeconfig, helm, cluster>>

\* The step is stopped or its container removed: no finally block runs.
Kill ==
  /\ pc \notin Ended
  /\ pc' = "killed"
  /\ cluster' \in IF pc \in {"helm", "rollback"} /\ Mutates
                  THEN {"untouched", "unknown"} ELSE {cluster}
  /\ UNCHANGED <<settings, exc, done, chart_dir, kubeconfig, helm, said, exit>>

-----------------------------------------------------------------------------
\* Everything but helm history, whose duration nothing bounds
BoundedStep ==
  \/ LoadSettings \/ select_strategy \/ CheckRequired
  \/ get_credentials \/ get_cluster_access \/ generate_eks_token
  \/ select_chart_source \/ ResolveLocal \/ MakeChartDir \/ Fetch
  \/ DiscoverChart \/ CheckValuesYaml
  \/ CreateKubeconfig \/ ChmodKubeconfig \/ WriteKubeconfig \/ UnlinkKubeconfig
  \/ upgrade_or_diff \/ rollback
  \/ PostComment \/ Success \/ RemoveChartDir \/ Fail

Next == BoundedStep \/ Preflight \/ Kill

Spec == Init /\ [][Next]_vars

\* Every call of a bounded step returns: subprocess.run has a timeout, boto3 and
\* urlopen have theirs, the rest is local.
FairSpec == Spec /\ WF_vars(BoundedStep)

-----------------------------------------------------------------------------
\* Properties

\* What the code takes for a success of the final helm command.
Accepted == IF Mode = "diff" THEN {"ok", "failed"} ELSE {"ok"}

\* Status 0 is given exactly to the runs whose final helm command succeeded, as
\* the code sees it, and whose kubeconfig was removed, and then the pipe has said
\* "success" and never "fail".  (cli.main, the actions' run methods)
ExitZeroIffDone ==
  pc = "exited" =>
    /\ exit = 0 <=> (helm \in Accepted /\ exc = "none")
    /\ exit = 0 <=> said = {"success"}
    /\ exit = 0 => cluster = (IF Mutates THEN "changed" ELSE "untouched")

\* ACTION=diff, and an upgrade with DRY_RUN, never touch the release, however
\* the run ends.  (cli.main's dispatch, DiffAction.run)
ReadOnlyModes ==
  settings.action = "diff" \/ (settings.action = "upgrade" /\ settings.dry_run)
    => cluster = "untouched"

\* The error classes with exit codes 1 to 4 are only reported by runs that have
\* left the release alone: a consumer may retry them.  (errors.py, the order of
\* the steps in the actions)
EarlyErrorsLeaveReleaseAlone == exc \in EarlyErrors => cluster = "untouched"

\* When helm talks to the cluster, the kubeconfig holds the token and the chart
\* it deploys is still on disk, fetched by the sub-commands the settings ask
\* for.  (nesting of resolve() and write_kubeconfig())
HelmHasItsInputs ==
  pc \in HelmSteps =>
    /\ kubeconfig = "token"
    /\ Remote => chart_dir = "present" /\ Owed \subseteq done

\* A run that reports its own end has removed the file with the cluster token,
\* unless it says so with KubeconfigError.  (write_kubeconfig's finally block)
KubeconfigRemoved ==
  pc = "exited" /\ exc # "KubeconfigError" => kubeconfig = "none"

\* With CHART_VERIFY, no chart is pulled before cosign has accepted its
\* reference.  (OciChart.resolve)
VerifiedBeforePull ==
  [][ "pull" \in done' \ done /\ settings.chart = "oci" /\ "verify" \in settings.oci
        => "verify" \in done ]_vars

\* How far into a run each step is.
Order ==
  [settings |-> 0, select_strategy |-> 1, required |-> 2, credentials |-> 3,
   describe_cluster |-> 4, token |-> 5, select_chart_source |-> 6, chart |-> 7,
   mkdtemp |-> 7, fetch |-> 8, discover |-> 9, values_yaml |-> 10, mktemp |-> 11,
   chmod |-> 12, write |-> 13, history |-> 14, helm |-> 15, rollback |-> 15,
   unlink |-> 16, comment |-> 17, success |-> 18, rmtree |-> 19, fail |-> 20,
   exited |-> 21, killed |-> 21]

\* No step is ever gone back to, neither to try it again nor while an error
\* unwinds, and no chart sub-command is repeated: nothing but a call that does not
\* return can keep a run from its end.  (the actions' run methods)
NeverBack ==
  [][ \/ Order[pc] < Order[pc']
      \/ pc = "fetch" /\ pc' = "fetch" /\ done \subseteq done' /\ done # done' ]_vars

\* Every run of an upgrade or a diff ends, even if helm never returns: the
\* subprocess timeout ends it.
RunEnds == Mode # "rollback" ~> pc \in Ended

\* A run keeps the contract of RunContract: the final helm command is issued at
\* most once, nothing happens to the release after the exit status, and status 0
\* follows the work.
work    == IF helm \in Accepted THEN "done"
           ELSE IF cluster # "untouched" THEN "unknown" ELSE "none"
verdict == CASE pc = "killed" -> "killed"
             [] pc = "exited" -> IF exit = 0 THEN "ok" ELSE "error"
             [] OTHER         -> "none"

Contract == INSTANCE RunContract WITH work <- work, verdict <- verdict
KeepsContract == Contract!Spec

-----------------------------------------------------------------------------
\* What documentation says of a run, and the code does not do

\* docs/migration/v1-to-v2.md: status 0 of a diff means that it ran successfully.
ZeroMeansHelmSucceeded == pc = "exited" /\ exit = 0 => helm = "ok"
=============================================================================
