---------------------------- MODULE PipeRunProofs ----------------------------
(***************************************************************************)
(* Theorems about one run of the pipe, for every set of settings.          *)
(***************************************************************************)
EXTENDS PipeRun, TLAPS

-----------------------------------------------------------------------------
\* The inductive invariant: what holds at each step of the run

\* Steps from which the final helm command can no longer be reached
Late == {"unlink", "comment", "success", "rmtree", "fail"} \union Ended

\* Steps at which the kubeconfig file does not exist yet
NoFile == {"settings", "select_strategy", "required", "credentials",
           "describe_cluster", "token", "select_chart_source", "chart", "mkdtemp",
           "fetch", "discover", "values_yaml", "mktemp"}

\* Steps at which the chart of the run is on disk
Resolved == {"values_yaml", "mktemp", "chmod", "write", "helm"}

\* Before the final helm command nothing is wrong and nothing is done.
NothingYet ==
  pc \notin Late => exc = "none" /\ helm = "none" /\ cluster = "untouched"

\* After it, an outcome without an exception is the outcome asked for.
DoneOrRaised ==
  /\ pc \in {"comment", "success"} => exc = "none"
  /\ pc = "fail" => exc # "none"
  /\ pc \in Late \ {"killed"} /\ exc = "none" => helm \in Accepted
  /\ helm # "none" => cluster = (IF Mutates THEN "changed" ELSE "untouched")

SaidOnce ==
  /\ pc \notin {"rmtree", "killed", "exited"} => said = {}
  /\ pc = "rmtree" => said = IF exc = "none" THEN {"success"} ELSE {}
  /\ pc # "exited" => exit = NoExit
  /\ pc = "exited" /\ exc = "none" => exit = 0 /\ said = {"success"}
  /\ pc = "exited" /\ exc # "none" => exit # 0 /\ said # {"success"}

FileByStep ==
  /\ pc \in NoFile => kubeconfig = "none"
  /\ pc \in HelmSteps => kubeconfig = "token"
  /\ pc \in Late \ {"unlink", "killed"} /\ exc # "KubeconfigError" => kubeconfig = "none"

ChartByStep ==
  /\ Remote /\ pc \in {"fetch", "discover"} \union Resolved => chart_dir = "present"
  /\ Remote /\ pc \in {"discover"} \union Resolved => Owed \subseteq done
  /\ pc \in {"history", "rollback"} => Mode = "rollback"
  /\ pc \in {"chart"} => ~Remote

\* ReadOnlyModes, with the dispatch already made
Untouched ==
  /\ ~Mutates => cluster = "untouched"
  /\ helm = "failed" => Mode = "diff"

IInv ==
  /\ TypeOK /\ NothingYet /\ DoneOrRaised /\ SaidOnce /\ FileByStep /\ ChartByStep
  /\ Untouched /\ EarlyErrorsLeaveReleaseAlone

-----------------------------------------------------------------------------
LEMMA TypeStep == TypeOK /\ [Next]_vars => TypeOK'
<1> USE SettingsAssumption DEF TypeOK, Raised, PipeErrors, HelmErrors, EarlyErrors,
          Steps, FetchSteps, HelmSteps, Ended, NoExit
<1> SUFFICES ASSUME TypeOK, [Next]_vars PROVE TypeOK'
  OBVIOUS
<1>1. CASE LoadSettings
  BY <1>1 DEF LoadSettings
<1>2. CASE select_strategy
  BY <1>2 DEF select_strategy, strategy, Raise, AfterChart
<1>3. CASE CheckRequired
  BY <1>3 DEF CheckRequired, Required, Raise, Mode, AfterChart
<1>4. CASE get_credentials
  BY <1>4 DEF get_credentials, Step, CredentialErrors, Raise, strategy, AfterChart
<1>5. CASE get_cluster_access
  BY <1>5 DEF get_cluster_access, Step, Raise, AfterChart
<1>6. CASE generate_eks_token
  BY <1>6 DEF generate_eks_token, Step, Mode, Raise, AfterChart
<1>7. CASE select_chart_source
  BY <1>7 DEF select_chart_source, Raise, Remote, AfterChart, Mode
<1>8. CASE ResolveLocal
  BY <1>8 DEF ResolveLocal, Step, AfterResolve, Raise, Mode, AfterChart
<1>9. CASE MakeChartDir
  BY <1>9 DEF MakeChartDir, Step, Raise, AfterChart
<1>10. CASE Fetch
  <2>1. PICK step \in Owed \ done :
          /\ Step("fetch", {"ChartResolutionError", "Exception"},
                  IF step = "pull" THEN "discover" ELSE "fetch")
          /\ done' = IF exc' = "none" THEN done \union {step} ELSE done
          /\ UNCHANGED <<settings, chart_dir, kubeconfig, helm, cluster, said, exit>>
    BY <1>10 DEF Fetch
  <2>2. step \in FetchSteps
    BY DEF Owed, SettingsType
  <2>3. QED
    BY <2>1, <2>2 DEF Step, Raise, AfterChart
<1>11. CASE DiscoverChart
  BY <1>11 DEF DiscoverChart, Step, AfterResolve, Raise, Mode, AfterChart
<1>12. CASE CheckValuesYaml
  BY <1>12 DEF CheckValuesYaml, Step, Raise, AfterChart
<1>13. CASE CreateKubeconfig
  BY <1>13 DEF CreateKubeconfig, Step, Raise, AfterChart
<1>14. CASE ChmodKubeconfig
  BY <1>14 DEF ChmodKubeconfig, Step, Raise, AfterChart
<1>15. CASE WriteKubeconfig
  BY <1>15 DEF WriteKubeconfig, FirstHelm, RaiseInside, Mode
<1>16. CASE UnlinkKubeconfig
  BY <1>16 DEF UnlinkKubeconfig, AfterChart, Mode
<1>17. CASE upgrade_or_diff
  BY <1>17 DEF upgrade_or_diff, HelmCommand, Mutates, RaiseInside, Mode
<1>18. CASE rollback
  BY <1>18 DEF rollback, HelmCommand, Mutates, RaiseInside, Mode
<1>19. CASE Preflight
  BY <1>19 DEF Preflight, RaiseInside
<1>20. CASE PostComment
  BY <1>20 DEF PostComment
<1>21. CASE Success
  BY <1>21 DEF Success
<1>22. CASE RemoveChartDir
  BY <1>22 DEF RemoveChartDir
<1>23. CASE Fail
  BY <1>23 DEF Fail, ToolkitFail, exit_code
<1>24. CASE Kill
  BY <1>24 DEF Kill, Mutates, Mode
<1>25. CASE UNCHANGED vars
  BY <1>25 DEF vars
<1>26. QED
  BY <1>1, <1>2, <1>3, <1>4, <1>5, <1>6, <1>7, <1>8, <1>9, <1>10, <1>11, <1>12,
     <1>13, <1>14, <1>15, <1>16, <1>17, <1>18, <1>19, <1>20, <1>21, <1>22, <1>23, <1>24, <1>25 DEF Next, BoundedStep

\* Every run has well-typed state, whatever its settings. (all of cli.main)
THEOREM TypeCorrect == Spec => []TypeOK
<1>1. Init => TypeOK
  BY SettingsAssumption DEF Init, TypeOK, SettingsType, Steps, FetchSteps, NoExit
<1>2. QED
  BY <1>1, TypeStep, PTL DEF Spec

-----------------------------------------------------------------------------
\* The settings are those the run started with, and so is what derives from them.
LEMMA SettingsKept ==
  [Next]_vars => /\ settings' = settings /\ Mode' = Mode /\ Owed' = Owed
                 /\ Mutates' = Mutates /\ Remote' = Remote /\ Accepted' = Accepted
<1> SUFFICES ASSUME [Next]_vars PROVE settings' = settings
  BY DEF Mode, Owed, Mutates, Remote, Accepted
<1> QED
  BY DEF Next, BoundedStep, vars, LoadSettings, select_strategy, CheckRequired,
         get_credentials, get_cluster_access, generate_eks_token, select_chart_source,
         ResolveLocal, MakeChartDir, Fetch, DiscoverChart, CheckValuesYaml,
         CreateKubeconfig, ChmodKubeconfig, WriteKubeconfig, UnlinkKubeconfig,
         upgrade_or_diff, rollback, Preflight, PostComment, Success, RemoveChartDir, Fail,
         Kill, HelmCommand

\* Chart sub-commands run in the order of rank: the pull comes when nothing else
\* is owed, and in particular after the verification.
LEMMA PullIsLast ==
  ASSUME NEW step \in Owed \ done, step = "pull",
         \A other \in Owed \ done : rank[step] <= rank[other], TypeOK
  PROVE  Owed \subseteq done \union {"pull"}
BY DEF Owed, rank, TypeOK, SettingsType

LEMMA InvStep == IInv /\ [Next]_vars => IInv'
<1> SUFFICES ASSUME IInv, [Next]_vars PROVE IInv'
  OBVIOUS
<1>1. TypeOK /\ TypeOK'
  BY TypeStep DEF IInv
<1>2. /\ Mode' = Mode /\ Owed' = Owed /\ Mutates' = Mutates /\ Remote' = Remote
      /\ Accepted' = Accepted /\ Accepted = (IF Mode = "diff" THEN {"ok", "failed"} ELSE {"ok"})
      /\ Mode \in Actions /\ (Mutates <=> Mode # "diff") /\ (Remote => Mode # "rollback")
  BY <1>1, SettingsKept DEF Mode, Mutates, Remote, Accepted, TypeOK, SettingsType, Actions
<1> USE <1>1, <1>2 DEF IInv, NothingYet, DoneOrRaised, SaidOnce, FileByStep, ChartByStep,
      Untouched, EarlyErrorsLeaveReleaseAlone, Late, NoFile, Resolved,
      EarlyErrors, HelmErrors, HelmSteps, Ended, NoExit
<1>3. CASE LoadSettings
  BY <1>3 DEF LoadSettings
<1>4. CASE select_strategy
  BY <1>4 DEF select_strategy, strategy, Raise, AfterChart
<1>5. CASE CheckRequired
  BY <1>5 DEF CheckRequired, Required, Raise, AfterChart
<1>6. CASE get_credentials
  BY <1>6 DEF get_credentials, Step, CredentialErrors, Raise, strategy, AfterChart
<1>7. CASE get_cluster_access
  BY <1>7 DEF get_cluster_access, Step, Raise, AfterChart
<1>8. CASE generate_eks_token
  BY <1>8 DEF generate_eks_token, Step, Raise, AfterChart
<1>9. CASE select_chart_source
  BY <1>9 DEF select_chart_source, Raise, AfterChart
<1>10. CASE ResolveLocal
  BY <1>10 DEF ResolveLocal, Step, AfterResolve, Raise, AfterChart
<1>11. CASE MakeChartDir
  BY <1>11 DEF MakeChartDir, Step, Raise, AfterChart
<1>12. CASE Fetch
  <2>1. PICK step \in Owed \ done :
          /\ \A other \in Owed \ done : rank[step] <= rank[other]
          /\ Step("fetch", {"ChartResolutionError", "Exception"},
                  IF step = "pull" THEN "discover" ELSE "fetch")
          /\ done' = IF exc' = "none" THEN done \union {step} ELSE done
          /\ UNCHANGED <<settings, chart_dir, kubeconfig, helm, cluster, said, exit>>
    BY <1>12 DEF Fetch
  <2>2. step = "pull" => Owed \subseteq done \union {step}
    BY <2>1, PullIsLast
  <2>3. QED
    BY <2>1, <2>2 DEF Step, Raise, AfterChart
<1>13. CASE DiscoverChart
  BY <1>13 DEF DiscoverChart, Step, AfterResolve, Raise, AfterChart
<1>14. CASE CheckValuesYaml
  BY <1>14 DEF CheckValuesYaml, Step, Raise, AfterChart
<1>15. CASE CreateKubeconfig
  BY <1>15 DEF CreateKubeconfig, Step, Raise, AfterChart
<1>16. CASE ChmodKubeconfig
  BY <1>16 DEF ChmodKubeconfig, Step, Raise, AfterChart
<1>17. CASE WriteKubeconfig
  BY <1>17 DEF WriteKubeconfig, FirstHelm, RaiseInside
<1>18. CASE UnlinkKubeconfig
  BY <1>18 DEF UnlinkKubeconfig, AfterChart
<1>19. CASE upgrade_or_diff
  BY <1>19 DEF upgrade_or_diff, HelmCommand, RaiseInside
<1>20. CASE rollback
  BY <1>20 DEF rollback, HelmCommand, RaiseInside
<1>21. CASE Preflight
  BY <1>21 DEF Preflight, RaiseInside
<1>22. CASE PostComment
  BY <1>22 DEF PostComment
<1>23. CASE Success
  BY <1>23 DEF Success
<1>24. CASE RemoveChartDir
  BY <1>24 DEF RemoveChartDir
<1>25. CASE Fail
  BY <1>25 DEF Fail, ToolkitFail, exit_code
<1>26. CASE Kill
  BY <1>26 DEF Kill
<1>27. CASE UNCHANGED vars
  BY <1>27 DEF vars
<1>28. QED
  BY <1>3, <1>4, <1>5, <1>6, <1>7, <1>8, <1>9, <1>10, <1>11, <1>12, <1>13, <1>14,
     <1>15, <1>16, <1>17, <1>18, <1>19, <1>20, <1>21, <1>22, <1>23, <1>24, <1>25, <1>26, <1>27 DEF Next, BoundedStep

LEMMA InvHolds == Spec => []IInv
<1>1. Init => IInv
  <2> SUFFICES ASSUME Init PROVE IInv
    OBVIOUS
  <2>1. TypeOK
    BY SettingsAssumption DEF Init, TypeOK, SettingsType, Steps, FetchSteps, NoExit
  <2>2. QED
    BY <2>1 DEF Init, IInv, Accepted, NothingYet, DoneOrRaised, SaidOnce, FileByStep, ChartByStep,
       Untouched, EarlyErrorsLeaveReleaseAlone, Late, NoFile, Resolved,
       EarlyErrors, HelmSteps, Ended, NoExit
<1>2. QED
  BY <1>1, InvStep, PTL DEF Spec

-----------------------------------------------------------------------------
\* Status 0 is returned exactly by the runs that did the work they were asked
\* for and said "success". (ExitZeroIffDone; cli.main and the run methods)
THEOREM ExitZero == Spec => []ExitZeroIffDone
<1>1. IInv => ExitZeroIffDone
  BY DEF IInv, Accepted, Untouched, DoneOrRaised, SaidOnce, ExitZeroIffDone, Late, Ended
<1>2. QED
  BY <1>1, InvHolds, PTL

\* A diff, and an upgrade with DRY_RUN, never touch the release. (ReadOnlyModes;
\* cli.main's dispatch, DiffAction.run)
THEOREM ReadOnly == Spec => []ReadOnlyModes
<1>1. IInv => ReadOnlyModes
  BY DEF IInv, Untouched, ReadOnlyModes, Mutates, Mode
<1>2. QED
  BY <1>1, InvHolds, PTL

\* Runs that report exit codes 1 to 4 have left the release alone.
\* (EarlyErrorsLeaveReleaseAlone; errors.py and the order of the actions' steps)
THEOREM EarlyErrors1to4 == Spec => []EarlyErrorsLeaveReleaseAlone
<1>1. IInv => EarlyErrorsLeaveReleaseAlone
  BY DEF IInv
<1>2. QED
  BY <1>1, InvHolds, PTL

\* helm finds the kubeconfig with the token and the chart it deploys.
\* (HelmHasItsInputs; nesting of resolve() and write_kubeconfig())
THEOREM HelmInputs == Spec => []HelmHasItsInputs
<1>1. IInv => HelmHasItsInputs
  BY DEF IInv, FileByStep, ChartByStep, HelmHasItsInputs, HelmSteps, Resolved, Remote
<1>2. QED
  BY <1>1, InvHolds, PTL

\* A run that reports its own end has removed the file with the cluster token,
\* or says with KubeconfigError that it may not have. (KubeconfigRemoved;
\* write_kubeconfig's finally block)
THEOREM NoTokenLeft == Spec => []KubeconfigRemoved
<1>1. IInv => KubeconfigRemoved
  BY DEF IInv, FileByStep, KubeconfigRemoved, Late, Ended
<1>2. QED
  BY <1>1, InvHolds, PTL

\* With CHART_VERIFY an oci:// chart is pulled only after cosign accepted it.
\* (VerifiedBeforePull; OciChart.resolve)
THEOREM VerifyFirst == Spec => VerifiedBeforePull
<1>1. TypeOK /\ [Next]_vars =>
        [ "pull" \in done' \ done /\ settings.chart = "oci" /\ "verify" \in settings.oci
            => "verify" \in done ]_vars
  <2> SUFFICES ASSUME TypeOK, [Next]_vars, "pull" \in done' \ done,
                      settings.chart = "oci", "verify" \in settings.oci
               PROVE  "verify" \in done
    OBVIOUS
  <2>1. "verify" \in Owed
    BY DEF Owed
  <2>2. CASE Fetch
    <3>1. PICK step \in Owed \ done :
            /\ \A other \in Owed \ done : rank[step] <= rank[other]
            /\ done' \in {done, done \union {step}}
      BY <2>2 DEF Fetch
    <3>2. step = "pull"
      BY <3>1
    <3>3. QED
      BY <2>1, <3>1, <3>2, PullIsLast
  <2>3. CASE ~Fetch
    BY <2>3 DEF Next, BoundedStep, vars, LoadSettings, select_strategy, CheckRequired,
       get_credentials, get_cluster_access, generate_eks_token, select_chart_source,
       ResolveLocal, MakeChartDir, DiscoverChart, CheckValuesYaml, CreateKubeconfig,
       ChmodKubeconfig, WriteKubeconfig, UnlinkKubeconfig, upgrade_or_diff, rollback,
       HelmCommand, Preflight, PostComment, Success, RemoveChartDir, Fail, Kill
  <2>4. QED
    BY <2>2, <2>3
<1>2. QED
  BY <1>1, TypeCorrect, PTL DEF Spec, VerifiedBeforePull

\* Every step takes the run towards its end, whatever it raises. (NeverBack; the
\* order of the calls in the run methods, and of their finally blocks)
THEOREM OnlyForward == Spec => NeverBack
<1>1. IInv /\ [Next]_vars =>
        [ \/ Order[pc] < Order[pc']
          \/ pc = "fetch" /\ pc' = "fetch" /\ done \subseteq done' /\ done # done' ]_vars
  <2> SUFFICES ASSUME IInv, Next
               PROVE  \/ Order[pc] < Order[pc']
                      \/ pc = "fetch" /\ pc' = "fetch" /\ done \subseteq done' /\ done # done'
    BY DEF vars
  <2>1. CASE LoadSettings \/ select_strategy \/ CheckRequired \/ get_credentials
             \/ get_cluster_access \/ generate_eks_token
    BY <2>1 DEF LoadSettings, select_strategy, CheckRequired, get_credentials,
       get_cluster_access, generate_eks_token, Step, Raise, AfterChart, Order
  <2>2. CASE select_chart_source \/ ResolveLocal \/ MakeChartDir \/ DiscoverChart
             \/ CheckValuesYaml
    BY <2>2 DEF select_chart_source, ResolveLocal, MakeChartDir, DiscoverChart,
       CheckValuesYaml, Step, Raise, AfterChart, AfterResolve, Order
  <2>3. CASE Fetch
    <3>1. PICK step \in Owed \ done :
            /\ Step("fetch", {"ChartResolutionError", "Exception"},
                    IF step = "pull" THEN "discover" ELSE "fetch")
            /\ done' = IF exc' = "none" THEN done \union {step} ELSE done
      BY <2>3 DEF Fetch
    <3>2. pc = "fetch" /\ exc = "none"
      BY <2>3 DEF Fetch, Step, IInv, NothingYet, Late, Ended
    <3>3. QED
      BY <3>1, <3>2 DEF Step, Raise, AfterChart, Order
  <2>4. CASE CreateKubeconfig \/ ChmodKubeconfig \/ WriteKubeconfig \/ UnlinkKubeconfig
    BY <2>4 DEF CreateKubeconfig, ChmodKubeconfig, WriteKubeconfig, UnlinkKubeconfig,
       Step, Raise, RaiseInside, AfterChart, FirstHelm, Order
  <2>5. CASE upgrade_or_diff \/ rollback \/ Preflight
    BY <2>5 DEF upgrade_or_diff, rollback, HelmCommand, Preflight, RaiseInside, Order
  <2>6. CASE PostComment \/ Success \/ RemoveChartDir \/ Fail
    BY <2>6 DEF PostComment, Success, RemoveChartDir, Fail, Order
  <2>7. CASE Kill
    <3>1. \A step \in Steps \ Ended : Order[step] \in 0 .. 20
      BY DEF Steps, HelmSteps, Ended, Order
    <3>2. Order["killed"] = 21
      BY DEF Order
    <3>3. pc \in Steps \ Ended /\ pc' = "killed"
      BY <2>7 DEF Kill, IInv, TypeOK
    <3>4. QED
      BY <3>1, <3>2, <3>3
  <2>8. QED
    BY <2>1, <2>2, <2>3, <2>4, <2>5, <2>6, <2>7 DEF Next, BoundedStep
<1>2. QED
  BY <1>1, InvHolds, PTL DEF Spec, NeverBack

-----------------------------------------------------------------------------
\* Every run keeps the contract: the final helm command is issued at most once,
\* nothing happens to the release after the status, and status 0 follows the
\* work. (KeepsContract; cli.main and the run methods)
THEOREM Implements == Spec => KeepsContract
<1>1. Init => Contract!Init
  BY DEF Init, Contract!Init, Accepted, work, verdict
<1>2. IInv /\ IInv' /\ [Next]_vars => [Contract!Next]_<<work, verdict>>
  <2> SUFFICES ASSUME IInv, IInv', [Next]_vars
               PROVE  Contract!Next \/ (work' = work /\ verdict' = verdict)
    OBVIOUS
  <2>0. /\ work  = IF helm # "none" THEN "done" ELSE IF cluster # "untouched" THEN "unknown" ELSE "none"
        /\ work' = IF helm' # "none" THEN "done" ELSE IF cluster' # "untouched" THEN "unknown" ELSE "none"
        /\ "none" \notin Accepted /\ "none" \notin Accepted'
    BY DEF IInv, TypeOK, Untouched, Accepted, work
  <2> USE <2>0 DEF IInv, verdict, NothingYet, DoneOrRaised, SaidOnce, Late, Ended
  <2>1. CASE upgrade_or_diff \/ rollback
    BY <2>1 DEF upgrade_or_diff, rollback, HelmCommand, RaiseInside, Contract!Next,
       Contract!Attempt
  <2>2. CASE LoadSettings \/ Success \/ RemoveChartDir \/ Fail
    BY <2>2 DEF LoadSettings, Success, RemoveChartDir, Fail, Contract!Next, Contract!Report
  <2>3. CASE Kill
    BY <2>3 DEF Kill, Contract!Next, Contract!Abort
  <2>4. CASE select_strategy \/ CheckRequired \/ get_credentials \/ get_cluster_access
             \/ generate_eks_token \/ select_chart_source \/ ResolveLocal \/ MakeChartDir
             \/ Fetch \/ DiscoverChart \/ CheckValuesYaml
    BY <2>4 DEF select_strategy, CheckRequired, get_credentials, get_cluster_access,
       generate_eks_token, select_chart_source, ResolveLocal, MakeChartDir, Fetch,
       DiscoverChart, CheckValuesYaml, Step, Raise, AfterChart, AfterResolve
  <2>5. CASE CreateKubeconfig \/ ChmodKubeconfig \/ WriteKubeconfig \/ UnlinkKubeconfig
             \/ Preflight \/ PostComment \/ UNCHANGED vars
    BY <2>5 DEF CreateKubeconfig, ChmodKubeconfig, WriteKubeconfig, UnlinkKubeconfig,
       Preflight, PostComment, vars, Step, Raise, RaiseInside, AfterChart, FirstHelm
  <2>6. QED
    BY <2>1, <2>2, <2>3, <2>4, <2>5 DEF Next, BoundedStep
<1>3. QED
  BY <1>1, <1>2, InvHolds, PTL DEF KeepsContract, Contract!Spec, Spec
=============================================================================
