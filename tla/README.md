# Verification of aws-eks-helm-deploy

TLA+ modules, TLC configurations and TLAPS proofs for the Bitbucket pipe in
`src/src/aws_eks_helm_deploy`: a Python program that a CI step starts once, that
gets AWS credentials, a cluster token and a chart, runs helm against one release,
and reports what came of it in its exit status.

## 1. The system

A run of the pipe is a sequential process. What is hard about it is not its own
concurrency but everything around it: each of its dozen external calls can fail or
never return, releasing a resource can fail while an error unwinds, the CI system can
kill it, and several runs, of several pipelines, meet at one helm release and at one
pull request without a lock between them.

| Part | State | Operations | Interacts with | Hard |
|---|---|---|---|---|
| `cli.py`, `errors.py`, `pipe_io.py` | settings, exit status | read settings, choose strategy, dispatch, translate exceptions | actions, the Bitbucket toolkit | failures outside the error classes; whether the toolkit's `fail` returns |
| `actions/` (upgrade, diff, rollback) | the run's progress | `run`, the rollback's pre-flight | all below | order of steps, cleanup while unwinding, stale pre-flight |
| `helm/client.py` | none | upgrade, diff, history, rollback, chart sub-commands | helm processes | subprocess timeout against helm's own, return codes, `HISTORY_MAX` 0 or unset |
| helm release (external) | history, lock, live content | create, record, prune, undo | all runs | overlap, numbers used again, revisions left pending |
| `kube/kubeconfig.py` | temporary file with the token | create, chmod, write, unlink | helm client | each step can fail; the unlink can replace an exception |
| `chart/` | temporary directory | select, add, update, log in, verify, pull, discover | helm, cosign | order, cleanup |
| `auth/`, `eks/`, `aws/` | none | select strategy, get credentials, describe cluster, mint token | STS, EKS | untranslated errors, lifetime of the token |
| `bitbucket/pr_comment.py` | comments of a pull request | GET, then POST or PUT | Bitbucket, other runs, people | race, lost and late requests, page limit |
| `settings.py`, `helm/redact.py`, `logging.py` | none | parse, redact, log | | text |
| `scripts/rescan-issue-creator.py`, `security-rescan.yml` | open GitHub issues | probe, scan, resolve digest, list, create | registry, Trivy, GitHub, releases, people | overlapping runs, tags that move, jobs that die half-way |
| `release.yml` | registry tags, signatures, release pages | build, tag, inspect, sign, attest, write the page | registry, GitHub, other runs | tags move one by one and before the signature; failed and repeated jobs |
| `scripts/_trivyignore_parser.py`, `scorecard-exception-check.py` | none | compare dates | | text |
| `pipe/` | | version 1 of the pipe, kept beside the package | | |

What makes each part correct:

* **run**: no step is done again; status 0 exactly for work done; error classes tell the consumer the truth
  about the release; read-only modes change nothing; helm gets what it needs; the
  token does not stay behind; a chart is verified before it is pulled; the run ends.
* **time**: helm starts with a token that has not expired, every run but a rollback has
  a latest end, and the pipe's timer is the duration that helm takes TIMEOUT for.
* **release**: the marker `pipe:safe-upgrade` is only on revisions that have been
  ready; a rollback restores only such contents, and the one it was accepted for; a
  success is what is live; a pending revision has a cause; no limit on the history
  means none.
* **comment**: no more diff comments on the page than runs were in flight at one time,
  so one if they follow one another; and no run held up by it.
* **rescan**: an issue names an image that has the CVE (which the code does not ensure),
  duplicates are bounded, and every finding that lasts is reported however often jobs fail.
* **publishing**: what carries a tag is verifiable once its run came through, the
  release page names it, a rolling tag is on a release; what a page names is verifiable
  whatever else went wrong.

## 2. Modules

```
RunContract     <--implements--  PipeRun      PipeRunProofs      MCPipeRun
                                 RunTime      RunTimeProofs      MCRunTime
MarkedRollback  <--implements--  Release      ReleaseProofs      MCRelease
                                 PrComment    PrCommentProofs    MCPrComment
                                 IssueRescan  IssueRescanProofs  MCIssueRescan
                                 Publish      PublishProofs      MCPublish
```

Each `*Proofs` module extends its component, each `MC*` module gives its constants
values for TLC. Operators whose comment begins with "Mutant" are the ways in which the
code could be wrong that the properties have been tried against; no specification uses
them.

**PipeRun** is one run, from `main()` to the exit status. `pc` names the next step,
one action per call the code makes, with the code's names where there is one
(`select_strategy`, `get_credentials`, `generate_eks_token`, ...). `exc` is the
exception in flight: `Raise` sends it to the innermost cleanup owed (`rmtree` of the
chart directory, then `Fail`), `RaiseInside` first to the `finally` block that unlinks
the kubeconfig. `chart_dir`, `kubeconfig` are the two temporary resources, `cluster`
what the run has done to the release (`unknown` when helm was killed or failed
half-way), `done` the chart sub-commands that succeeded. Which error can come from
which step is read off the `except` clauses: what they do not translate is
`"Exception"`, status 99. `pipe.success` and the construction of the toolkit's `Pipe`
are taken not to raise. Whether the toolkit's `fail` returns is left open
(`ToolkitFail`), because the code of this repository assumes both: `main()` that it
does, the v1 pipe that it does not.

**RunContract** is what a run promises the system that started it: the work is
attempted at most once, nothing happens after the verdict, and "ok" is said only of
work done. PipeRun refines it with `work` computed from `helm` and `cluster`, and
`verdict` from `pc` and `exit` (`KeepsContract`).

**Release** is the release and any number of runs, from the point where each issues its
first helm command. `hist` maps revision numbers to status, marker, content and author;
`live`, `ready` and `converged` are the cluster. What the pipe does is translated from
`helm/client.py` and `actions/rollback.py`: the flags (`history_max`, `Safe`), the
pre-flight, the timer, the codes. What helm does with it is external and modelled as
far as the pipe relies on it: an upgrade (never a rollback) is refused while the newest
revision is pending; `--description` is recorded only at success; history is pruned
before a revision is added, sparing the newest deployed one; `--rollback-on-failure`
records the failure first and then uninstalls a first install, or rolls back to the
newest revision that was ever deployed, ready or not, without pruning; between the two
another upgrade can begin. `Exclusive` says whether the pipelines keep helm commands
apart (a deployment lock, serial deployments); even then a run's pre-flight and its helm
command are two steps.

**MarkedRollback** is what SAFE_UPGRADE and the marker promise, without helm's
history: contents `seen` ready, revision numbers `vouched` for, rollbacks that were
accepted (`asked`) and what they put back (`restored`). The heart of it is that a number
some run has asked for gets no new meaning, so the second look at the history can find
less than the first but nothing else. Release refines it when `Exclusive`
(`KeepsPromise`): `Vouched` is the marked revisions with their contents, `Asked` the runs
between pre-flight and helm, `PutBack` the contents of revisions that rollbacks made.

**PrComment** is one pull request: the runs' GET, POST and PUT, requests handled after
the sender gave up, comments people add or delete, in any order: no run waits for another,
and a run looks at the first `PageLen` comments only. `InFlight` are the runs between their
look and the end of their request, also those that have given up or been killed while
Bitbucket still has it. `peak` is a history variable, the most there have ever been; no
action reads it, so it only observes. A person who quotes the marker is not modelled.

**IssueRescan** is the daily workflow with `rescan-issue-creator.py` in it: `pc` is the
step of each job (a branch and a tag of the matrix), `todo` the findings it has still to
deal with, `digest` what it resolved, `open` how many open issues each branch's runs made
under each title. A title is tag, digest and CVE, as in `_make_issue_title`. Runs on one
branch exclude each other (`Start`), jobs stop at any step (`Stop`), releases move tags at
any time, Trivy's database grows, people close issues.

**Publish** is `release.yml`: runs started by a release tag or by hand, the build, then
the three tags put one after the other on the new manifest, the digest looked up by the
version tag, signed, attested, and written on the release page. `Free` is the concurrency
group of a ref. A job fails at any step and is run again (`Fail`, `Rerun`). An image is
named like the run that built it. A dispatch names a release and is started on any ref
(`Dispatch`). The group excludes runs of one release only if they are on one ref, so three
properties are about the releases whose runs have all been on their own tag (`OwnRef`, a
predicate on the state: a push always is, a dispatch may be), while other releases are
dispatched anywhere; the fourth, `PageIsVerifiable`, is about all. Releases are numbered in
the order in which release-please tags them; the pattern of version tags, prereleases and
GitHub's limit of one waiting run per group are left out.

## 3. What the runs show

| Run | Instance | Shows |
|---|---|---|
| `run` | 1,596 settings: every action, dry run, chart kind, OCI option, the seven credential combinations that `select_strategy` tells apart, one required variable unset at a time | 60,700 states. Type, exit status, read-only modes, early errors, helm's inputs, token removed, verify before pull, no step taken twice, termination, refinement of RunContract |
| `run_time` | every action, chart kind, login and verification; durations of up to three components (zero or not, every order) and 600 s; seven delays, among them one second less than each limit | 1.2 million states. Live token at helm's start, latest end, timers agree |
| `release` | 3 runs, each any of six jobs, `Exclusive` | 1.3 million states. Marker sound, rollbacks safe, success is live, refinement of MarkedRollback |
| `release_overlap` | 3 runs, overlapping, each of three jobs | 0.9 million states. Pending revisions have a cause; `HISTORY_MAX=0` keeps the history |
| `comment` | 3 runs, up to 4 comments, 3 on the page | 457,983 states. Comments on the page bounded by the runs in flight, no run held up |
| `rescan` | 2 branches, 1 tag, 2 images, a CVE in 2 packages | 58,440 states. Duplicates bounded, lasting findings reported again and again |
| `publish` | 3 runs, 2 releases of one major version, any refs | 2.7 million states. Tagged images and images named on pages verifiable, pages and rolling tags consistent |

Three runs are enough for what the Release properties are about: one to deploy, one to
fail and be undone, one to roll back; two of them suffice for every counterexample
found. `HelmDefaultMax` is 3 instead of helm's 10 so that three runs reach it, and
`HISTORY_MAX` 2 prunes at the second upgrade. `MaxComments` 4 leaves room for a comment
of each run and one of a person, and `PageLen` 3 lets one of them be pushed past the page. Two branches are what it takes for jobs to overlap, two
images for a tag to move, two packages for equal titles; the jobs of different tags share
no title. Three runs of Publish are a release, a second one that overlaps it and a
repetition of either, on the same ref or another. In RunTime the components' values matter only through zero or not
and their order. Numbers of runs, comments, branches, tags, images, releases and the
durations are not bounded in the proofs.

Deadlock is not checked: in every module but IssueRescan the system stops when its runs
have ended, and there when nobody starts another.

Five more runs are expected to be violated. They state what a document or comment of
the repository says, and the code does not do:

| Run | Said | Done |
|---|---|---|
| `run_diff_failed` | a diff's status 0 means it ran successfully | `helm diff`'s return code 1 is accepted, which is also helm's code for any failure |
| `release_marker_overlap` | only deployments that were ready are marked | not if helm commands overlap |
| `release_safe_timeout` | atomic, with automatic rollback | the subprocess timer equals helm's and kills it first |
| `rescan_image` | an issue is valid against the digest it names, also when the tag moves | the digest is asked for after the scan: if the tag moves in between, the issue names an image that was not scanned |
| `publish_latest` | `:latest` is the latest release | every run takes it, also that of an older release |

Seen as well, without a run of their own:

* If the toolkit's `fail` ends the process with 1, as the v1 pipe relies on, the
  documented exit codes are lost (`cli.py:104`).
* A rollback ignores `DRY_RUN`, which `README.md` says is passed through to helm.
* Some failures are no `PipeError` and end with 99: a `TIMEOUT` that `_parse_timeout`
  rejects, botocore's connection errors, a missing binary, undecodable output.
* `helm history` has no timeout, so a rollback need not end.
* `helm rollback` prunes to helm's default although `HISTORY_MAX=0`.
* `docs/migration/v1-to-v2.md:226-229` promises a single comment that reflects the latest
  diff. Two runs that overlap can both post, after which the second comment is never
  updated again; a request handled late can replace a newer diff by an older one; and
  beyond the first page every run posts another comment. What is left of the promise is
  `CommentsBounded`: one comment on the page per run in flight.
* A network error on POST or PUT has status 0 and is logged as posted.
* `SECURITY.md:58` calls the issues auto-deduplicated. A CVE in two packages opens two
  with one title in one run, because the title names no package and the titles `main()`
  creates are not added to `existing_titles`, and so can runs on two branches.
  `DuplicatesBounded` says how many there can be.
* An unlink that fails after a successful upgrade is reported as `KubeconfigError`, code 7.
* Fetching a chart may take 780 s by its limits, and TIMEOUT is 600 s by default: helm
  starts with a live token, but may still be at work at 1380 s, when it has expired at
  900 s (`03-RESEARCH.md` says that no refresh is needed). Only a local chart leaves the
  default room. `helm rollback` comes after `helm history`, so it may even start late.
* A dispatch on another ref publishes that ref's code under the release's version
  (`release.yml:63`), and since it is in another concurrency group than the release itself,
  `TaggedIsVerifiable`, `PageNamesTheTag` and `RollingIsARelease` do not hold of that
  release; hence `OwnRef`.

### Fairness

`PipeRun!FairSpec` has weak fairness on every step but `helm history` and the kill:
helm's and cosign's processes are started with a timeout, boto3 and `urlopen` have
theirs, the rest is local. `RunEnds` needs no more, because no step goes back
(`NeverBack`, which is proved); it excludes the rollback, which may hang in `helm history`. `PrComment!FairSpec`
has weak fairness on a run's own steps after GET, again because of the request timeout,
and none on Bitbucket or people. That `urlopen` returns at all is an assumption: its
timeout is per socket operation, and a server could keep a connection going.
`IssueRescan!FairSpec` has weak fairness on the start of a run on the default branch
(cron), and strong fairness on the steps of its jobs but `Stop`: a step may fail on any
number of days, but a job that gets to a step day after day gets past it some day. It has
none on people, releases, Trivy or other branches. `Reported` needs the strong form,
because `Stop` disables each step again and again. Release, Publish and RunTime have no
fairness and no liveness property: whether workloads become ready, helm returns, or
somebody runs a failed job again is nothing the code can promise.

## 4. What is proved

All theorems hold for every value of the constants and are proved by TLAPS from
the modules' named assumptions (types of the constants only) and the ones their
statements name.

* **PipeRunProofs.** `IInv` says what holds at each step: before the final helm command
  nothing is wrong and nothing done (`NothingYet`), after it no exception means the
  work is done (`DoneOrRaised`), one message and one status (`SaidOnce`), and which
  steps have the kubeconfig (`FileByStep`) and the chart (`ChartByStep`). The safety
  properties alone are not inductive: none of them knows where in the run it is. From
  it: `TypeCorrect`, `ExitZero`, `ReadOnly`, `EarlyErrors1to4`, `HelmInputs`,
  `NoTokenLeft`, `VerifyFirst`, and `Implements`, the refinement of RunContract step by
  step. `OnlyForward` says of every step that it leads to a later one, or adds a chart
  sub-command to those that are done, of which there are three at most: that is the part
  of `RunEnds` that needs no fairness.
* **ReleaseProofs.** `TypeCorrect`. With `Exclusive`, `MarkerIsSound` and
  `RollbackIsSafe`: the invariant adds that one run at most is at work (`Mutex`), that
  it works on a revision of its own (`OwnRevision`), that ready content is in
  `converged` (`ReadyConverged`), and the two facts that make the stale pre-flight
  harmless: a revision number once accepted stays either as it was or gone
  (`AcceptedStays`), and an uninstall, which lets numbers be used again, happens only
  to a release nothing of which could have been accepted (`FirstInstall`). The same
  invariant carries the refinement, `PromiseIsKept`: each action of Release is one of
  MarkedRollback or changes nothing it can see (`PromiseStep`). `SuccessIsLive` adds that
  the run at work has made the newest revision (`NewestIsAtWork`) and that a success lies
  before it and cannot be undone as a first install (`SuccessIsPast`). Without
  `Exclusive`: `PendingHasCause` and `UnlimitedIsNotUnset`.
* **PrCommentProofs.** `TypeCorrect`, and `CommentsAreBounded` for any number of runs and
  any page: the number of comments alone is not inductive, and the invariant (`Room`) adds
  the runs that have found none and are to make one on the page (`Creating`). A run that
  finds none finds an empty page, and is in flight itself together with all that are to make
  one, which the peak covers (`PeakCovers`); a comment then takes the place of its run.
* **IssueRescanProofs.** `TypeCorrect`; `IssuesAreBounded`, from an invariant that adds
  to the open issues of a title what the branch's job has still to create.
* **PublishProofs.** `TypeCorrect`, and of the releases run on their own tag, wherever the
  others are, `TaggedImagesAreVerifiable`: runs of one such release exclude each other
  (`Apart`, `Alone`), so the digest a run looks up by its version tag is its own (`OwnTags`,
  `OwnDigest`), and each tag is on the image of a run that has put it there
  (`TagsAreOwned`). `PagesAgree` and `RollingTagsAreReleases` rest on a second invariant about
  where a run's tags are while it is at work: it holds its version tag from the last tag to
  the end (`HoldsTag`), and a tag on another image of its release is one it has still to put
  (`Covers`), so that a release whose runs have come through has one image with tags
  (`SettledTags`). `PagesAreVerifiable` is about every release: the digest once looked up is
  some run's image (`VersionIsTagged`), and each later step adds its evidence to that digest,
  wherever the tags have gone (`EvidenceByStep`).
* **RunTimeProofs.** `TypeCorrect`; `RunsEndInTime`; and `TokenIsLive` if local work takes
  less than 120 s: 780 s of limits and that are less than the token's 900 s. The invariant
  bounds the time at each step by the limits of the steps before it. `TimersAreOne` is about
  all durations: `_parse_timeout` accepts one component of each unit at most (`AtMostThree`),
  so helm's sum, a recursive function, is unfolded three times without induction
  (`HelmSum`, which has to show first that such a function exists), and each named group
  is one of its terms (`SameDuration`).

Two hypotheses are left in theorems. `Exclusive` is needed: the run `release_marker_overlap`
shows the marker failing without it. The 120 s of `TokenIsLive` are what the token's life
leaves beside the limits. The properties of `publish` that are about releases run on their
own tag say so themselves (`OwnRef`).

Only model-checked: what is temporal (`RunEnds`, `PostingEnds`, `Reported`), because liveness
under fairness is beyond this prover. Every invariant and every action property that a run
shows is proved.

## 5. Order of the work

1. PipeRun, RunContract, Release, PrComment and their proofs.
2. IssueRescan, Publish, RunTime and their proofs; MarkedRollback and its refinement by
   Release; `SuccessIsLive`.
3. `PagesAgree`, `RollingTagsAreReleases`, `PagesAreVerifiable`, `TimersAreOne`,
   `CommentsAreBounded`, `OnlyForward`.
4. The comments with overlapping runs, late requests and a page that overflows; tags that
   move during a rescan; dispatches of the release workflow on any ref.
5. Possible next: PipeRun composed with Release at the helm step; the session name and the
   comma lists as pure operators.

## 6. Not modelled

Wording and layout of logs and messages; the metadata `--set-json` arguments and values
files (data handed to helm unread); the YAML of the kubeconfig and the bytes of the
token; redaction, which rewrites text; the derivation of the session name; the reading of
Chart.yaml and chart specs; what a registry resolves an OCI reference without a version
to; the v1 pipe, which is no longer shipped; the checks of `.trivyignore` and Scorecard
exceptions, one pass over a text and a comparison of dates; release-please and the
workflows that only build and test; the cold-start benchmark; Kubernetes beyond "ready",
helm hooks and namespaces; a person who pastes the comment marker or an issue's title.
`WAIT` and `CREATE_NAMESPACE` are settings the code reads and never uses, so no action
mentions them.
