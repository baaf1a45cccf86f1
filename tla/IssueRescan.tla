----------------------------- MODULE IssueRescan -----------------------------
(***************************************************************************)
(* The daily rescan of the published image.  A run of the workflow         *)
(* (.github/workflows/security-rescan.yml) has a job per image tag: probe, *)
(* Trivy scan, upload, then scripts/rescan-issue-creator.py, which asks    *)
(* the registry for the tag's digest, lists the open security issues once  *)
(* and creates an issue per finding whose title is not listed.  Releases   *)
(* move the tags meanwhile, people close issues, a job can stop anywhere,  *)
(* and only runs on the same branch exclude each other.                    *)
(***************************************************************************)
EXTENDS Naturals

CONSTANTS
  Refs, Main,  \* the branches the workflow is started on, and the one cron uses
  Tags,        \* the matrix
  Digests,     \* the images that are published under the tags
  Absent,      \* what a tag without an image points to
  CVEs,        \* CRITICAL and HIGH ones, with a fix
  Packages     \* how many packages of an image a CVE is reported for

ASSUME IssueRescanAssumption ==
  /\ Main \in Refs
  /\ Absent \notin Digests
  /\ Packages \in [CVEs -> Nat \ {0}]

\* _make_issue_title: equal titles are the same finding.
Titles == Tags \X Digests \X CVEs
Jobs   == Refs \X Tags
Tag(j) == j[2]

VARIABLES
  manifest,  \* the registry: the image of every tag
  vulns,     \* what Trivy's database knows of every image
  open,      \* how many open issues the runs of a branch made under a title
  pc,        \* the step each job is at
  todo,      \* how often each CVE is still to be dealt with
  digest     \* the digest the script works with

vars == <<manifest, vulns, open, pc, todo, digest>>
world == <<manifest, vulns>>

TypeOK ==
  /\ manifest \in [Tags -> Digests \union {Absent}]
  /\ vulns \in [Digests -> SUBSET CVEs]
  /\ open \in [Refs -> [Titles -> Nat]]
  /\ pc \in [Jobs -> {"idle", "probe", "scan", "upload", "resolve", "list", "create"}]
  /\ todo \in [Jobs -> [CVEs -> Nat]]
  /\ digest \in [Jobs -> Digests \union {Absent}]
  /\ \A j \in Jobs : digest[j] = Absent <=> pc[j] \notin {"list", "create"}

Nothing == [c \in CVEs |-> 0]

Init ==
  /\ manifest = [t \in Tags |-> Absent]
  /\ vulns = [d \in Digests |-> {}]
  /\ open = [r \in Refs |-> [i \in Titles |-> 0]]
  /\ pc = [j \in Jobs |-> "idle"]
  /\ todo = [j \in Jobs |-> Nothing]
  /\ digest = [j \in Jobs |-> Absent]

IsOpen(i) == \E r \in Refs : open[r][i] > 0

-----------------------------------------------------------------------------
\* One run of the workflow

\* Cron, or workflow_dispatch; a run waits for the one before it on its branch.
Start(r) ==
  /\ \A t \in Tags : pc[<<r, t>>] = "idle"
  /\ pc' = [j \in Jobs |-> IF j[1] = r THEN "probe" ELSE pc[j]]
  /\ UNCHANGED <<world, open, todo, digest>>

Goto(j, step) == pc' = [pc EXCEPT ![j] = step]

\* The job is over, with the process and the files it kept.
End(j) ==
  /\ Goto(j, "idle")
  /\ todo' = [todo EXCEPT ![j] = Nothing]
  /\ digest' = [digest EXCEPT ![j] = Absent]

Probe(j) ==
  /\ pc[j] = "probe" /\ manifest[Tag(j)] # Absent
  /\ Goto(j, "scan")
  /\ UNCHANGED <<world, open, todo, digest>>

\* A step fails, the probe does not see 200, the script exits with 2 or on a
\* CalledProcessError, or the 15 minutes are over: the job ends where it is.
Stop(j) ==
  /\ pc[j] # "idle"
  /\ End(j)
  /\ UNCHANGED <<world, open>>

\* The SARIF report has a result for every package a CVE is found in.
Scan(j) ==
  /\ pc[j] = "scan"
  /\ LET found == vulns[manifest[Tag(j)]] IN
       todo' = [todo EXCEPT ![j] = [c \in CVEs |-> IF c \in found THEN Packages[c] ELSE 0]]
  /\ Goto(j, "upload")
  /\ UNCHANGED <<world, open, digest>>

Upload(j) ==
  /\ pc[j] = "upload"
  /\ Goto(j, "resolve")
  /\ UNCHANGED <<world, open, todo, digest>>

\* Mutant: a failing inspect is only logged, the digest is "unknown".
ResolveUnknown(j) ==
  /\ pc[j] = "resolve"
  /\ IF todo[j] = Nothing THEN End(j)
     ELSE /\ digest' \in {digest, [digest EXCEPT ![j] = manifest[Tag(j)]]}
          /\ Goto(j, "list")
          /\ UNCHANGED todo
  /\ UNCHANGED <<world, open>>

\* _resolve_digest asks for the tag again; without findings main returns 0.
Resolve(j) ==
  /\ pc[j] = "resolve"
  /\ IF todo[j] = Nothing THEN End(j)
     ELSE /\ digest' = [digest EXCEPT ![j] = manifest[Tag(j)]]
          /\ Goto(j, "list")
          /\ UNCHANGED todo
  /\ UNCHANGED <<world, open>>

TitleOf(j, c) == <<Tag(j), digest[j], c>>

\* Mutant: the label of the listing is not the one the issues get.
UnlistedAll(j) == todo[j]

\* Mutant: titles are compared without the digest.
UnlistedByCve(j) ==
  [c \in CVEs |-> IF \E d \in Digests : IsOpen(<<Tag(j), d, c>>) THEN 0 ELSE todo[j][c]]

\* The findings whose title is that of an open issue are skipped.
Unlisted(j) == [c \in CVEs |-> IF IsOpen(TitleOf(j, c)) THEN 0 ELSE todo[j][c]]

List(j) ==
  /\ pc[j] = "list"
  /\ IF Unlisted(j) = Nothing THEN End(j)
     ELSE /\ todo' = [todo EXCEPT ![j] = Unlisted(j)]
          /\ Goto(j, "create")
          /\ UNCHANGED digest
  /\ UNCHANGED <<world, open>>

\* The titles it creates are not added to existing_titles.
Create(j, c) ==
  /\ pc[j] = "create" /\ todo[j][c] > 0
  /\ open' = [open EXCEPT ![j[1]][TitleOf(j, c)] = @ + 1]
  /\ LET rest == [todo[j] EXCEPT ![c] = @ - 1] IN
       IF rest = Nothing THEN End(j)
       ELSE /\ todo' = [todo EXCEPT ![j] = rest]
            /\ UNCHANGED <<pc, digest>>
  /\ UNCHANGED world

-----------------------------------------------------------------------------
\* The registry, Trivy's database and the people who work on the issues

Move(t) ==
  /\ \E d \in Digests : manifest' = [manifest EXCEPT ![t] = d]
  /\ UNCHANGED <<vulns, open, pc, todo, digest>>

Learn(d) ==
  /\ \E c \in CVEs : vulns' = [vulns EXCEPT ![d] = @ \union {c}]
  /\ UNCHANGED <<manifest, open, pc, todo, digest>>

Close(i) ==
  /\ \E r \in Refs : open[r][i] > 0 /\ open' = [open EXCEPT ![r][i] = @ - 1]
  /\ UNCHANGED <<world, pc, todo, digest>>

Job(j) ==
  \/ Probe(j) \/ Scan(j) \/ Upload(j) \/ Resolve(j) \/ List(j)
  \/ \E c \in CVEs : Create(j, c)
  \/ Stop(j)

Next ==
  \/ \E r \in Refs : Start(r)
  \/ \E j \in Jobs : Job(j)
  \/ \E t \in Tags : Move(t)
  \/ \E d \in Digests : Learn(d)
  \/ \E i \in Titles : Close(i)

Spec == Init /\ [][Next]_vars

\* Cron starts a run every day, and no step fails day after day for ever: a job
\* that gets to a step again and again gets past it.
FairSpec ==
  /\ Spec
  /\ WF_vars(Start(Main))
  /\ \A t \in Tags : LET j == <<Main, t>> IN
       /\ SF_vars(Probe(j)) /\ SF_vars(Scan(j)) /\ SF_vars(Upload(j))
       /\ SF_vars(Resolve(j)) /\ SF_vars(List(j))
       /\ \A c \in CVEs : SF_vars(Create(j, c))

-----------------------------------------------------------------------------
\* Properties

\* However runs on several branches overlap, fail half way and follow one
\* another, and whoever closes what: a branch never has more open issues under
\* one title than packages the CVE was reported for.  In particular runs on one
\* branch open one issue for a CVE in one package.  (main, SECURITY.md:
\* auto-deduplicated GitHub Issues)
DuplicatesBounded ==
  \A r \in Refs, i \in Titles : open[r][i] <= Packages[i[3]]

\* An issue names an image that has the CVE.  (_make_issue_title: when a tag moves,
\* "the previous issues remain valid against the old digest")  Not so: the digest
\* is asked for after the scan, and the tag can move in between.
NamesAffectedImage ==
  \A t \in Tags, d \in Digests, c \in CVEs :
    IsOpen(<<t, d, c>>) => c \in vulns[d]

\* While an image stays published under a tag and has a CVE, there is an issue
\* about it again and again, though jobs die at any step and people close issues.
\* (the workflow: CRITICAL+HIGH findings are turned into issues, daily)
Reported ==
  \A t \in Tags, d \in Digests, c \in CVEs :
    <>[](manifest[t] = d /\ c \in vulns[d]) => []<>IsOpen(<<t, d, c>>)
=============================================================================
