------------------------------- MODULE Publish -------------------------------
(***************************************************************************)
(* Publishing the image (.github/workflows/release.yml).  A run of the     *)
(* workflow builds an image from the ref it is started on and, in a second *)
(* job, puts three tags on it, asks the registry which digest the version  *)
(* tag has, tests, signs and attests that digest and writes it on the      *)
(* release page.  Only runs on the same ref exclude each other; each job   *)
(* can fail at every step and be run again.                                *)
(***************************************************************************)
EXTENDS Naturals

CONSTANTS
  Runs,      \* runs of the workflow; a run's image is named like the run
  NoImage,
  Last,      \* bound: releases 1 .. Last, in the order release-please tags them
  Major      \* the major version of a release

Versions == 1 .. Last

ASSUME PublishAssumption ==
  /\ NoImage \notin Runs
  /\ Last \in Nat
  /\ Major \in [Versions -> Nat]

Branch == 0   \* the ref of a dispatch that is no release tag

\* What "Compute version tags" makes of a release.
VersionTag(v) == <<"version", v>>
Latest        == <<"latest", 0>>
TagsOf(v)     == {VersionTag(v), <<"major", Major[v]>>, Latest}
ImageTags     == UNION {TagsOf(v) : v \in Versions}

\* What cosign sign stores beside an image, and what the two SBOM attestations
\* and the build provenance do.
Evidence == {"signature", "attestations"}

Steps  == {"build", "create", "inspect", "sign", "attest", "page"}
Failed == {"build failed", "sign failed"}

VARIABLES
  pushed,    \* how many release tags have been pushed
  tags,      \* the registry: the image each tag is on
  evidence,  \* what is stored beside each image
  page,      \* the image each release's page names last
  pc,        \* the step of each run
  ref,       \* github.ref of a run, whose code it builds
  version,   \* the release it publishes
  left,      \* the tags it has still to put on its image
  picked     \* manifest-digest

vars == <<pushed, tags, evidence, page, pc, ref, version, left, picked>>
registry == <<tags, evidence, page>>
identity == <<ref, version>>

TypeOK ==
  /\ pushed \in 0 .. Last
  /\ tags \in [ImageTags -> Runs \union {NoImage}]
  /\ evidence \in [Runs -> SUBSET Evidence]
  /\ page \in [Versions -> Runs \union {NoImage}]
  /\ pc \in [Runs -> {"unused", "done"} \union Steps \union Failed]
  /\ ref \in [Runs -> {Branch} \union Versions]
  /\ version \in [Runs -> {0} \union Versions]
  /\ left \in [Runs -> SUBSET ImageTags]
  /\ picked \in [Runs -> Runs \union {NoImage}]
  /\ \A r \in Runs : pc[r] # "unused" => version[r] \in Versions

Init ==
  /\ pushed = 0
  /\ tags = [n \in ImageTags |-> NoImage]
  /\ evidence = [r \in Runs |-> {}]
  /\ page = [v \in Versions |-> NoImage]
  /\ pc = [r \in Runs |-> "unused"]
  /\ ref = [r \in Runs |-> Branch]
  /\ version = [r \in Runs |-> 0]
  /\ left = [r \in Runs |-> {}]
  /\ picked = [r \in Runs |-> NoImage]

Active(r) == pc[r] \in Steps

\* Mutant: a group of its own for every run.
NoGroup(g) == TRUE

\* concurrency: group release-<ref>, nothing is cancelled.
Free(g) == \A r \in Runs : Active(r) => ref[r] # g

Goto(r, step) == pc' = [pc EXCEPT ![r] = step]

-----------------------------------------------------------------------------
\* Starting runs

\* Mutant: the version is left unset.
BeginUnnumbered(r, g, v) ==
  /\ pc[r] = "unused" /\ Free(g)
  /\ Goto(r, "build")
  /\ ref' = [ref EXCEPT ![r] = g]
  /\ UNCHANGED <<registry, version, left, picked>>

Begin(r, g, v) ==
  /\ pc[r] = "unused" /\ Free(g)
  /\ Goto(r, "build")
  /\ ref' = [ref EXCEPT ![r] = g]
  /\ version' = [version EXCEPT ![r] = v]
  /\ UNCHANGED <<registry, left, picked>>

\* The next release PR is merged and its tag pushed.
Push(r) ==
  /\ pushed < Last
  /\ pushed' = pushed + 1
  /\ Begin(r, pushed + 1, pushed + 1)

\* workflow_dispatch of a release that has been tagged, on some ref.
Dispatch(r) ==
  /\ \E v \in 1 .. pushed, g \in 0 .. pushed :
       Begin(r, g, v)
  /\ UNCHANGED pushed

\* Re-run failed jobs: the outputs of a job that succeeded are kept.
Rerun(r) ==
  /\ pc[r] \in Failed /\ Free(ref[r])
  /\ IF pc[r] = "build failed" THEN Goto(r, "build") /\ UNCHANGED left
     ELSE Goto(r, "create") /\ left' = [left EXCEPT ![r] = TagsOf(version[r])]
  /\ UNCHANGED <<pushed, registry, identity, picked>>

-----------------------------------------------------------------------------
\* The jobs of a run

Fail(r) ==
  /\ Active(r)
  /\ Goto(r, IF pc[r] = "build" THEN "build failed" ELSE "sign failed")
  /\ left' = [left EXCEPT ![r] = {}]
  /\ picked' = [picked EXCEPT ![r] = NoImage]
  /\ UNCHANGED <<pushed, registry, identity>>

\* Both platforms, pushed by digest: no tag moves.
Build(r) ==
  /\ pc[r] = "build"
  /\ Goto(r, "create")
  /\ left' = [left EXCEPT ![r] = TagsOf(version[r])]
  /\ UNCHANGED <<pushed, registry, identity, picked>>

\* Mutant: a tag that exists is not moved.
CreateNew(r) ==
  /\ pc[r] = "create"
  /\ \E n \in left[r] :
       /\ tags' = [tags EXCEPT ![n] = IF @ = NoImage THEN r ELSE @]
       /\ left' = [left EXCEPT ![r] = @ \ {n}]
       /\ IF left[r] = {n} THEN Goto(r, "inspect") ELSE UNCHANGED pc
  /\ UNCHANGED <<pushed, evidence, page, identity, picked>>

\* imagetools create puts one tag after the other on the manifest.
Create(r) ==
  /\ pc[r] = "create"
  /\ \E n \in left[r] :
       /\ tags' = [tags EXCEPT ![n] = r]
       /\ left' = [left EXCEPT ![r] = @ \ {n}]
       /\ IF left[r] = {n} THEN Goto(r, "inspect") ELSE UNCHANGED pc
  /\ UNCHANGED <<pushed, evidence, page, identity, picked>>

\* Mutant: the digest is that of :latest.
InspectLatest(r) ==
  /\ pc[r] = "inspect"
  /\ picked' = [picked EXCEPT ![r] = tags[Latest]]
  /\ Goto(r, "sign")
  /\ UNCHANGED <<pushed, registry, identity, left>>

\* imagetools inspect IMAGE:VERSION, then the smoke test of that digest.
Inspect(r) ==
  /\ pc[r] = "inspect"
  /\ picked' = [picked EXCEPT ![r] = tags[VersionTag(version[r])]]
  /\ Goto(r, "sign")
  /\ UNCHANGED <<pushed, registry, identity, left>>

Store(r, item, next) ==
  /\ evidence' = [evidence EXCEPT ![picked[r]] = @ \union {item}]
  /\ Goto(r, next)
  /\ UNCHANGED <<pushed, tags, page, identity, left, picked>>

Sign(r) == pc[r] = "sign" /\ Store(r, "signature", "attest")

Attest(r) == pc[r] = "attest" /\ Store(r, "attestations", "page")

\* Mutant: the digest is looked up by the tag once more.
WritePageByTag(r) ==
  /\ pc[r] = "page"
  /\ page' = [page EXCEPT ![version[r]] = tags[VersionTag(version[r])]]
  /\ Goto(r, "done")
  /\ picked' = [picked EXCEPT ![r] = NoImage]
  /\ UNCHANGED <<pushed, tags, evidence, identity, left>>

\* gh release edit: release-please has made the page with the tag.
WritePage(r) ==
  /\ pc[r] = "page"
  /\ page' = [page EXCEPT ![version[r]] = picked[r]]
  /\ Goto(r, "done")
  /\ picked' = [picked EXCEPT ![r] = NoImage]
  /\ UNCHANGED <<pushed, tags, evidence, identity, left>>

Next ==
  \E r \in Runs :
    \/ Push(r) \/ Dispatch(r) \/ Rerun(r) \/ Fail(r)
    \/ Build(r) \/ Create(r) \/ Inspect(r) \/ Sign(r) \/ Attest(r) \/ WritePage(r)

Spec == Init /\ [][Next]_vars

-----------------------------------------------------------------------------
\* Properties

\* A release has been run on its own tag only: what a push does, and a dispatch if
\* the tag is also picked as its ref.  Only then its runs exclude each other.
OwnRef(v) == \A r \in Runs : version[r] = v /\ pc[r] # "unused" => ref[r] = v

Settled(v) == \A r \in Runs : version[r] = v => pc[r] = "done"

\* An image that carries a tag has its signature and all attestations, unless its
\* own run has not come through yet or its release is run on other refs too,
\* wherever the other releases are run.  (SECURITY.md: every release is
\* verifiable; the digest is looked up again by tag before it is signed)
TaggedIsVerifiable ==
  \A n \in ImageTags :
    /\ tags[n] # NoImage
    /\ pc[tags[n]] = "done" /\ OwnRef(version[tags[n]])
    => evidence[tags[n]] = Evidence

\* When no run of a release is unfinished, and all were on its own tag, its page
\* names the image its version tag is on, whichever of them came last.
PageNamesTheTag ==
  \A v \in Versions : Settled(v) /\ OwnRef(v) => page[v] = tags[VersionTag(v)]

\* When no run of a release is unfinished, and all were on its own tag, a rolling
\* tag that is on an image of the release is on the one its version tag is on,
\* although runs of other releases put the same tags one by one.  (release.yml:
\* the three tags are applied at the same digest)
RollingIsARelease ==
  \A n \in ImageTags, r \in Runs :
    tags[n] = r /\ Settled(version[r]) /\ OwnRef(version[r])
      => tags[VersionTag(version[r])] = r

\* An image that a release page names has its signature and all attestations, on
\* whatever refs the runs of the release are: another run of it may move the tag
\* between any two steps of the one that names the image.  (release.yml: every step after the look-up
\* works with that one digest)
PageIsVerifiable ==
  \A v \in Versions : page[v] # NoImage => evidence[page[v]] = Evidence

\* When nothing is unfinished, :latest is the newest release.
\* (docs/migration/v1-to-v2.md)
LatestIsNewest ==
  (\A v \in Versions : Settled(v)) /\ pushed > 0 => version[tags[Latest]] = pushed
=============================================================================
