---------------------------- MODULE PublishProofs ----------------------------
(***************************************************************************)
(* Any number of runs and releases, on whatever refs.  What a release page *)
(* names is signed and attested.  A release that is run on its own tag     *)
(* only, wherever the others are run: an image of it that has a tag and    *)
(* whose run has come through is signed and attested, and when its runs    *)
(* have come through, page, version tag and rolling tags agree.            *)
(***************************************************************************)
EXTENDS Publish, TLAPS

\* The releases that are run on their own tag only, and their runs.
OwnRefs == {v \in Versions : OwnRef(v)}
OwnRuns == {r \in Runs : pc[r] # "unused" /\ version[r] \in OwnRefs}

\* Runs at work are on different refs.
Apart == \A r, s \in Runs : Active(r) /\ Active(s) /\ ref[r] = ref[s] => r = s

\* A run puts its release's tags only, and from then on has its version tag.
LeftOver ==
  \A r \in Runs :
    /\ \A n \in left[r] : n \in TagsOf(version[r])
    /\ left[r] # {} => pc[r] = "create"

OwnTags ==
  \A r \in OwnRuns :
    /\ pc[r] = "create" => VersionTag(version[r]) \in left[r] \/ tags[VersionTag(version[r])] = r
    /\ pc[r] = "inspect" => tags[VersionTag(version[r])] = r

\* What such a run has picked is its own image.
OwnDigest ==
  \A r \in OwnRuns :
    /\ pc[r] \in {"sign", "attest", "page"} => picked[r] = r
    /\ pc[r] = "attest" => "signature" \in evidence[r]
    /\ pc[r] \in {"page", "done"} => evidence[r] = Evidence

\* A tag's image comes from a run that publishes the tag.
TagsAreOwned ==
  \A n \in ImageTags :
    tags[n] # NoImage => pc[tags[n]] # "unused" /\ n \in TagsOf(version[tags[n]])

IInv == TypeOK /\ Apart /\ LeftOver /\ OwnTags /\ OwnDigest /\ TagsAreOwned

LEMMA TagFacts ==
  ASSUME NEW v \in Versions
  PROVE  /\ TagsOf(v) \subseteq ImageTags
         /\ VersionTag(v) \in TagsOf(v)
         /\ \A w \in Versions : VersionTag(v) \in TagsOf(w) => v = w
BY DEF TagsOf, ImageTags, VersionTag, Latest

LEMMA InitTypeOK == Init => TypeOK
BY PublishAssumption DEF Init, TypeOK, Branch

LEMMA InitIInv == Init => IInv
<1> SUFFICES ASSUME Init PROVE IInv
  OBVIOUS
<1>1. TypeOK
  BY InitTypeOK
<1>2. Apart /\ LeftOver /\ OwnTags /\ OwnDigest /\ TagsAreOwned
  BY DEF Init, OwnRuns, Apart, LeftOver, OwnTags, OwnDigest, TagsAreOwned, Active, Steps
<1>3. QED
  BY <1>1, <1>2 DEF IInv

LEMMA BeginTypeOK ==
  ASSUME TypeOK, NEW r \in Runs, NEW g \in {Branch} \union Versions, NEW v \in Versions,
         Begin(r, g, v)
  PROVE  /\ pc' \in [Runs -> {"unused", "done"} \union Steps \union Failed]
         /\ ref' \in [Runs -> {Branch} \union Versions]
         /\ version' \in [Runs -> {0} \union Versions]
         /\ \A s \in Runs : pc'[s] # "unused" => version'[s] \in Versions
BY DEF TypeOK, Begin, Goto, Steps

LEMMA NextTypeOK ==
  ASSUME TypeOK, [Next]_vars
  PROVE  TypeOK'
<1>1. CASE UNCHANGED vars
  BY <1>1 DEF TypeOK, vars
<1>2. ASSUME NEW r \in Runs, Push(r) PROVE TypeOK'
  <2>1. pushed' = pushed + 1 /\ pushed + 1 \in Versions
    BY <1>2, PublishAssumption DEF TypeOK, Push, Versions
  <2>2. pushed' \in 0 .. Last
    BY <2>1 DEF Versions
  <2>3. Begin(r, pushed + 1, pushed + 1)
    BY <1>2 DEF Push
  <2>4. QED
    BY <2>1, <2>2, <2>3, BeginTypeOK DEF TypeOK, Begin, registry
<1>3. ASSUME NEW r \in Runs, Dispatch(r) PROVE TypeOK'
  <2>1. PICK v \in 1 .. pushed, g \in 0 .. pushed : Begin(r, g, v)
    BY <1>3 DEF Dispatch
  <2>2. v \in Versions /\ g \in {Branch} \union Versions
    BY PublishAssumption DEF TypeOK, Versions, Branch
  <2>3. UNCHANGED pushed
    BY <1>3 DEF Dispatch
  <2>4. QED
    BY <2>1, <2>2, <2>3, BeginTypeOK DEF TypeOK, Begin, registry
<1>4. ASSUME NEW r \in Runs, Rerun(r) PROVE TypeOK'
  <2>1. version[r] \in Versions
    BY <1>4 DEF TypeOK, Rerun, Failed
  <2>2. TagsOf(version[r]) \subseteq ImageTags
    BY <2>1, TagFacts
  <2>3. QED
    BY <1>4, <2>1, <2>2 DEF TypeOK, Rerun, Goto, registry, identity, Steps, Failed
<1>5. ASSUME NEW r \in Runs, Fail(r) PROVE TypeOK'
  BY <1>5 DEF TypeOK, Fail, Active, Goto, registry, identity, Steps, Failed
<1>6. ASSUME NEW r \in Runs, Build(r) PROVE TypeOK'
  <2>1. version[r] \in Versions
    BY <1>6 DEF TypeOK, Build
  <2>2. TagsOf(version[r]) \subseteq ImageTags
    BY <2>1, TagFacts
  <2>3. QED
    BY <1>6, <2>1, <2>2 DEF TypeOK, Build, Goto, registry, identity, Steps
<1>7. ASSUME NEW r \in Runs, Create(r) PROVE TypeOK'
  <2>1. PICK n \in left[r] : /\ tags' = [tags EXCEPT ![n] = r]
                             /\ left' = [left EXCEPT ![r] = @ \ {n}]
                             /\ \/ Goto(r, "inspect")
                                \/ UNCHANGED pc
    BY <1>7 DEF Create
  <2>2. tags' \in [ImageTags -> Runs \union {NoImage}] /\ left' \in [Runs -> SUBSET ImageTags]
    BY <2>1 DEF TypeOK
  <2>3. pc' \in [Runs -> {"unused", "done"} \union Steps \union Failed]
    BY <2>1 DEF TypeOK, Goto, Steps
  <2>4. \A s \in Runs : pc'[s] # "unused" => version[s] \in Versions
    BY <1>7, <2>1 DEF TypeOK, Goto, Create
  <2>5. QED
    BY <1>7, <2>2, <2>3, <2>4 DEF TypeOK, Create, identity
<1>8. ASSUME NEW r \in Runs, Inspect(r) PROVE TypeOK'
  <2>1. VersionTag(version[r]) \in ImageTags
    BY <1>8, TagFacts DEF TypeOK, Inspect
  <2>2. QED
    BY <1>8, <2>1 DEF TypeOK, Inspect, Goto, registry, identity, Steps
<1>9. ASSUME NEW r \in Runs, Sign(r) PROVE TypeOK'
  BY <1>9 DEF TypeOK, Sign, Store, Goto, identity, Steps, Evidence
<1>10. ASSUME NEW r \in Runs, Attest(r) PROVE TypeOK'
  BY <1>10 DEF TypeOK, Attest, Store, Goto, identity, Steps, Evidence
<1>11. ASSUME NEW r \in Runs, WritePage(r) PROVE TypeOK'
  BY <1>11 DEF TypeOK, WritePage, Goto, identity, Steps
<1>12. QED
  BY <1>1, <1>2, <1>3, <1>4, <1>5, <1>6, <1>7, <1>8, <1>9, <1>10, <1>11 DEF Next

\* Type correctness of any number of runs of release.yml.
THEOREM TypeCorrect == Spec => []TypeOK
<1>1. QED
  BY InitTypeOK, NextTypeOK, PTL DEF Spec

-----------------------------------------------------------------------------
\* A release that is run on another ref stays one.
OwnStays == OwnRefs' \subseteq OwnRefs /\ \A s \in OwnRuns' : pc[s] # "unused" => s \in OwnRuns

LEMMA StartedStays ==
  ASSUME TypeOK, [Next]_vars, NEW s \in Runs, pc[s] # "unused"
  PROVE  pc'[s] # "unused" /\ version'[s] = version[s] /\ ref'[s] = ref[s]
<1>1. CASE UNCHANGED vars
  BY <1>1 DEF vars
<1>2. ASSUME NEW r \in Runs, Push(r) \/ Dispatch(r)
      PROVE  pc'[s] # "unused" /\ version'[s] = version[s] /\ ref'[s] = ref[s]
  <2>1. PICK g, v : Begin(r, g, v)
    BY <1>2 DEF Push, Dispatch
  <2>2. QED
    BY <2>1 DEF Begin, Goto, TypeOK
<1>3. ASSUME NEW r \in Runs, Rerun(r) \/ Fail(r) \/ Build(r) \/ Create(r) \/ Inspect(r)
      PROVE  pc'[s] # "unused" /\ version'[s] = version[s] /\ ref'[s] = ref[s]
  <2>1. UNCHANGED <<version, ref>>
    BY <1>3 DEF Rerun, Fail, Build, Create, Inspect, identity
  <2>2. UNCHANGED pc \/ \E step : step # "unused" /\ pc' = [pc EXCEPT ![r] = step]
    <3>1. CASE Create(r)
      BY <3>1 DEF Create, Goto
    <3>2. CASE Rerun(r) \/ Fail(r) \/ Build(r) \/ Inspect(r)
      BY <3>2 DEF Rerun, Fail, Build, Inspect, Goto
    <3>3. QED
      BY <1>3, <3>1, <3>2
  <2>3. QED
    BY <2>1, <2>2 DEF TypeOK
<1>4. ASSUME NEW r \in Runs, Sign(r) \/ Attest(r) \/ WritePage(r)
      PROVE  pc'[s] # "unused" /\ version'[s] = version[s] /\ ref'[s] = ref[s]
  BY <1>4 DEF Sign, Attest, WritePage, Store, Goto, identity, TypeOK
<1>5. QED
  BY <1>1, <1>2, <1>3, <1>4 DEF Next

LEMMA OwnStep == ASSUME TypeOK, [Next]_vars PROVE OwnStays
<1>1. OwnRefs' \subseteq OwnRefs
  BY StartedStays DEF OwnRefs, OwnRef
<1>2. QED
  BY <1>1, StartedStays DEF OwnStays, OwnRuns

\* Only one run at a time works on such a release.
LEMMA Alone ==
  ASSUME TypeOK, Apart, NEW s \in OwnRuns, Active(s), NEW r \in Runs, Active(r),
         version[r] = version[s]
  PROVE  r = s
<1>1. ref[s] = version[s] /\ ref[r] = version[s] /\ s \in Runs
  BY DEF OwnRuns, OwnRefs, OwnRef, Active, Steps
<1>2. QED
  BY <1>1 DEF Apart

LEMMA BeginIInv ==
  ASSUME IInv, TypeOK', OwnStays, NEW r \in Runs, NEW g \in {Branch} \union Versions,
         NEW v \in Versions, Begin(r, g, v)
  PROVE  IInv'
<1>1. /\ pc[r] = "unused" /\ \A s \in Runs : Active(s) => ref[s] # g
      /\ pc' = [pc EXCEPT ![r] = "build"]
      /\ ref' = [ref EXCEPT ![r] = g] /\ version' = [version EXCEPT ![r] = v]
      /\ UNCHANGED <<tags, evidence, left, picked>>
  BY DEF Begin, Free, Goto, registry
<1>2. Apart'
  BY <1>1 DEF IInv, TypeOK, Apart, Active
<1>3. left[r] = {} /\ LeftOver'
  BY <1>1 DEF IInv, TypeOK, LeftOver
<1>4. \A s \in OwnRuns' : s = r \/ (s \in OwnRuns /\ s \in Runs)
  BY <1>1 DEF OwnStays, OwnRuns, IInv, TypeOK
<1>5. OwnTags' /\ OwnDigest'
  BY <1>1, <1>4 DEF IInv, TypeOK, OwnTags, OwnDigest
<1>6. TagsAreOwned'
  BY <1>1 DEF IInv, TypeOK, TagsAreOwned
<1>7. QED
  BY <1>2, <1>3, <1>5, <1>6 DEF IInv

\* Steps that keep the runs, their refs and their releases.
LEMMA OwnKept ==
  ASSUME OwnStays, NEW r \in Runs, pc[r] # "unused", \A s \in Runs : s # r => pc'[s] = pc[s]
  PROVE  \A s \in OwnRuns' : s \in OwnRuns /\ s \in Runs
BY DEF OwnStays, OwnRuns

LEMMA RerunIInv ==
  ASSUME IInv, TypeOK', OwnStays, NEW r \in Runs, Rerun(r)
  PROVE  IInv'
<1>1. /\ pc[r] \in Failed /\ \A s \in Runs : Active(s) => ref[s] # ref[r]
      /\ pc' = [pc EXCEPT ![r] = pc'[r]] /\ pc'[r] \in {"build", "create"}
      /\ left' = [left EXCEPT ![r] = left'[r]]
      /\ pc'[r] = "build" => left'[r] = left[r]
      /\ pc'[r] = "create" => left'[r] = TagsOf(version[r])
      /\ UNCHANGED <<tags, evidence, ref, version, picked>>
  BY DEF IInv, TypeOK, Rerun, Free, Goto, registry, identity
<1>2. version[r] \in Versions
  BY <1>1 DEF IInv, TypeOK, Failed
<1>3. \A s \in OwnRuns' : s \in OwnRuns /\ s \in Runs
  BY <1>1, OwnKept DEF IInv, TypeOK, Failed
<1>4. Apart'
  BY <1>1 DEF IInv, TypeOK, Apart, Active
<1>5. left[r] = {} /\ LeftOver'
  <2>1. left[r] = {}
    BY <1>1 DEF IInv, LeftOver, Failed
  <2>2. ASSUME NEW s \in Runs
        PROVE  /\ \A n \in left'[s] : n \in TagsOf(version[s])
               /\ left'[s] # {} => pc'[s] = "create"
    <3>1. CASE s = r
      BY <1>1, <2>1, <3>1 DEF IInv, TypeOK
    <3>2. CASE s # r
      BY <1>1, <3>2 DEF IInv, TypeOK, LeftOver
    <3>3. QED
      BY <3>1, <3>2
  <2>3. QED
    BY <1>1, <2>1, <2>2 DEF LeftOver
<1>6. OwnTags'
  BY <1>1, <1>2, <1>3, TagFacts DEF IInv, TypeOK, OwnTags
<1>7. OwnDigest'
  BY <1>1, <1>3 DEF IInv, TypeOK, OwnDigest
<1>8. TagsAreOwned'
  BY <1>1 DEF IInv, TypeOK, TagsAreOwned
<1>9. QED
  BY <1>4, <1>5, <1>6, <1>7, <1>8 DEF IInv

LEMMA FailIInv ==
  ASSUME IInv, TypeOK', OwnStays, NEW r \in Runs, Fail(r)
  PROVE  IInv'
<1>1. /\ Active(r)
      /\ pc' = [pc EXCEPT ![r] = pc'[r]] /\ pc'[r] \in Failed
      /\ left' = [left EXCEPT ![r] = {}]
      /\ picked' = [picked EXCEPT ![r] = NoImage]
      /\ UNCHANGED <<tags, evidence, ref, version>>
  BY DEF IInv, TypeOK, Fail, Goto, Failed, registry, identity
<1>2. \A s \in OwnRuns' : s \in OwnRuns /\ s \in Runs
  BY <1>1, OwnKept DEF IInv, TypeOK, Active, Steps
<1>3. Apart'
  BY <1>1 DEF IInv, TypeOK, Apart, Active, Steps, Failed
<1>4. LeftOver'
  BY <1>1 DEF IInv, TypeOK, LeftOver, Failed
<1>5. OwnTags' /\ OwnDigest'
  BY <1>1, <1>2 DEF IInv, TypeOK, OwnTags, OwnDigest, Failed
<1>6. TagsAreOwned'
  BY <1>1 DEF IInv, TypeOK, TagsAreOwned, Failed
<1>7. QED
  BY <1>3, <1>4, <1>5, <1>6 DEF IInv

LEMMA BuildIInv ==
  ASSUME IInv, TypeOK', OwnStays, NEW r \in Runs, Build(r)
  PROVE  IInv'
<1>1. /\ pc[r] = "build" /\ pc' = [pc EXCEPT ![r] = "create"]
      /\ left' = [left EXCEPT ![r] = TagsOf(version[r])]
      /\ UNCHANGED <<tags, evidence, ref, version, picked>>
  BY DEF Build, Goto, registry, identity
<1>2. version[r] \in Versions
  BY <1>1 DEF IInv, TypeOK
<1>3. \A s \in OwnRuns' : s \in OwnRuns /\ s \in Runs
  BY <1>1, OwnKept DEF IInv, TypeOK
<1>4. Apart'
  BY <1>1 DEF IInv, TypeOK, Apart, Active, Steps
<1>5. LeftOver'
  BY <1>1 DEF IInv, TypeOK, LeftOver
<1>6. OwnTags'
  BY <1>1, <1>2, <1>3, TagFacts DEF IInv, TypeOK, OwnTags
<1>7. OwnDigest'
  BY <1>1, <1>3 DEF IInv, TypeOK, OwnDigest
<1>8. TagsAreOwned'
  BY <1>1 DEF IInv, TypeOK, TagsAreOwned
<1>9. QED
  BY <1>4, <1>5, <1>6, <1>7, <1>8 DEF IInv

LEMMA CreateIInv ==
  ASSUME IInv, TypeOK', OwnStays, NEW r \in Runs, Create(r)
  PROVE  IInv'
<1>1. PICK n \in left[r] :
        /\ tags' = [tags EXCEPT ![n] = r]
        /\ left' = [left EXCEPT ![r] = @ \ {n}]
        /\ IF left[r] = {n} THEN Goto(r, "inspect") ELSE UNCHANGED pc
  BY DEF Create
<1>2. /\ pc[r] = "create" /\ UNCHANGED <<evidence, ref, version, picked>>
      /\ pc' = [pc EXCEPT ![r] = pc'[r]]
      /\ pc'[r] = IF left[r] = {n} THEN "inspect" ELSE "create"
  BY <1>1 DEF IInv, TypeOK, Create, Goto, identity
<1>3. version[r] \in Versions /\ n \in TagsOf(version[r]) /\ n \in ImageTags
  BY <1>1, <1>2, TagFacts DEF IInv, TypeOK, LeftOver
<1>4. \A s \in OwnRuns' : s \in OwnRuns /\ s \in Runs
  BY <1>2, OwnKept DEF IInv, TypeOK
<1>5. Apart'
  BY <1>2 DEF IInv, TypeOK, Apart, Active, Steps
<1>6. LeftOver'
  BY <1>1, <1>2 DEF IInv, TypeOK, LeftOver
<1>7. OwnTags'
  <2> SUFFICES ASSUME NEW s \in OwnRuns'
               PROVE  /\ pc'[s] = "create" => \/ VersionTag(version[s]) \in left'[s]
                                              \/ tags'[VersionTag(version[s])] = s
                      /\ pc'[s] = "inspect" => tags'[VersionTag(version[s])] = s
    BY <1>2 DEF OwnTags
  <2>0. s \in OwnRuns /\ s \in Runs
    BY <1>4
  <2>1. CASE s = r
    BY <1>1, <1>2, <1>3, <2>0, <2>1, TagFacts DEF IInv, TypeOK, OwnTags
  <2>2. CASE s # r /\ pc[s] \in {"create", "inspect"}
    <3>1. version[s] \in Versions /\ version[s] # version[r]
      BY <1>2, <2>0, <2>2, Alone DEF IInv, TypeOK, Active, Steps
    <3>2. n # VersionTag(version[s]) /\ VersionTag(version[s]) \in ImageTags
      BY <1>3, <3>1, TagFacts
    <3>3. QED
      BY <1>1, <1>2, <2>0, <2>2, <3>2 DEF IInv, TypeOK, OwnTags
  <2>3. CASE s # r /\ pc[s] \notin {"create", "inspect"}
    BY <1>2, <2>0, <2>3 DEF IInv, TypeOK
  <2>4. QED
    BY <2>1, <2>2, <2>3
<1>8. OwnDigest'
  BY <1>2, <1>4 DEF IInv, TypeOK, OwnDigest
<1>9. TagsAreOwned'
  BY <1>1, <1>2, <1>3 DEF IInv, TypeOK, TagsAreOwned
<1>10. QED
  BY <1>5, <1>6, <1>7, <1>8, <1>9 DEF IInv

LEMMA InspectIInv ==
  ASSUME IInv, TypeOK', OwnStays, NEW r \in Runs, Inspect(r)
  PROVE  IInv'
<1>1. /\ pc[r] = "inspect" /\ pc' = [pc EXCEPT ![r] = "sign"]
      /\ picked' = [picked EXCEPT ![r] = tags[VersionTag(version[r])]]
      /\ UNCHANGED <<tags, evidence, ref, version, left>>
  BY DEF Inspect, Goto, registry, identity
<1>2. \A s \in OwnRuns' : s \in OwnRuns /\ s \in Runs
  BY <1>1, OwnKept DEF IInv, TypeOK
<1>3. Apart' /\ LeftOver'
  BY <1>1 DEF IInv, TypeOK, Apart, LeftOver, Active, Steps
<1>4. OwnTags' /\ OwnDigest'
  BY <1>1, <1>2 DEF IInv, TypeOK, OwnTags, OwnDigest
<1>5. TagsAreOwned'
  BY <1>1 DEF IInv, TypeOK, TagsAreOwned
<1>6. QED
  BY <1>3, <1>4, <1>5 DEF IInv

\* A run on another ref may sign and attest any image: evidence is only added.
LEMMA StoreIInv ==
  ASSUME IInv, TypeOK', OwnStays, NEW r \in Runs, Sign(r) \/ Attest(r)
  PROVE  IInv'
<1>1. PICK item \in Evidence :
        /\ evidence' = [evidence EXCEPT ![picked[r]] = @ \union {item}]
        /\ \/ pc[r] = "sign" /\ item = "signature" /\ pc' = [pc EXCEPT ![r] = "attest"]
           \/ pc[r] = "attest" /\ item = "attestations" /\ pc' = [pc EXCEPT ![r] = "page"]
        /\ UNCHANGED <<tags, ref, version, left, picked>>
  BY DEF Sign, Attest, Store, Goto, identity, Evidence
<1>2. \A s \in OwnRuns' : s \in OwnRuns /\ s \in Runs
  BY <1>1, OwnKept DEF IInv, TypeOK
<1>3. /\ \A i \in Runs : evidence[i] \subseteq evidence'[i] /\ evidence'[i] \subseteq Evidence
      /\ picked[r] = r => item \in evidence'[r]
  BY <1>1 DEF IInv, TypeOK
<1>4. Apart' /\ LeftOver'
  BY <1>1 DEF IInv, TypeOK, Apart, LeftOver, Active, Steps
<1>5. OwnTags'
  BY <1>1, <1>2 DEF IInv, TypeOK, OwnTags
<1>6. OwnDigest'
  <2> SUFFICES ASSUME NEW s \in OwnRuns'
               PROVE  /\ pc'[s] \in {"sign", "attest", "page"} => picked[s] = s
                      /\ pc'[s] = "attest" => "signature" \in evidence'[s]
                      /\ pc'[s] \in {"page", "done"} => evidence'[s] = Evidence
    BY <1>1 DEF OwnDigest
  <2>1. CASE s = r
    BY <1>1, <1>2, <1>3, <2>1 DEF IInv, TypeOK, OwnDigest, Evidence
  <2>2. CASE s # r
    BY <1>1, <1>2, <1>3, <2>2 DEF IInv, TypeOK, OwnDigest
  <2>3. QED
    BY <2>1, <2>2
<1>7. TagsAreOwned'
  BY <1>1 DEF IInv, TypeOK, TagsAreOwned
<1>8. QED
  BY <1>4, <1>5, <1>6, <1>7 DEF IInv

LEMMA WritePageIInv ==
  ASSUME IInv, TypeOK', OwnStays, NEW r \in Runs, WritePage(r)
  PROVE  IInv'
<1>1. /\ pc[r] = "page" /\ pc' = [pc EXCEPT ![r] = "done"]
      /\ picked' = [picked EXCEPT ![r] = NoImage]
      /\ UNCHANGED <<tags, evidence, ref, version, left>>
  BY DEF WritePage, Goto, identity
<1>2. \A s \in OwnRuns' : s \in OwnRuns /\ s \in Runs
  BY <1>1, OwnKept DEF IInv, TypeOK
<1>3. Apart' /\ LeftOver'
  BY <1>1 DEF IInv, TypeOK, Apart, LeftOver, Active, Steps
<1>4. OwnTags' /\ OwnDigest'
  BY <1>1, <1>2 DEF IInv, TypeOK, OwnTags, OwnDigest
<1>5. TagsAreOwned'
  BY <1>1 DEF IInv, TypeOK, TagsAreOwned
<1>6. QED
  BY <1>3, <1>4, <1>5 DEF IInv

\* What Push and Dispatch start.
LEMMA Started ==
  ASSUME TypeOK, NEW r \in Runs, Push(r) \/ Dispatch(r)
  PROVE  \E g \in {Branch} \union Versions, v \in Versions : Begin(r, g, v)
<1>1. CASE Push(r)
  <2>1. pushed + 1 \in Versions /\ Begin(r, pushed + 1, pushed + 1)
    BY <1>1, PublishAssumption DEF TypeOK, Push, Versions
  <2>2. QED
    BY <2>1
<1>2. CASE Dispatch(r)
  <2>1. PICK v \in 1 .. pushed, g \in 0 .. pushed : Begin(r, g, v)
    BY <1>2 DEF Dispatch
  <2>2. v \in Versions /\ g \in {Branch} \union Versions
    BY PublishAssumption DEF TypeOK, Versions, Branch
  <2>3. QED
    BY <2>1, <2>2
<1>3. QED
  BY <1>1, <1>2

LEMMA NextIInv ==
  ASSUME IInv, [Next]_vars
  PROVE  IInv'
<1>1. TypeOK' /\ OwnStays
  BY NextTypeOK, OwnStep DEF IInv
<1>2. CASE UNCHANGED vars
  <2>1. \A s \in OwnRuns' : s \in OwnRuns
    BY <1>1, <1>2 DEF OwnStays, OwnRuns, vars
  <2>2. QED
    BY <1>1, <1>2, <2>1
       DEF IInv, Apart, Active, LeftOver, OwnTags, OwnDigest, TagsAreOwned, vars
<1>3. ASSUME NEW r \in Runs, Push(r) \/ Dispatch(r) PROVE IInv'
  BY <1>1, <1>3, Started, BeginIInv DEF IInv
<1>4. QED
  BY <1>1, <1>2, <1>3, RerunIInv, FailIInv, BuildIInv, CreateIInv, InspectIInv,
     StoreIInv, WritePageIInv DEF Next

LEMMA Invariant == Spec => []IInv
BY InitIInv, NextIInv, PTL DEF Spec

LEMMA Evident == IInv => TaggedIsVerifiable
<1> SUFFICES ASSUME IInv, NEW n \in ImageTags, tags[n] # NoImage, pc[tags[n]] = "done",
                    OwnRef(version[tags[n]])
             PROVE  evidence[tags[n]] = Evidence
  BY DEF TaggedIsVerifiable
<1>1. tags[n] \in OwnRuns
  BY DEF IInv, TypeOK, OwnRuns, OwnRefs
<1>2. QED
  BY <1>1 DEF IInv, OwnDigest

\* Whatever runs there are, on whatever refs, and whichever of them fail and are run
\* again: an image that has a tag and whose run has come through has its signature
\* and attestations, if its release is run on its own tag only.
\* (TaggedIsVerifiable; release.yml's concurrency group and look-up by tag)
THEOREM TaggedImagesAreVerifiable == Spec => []TaggedIsVerifiable
BY Invariant, Evident, PTL

-----------------------------------------------------------------------------
\* When the runs of a release have all come through

Unnumbered == \A r \in Runs : pc[r] = "unused" => version[r] = 0

OwnSettled == {v \in OwnRefs : Settled(v)}

\* From its last tag to its end a run's image has the version tag.
HoldsTag ==
  \A r \in OwnRuns :
    pc[r] \in {"inspect", "sign", "attest", "page"} => tags[VersionTag(version[r])] = r

\* What is on another image of the release is a tag the run has still to put.
Covers ==
  \A r \in OwnRuns : pc[r] \in {"create", "inspect", "sign", "attest", "page"} =>
    \A n \in ImageTags :
      tags[n] # NoImage /\ version[tags[n]] = version[r] => n \in left[r] \/ tags[n] = r

\* A settled release has one image with tags.
SettledTags ==
  \A v \in OwnSettled :
    \A n \in ImageTags :
      tags[n] # NoImage /\ version[tags[n]] = v => tags[VersionTag(v)] = tags[n]

\* PageNamesTheTag.
SettledPage == \A v \in OwnSettled : page[v] = tags[VersionTag(v)]

SInv == Unnumbered /\ HoldsTag /\ Covers /\ SettledTags /\ SettledPage

LEMMA InitSInv == Init => SInv
<1> SUFFICES ASSUME Init PROVE SInv
  OBVIOUS
<1>1. OwnSettled \subseteq Versions /\ OwnRuns = {}
  BY DEF Init, OwnSettled, OwnRefs, OwnRuns
<1>2. \A v \in Versions : VersionTag(v) \in ImageTags
  BY TagFacts
<1>3. QED
  BY <1>1, <1>2 DEF Init, SInv, Unnumbered, HoldsTag, Covers, SettledTags, SettledPage

\* Steps that leave registry and versions alone and finish no run.
LEMMA QuietSInv ==
  ASSUME IInv, SInv, OwnStays, NEW r \in Runs, pc[r] \in Steps \union Failed,
         pc' = [pc EXCEPT ![r] = pc'[r]], pc'[r] \in (Steps \ {"create"}) \union Failed,
         \A s \in Runs : s # r => left'[s] = left[s],
         pc'[r] \in {"sign", "attest", "page"} =>
           pc[r] \in {"inspect", "sign", "attest", "page"} /\ left'[r] = left[r],
         pc'[r] # "inspect",
         UNCHANGED <<tags, page, version>>
  PROVE  SInv'
<1>0. \A s \in OwnRuns' : s \in OwnRuns /\ s \in Runs
  BY OwnKept DEF IInv, TypeOK, Steps, Failed
<1>1. Unnumbered'
  BY DEF IInv, TypeOK, SInv, Unnumbered, Steps, Failed
<1>2. HoldsTag'
  BY <1>0 DEF IInv, TypeOK, SInv, HoldsTag, Steps, Failed
<1>3. Covers'
  <2> SUFFICES ASSUME NEW s \in OwnRuns',
                      pc'[s] \in {"create", "inspect", "sign", "attest", "page"}
               PROVE  \A n \in ImageTags :
                        tags[n] # NoImage /\ version[tags[n]] = version[s]
                          => n \in left'[s] \/ tags[n] = s
    BY DEF Covers
  <2>1. pc[s] \in {"create", "inspect", "sign", "attest", "page"} /\ left'[s] = left[s]
    BY <1>0 DEF IInv, TypeOK, Steps, Failed
  <2>2. QED
    BY <1>0, <2>1 DEF SInv, Covers
<1>4. \A v \in OwnSettled' : v \in OwnSettled
  BY DEF OwnStays, OwnSettled, IInv, TypeOK, Settled, Steps, Failed
<1>5. SettledTags' /\ SettledPage'
  BY <1>4 DEF SInv, SettledTags, SettledPage
<1>6. QED
  BY <1>1, <1>2, <1>3, <1>5 DEF SInv

LEMMA BeginSInv ==
  ASSUME IInv, SInv, OwnStays, NEW r \in Runs, NEW g, NEW v \in Versions, Begin(r, g, v)
  PROVE  SInv'
<1>1. /\ pc[r] = "unused" /\ pc' = [pc EXCEPT ![r] = "build"]
      /\ version' = [version EXCEPT ![r] = v]
      /\ UNCHANGED <<tags, page, left>>
  BY DEF Begin, Goto, registry
<1>2. \A n \in ImageTags : tags[n] # r
  BY <1>1, PublishAssumption DEF IInv, TagsAreOwned
<1>3. \A s \in OwnRuns' : s = r \/ (s \in OwnRuns /\ s \in Runs)
  BY <1>1 DEF OwnStays, OwnRuns, IInv, TypeOK
<1>4. Unnumbered' /\ HoldsTag'
  BY <1>1, <1>3 DEF IInv, TypeOK, SInv, Unnumbered, HoldsTag
<1>5. Covers'
  BY <1>1, <1>2, <1>3 DEF IInv, TypeOK, SInv, Covers
<1>6. \A w \in OwnSettled' : w \in OwnSettled
  <2> SUFFICES ASSUME NEW w \in OwnSettled' PROVE w \in OwnSettled
    OBVIOUS
  <2>1. w \in OwnRefs /\ w \in Versions /\ Settled(w)'
    BY DEF OwnSettled, OwnStays, OwnRefs
  <2>2. w # version[r]
    BY <1>1, <2>1 DEF SInv, Unnumbered, Versions
  <2>3. QED
    BY <1>1, <2>1, <2>2 DEF IInv, TypeOK, OwnSettled, Settled
<1>7. SettledTags'
  BY <1>1, <1>2, <1>6 DEF IInv, TypeOK, SInv, SettledTags
<1>8. SettledPage'
  BY <1>1, <1>6 DEF SInv, SettledPage
<1>9. QED
  BY <1>4, <1>5, <1>7, <1>8 DEF SInv

\* A run that gets all its release's tags to put, by Build or by Rerun.
LEMMA GetTagsSInv ==
  ASSUME IInv, SInv, OwnStays, NEW r \in Runs, pc[r] \in Steps \union Failed,
         pc' = [pc EXCEPT ![r] = "create"],
         left' = [left EXCEPT ![r] = TagsOf(version[r])],
         UNCHANGED <<tags, page, version>>
  PROVE  SInv'
<1>0. \A s \in OwnRuns' : s \in OwnRuns /\ s \in Runs
  BY OwnKept DEF IInv, TypeOK, Steps, Failed
<1>1. Unnumbered' /\ HoldsTag'
  BY <1>0 DEF IInv, TypeOK, SInv, Unnumbered, HoldsTag, Steps, Failed
<1>2. Covers'
  <2> SUFFICES ASSUME NEW s \in OwnRuns',
                      pc'[s] \in {"create", "inspect", "sign", "attest", "page"},
                      NEW n \in ImageTags, tags[n] # NoImage, version[tags[n]] = version[s]
               PROVE  n \in left'[s] \/ tags[n] = s
    BY DEF Covers
  <2>1. CASE s = r
    <3>1. n \in TagsOf(version[r])
      BY <2>1 DEF IInv, TagsAreOwned
    <3>2. QED
      BY <2>1, <3>1 DEF IInv, TypeOK
  <2>2. CASE s # r
    BY <1>0, <2>2 DEF IInv, TypeOK, SInv, Covers
  <2>3. QED
    BY <2>1, <2>2
<1>3. \A v \in OwnSettled' : v \in OwnSettled
  BY DEF OwnStays, OwnSettled, IInv, TypeOK, Settled, Steps, Failed
<1>4. SettledTags' /\ SettledPage'
  BY <1>3 DEF SInv, SettledTags, SettledPage
<1>5. QED
  BY <1>1, <1>2, <1>4 DEF SInv

LEMMA CreateSInv ==
  ASSUME IInv, SInv, OwnStays, NEW r \in Runs, Create(r)
  PROVE  SInv'
<1>1. PICK n \in left[r] :
        /\ tags' = [tags EXCEPT ![n] = r]
        /\ left' = [left EXCEPT ![r] = @ \ {n}]
        /\ IF left[r] = {n} THEN Goto(r, "inspect") ELSE UNCHANGED pc
  BY DEF Create
<1>2. /\ pc[r] = "create" /\ UNCHANGED <<page, ref, version>>
      /\ pc' = [pc EXCEPT ![r] = pc'[r]]
      /\ pc'[r] = IF left[r] = {n} THEN "inspect" ELSE "create"
  BY <1>1 DEF IInv, TypeOK, Create, Goto, identity
<1>3. version[r] \in Versions /\ n \in TagsOf(version[r]) /\ n \in ImageTags
  BY <1>1, <1>2, TagFacts DEF IInv, TypeOK, LeftOver
<1>4. \A s \in OwnRuns' : s \in OwnRuns /\ s \in Runs
  BY <1>2, OwnKept DEF IInv, TypeOK
\* Other runs at work that are alone publish other releases.
<1>5. \A s \in OwnRuns : Active(s) /\ s # r => version[s] # version[r]
  BY <1>2, Alone DEF IInv, Active, Steps
<1>6. Unnumbered'
  BY <1>2 DEF IInv, TypeOK, SInv, Unnumbered
<1>7. HoldsTag'
  <2> SUFFICES ASSUME NEW s \in OwnRuns', pc'[s] \in {"inspect", "sign", "attest", "page"}
               PROVE  tags'[VersionTag(version[s])] = s
    BY <1>2 DEF HoldsTag
  <2>1. CASE s = r
    BY <1>1, <1>2, <1>3, <1>4, <2>1, TagFacts DEF IInv, TypeOK, OwnTags
  <2>2. CASE s # r
    <3>1. pc[s] = pc'[s] /\ Active(s) /\ version[s] \in Versions
      BY <1>2, <1>4, <2>2 DEF IInv, TypeOK, Active, Steps
    <3>2. n # VersionTag(version[s])
      BY <1>3, <1>4, <1>5, <2>2, <3>1, TagFacts
    <3>3. QED
      BY <1>1, <1>4, <3>1, <3>2 DEF IInv, TypeOK, SInv, HoldsTag
  <2>3. QED
    BY <2>1, <2>2
<1>8. Covers'
  <2> SUFFICES ASSUME NEW s \in OwnRuns',
                      pc'[s] \in {"create", "inspect", "sign", "attest", "page"},
                      NEW m \in ImageTags, tags'[m] # NoImage, version[tags'[m]] = version[s]
               PROVE  m \in left'[s] \/ tags'[m] = s
    BY <1>2 DEF Covers
  <2>1. /\ s \in OwnRuns /\ s \in Runs /\ Active(s)
        /\ pc[s] \in {"create", "inspect", "sign", "attest", "page"}
    BY <1>2, <1>4 DEF IInv, TypeOK, Active, Steps
  <2>2. CASE m = n
    BY <1>1, <1>3, <1>5, <2>1, <2>2 DEF IInv, TypeOK
  <2>3. CASE m # n
    <3>1. m \in left[s] \/ tags[m] = s
      BY <1>1, <2>1, <2>3 DEF IInv, TypeOK, SInv, Covers
    <3>2. QED
      BY <1>1, <2>1, <2>3, <3>1 DEF IInv, TypeOK
  <2>4. QED
    BY <2>2, <2>3
<1>9. \A v \in OwnSettled' : v \in OwnSettled /\ v \in Versions /\ v # version[r]
  BY <1>2 DEF OwnStays, OwnSettled, OwnRefs, IInv, TypeOK, Settled
<1>10. \A v \in Versions : v # version[r] => tags'[VersionTag(v)] = tags[VersionTag(v)]
  BY <1>1, <1>3, TagFacts DEF IInv, TypeOK
<1>11. SettledTags'
  BY <1>1, <1>2, <1>9, <1>10 DEF IInv, TypeOK, SInv, SettledTags
<1>12. SettledPage'
  BY <1>2, <1>9, <1>10 DEF SInv, SettledPage
<1>13. QED
  BY <1>6, <1>7, <1>8, <1>11, <1>12 DEF SInv

LEMMA WritePageSInv ==
  ASSUME IInv, SInv, OwnStays, NEW r \in Runs, WritePage(r)
  PROVE  SInv'
<1>1. /\ pc[r] = "page" /\ pc' = [pc EXCEPT ![r] = "done"]
      /\ page' = [page EXCEPT ![version[r]] = picked[r]]
      /\ UNCHANGED <<tags, version, left>> /\ version[r] \in Versions
  BY DEF IInv, TypeOK, WritePage, Goto, identity
<1>2. \A s \in OwnRuns' : s \in OwnRuns /\ s \in Runs
  BY <1>1, OwnKept DEF IInv, TypeOK
<1>3. Unnumbered' /\ HoldsTag' /\ Covers'
  BY <1>1, <1>2 DEF IInv, TypeOK, SInv, Unnumbered, HoldsTag, Covers
<1>4. \A v \in OwnSettled' : /\ v \in OwnRefs /\ v \in Versions
                             /\ v # version[r] => v \in OwnSettled
  BY <1>1 DEF OwnStays, OwnSettled, OwnRefs, IInv, TypeOK, Settled
<1>5. CASE version[r] \in OwnRefs
  <2>1. r \in OwnRuns
    BY <1>1, <1>5 DEF OwnRuns
  <2>2. picked[r] = r /\ tags[VersionTag(version[r])] = r /\ left[r] = {}
    BY <1>1, <2>1 DEF IInv, LeftOver, OwnDigest, SInv, HoldsTag
  <2>3. \A n \in ImageTags : tags[n] # NoImage /\ version[tags[n]] = version[r] => tags[n] = r
    BY <1>1, <2>1, <2>2 DEF SInv, Covers
  <2>4. SettledTags'
    BY <1>1, <1>4, <2>2, <2>3 DEF SInv, SettledTags
  <2>5. SettledPage'
    BY <1>1, <1>4, <2>2 DEF IInv, TypeOK, SInv, SettledPage
  <2>6. QED
    BY <1>3, <2>4, <2>5 DEF SInv
<1>6. CASE version[r] \notin OwnRefs
  BY <1>1, <1>3, <1>4, <1>6 DEF IInv, TypeOK, SInv, SettledTags, SettledPage
<1>7. QED
  BY <1>5, <1>6

LEMMA NextSInv ==
  ASSUME IInv, SInv, [Next]_vars
  PROVE  SInv'
<1>0. OwnStays
  BY OwnStep DEF IInv
<1>1. CASE UNCHANGED vars
  <2>1. \A s \in OwnRuns' : s \in OwnRuns
    BY <1>0, <1>1 DEF OwnStays, OwnRuns, vars
  <2>2. \A v \in OwnSettled' : v \in OwnSettled
    BY <1>0, <1>1 DEF OwnStays, OwnSettled, Settled, vars
  <2>3. QED
    BY <1>1, <2>1, <2>2 DEF SInv, Unnumbered, HoldsTag, Covers, SettledTags, SettledPage, vars
<1>2. ASSUME NEW r \in Runs, Push(r) \/ Dispatch(r) PROVE SInv'
  BY <1>0, <1>2, Started, BeginSInv DEF IInv
<1>3. ASSUME NEW r \in Runs, Rerun(r) PROVE SInv'
  <2>1. CASE pc[r] = "build failed"
    BY <1>0, <1>3, <2>1, QuietSInv DEF IInv, TypeOK, Rerun, Goto, registry, identity, Steps, Failed
  <2>2. CASE pc[r] = "sign failed"
    BY <1>0, <1>3, <2>2, GetTagsSInv DEF Rerun, Goto, registry, identity, Failed
  <2>3. QED
    BY <1>3, <2>1, <2>2 DEF Rerun, Failed
<1>4. ASSUME NEW r \in Runs, Fail(r) PROVE SInv'
  BY <1>0, <1>4, QuietSInv DEF IInv, TypeOK, Fail, Active, Goto, registry, identity, Steps, Failed
<1>5. ASSUME NEW r \in Runs, Build(r) PROVE SInv'
  BY <1>0, <1>5, GetTagsSInv DEF Build, Goto, registry, identity, Steps
<1>6. ASSUME NEW r \in Runs, Inspect(r) PROVE SInv'
  BY <1>0, <1>6, QuietSInv DEF IInv, TypeOK, Inspect, Goto, registry, identity, Steps
<1>7. ASSUME NEW r \in Runs, Sign(r) \/ Attest(r) PROVE SInv'
  BY <1>0, <1>7, QuietSInv DEF IInv, TypeOK, Sign, Attest, Store, Goto, identity, Steps
<1>8. QED
  BY <1>0, <1>1, <1>2, <1>3, <1>4, <1>5, <1>6, <1>7, CreateSInv, WritePageSInv DEF Next

LEMMA SettledInvariant == Spec => [](IInv /\ SInv)
<1>1. Init => IInv /\ SInv
  BY InitIInv, InitSInv
<1>2. IInv /\ SInv /\ [Next]_vars => (IInv /\ SInv)'
  BY NextIInv, NextSInv
<1>3. QED
  BY <1>1, <1>2, PTL DEF Spec

\* Once the runs of a release have all come through, and all were on its own tag,
\* its page names the image that its version tag is on, in whatever order they ran,
\* failed and ran again, and on whatever refs other releases are run.
\* (PageNamesTheTag; release.yml's concurrency group and last step)
THEOREM PagesAgree == Spec => []PageNamesTheTag
<1>1. SInv => PageNamesTheTag
  BY DEF SInv, SettledPage, OwnSettled, OwnRefs, PageNamesTheTag
<1>2. QED
  BY <1>1, SettledInvariant, PTL

LEMMA RollingFollows == IInv /\ SInv => RollingIsARelease
<1> SUFFICES ASSUME IInv, SInv, NEW n \in ImageTags, NEW r \in Runs,
                    tags[n] = r, Settled(version[r]), OwnRef(version[r])
             PROVE  tags[VersionTag(version[r])] = r
  BY DEF RollingIsARelease
<1>1. version[r] \in Versions /\ r # NoImage
  BY PublishAssumption DEF IInv, TypeOK, TagsAreOwned
<1>2. version[r] \in OwnSettled
  BY <1>1 DEF OwnSettled, OwnRefs
<1>3. QED
  BY <1>1, <1>2 DEF SInv, SettledTags

\* Once the runs of a release have all come through, and all were on its own tag, a
\* rolling tag that is on an image of it is on the one that its version tag is on,
\* however the runs of different releases took turns in putting their tags.
\* (RollingIsARelease; imagetools create)
THEOREM RollingTagsAreReleases == Spec => []RollingIsARelease
BY SettledInvariant, RollingFollows, PTL

-----------------------------------------------------------------------------
\* What a page names, on whatever refs the runs are started

\* Once a run has put its version tag, that tag is on some image.
VersionIsTagged ==
  \A r \in Runs :
    /\ pc[r] = "create" => \/ VersionTag(version[r]) \in left[r]
                           \/ tags[VersionTag(version[r])] # NoImage
    /\ pc[r] = "inspect" => tags[VersionTag(version[r])] # NoImage

\* The digest a run has picked stays, and so does what it stores beside it.
EvidenceByStep ==
  \A r \in Runs :
    /\ pc[r] \in {"sign", "attest", "page"} => picked[r] \in Runs
    /\ pc[r] = "attest" => "signature" \in evidence[picked[r]]
    /\ pc[r] = "page" => evidence[picked[r]] = Evidence

PInv == TypeOK /\ VersionIsTagged /\ EvidenceByStep /\ PageIsVerifiable

LEMMA InitPInv == Init => PInv
BY InitTypeOK DEF Init, PInv, VersionIsTagged, EvidenceByStep, PageIsVerifiable

LEMMA BeginPInv ==
  ASSUME PInv, TypeOK', NEW r \in Runs, NEW g, NEW v, Begin(r, g, v)
  PROVE  PInv'
<1>1. /\ pc' = [pc EXCEPT ![r] = "build"] /\ version' = [version EXCEPT ![r] = v]
      /\ UNCHANGED <<tags, evidence, page, left, picked>>
  BY DEF Begin, Goto, registry
<1>2. VersionIsTagged' /\ EvidenceByStep' /\ PageIsVerifiable'
  BY <1>1 DEF PInv, TypeOK, VersionIsTagged, EvidenceByStep, PageIsVerifiable
<1>3. QED
  BY <1>2 DEF PInv

LEMMA GetTagsPInv ==
  ASSUME PInv, TypeOK', NEW r \in Runs, Build(r) \/ Rerun(r) \/ Fail(r)
  PROVE  PInv'
<1>1. /\ pc'[r] \in {"build", "create", "build failed", "sign failed"}
      /\ \A s \in Runs : s # r => pc'[s] = pc[s] /\ left'[s] = left[s] /\ picked'[s] = picked[s]
      /\ pc'[r] = "create" => left'[r] = TagsOf(version[r]) /\ version[r] \in Versions
      /\ UNCHANGED <<tags, evidence, page, version>>
  BY DEF PInv, TypeOK, Build, Rerun, Fail, Active, Goto, registry, identity, Steps, Failed
<1>2. VersionIsTagged'
  BY <1>1, TagFacts DEF PInv, VersionIsTagged
<1>3. EvidenceByStep'
  <2> SUFFICES ASSUME NEW s \in Runs, pc'[s] \in {"sign", "attest", "page"}
               PROVE  /\ picked'[s] \in Runs
                      /\ pc'[s] = "attest" => "signature" \in evidence[picked'[s]]
                      /\ pc'[s] = "page" => evidence[picked'[s]] = Evidence
    BY <1>1 DEF EvidenceByStep
  <2>1. s # r /\ pc'[s] = pc[s] /\ picked'[s] = picked[s]
    BY <1>1
  <2>2. QED
    BY <2>1 DEF PInv, EvidenceByStep
<1>4. PageIsVerifiable'
  BY <1>1 DEF PInv, PageIsVerifiable
<1>5. QED
  BY <1>2, <1>3, <1>4 DEF PInv

LEMMA CreatePInv ==
  ASSUME PInv, TypeOK', NEW r \in Runs, Create(r)
  PROVE  PInv'
<1>1. PICK n \in left[r] :
        /\ tags' = [tags EXCEPT ![n] = r]
        /\ left' = [left EXCEPT ![r] = @ \ {n}]
        /\ IF left[r] = {n} THEN Goto(r, "inspect") ELSE UNCHANGED pc
  BY DEF Create
<1>2. /\ pc[r] = "create" /\ UNCHANGED <<evidence, page, version, picked>>
      /\ pc' = [pc EXCEPT ![r] = pc'[r]]
      /\ pc'[r] = IF left[r] = {n} THEN "inspect" ELSE "create"
  BY <1>1 DEF PInv, TypeOK, Create, Goto, identity
<1>3. /\ tags'[n] # NoImage /\ \A m \in ImageTags : tags[m] # NoImage => tags'[m] # NoImage
      /\ left'[r] = left[r] \ {n} /\ \A s \in Runs : s # r => left'[s] = left[s]
  BY <1>1, PublishAssumption DEF PInv, TypeOK
<1>4. \A s \in Runs : pc'[s] # "unused" => VersionTag(version[s]) \in ImageTags
  BY <1>2, TagFacts DEF PInv, TypeOK
<1>5. VersionIsTagged'
  BY <1>2, <1>3, <1>4 DEF PInv, TypeOK, VersionIsTagged
<1>6. EvidenceByStep' /\ PageIsVerifiable'
  BY <1>2 DEF PInv, TypeOK, EvidenceByStep, PageIsVerifiable
<1>7. QED
  BY <1>5, <1>6 DEF PInv

LEMMA InspectPInv ==
  ASSUME PInv, TypeOK', NEW r \in Runs, Inspect(r)
  PROVE  PInv'
<1>1. /\ pc[r] = "inspect" /\ pc' = [pc EXCEPT ![r] = "sign"]
      /\ picked' = [picked EXCEPT ![r] = tags[VersionTag(version[r])]]
      /\ UNCHANGED <<tags, evidence, page, version, left>>
  BY DEF Inspect, Goto, registry, identity
<1>2. VersionTag(version[r]) \in ImageTags
  BY <1>1, TagFacts DEF PInv, TypeOK
<1>3. tags[VersionTag(version[r])] \in Runs
  BY <1>1, <1>2 DEF PInv, TypeOK, VersionIsTagged
<1>4. VersionIsTagged' /\ EvidenceByStep' /\ PageIsVerifiable'
  BY <1>1, <1>3 DEF PInv, TypeOK, VersionIsTagged, EvidenceByStep, PageIsVerifiable
<1>5. QED
  BY <1>4 DEF PInv

LEMMA StorePInv ==
  ASSUME PInv, TypeOK', NEW r \in Runs, Sign(r) \/ Attest(r)
  PROVE  PInv'
<1>1. PICK item \in Evidence :
        /\ evidence' = [evidence EXCEPT ![picked[r]] = @ \union {item}]
        /\ \/ pc[r] = "sign" /\ item = "signature" /\ pc' = [pc EXCEPT ![r] = "attest"]
           \/ pc[r] = "attest" /\ item = "attestations" /\ pc' = [pc EXCEPT ![r] = "page"]
        /\ UNCHANGED <<tags, page, version, left, picked>>
  BY DEF Sign, Attest, Store, Goto, identity, Evidence
<1>2. picked[r] \in Runs
  BY <1>1 DEF PInv, EvidenceByStep
\* Evidence is only ever added.
<1>3. /\ \A i \in Runs : evidence[i] \subseteq evidence'[i] /\ evidence'[i] \subseteq Evidence
      /\ item \in evidence'[picked[r]]
  BY <1>1, <1>2 DEF PInv, TypeOK
<1>4. VersionIsTagged'
  BY <1>1 DEF PInv, TypeOK, VersionIsTagged
<1>5. EvidenceByStep'
  BY <1>1, <1>2, <1>3 DEF PInv, TypeOK, EvidenceByStep, Evidence
<1>6. PageIsVerifiable'
  BY <1>1, <1>3 DEF PInv, TypeOK, PageIsVerifiable
<1>7. QED
  BY <1>4, <1>5, <1>6 DEF PInv

LEMMA WritePagePInv ==
  ASSUME PInv, TypeOK', NEW r \in Runs, WritePage(r)
  PROVE  PInv'
<1>1. /\ pc[r] = "page" /\ pc' = [pc EXCEPT ![r] = "done"]
      /\ page' = [page EXCEPT ![version[r]] = picked[r]]
      /\ picked' = [picked EXCEPT ![r] = NoImage]
      /\ UNCHANGED <<tags, evidence, version, left>>
  BY DEF WritePage, Goto, identity
<1>2. VersionIsTagged' /\ EvidenceByStep' /\ PageIsVerifiable'
  BY <1>1 DEF PInv, TypeOK, VersionIsTagged, EvidenceByStep, PageIsVerifiable
<1>3. QED
  BY <1>2 DEF PInv

LEMMA NextPInv == PInv /\ [Next]_vars => PInv'
<1> SUFFICES ASSUME PInv, [Next]_vars PROVE PInv'
  OBVIOUS
<1>1. TypeOK'
  BY NextTypeOK DEF PInv
<1>2. CASE UNCHANGED vars
  BY <1>1, <1>2 DEF PInv, VersionIsTagged, EvidenceByStep, PageIsVerifiable, vars
<1>3. ASSUME NEW r \in Runs, Push(r) \/ Dispatch(r) PROVE PInv'
  <2>1. PICK g, v : Begin(r, g, v)
    BY <1>3 DEF Push, Dispatch
  <2>2. QED
    BY <1>1, <2>1, BeginPInv
<1>4. QED
  BY <1>1, <1>2, <1>3, GetTagsPInv, CreatePInv, InspectPInv, StorePInv, WritePagePInv DEF Next

\* Whatever refs the runs are started on and whichever of them overlap, fail and
\* are run again, an image that a release page names has its signature and
\* attestations. (PageIsVerifiable; release.yml from its look-up of the digest on)
THEOREM PagesAreVerifiable == Spec => []PageIsVerifiable
<1>1. PInv => PageIsVerifiable
  BY DEF PInv
<1>2. QED
  BY <1>1, InitPInv, NextPInv, PTL DEF Spec
=============================================================================
