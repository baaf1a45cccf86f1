---------------------------- MODULE ReleaseProofs ----------------------------
(***************************************************************************)
(* Theorems about a release and the runs that change it, for every set of  *)
(* runs and jobs and every bound on the history.                           *)
(***************************************************************************)
EXTENDS Release, TLAPS

-----------------------------------------------------------------------------
\* The inductive invariant

\* The history has a newest revision.
HasLatest == Numbers # {} => Latest \in Numbers /\ \A n \in Numbers : n <= Latest

\* Helm commands do not overlap (with Exclusive).
Mutex == \A r, s \in Runs : Active(r) /\ Active(s) => r = s

\* The revision an upgrade or a rollback works on is there and not yet marked,
\* and what an upgrade waits for is its own content.
OwnRevision ==
  \A r \in Runs :
    /\ pc[r] \in {"apply", "wait"} => mine[r] \in Numbers /\ ~hist[mine[r]].marked
    /\ pc[r] = "wait" => live = hist[mine[r]].content
    /\ pc[r] = "undo" => Upgrades(r)

ReadyConverged == ready => live \in converged

\* What the pre-flight check accepted is still what it was, or gone; and no later
\* revision can take its number.
AcceptedStays ==
  \A r \in Runs : pc[r] = "rollback" =>
    /\ Rollbacks(r)
    /\ Numbers # {} /\ job[r].revision <= Latest
    /\ job[r].revision \in Numbers => hist[job[r].revision].marked

\* A first install that may yet be undone is alone in the history.
FirstInstall ==
  \A r \in Runs : Active(r) /\ prev[r] = 0 =>
    /\ \A n \in Numbers : ~hist[n].marked
    /\ \A s \in Runs : pc[s] # "rollback"

IInv ==
  /\ TypeOK /\ HasLatest /\ Mutex /\ OwnRevision /\ ReadyConverged
  /\ AcceptedStays /\ FirstInstall
  /\ MarkedMeansConverged /\ RollbackRestoresConverged

\* For PendingMeansUnfinished, whether or not helm commands overlap: before its
\* auto-rollback a run has created at most the one revision it works on.
OneEach ==
  \A n \in Numbers : \A r \in Runs : hist[n].by = r =>
    /\ pc[r] \notin {"start", "rollback"}
    /\ pc[r] \in {"apply", "wait", "undo"} => n = mine[r]

PInv ==
  /\ TypeOK /\ HasLatest /\ OneEach /\ PendingMeansUnfinished
  /\ \A r \in Runs : exit[r] # NoExit <=> pc[r] = "ended"

-----------------------------------------------------------------------------
\* The history and its newest revision

LEMMA LatestIs ==
  ASSUME Numbers' \in SUBSET Nat, NEW n \in Numbers', \A m \in Numbers' : m <= n
  PROVE  Latest' = n
<1> DEFINE L == CHOOSE k \in Numbers' : k \in Newest(Numbers)'
<1>1. n \in Newest(Numbers)'
  BY DEF Newest
<1>2. L \in Newest(Numbers)'
  BY <1>1
<1> HIDE DEF L
<1>3. L \in Numbers' /\ n <= L /\ L <= n
  BY <1>2 DEF Newest
<1>4. L = n
  BY <1>3
<1>5. QED
  BY <1>4 DEF Latest, L

\* Writing a status keeps the revision numbers.
LEMMA SameNumbers ==
  ASSUME DOMAIN hist' = DOMAIN hist
  PROVE  Numbers' = Numbers /\ Latest' = Latest
BY DEF Numbers, Latest

LEMMA LatestType ==
  ASSUME TypeOK, HasLatest PROVE Latest \in Nat
BY DEF TypeOK, HasLatest, Latest, Numbers

\* What Create does: the new revision is the newest one, and those that are kept
\* are unchanged.
LEMMA CreateFacts ==
  ASSUME TypeOK, HasLatest, NEW r \in Runs, NEW content \in Contents, NEW max \in Nat,
         Create(r, content, max)
  PROVE  /\ Latest + 1 \in Nat \ {0} /\ Latest + 1 \notin Numbers
         /\ Latest + 1 \in DOMAIN hist'
         /\ hist'[Latest + 1] = [status |-> "pending", marked |-> FALSE,
                                content |-> content, by |-> r]
         /\ \A n \in DOMAIN hist' : n = Latest + 1 \/ (n \in Numbers /\ hist'[n] = hist[n])
         /\ mine' = [mine EXCEPT ![r] = Latest + 1]
         /\ Numbers' # {} /\ Latest' = Latest + 1 /\ HasLatest'
<1> DEFINE new == Latest + 1
<1>1. Latest \in Nat
  BY LatestType
<1>2. Kept(max) \subseteq Numbers
  BY DEF Kept, Newest, WithStatus
<1>3. new \notin Numbers /\ \A n \in Numbers : n < new
  BY <1>1 DEF HasLatest, TypeOK, Numbers
<1>4. /\ DOMAIN hist' = Kept(max) \union {new}
      /\ \A n \in Kept(max) \union {new} :
           hist'[n] = IF n = new THEN [status |-> "pending", marked |-> FALSE,
                                       content |-> content, by |-> r]
                      ELSE hist[n]
  BY DEF Create
<1>5. \A n \in DOMAIN hist' : n <= new
  BY <1>1, <1>2, <1>3, <1>4 DEF Numbers, TypeOK
<1>6. DOMAIN hist' \in SUBSET Nat
  BY <1>1, <1>2, <1>4 DEF Numbers, TypeOK
<1>8. Numbers' # {} /\ Latest' = new
  BY <1>4, <1>5, <1>6, LatestIs DEF Numbers
<1>9. HasLatest'
  BY <1>4, <1>5, <1>8 DEF HasLatest, Numbers
<1>10. QED
  BY <1>1, <1>2, <1>3, <1>4, <1>8, <1>9 DEF Create

\* Every other step that writes the history, but Uninstall, only changes statuses
\* and the marker of a revision whose upgrade succeeds.
LEMMA RecordFacts ==
  ASSUME TypeOK, NEW S, NEW status \in Statuses
  PROVE  LET h == Record(S, status)
         IN  /\ DOMAIN h = Numbers
             /\ \A n \in Numbers :
                  /\ h[n] \in Revision
                  /\ h[n].marked = hist[n].marked /\ h[n].by = hist[n].by
                  /\ h[n].content = hist[n].content
<1> DEFINE h == Record(S, status)
<1>1. DOMAIN h = Numbers
  BY DEF Record
<1>2. ASSUME NEW n \in Numbers
      PROVE  h[n] = IF n \in S THEN [hist[n] EXCEPT !.status = status] ELSE hist[n]
  BY DEF Record
<1>3. ASSUME NEW n \in Numbers PROVE hist[n] \in Revision
  BY DEF TypeOK, Numbers
<1> HIDE DEF h
<1>4. QED
  BY <1>1, <1>2, <1>3 DEF Revision, h

\* The steps that end or fail a helm command
Finishes(r) ==
  \/ UpgradeFails(r) \/ Restored(r) \/ UndoFails(r)
  \/ RollbackSucceeds(r) \/ RollbackFails(r)

LEMMA FinishesFacts ==
  ASSUME TypeOK, NEW r \in Runs, Finishes(r)
  PROVE  /\ DOMAIN hist' = Numbers
         /\ \A n \in Numbers :
              /\ hist'[n] \in Revision
              /\ hist'[n].marked = hist[n].marked /\ hist'[n].by = hist[n].by
              /\ hist'[n].content = hist[n].content
<1>1. \A n \in Numbers : hist[n] \in Revision
  BY DEF TypeOK, Numbers
<1>2. CASE UpgradeFails(r) \/ UndoFails(r)
  <2>1. hist' \in {hist, Record({mine[r]}, "failed")}
    BY <1>2 DEF UpgradeFails, UndoFails
  <2>2. QED
    BY <2>1, <1>1, RecordFacts DEF Statuses, Numbers
<1>3. CASE Restored(r) \/ RollbackSucceeds(r)
  <2> DEFINE h == Record(WithStatus({"deployed"}), "superseded")
  <2>1. hist' = [h EXCEPT ![mine[r]] = [@ EXCEPT !.status = "deployed"]]
    BY <1>3 DEF Restored, RollbackSucceeds
  <2>2. /\ DOMAIN h = Numbers
        /\ \A n \in Numbers :
             /\ h[n] \in Revision
             /\ h[n].marked = hist[n].marked /\ h[n].by = hist[n].by
             /\ h[n].content = hist[n].content
    BY RecordFacts DEF Statuses
  <2> HIDE DEF h
  <2>3. QED
    BY <2>1, <2>2 DEF Revision, Statuses
<1>4. CASE RollbackFails(r)
  BY <1>1, <1>4 DEF RollbackFails, Revision, Statuses, Numbers
<1>5. QED
  BY <1>2, <1>3, <1>4 DEF Finishes

LEMMA UpgradeSucceedsFacts ==
  ASSUME TypeOK, NEW r \in Runs, UpgradeSucceeds(r)
  PROVE  /\ DOMAIN hist' = Numbers
         /\ \A n \in Numbers :
              /\ hist'[n] \in Revision
              /\ hist'[n].marked = IF n = mine[r] THEN Safe(r) ELSE hist[n].marked
              /\ hist'[n].by = hist[n].by
              /\ hist'[n].content = hist[n].content
<1> DEFINE h == Record({prev[r]}, "superseded")
<1>1. hist' = [h EXCEPT ![mine[r]] = [@ EXCEPT !.status = "deployed", !.marked = Safe(r)]]
  BY DEF UpgradeSucceeds
<1>2. /\ DOMAIN h = Numbers
      /\ \A n \in Numbers :
           /\ h[n] \in Revision
           /\ h[n].marked = hist[n].marked /\ h[n].by = hist[n].by
           /\ h[n].content = hist[n].content
  BY RecordFacts DEF Statuses
<1>3. Safe(r) \in BOOLEAN
  BY DEF Safe, Upgrades, TypeOK, JobType
<1> HIDE DEF h
<1>4. QED
  BY <1>1, <1>2, <1>3 DEF Revision, Statuses

-----------------------------------------------------------------------------
\* Type correctness

LEMMA CreateType ==
  ASSUME TypeOK, HasLatest, NEW r \in Runs, NEW content \in Contents, NEW max \in Nat,
         Create(r, content, max)
  PROVE  /\ DOMAIN hist' \subseteq Nat \ {0} /\ \A n \in DOMAIN hist' : hist'[n] \in Revision
         /\ mine' \in [Runs -> Nat] /\ HasLatest'
<1>1. \A n \in Numbers : n \in Nat \ {0} /\ hist[n] \in Revision
  BY DEF TypeOK, Numbers
<1>2. [status |-> "pending", marked |-> FALSE, content |-> content, by |-> r] \in Revision
  BY DEF Revision, Statuses, Contents
<1>3. QED
  BY <1>1, <1>2, CreateFacts DEF TypeOK

LEMMA TypeStep == TypeOK /\ HasLatest /\ [Next]_vars => TypeOK' /\ HasLatest'
<1> SUFFICES ASSUME TypeOK, HasLatest, [Next]_vars PROVE TypeOK' /\ HasLatest'
  OBVIOUS
<1> USE ReleaseAssumption DEF Goto, End, cluster
<1>1. ASSUME hist' = hist PROVE HasLatest'
  BY <1>1, SameNumbers DEF HasLatest
<1>2. CASE Converge
  BY <1>1, <1>2 DEF Converge, TypeOK, Contents
<1>3. CASE UNCHANGED vars
  BY <1>1, <1>3 DEF vars, TypeOK
<1>4. ASSUME NEW r \in Runs, HelmRefuses(r) \/ Preflight(r) \/ Timeout(r) \/ Kill(r)
      PROVE  TypeOK' /\ HasLatest'
  BY <1>1, <1>4 DEF HelmRefuses, Preflight, Timeout, Kill, TypeOK, NoExit, Killed
<1>5. ASSUME NEW r \in Runs, Apply(r) PROVE TypeOK' /\ HasLatest'
  <2>1. hist[mine[r]].content \in Contents
    BY <1>5 DEF Apply, TypeOK, Numbers, Revision
  <2>2. QED
    BY <1>1, <1>5, <2>1 DEF Apply, TypeOK
<1>6. ASSUME NEW r \in Runs, Finishes(r) \/ UpgradeSucceeds(r)
      PROVE  TypeOK' /\ HasLatest'
  <2>1. DOMAIN hist' = Numbers /\ \A n \in Numbers : hist'[n] \in Revision
    BY <1>6, FinishesFacts, UpgradeSucceedsFacts
  <2>2. HasLatest'
    BY <2>1, SameNumbers DEF HasLatest, Numbers
  <2>3. /\ UNCHANGED <<job, mine, prev, converged>>
        /\ live' \in Contents \union {NoContent} /\ ready' \in BOOLEAN
        /\ \E code \in {0, 5} : End(r, code) \/ Goto(r, "undo")
    <3>1. CASE UpgradeFails(r) \/ Restored(r) \/ UndoFails(r) \/ UpgradeSucceeds(r)
      BY <3>1 DEF UpgradeFails, Restored, UndoFails, UpgradeSucceeds, TypeOK, Contents
    <3>2. CASE RollbackSucceeds(r)
      BY <3>2 DEF RollbackSucceeds, TypeOK
    <3>3. CASE RollbackFails(r)
      <4>1. mine[r] \in Numbers => hist[mine[r]].content \in Contents
        BY DEF TypeOK, Revision, Numbers
      <4>2. QED
        BY <3>3, <4>1 DEF RollbackFails, TypeOK
    <3>4. QED
      BY <1>6, <3>1, <3>2, <3>3 DEF Finishes
  <2>4. QED
    BY <2>1, <2>2, <2>3 DEF TypeOK, Numbers
<1>7. ASSUME NEW r \in Runs, Uninstall(r) PROVE TypeOK' /\ HasLatest'
  BY <1>7 DEF Uninstall, TypeOK, HasLatest, Numbers, Contents
<1>8. ASSUME NEW r \in Runs, UpgradeBegins(r) PROVE TypeOK' /\ HasLatest'
  <2>1. r \in Contents /\ history_max(r) \in Nat
    BY DEF Contents, history_max, TypeOK, JobType, Upgrades, NoMax
  <2>2. Create(r, r, history_max(r))
    BY <1>8 DEF UpgradeBegins
  <2>3. prev' \in [Runs -> Nat]
    BY <1>8, LatestType DEF UpgradeBegins, TypeOK, Newest, WithStatus, Numbers
  <2>4. QED
    BY <1>8, <2>1, <2>2, <2>3, CreateType DEF UpgradeBegins, TypeOK
<1>9. ASSUME NEW r \in Runs, AutoRollback(r) PROVE TypeOK' /\ HasLatest'
  <2>1. PICK n \in Newest(Targets) : Create(r, hist[n].content, 0) /\ live' = hist[n].content
    BY <1>9 DEF AutoRollback
  <2>2. hist[n].content \in Contents
    BY <2>1 DEF Newest, Targets, WithStatus, Numbers, TypeOK, Revision
  <2>3. QED
    BY <1>9, <2>1, <2>2, CreateType DEF AutoRollback, TypeOK
<1>10. ASSUME NEW r \in Runs, RollbackBegins(r) PROVE TypeOK' /\ HasLatest'
  <2>1. hist[job[r].revision].content \in Contents
    BY <1>10 DEF RollbackBegins, Numbers, TypeOK, Revision
  <2>2. history_max(r) \in Nat
    BY DEF history_max, TypeOK, JobType, Upgrades, NoMax
  <2>3. Create(r, hist[job[r].revision].content, history_max(r))
    BY <1>10 DEF RollbackBegins
  <2>4. prev' \in [Runs -> Nat]
    BY <1>10, LatestType DEF RollbackBegins, TypeOK
  <2>5. QED
    BY <1>10, <2>1, <2>2, <2>3, <2>4, CreateType DEF RollbackBegins, TypeOK
<1>11. QED
  BY <1>2, <1>3, <1>4, <1>5, <1>6, <1>7, <1>8, <1>9, <1>10
     DEF Next, Upgrade, Rollback, Finishes

LEMMA TypeInit == Init => TypeOK /\ HasLatest
<1> SUFFICES ASSUME Init PROVE TypeOK /\ HasLatest
  OBVIOUS
<1>1. TypeOK
  <2>1. /\ DOMAIN hist \subseteq Nat \ {0} /\ \A n \in DOMAIN hist : hist[n] \in Revision
        /\ live \in Contents \union {NoContent} /\ ready \in BOOLEAN /\ converged \subseteq Contents
    <3>1. CASE hist = [n \in {} |-> 0] /\ live = NoContent /\ ready = FALSE /\ converged = {}
      BY <3>1
    <3>2. ASSUME NEW safe \in BOOLEAN,
                 hist = [n \in {1} |-> [status |-> "deployed", marked |-> safe,
                                        content |-> Base, by |-> Base]],
                 live = Base, ready = safe, converged = IF safe THEN {Base} ELSE {}
          PROVE  /\ DOMAIN hist \subseteq Nat \ {0} /\ \A n \in DOMAIN hist : hist[n] \in Revision
                 /\ live \in Contents \union {NoContent} /\ ready \in BOOLEAN
                 /\ converged \subseteq Contents
      BY <3>2 DEF Contents, Revision, Statuses
    <3>3. QED
      BY <3>1, <3>2 DEF Init
  <2>2. QED
    BY <2>1 DEF Init, TypeOK
<1>2. Numbers # {} => Numbers = {1}
  BY DEF Init, Numbers
<1>3. Numbers = {1} => Latest = 1
  BY DEF Latest, Newest
<1>4. QED
  BY <1>1, <1>2, <1>3 DEF HasLatest

\* The state of the runs and of the release is well typed, however many runs
\* there are and whatever they are asked to do. (TypeOK; all of Release)
THEOREM TypeCorrect == Spec => []TypeOK
<1>1. QED
  BY TypeInit, TypeStep, PTL DEF Spec

-----------------------------------------------------------------------------
\* Helm commands that do not overlap

\* The same as CreateFacts, for the invariants
LEMMA CreateRevisions ==
  ASSUME TypeOK, HasLatest, NEW r \in Runs, NEW content \in Contents, NEW max \in Nat,
         Create(r, content, max)
  PROVE  /\ Numbers' # {} /\ Latest' = Latest + 1 /\ mine' = [mine EXCEPT ![r] = Latest + 1]
         /\ Latest + 1 \in Numbers' /\ Latest + 1 \notin Numbers
         /\ ~hist'[Latest + 1].marked /\ hist'[Latest + 1].by = r
         /\ hist'[Latest + 1].content = content
         /\ \A n \in Numbers' : n = Latest + 1 \/ (n \in Numbers /\ hist'[n] = hist[n])
<1>1. hist'[Latest + 1] = [status |-> "pending", marked |-> FALSE,
                         content |-> content, by |-> r]
  BY CreateFacts
<1>2. ~hist'[Latest + 1].marked /\ hist'[Latest + 1].by = r /\ hist'[Latest + 1].content = content
  BY <1>1
<1>3. QED
  BY <1>2, CreateFacts DEF Numbers

\* Creating a revision does not disturb what the pre-flight checks accepted.
LEMMA AcceptedAfterCreate ==
  ASSUME TypeOK, HasLatest, AcceptedStays, UNCHANGED job,
         \A s \in Runs : pc'[s] = "rollback" => pc[s] = "rollback",
         Numbers' # {}, Latest' = Latest + 1,
         \A n \in Numbers' : n = Latest + 1 \/ (n \in Numbers /\ hist'[n] = hist[n])
  PROVE  AcceptedStays'
<1> SUFFICES ASSUME NEW s \in Runs, pc'[s] = "rollback"
             PROVE  /\ Rollbacks(s)' /\ job[s].revision <= Latest + 1
                    /\ job[s].revision \in Numbers' => hist'[job[s].revision].marked
  BY DEF AcceptedStays
<1>1. /\ Rollbacks(s) /\ job[s].revision <= Latest
      /\ job[s].revision \in Numbers => hist[job[s].revision].marked
  BY DEF AcceptedStays
<1>2. Latest \in Nat /\ job[s].revision \in Nat
  BY <1>1, LatestType, ReleaseAssumption DEF TypeOK, JobType, Rollbacks
<1>3. job[s].revision # Latest + 1 /\ job[s].revision <= Latest + 1
  BY <1>1, <1>2
<1>4. QED
  BY <1>1, <1>3 DEF Rollbacks

LEMMA InvStep == Exclusive /\ IInv /\ [Next]_vars => IInv'
<1> SUFFICES ASSUME Exclusive, IInv, [Next]_vars PROVE IInv'
  OBVIOUS
<1>1. TypeOK /\ TypeOK' /\ HasLatest /\ HasLatest' /\ Latest \in Nat
  BY TypeStep, LatestType DEF IInv
<1> USE <1>1 DEF IInv, Mutex, Active, OwnRevision, ReadyConverged, AcceptedStays, FirstInstall,
      MarkedMeansConverged, RollbackRestoresConverged, Upgrades, Rollbacks, Safe
<1>2. CASE Converge
  BY <1>2, SameNumbers DEF Converge, Numbers
<1>3. CASE UNCHANGED vars
  BY <1>3, SameNumbers DEF vars, Numbers
<1>4. ASSUME NEW r \in Runs, HelmRefuses(r) \/ Timeout(r) \/ Kill(r)
      PROVE  IInv'
  BY <1>4, SameNumbers DEF HelmRefuses, Timeout, Kill, End, cluster, TypeOK, Numbers
<1>5. ASSUME NEW r \in Runs, Preflight(r) PROVE IInv'
  BY <1>5, SameNumbers DEF Preflight, Goto, End, cluster, TypeOK, Numbers, HasLatest
<1>6. ASSUME NEW r \in Runs, Apply(r) PROVE IInv'
  BY <1>6, SameNumbers DEF Apply, Goto, TypeOK, Numbers
<1>7. ASSUME NEW r \in Runs, Finishes(r) PROVE IInv'
  <2>1. PICK step \in {"undo", "ended"} :
        /\ Active(r) /\ UNCHANGED <<job, mine, prev, converged>>
        /\ pc' = [pc EXCEPT ![r] = step] /\ (step = "undo" => Upgrades(r))
        /\ UNCHANGED <<live, ready>> \/ ready' = FALSE
    BY <1>7 DEF Finishes, UpgradeFails, Restored, UndoFails, RollbackSucceeds,
       RollbackFails, Goto, End, cluster
  <2>2. /\ Numbers' = Numbers /\ Latest' = Latest
        /\ \A n \in Numbers : /\ hist'[n].marked = hist[n].marked /\ hist'[n].by = hist[n].by
                             /\ hist'[n].content = hist[n].content
    BY <1>7, FinishesFacts, SameNumbers DEF Numbers
  <2>3. \A s \in Runs : s # r => pc'[s] = pc[s] /\ ~Active(s)
    BY <2>1 DEF TypeOK
  <2>4. QED
    BY <2>1, <2>2, <2>3 DEF TypeOK
<1>8. ASSUME NEW r \in Runs, UpgradeSucceeds(r) PROVE IInv'
  <2>1. /\ pc[r] = "wait" /\ UNCHANGED <<job, mine, prev, converged, live, ready>>
        /\ pc' = [pc EXCEPT ![r] = "ended"] /\ (Safe(r) => ready)
    BY <1>8 DEF UpgradeSucceeds, End, cluster
  <2>2. /\ Numbers' = Numbers /\ Latest' = Latest
        /\ \A n \in Numbers :
             /\ hist'[n].marked = IF n = mine[r] THEN Safe(r) ELSE hist[n].marked
             /\ hist'[n].by = hist[n].by /\ hist'[n].content = hist[n].content
    BY <1>8, UpgradeSucceedsFacts, SameNumbers DEF Numbers
  <2>3. \A s \in Runs : ~Active(s)'
    BY <2>1 DEF TypeOK
  <2>4. MarkedMeansConverged'
    <3>1. Safe(r) => hist[mine[r]].content \in converged
      BY <2>1
    <3>2. SUFFICES ASSUME NEW n \in Numbers, hist'[n].marked
                   PROVE  hist[n].content \in converged
      BY <2>1, <2>2
    <3>3. CASE n = mine[r]
      BY <2>2, <3>1, <3>2, <3>3
    <3>4. CASE n # mine[r]
      BY <2>2, <3>2, <3>4
    <3>5. QED
      BY <3>3, <3>4
  <2>5. AcceptedStays'
    BY <2>1, <2>2 DEF TypeOK
  <2>6. RollbackRestoresConverged' /\ ReadyConverged'
    BY <2>1, <2>2
  <2>7. QED
    BY <2>1, <2>3, <2>4, <2>5, <2>6 DEF TypeOK
<1>9. ASSUME NEW r \in Runs, Uninstall(r) PROVE IInv'
  BY <1>9 DEF Uninstall, End, TypeOK, Numbers
<1>10. ASSUME NEW r \in Runs, UpgradeBegins(r) PROVE IInv'
  <2>1. /\ pc[r] = "start" /\ Upgrades(r) /\ \A s \in Runs : ~Active(s)
        /\ Create(r, r, history_max(r))
        /\ pc' = [pc EXCEPT ![r] = "apply"] /\ UNCHANGED <<job, live, ready, converged>>
    BY <1>10 DEF UpgradeBegins, Alone, Goto, cluster
  <2>2. r \in Contents /\ history_max(r) \in Nat
    BY ReleaseAssumption DEF Contents, history_max, TypeOK, JobType, NoMax
  <2>3. /\ Numbers' # {} /\ Latest' = Latest + 1 /\ mine' = [mine EXCEPT ![r] = Latest + 1]
        /\ Latest + 1 \in Numbers' /\ Latest + 1 \notin Numbers
        /\ ~hist'[Latest + 1].marked /\ hist'[Latest + 1].by = r
        /\ hist'[Latest + 1].content = r
        /\ \A k \in Numbers' : k = Latest + 1 \/ (k \in Numbers /\ hist'[k] = hist[k])
    BY <2>1, <2>2, CreateRevisions
  <2>4. prev'[r] = 0 => Numbers = {} /\ \A s \in Runs \ {r} : prev'[s] = prev[s]
    BY <1>10 DEF UpgradeBegins, TypeOK, Newest, WithStatus, Numbers, HasLatest
  <2>5. OwnRevision' /\ Mutex' /\ ReadyConverged'
    BY <2>1, <2>3 DEF TypeOK
  <2>6. AcceptedStays'
    BY <2>1, <2>3, AcceptedAfterCreate DEF TypeOK
  <2>7. FirstInstall'
    BY <2>1, <2>3, <2>4 DEF TypeOK
  <2>8. MarkedMeansConverged' /\ RollbackRestoresConverged'
    BY <2>1, <2>3 DEF TypeOK
  <2>9. QED
    BY <2>5, <2>6, <2>7, <2>8
<1>11. ASSUME NEW r \in Runs, AutoRollback(r) PROVE IInv'
  <2>1. PICK n \in Newest(Targets) : Create(r, hist[n].content, 0) /\ live' = hist[n].content
    BY <1>11 DEF AutoRollback
  <2>2. /\ pc[r] = "undo" /\ prev[r] # 0 /\ Upgrades(r) /\ ready' = FALSE
        /\ pc' = [pc EXCEPT ![r] = "restore"] /\ UNCHANGED <<job, prev, converged>>
    BY <1>11 DEF AutoRollback, Goto
  <2>3. hist[n].content \in Contents
    BY <2>1 DEF Newest, Targets, WithStatus, Numbers, TypeOK, Revision
  <2>4. /\ Numbers' # {} /\ Latest' = Latest + 1 /\ mine' = [mine EXCEPT ![r] = Latest + 1]
        /\ Latest + 1 \in Numbers' /\ Latest + 1 \notin Numbers
        /\ ~hist'[Latest + 1].marked /\ hist'[Latest + 1].by = r
        /\ hist'[Latest + 1].content = hist[n].content
        /\ \A k \in Numbers' : k = Latest + 1 \/ (k \in Numbers /\ hist'[k] = hist[k])
    BY <2>1, <2>3, CreateRevisions
  <2>5. OwnRevision' /\ Mutex' /\ ReadyConverged'
    BY <2>2 DEF TypeOK
  <2>6. AcceptedStays'
    BY <2>2, <2>4, AcceptedAfterCreate DEF TypeOK
  <2>7. FirstInstall'
    BY <2>2 DEF TypeOK
  <2>8. MarkedMeansConverged' /\ RollbackRestoresConverged'
    BY <2>2, <2>4 DEF TypeOK
  <2>9. QED
    BY <2>5, <2>6, <2>7, <2>8
<1>12. ASSUME NEW r \in Runs, RollbackBegins(r) PROVE IInv'
  <2> DEFINE content == hist[job[r].revision].content
  <2>1. /\ pc[r] = "rollback" /\ \A s \in Runs : ~Active(s)
        /\ job[r].revision \in Numbers
        /\ Create(r, content, history_max(r)) /\ prev' = [prev EXCEPT ![r] = Latest]
        /\ pc' = [pc EXCEPT ![r] = "apply"] /\ UNCHANGED <<job, live, ready, converged>>
    BY <1>12 DEF RollbackBegins, Alone, Goto, cluster
  <2>2. content \in converged
    BY <2>1
  <2>3. content \in Contents /\ history_max(r) \in Nat
    BY <2>1, ReleaseAssumption DEF history_max, TypeOK, JobType, NoMax, Numbers, Revision
  <2> HIDE DEF content
  <2>4. /\ Numbers' # {} /\ Latest' = Latest + 1 /\ mine' = [mine EXCEPT ![r] = Latest + 1]
        /\ Latest + 1 \in Numbers' /\ Latest + 1 \notin Numbers
        /\ ~hist'[Latest + 1].marked /\ hist'[Latest + 1].by = r
        /\ hist'[Latest + 1].content = content
        /\ \A k \in Numbers' : k = Latest + 1 \/ (k \in Numbers /\ hist'[k] = hist[k])
    BY <2>1, <2>3, CreateRevisions
  <2>5. OwnRevision' /\ Mutex' /\ ReadyConverged'
    BY <2>1, <2>4 DEF TypeOK
  <2>6. AcceptedStays'
    BY <2>1, <2>4, AcceptedAfterCreate DEF TypeOK
  <2>7. FirstInstall'
    BY <2>1, <2>4 DEF TypeOK, HasLatest, Numbers
  <2>8. MarkedMeansConverged' /\ RollbackRestoresConverged'
    BY <2>1, <2>2, <2>4 DEF TypeOK
  <2>9. QED
    BY <2>5, <2>6, <2>7, <2>8
<1>13. QED
  BY <1>2, <1>3, <1>4, <1>5, <1>6, <1>7, <1>8, <1>9, <1>10, <1>11, <1>12
     DEF Next, Upgrade, Rollback, Finishes

LEMMA InvInit == Init => IInv
<1> SUFFICES ASSUME Init PROVE IInv
  OBVIOUS
<1>1. TypeOK /\ HasLatest
  BY TypeInit
<1>2. \A r \in Runs : pc[r] = "start" /\ ~Active(r)
  BY DEF Init, Active
<1>3. ReadyConverged /\ MarkedMeansConverged /\ RollbackRestoresConverged
  <2>1. CASE hist = [n \in {} |-> 0] /\ ready = FALSE
    BY <2>1 DEF ReadyConverged, MarkedMeansConverged, RollbackRestoresConverged, Numbers
  <2>2. ASSUME NEW safe \in BOOLEAN,
               hist = [n \in {1} |-> [status |-> "deployed", marked |-> safe,
                                      content |-> Base, by |-> Base]],
               live = Base, ready = safe, converged = IF safe THEN {Base} ELSE {}
        PROVE  ReadyConverged /\ MarkedMeansConverged /\ RollbackRestoresConverged
    BY <2>2, ReleaseAssumption
       DEF ReadyConverged, MarkedMeansConverged, RollbackRestoresConverged, Numbers
  <2>3. QED
    BY <2>1, <2>2 DEF Init
<1>4. QED
  BY <1>1, <1>2, <1>3 DEF IInv, Mutex, OwnRevision, AcceptedStays, FirstInstall

\* If the pipelines keep helm commands apart, only deployments whose workloads
\* passed their readiness checks carry the marker, through failures, timeouts,
\* kills, undone upgrades and pruning. (MarkedMeansConverged;
\* docs/migration/v1-to-v2.md, _build_argv)
THEOREM MarkerIsSound ==
  ASSUME Exclusive PROVE Spec => []MarkedMeansConverged
<1>1. IInv /\ [Next]_vars => IInv'
  BY InvStep
<1>2. IInv => MarkedMeansConverged
  BY DEF IInv
<1>3. QED
  BY <1>1, <1>2, InvInit, PTL DEF Spec

\* ... and a rollback puts back only a content that has been ready before,
\* whatever other runs do to the history between its check and its helm command.
\* (RollbackRestoresConverged; RollbackAction._run_rollback)
THEOREM RollbackIsSafe ==
  ASSUME Exclusive PROVE Spec => []RollbackRestoresConverged
<1>1. IInv /\ [Next]_vars => IInv'
  BY InvStep
<1>2. IInv => RollbackRestoresConverged
  BY DEF IInv
<1>3. QED
  BY <1>1, <1>2, InvInit, PTL DEF Spec

-----------------------------------------------------------------------------
\* A success is what is live

\* The revision an active run works on is the newest one.
NewestIsAtWork == \A s \in Runs : Active(s) => mine[s] = Latest

\* A run that reported success has created a revision, which is still the newest
\* one or has been followed by others, and it was not a first install that others
\* can still undo.
SuccessIsPast ==
  \A r \in Runs : exit[r] = 0 =>
    /\ pc[r] = "ended" /\ mine[r] > 0 /\ mine[r] <= Latest
    /\ \A s \in Runs : Active(s) => prev[s] # 0 /\ mine[r] < mine[s]

SInv == IInv /\ NewestIsAtWork /\ SuccessIsPast /\ ExitZeroIsLive

LEMMA SuccessStep == Exclusive /\ SInv /\ [Next]_vars => SInv'
<1> SUFFICES ASSUME Exclusive, SInv, [Next]_vars PROVE SInv'
  OBVIOUS
<1>1. /\ IInv' /\ TypeOK /\ TypeOK' /\ HasLatest /\ HasLatest' /\ Mutex /\ OwnRevision
      /\ ReadyConverged /\ FirstInstall /\ Latest \in Nat /\ Latest' \in Nat
  <2>1. IInv'
    BY InvStep DEF SInv
  <2>2. TypeOK' /\ HasLatest'
    BY <2>1 DEF IInv
  <2>3. TypeOK' /\ HasLatest' => Latest' \in Nat
    BY DEF TypeOK, HasLatest, Latest, Numbers
  <2>4. QED
    BY <2>1, <2>2, <2>3, LatestType DEF SInv, IInv
<1>2. NewestIsAtWork /\ SuccessIsPast /\ ExitZeroIsLive
  BY DEF SInv
<1> USE <1>1 DEF NewestIsAtWork, SuccessIsPast, ExitZeroIsLive, Active, NoExit, Killed, Safe,
      Upgrades, Rollbacks
<1>3. CASE Converge \/ UNCHANGED vars
  BY <1>2, <1>3, SameNumbers DEF SInv, Converge, vars, Numbers
<1>4. ASSUME NEW r \in Runs, HelmRefuses(r) \/ Timeout(r) \/ Kill(r) \/ Preflight(r)
      PROVE  SInv'
  <2>1. /\ pc[r] # "ended" /\ UNCHANGED <<job, mine, prev, hist, live, ready, converged>>
        /\ \/ pc' = [pc EXCEPT ![r] = "rollback"] /\ exit' = exit
           \/ \E code \in {4, 5, 6, Killed} : /\ pc' = [pc EXCEPT ![r] = "ended"]
                                             /\ exit' = [exit EXCEPT ![r] = code]
    BY <1>4 DEF HelmRefuses, Timeout, Kill, Preflight, Goto, End, cluster
  <2>2. Numbers' = Numbers /\ Latest' = Latest
    BY <2>1, SameNumbers
  <2>3. QED
    BY <1>2, <2>1, <2>2 DEF SInv, TypeOK
<1>5. ASSUME NEW r \in Runs, Apply(r) PROVE SInv'
  <2>1. /\ pc[r] = "apply" /\ UNCHANGED <<job, mine, prev, hist, converged, exit>>
        /\ pc' = [pc EXCEPT ![r] = "wait"] /\ Latest' = Latest
    BY <1>5, SameNumbers DEF Apply, Goto
  <2>2. mine[r] = Latest /\ \A q \in Runs : exit[q] = 0 => mine[q] < Latest
    BY <1>2, <2>1
  <2>3. QED
    BY <1>2, <2>1, <2>2 DEF SInv, TypeOK
<1>6. ASSUME NEW r \in Runs, UpgradeFails(r) \/ Restored(r) \/ UndoFails(r) \/ RollbackFails(r)
      PROVE  SInv'
  <2>1. /\ Active(r) /\ UNCHANGED <<job, mine, prev, converged>>
        /\ \/ pc' = [pc EXCEPT ![r] = "undo"] /\ exit' = exit
           \/ pc' = [pc EXCEPT ![r] = "ended"] /\ exit' = [exit EXCEPT ![r] = 5]
    <3>1. CASE UpgradeFails(r)
      BY <3>1 DEF UpgradeFails, Goto, End, cluster
    <3>2. CASE Restored(r) \/ UndoFails(r)
      BY <3>2 DEF Restored, UndoFails, End, cluster
    <3>3. CASE RollbackFails(r)
      BY <3>3 DEF RollbackFails, End, cluster
    <3>4. QED
      BY <1>6, <3>1, <3>2, <3>3
  <2>2. Latest' = Latest
    BY <1>6, FinishesFacts, SameNumbers DEF Finishes, Numbers
  <2>3. mine[r] = Latest /\ \A q \in Runs : exit[q] = 0 => mine[q] < Latest
    BY <1>2, <2>1
  <2>4. QED
    BY <1>2, <2>1, <2>2, <2>3 DEF SInv, TypeOK
<1>7. ASSUME NEW r \in Runs, UpgradeSucceeds(r) \/ RollbackSucceeds(r) PROVE SInv'
  <2>1. /\ pc[r] = "wait" /\ mine[r] \in Numbers
        /\ UNCHANGED <<job, mine, prev, live, ready, converged>>
        /\ pc' = [pc EXCEPT ![r] = "ended"] /\ exit' = [exit EXCEPT ![r] = 0]
        /\ Safe(r) => ready /\ UpgradeSucceeds(r)
    BY <1>7 DEF UpgradeSucceeds, RollbackSucceeds, End, cluster
  <2>2. Latest' = Latest /\ hist'[mine[r]].content = hist[mine[r]].content
    BY <1>7, <2>1, FinishesFacts, UpgradeSucceedsFacts, SameNumbers DEF Finishes, Numbers
  <2>3. Safe(r) => hist'[mine[r]].marked
    BY <2>1, UpgradeSucceedsFacts
  <2>4. hist'[mine[r]].status = "deployed"
    <3>1. ASSUME NEW S, hist' = [Record(S, "superseded") EXCEPT
                                   ![mine[r]] = [@ EXCEPT !.status = "deployed"]]
          PROVE  hist'[mine[r]].status = "deployed"
      BY <2>1, <3>1, RecordFacts DEF Statuses, Revision
    <3>2. ASSUME NEW S, hist' = [Record(S, "superseded") EXCEPT ![mine[r]] =
                                   [@ EXCEPT !.status = "deployed", !.marked = Safe(r)]]
          PROVE  hist'[mine[r]].status = "deployed"
      BY <2>1, <3>2, RecordFacts DEF Statuses, Revision
    <3>3. QED
      BY <1>7, <3>1, <3>2 DEF UpgradeSucceeds, RollbackSucceeds
  <2>5. /\ mine[r] = Latest /\ mine[r] > 0 /\ \A q \in Runs : exit[q] = 0 => mine[q] < Latest
        /\ live = hist[mine[r]].content /\ (Safe(r) => live \in converged)
        /\ \A s \in Runs : Active(s) => s = r
    BY <1>2, <2>1 DEF OwnRevision, ReadyConverged, Mutex, TypeOK, Numbers
  <2>6. NewestIsAtWork' /\ SuccessIsPast'
    BY <1>2, <2>1, <2>2, <2>5 DEF TypeOK
  <2>7. ExitZeroIsLive'
    <3>1. SUFFICES ASSUME NEW q \in Runs, exit'[q] = 0, mine[q] = Latest
                   PROVE  /\ hist'[Latest].status = "deployed"
                          /\ live = hist'[Latest].content
                          /\ Safe(q) => hist'[Latest].marked /\ live \in converged
      BY <2>1, <2>2
    <3>2. q = r
      BY <2>1, <2>5, <3>1 DEF TypeOK
    <3>3. QED
      BY <2>1, <2>2, <2>3, <2>4, <2>5, <3>2
  <2>8. QED
    BY <2>6, <2>7 DEF SInv
<1>8. ASSUME NEW r \in Runs, Uninstall(r) PROVE SInv'
  <2>1. /\ pc[r] = "undo" /\ prev[r] = 0 /\ UNCHANGED <<job, mine, prev>>
        /\ pc' = [pc EXCEPT ![r] = "ended"] /\ exit' = [exit EXCEPT ![r] = 5]
    BY <1>8 DEF Uninstall, End
  <2>2. \A q \in Runs : exit[q] # 0
    BY <1>2, <2>1
  <2>3. \A s \in Runs : ~Active(s)'
    BY <2>1 DEF Mutex, TypeOK
  <2>4. QED
    BY <2>1, <2>2, <2>3 DEF SInv, TypeOK
<1>9. ASSUME NEW r \in Runs, UpgradeBegins(r) \/ RollbackBegins(r) \/ AutoRollback(r)
      PROVE  SInv'
  <2>1. PICK content \in Contents, max \in Nat : Create(r, content, max)
    <3>1. CASE UpgradeBegins(r) \/ RollbackBegins(r)
      BY <3>1, ReleaseAssumption DEF UpgradeBegins, RollbackBegins, Contents, history_max,
         TypeOK, JobType, NoMax, Numbers, Revision
    <3>2. CASE AutoRollback(r)
      BY <3>2 DEF AutoRollback, Newest, Targets, WithStatus, Numbers, TypeOK, Revision
    <3>3. QED
      BY <1>9, <3>1, <3>2
  <2>2. Latest' = Latest + 1 /\ mine' = [mine EXCEPT ![r] = Latest + 1]
    BY <2>1, CreateRevisions
  <2>3. \E step \in {"apply", "restore"} : pc' = [pc EXCEPT ![r] = step]
    BY <1>9 DEF UpgradeBegins, RollbackBegins, AutoRollback, Goto
  <2>4. /\ pc[r] # "ended" /\ UNCHANGED <<job, exit>>
        /\ \A s \in Runs \ {r} : ~Active(s)
    BY <1>9 DEF UpgradeBegins, RollbackBegins, AutoRollback, Goto, Alone, Mutex
  <2>5. (\E q \in Runs : exit[q] = 0) => prev'[r] # 0
    <3>1. ASSUME NEW q \in Runs, exit[q] = 0 PROVE Latest # 0 /\ Numbers # {}
      <4>1. mine[q] \in Nat /\ mine[q] > 0 /\ mine[q] <= Latest
        BY <1>2, <3>1 DEF TypeOK
      <4>2. Latest # 0
        BY <4>1
      <4>3. QED
        BY <4>2 DEF Latest
    <3>2. CASE AutoRollback(r)
      BY <3>2 DEF AutoRollback
    <3>3. CASE RollbackBegins(r)
      BY <3>1, <3>3 DEF RollbackBegins, TypeOK
    <3>4. CASE UpgradeBegins(r)
      BY <3>1, <3>4 DEF UpgradeBegins, TypeOK, Newest, WithStatus, Numbers
    <3>5. QED
      BY <1>9, <3>2, <3>3, <3>4
  <2>6. \A q \in Runs : exit[q] = 0 => q # r /\ mine'[q] <= Latest /\ mine'[q] > 0
    BY <1>2, <2>2, <2>4 DEF TypeOK
  <2>7. mine'[r] = Latest + 1 /\ \A s \in Runs : Active(s)' => s = r
    BY <2>2, <2>3, <2>4 DEF TypeOK
  <2>8. NewestIsAtWork'
    BY <2>2, <2>7
  <2>9. SuccessIsPast'
    BY <1>2, <2>2, <2>3, <2>4, <2>5, <2>6, <2>7 DEF TypeOK
  <2>10. ExitZeroIsLive'
    BY <2>2, <2>4, <2>6
  <2>11. QED
    BY <2>8, <2>9, <2>10 DEF SInv
<1>10. QED
  BY <1>3, <1>4, <1>5, <1>6, <1>7, <1>8, <1>9 DEF Next, Upgrade, Rollback

\* If helm commands do not overlap, a run that reported success and has not been
\* followed by another has left what it reports: its revision is deployed and
\* live, and after SAFE_UPGRADE marked and seen ready. (ExitZeroIsLive;
\* upgrade_install and rollback)
THEOREM SuccessIsLive ==
  ASSUME Exclusive PROVE Spec => []ExitZeroIsLive
<1>1. Init => SInv
  BY InvInit DEF Init, SInv, NewestIsAtWork, SuccessIsPast, ExitZeroIsLive, Active, NoExit
<1>2. SInv /\ [Next]_vars => SInv'
  BY SuccessStep
<1>3. SInv => ExitZeroIsLive
  BY DEF SInv
<1>4. QED
  BY <1>1, <1>2, <1>3, PTL DEF Spec

-----------------------------------------------------------------------------
\* The promise of the marker

\* Steps that leave contents, markers and authors alone
LEMMA SamePromise ==
  ASSUME Numbers' = Numbers, job' = job,
         \A n \in Numbers : /\ hist'[n].marked = hist[n].marked /\ hist'[n].by = hist[n].by
                            /\ hist'[n].content = hist[n].content
  PROVE  Vouched' = Vouched /\ PutBack' = PutBack
BY DEF Vouched, PutBack, Rollbacks

\* A run that goes anywhere but past the pre-flight check
LEMMA AskedAfter ==
  ASSUME TypeOK, NEW r \in Runs, job' = job,
         NEW step, step # "rollback", pc' = [pc EXCEPT ![r] = step]
  PROVE  /\ DOMAIN Asked' = DOMAIN Asked \ {r} /\ Promise!Part(Asked', Asked)
         /\ pc[r] # "rollback" => Asked' = Asked
<1>1. {s \in Runs : pc'[s] = "rollback"} = {s \in Runs : pc[s] = "rollback"} \ {r}
  BY DEF TypeOK
<1>2. QED
  BY <1>1 DEF Asked, Promise!Part

LEMMA CreatePromise ==
  ASSUME TypeOK, HasLatest, NEW r \in Runs, NEW content \in Contents, NEW max \in Nat,
         Create(r, content, max), job' = job
  PROVE  /\ Promise!Part(Vouched', Vouched)
         /\ PutBack' \subseteq PutBack \union {content}
         /\ ~Rollbacks(r) => PutBack' \subseteq PutBack
<1>1. /\ ~hist'[Latest + 1].marked /\ hist'[Latest + 1].by = r
      /\ hist'[Latest + 1].content = content
      /\ \A n \in Numbers' : n = Latest + 1 \/ (n \in Numbers /\ hist'[n] = hist[n])
  BY CreateRevisions
<1>2. Promise!Part(Vouched', Vouched)
  BY <1>1 DEF Vouched, Promise!Part
<1>3. ASSUME NEW c \in PutBack' PROVE c \in PutBack \/ (c = content /\ Rollbacks(r))
  <2>1. PICK n \in Numbers' : c = hist'[n].content /\ hist'[n].by \in Runs /\ Rollbacks(hist'[n].by)
    BY DEF PutBack, Rollbacks
  <2>2. QED
    BY <1>1, <2>1 DEF PutBack
<1>4. QED
  BY <1>2, <1>3

LEMMA PromiseInit == Init => Promise!Init
<1> SUFFICES ASSUME Init PROVE Promise!Init
  OBVIOUS
<1>1. TypeOK /\ MarkedMeansConverged
  BY InvInit DEF IInv
<1>2. DOMAIN Asked = {} /\ PutBack = {}
  BY ReleaseAssumption DEF Init, Asked, PutBack, Numbers
<1>3. QED
  BY <1>1, <1>2 DEF Promise!Init, TypeOK, MarkedMeansConverged, Vouched

LEMMA PromiseStep == Exclusive /\ IInv /\ [Next]_vars => [Promise!Next]_(Promise!vars)
<1> SUFFICES ASSUME Exclusive, IInv, [Next]_vars PROVE [Promise!Next]_(Promise!vars)
  OBVIOUS
<1>1. /\ TypeOK /\ TypeOK' /\ HasLatest /\ OwnRevision /\ ReadyConverged /\ AcceptedStays
      /\ FirstInstall /\ MarkedMeansConverged
  BY TypeStep DEF IInv
<1>2. CASE UNCHANGED vars
  BY <1>2 DEF vars, Promise!vars, Vouched, Asked, PutBack, Numbers, Rollbacks
<1>3. CASE Converge
  <2>1. UNCHANGED <<Vouched, Asked, PutBack>>
    BY <1>3 DEF Converge, Vouched, Asked, PutBack, Numbers, Rollbacks
  <2>2. converged \subseteq converged' /\ converged' \subseteq Contents
    BY <1>1, <1>3 DEF Converge, TypeOK
  <2>3. QED
    BY <2>1, <2>2 DEF Promise!Next, Promise!See
<1>4. ASSUME NEW r \in Runs,
             HelmRefuses(r) \/ Timeout(r) \/ Kill(r) \/ Apply(r) \/ Finishes(r)
      PROVE  Promise!Withdraw
  <2>1. job' = job /\ converged' = converged
    BY <1>4 DEF HelmRefuses, Timeout, Kill, Apply, Finishes, UpgradeFails, Restored, UndoFails,
       RollbackSucceeds, RollbackFails, cluster
  <2>2. PICK step \in {"wait", "undo", "ended"} : pc' = [pc EXCEPT ![r] = step]
    BY <1>4 DEF HelmRefuses, Timeout, Kill, Apply, Finishes, UpgradeFails, Restored, UndoFails,
       RollbackSucceeds, RollbackFails, Goto, End
  <2>3. Vouched' = Vouched /\ PutBack' = PutBack
    <3>1. CASE HelmRefuses(r) \/ Timeout(r) \/ Kill(r) \/ Apply(r)
      BY <2>1, <3>1, SamePromise DEF HelmRefuses, Timeout, Kill, Apply, Numbers
    <3>2. CASE Finishes(r)
      BY <1>1, <2>1, <3>2, FinishesFacts, SamePromise DEF Numbers
    <3>3. QED
      BY <1>4, <3>1, <3>2
  <2>4. Promise!Part(Asked', Asked)
    BY <1>1, <2>1, <2>2, AskedAfter
  <2>5. QED
    BY <2>1, <2>3, <2>4 DEF Promise!Withdraw
<1>5. ASSUME NEW r \in Runs, Preflight(r) PROVE Promise!Accept \/ Promise!Withdraw
  <2>1. job' = job /\ hist' = hist /\ converged' = converged /\ pc[r] = "start"
    BY <1>5 DEF Preflight, cluster
  <2>2. Vouched' = Vouched /\ PutBack' = PutBack
    BY <2>1, SamePromise DEF Numbers
  <2>3. CASE pc' = [pc EXCEPT ![r] = "ended"]
    <3>1. Promise!Part(Asked', Asked)
      BY <1>1, <2>1, <2>3, AskedAfter
    <3>2. QED
      BY <2>1, <2>2, <3>1 DEF Promise!Withdraw
  <2>4. CASE /\ job[r].revision \in Numbers /\ hist[job[r].revision].marked
             /\ pc' = [pc EXCEPT ![r] = "rollback"]
    <3>1. {s \in Runs : pc'[s] = "rollback"} = {s \in Runs : pc[s] = "rollback"} \union {r}
      BY <1>1, <2>4 DEF TypeOK
    <3>2. DOMAIN Asked' = DOMAIN Asked \union {r} /\ r \notin DOMAIN Asked
      BY <2>1, <3>1 DEF Asked
    <3>3. Promise!Part(Asked, Asked') /\ Asked'[r] = job[r].revision
      BY <2>1, <3>1 DEF Asked, Promise!Part
    <3>4. job[r].revision \in DOMAIN Vouched
      BY <2>4 DEF Vouched
    <3>5. QED
      BY <2>1, <2>2, <3>2, <3>3, <3>4 DEF Promise!Accept
  <2>5. QED
    BY <1>5, <2>3, <2>4 DEF Preflight, Goto, End
<1>6. ASSUME NEW r \in Runs, UpgradeSucceeds(r) PROVE Promise!Vouch \/ UNCHANGED Promise!vars
  <2>1. /\ pc[r] = "wait" /\ pc' = [pc EXCEPT ![r] = "ended"] /\ mine[r] \in Numbers
        /\ UNCHANGED <<job, converged>> /\ (Safe(r) => ready)
    BY <1>6 DEF UpgradeSucceeds, End, cluster
  <2>2. Asked' = Asked
    BY <1>1, <2>1, AskedAfter
  <2>3. /\ Numbers' = Numbers
        /\ \A n \in Numbers :
             /\ hist'[n].marked = IF n = mine[r] THEN Safe(r) ELSE hist[n].marked
             /\ hist'[n].by = hist[n].by /\ hist'[n].content = hist[n].content
    BY <1>1, <1>6, UpgradeSucceedsFacts DEF Numbers
  <2>4. ~hist[mine[r]].marked /\ live = hist[mine[r]].content
    BY <1>1, <2>1 DEF OwnRevision
  <2>5. PutBack' = PutBack
    BY <2>1, <2>3 DEF PutBack, Rollbacks
  <2>6. CASE ~Safe(r)
    <3>1. \A n \in Numbers : hist'[n].marked <=> hist[n].marked
      BY <2>3, <2>4, <2>6
    <3>2. Vouched' = Vouched
      BY <2>3, <3>1 DEF Vouched
    <3>3. QED
      BY <2>1, <2>2, <2>5, <3>2 DEF Promise!vars
  <2>7. CASE Safe(r)
    <3>1. mine[r] \in DOMAIN Vouched' \ DOMAIN Vouched
      BY <2>1, <2>3, <2>4, <2>7 DEF Vouched
    <3>2. DOMAIN Vouched' = DOMAIN Vouched \union {mine[r]}
      BY <2>1, <2>3, <2>7 DEF Vouched
    <3>3. Vouched'[mine[r]] = live /\ Promise!Part(Vouched, Vouched')
      BY <2>1, <2>3, <2>4, <2>7 DEF Vouched, Promise!Part
    <3>4. live \in converged
      BY <1>1, <2>1, <2>7 DEF ReadyConverged
    <3>5. \A s \in DOMAIN Asked : Asked[s] # mine[r]
      BY <1>1, <2>1, <2>4 DEF AcceptedStays, Asked
    <3>6. QED
      BY <2>1, <2>2, <2>5, <3>1, <3>2, <3>3, <3>4, <3>5 DEF Promise!Vouch
  <2>8. QED
    BY <2>6, <2>7
<1>7. ASSUME NEW r \in Runs, Uninstall(r) PROVE Promise!Forget
  <2>1. Numbers' = {} /\ UNCHANGED <<job, converged>> /\ pc[r] = "undo"
        /\ pc' = [pc EXCEPT ![r] = "ended"]
    BY <1>7 DEF Uninstall, End, Numbers
  <2>2. Asked' = Asked
    BY <1>1, <2>1, AskedAfter
  <2>3. DOMAIN Vouched' = {} /\ PutBack' = {}
    BY <2>1 DEF Vouched, PutBack
  <2>4. QED
    BY <2>1, <2>2, <2>3 DEF Promise!Forget, Promise!Part
<1>8. ASSUME NEW r \in Runs, UpgradeBegins(r) \/ AutoRollback(r) PROVE Promise!Forget
  <2>1. PICK content \in Contents, max \in Nat : Create(r, content, max)
    <3>1. CASE UpgradeBegins(r)
      BY <1>1, <3>1, ReleaseAssumption
         DEF UpgradeBegins, Contents, history_max, TypeOK, JobType, NoMax
    <3>2. CASE AutoRollback(r)
      BY <1>1, <3>2 DEF AutoRollback, Newest, Targets, WithStatus, Numbers, TypeOK, Revision
    <3>3. QED
      BY <1>8, <3>1, <3>2
  <2>2. /\ UNCHANGED <<job, converged>> /\ Upgrades(r) /\ pc[r] # "rollback"
        /\ \E step \in {"apply", "restore"} : pc' = [pc EXCEPT ![r] = step]
    BY <1>1, <1>8 DEF UpgradeBegins, AutoRollback, Goto, cluster, OwnRevision
  <2>3. Asked' = Asked
    BY <1>1, <2>2, AskedAfter
  <2>4. ~Rollbacks(r)
    BY <2>2 DEF Upgrades, Rollbacks
  <2>5. Promise!Part(Vouched', Vouched) /\ PutBack' \subseteq PutBack
    BY <1>1, <2>1, <2>2, <2>4, CreatePromise
  <2>6. QED
    BY <2>2, <2>3, <2>5 DEF Promise!Forget
<1>9. ASSUME NEW r \in Runs, RollbackBegins(r) PROVE Promise!Restore
  <2> DEFINE content == hist[job[r].revision].content
  <2>1. /\ pc[r] = "rollback" /\ job[r].revision \in Numbers
        /\ Create(r, content, history_max(r))
        /\ pc' = [pc EXCEPT ![r] = "apply"] /\ UNCHANGED <<job, converged>>
    BY <1>9 DEF RollbackBegins, Goto, cluster
  <2>2. content \in Contents /\ history_max(r) \in Nat
    BY <1>1, <2>1, ReleaseAssumption DEF history_max, TypeOK, JobType, NoMax, Numbers, Revision
  <2>3. hist[job[r].revision].marked
    BY <1>1, <2>1 DEF AcceptedStays
  <2>4. /\ r \in DOMAIN Asked /\ Asked[r] = job[r].revision
        /\ Asked[r] \in DOMAIN Vouched /\ Vouched[Asked[r]] = content
    BY <2>1, <2>3 DEF Asked, Vouched
  <2> HIDE DEF content
  <2>5. Promise!Part(Vouched', Vouched) /\ PutBack' \subseteq PutBack \union {content}
    BY <1>1, <2>1, <2>2, CreatePromise
  <2>6. DOMAIN Asked' = DOMAIN Asked \ {r} /\ Promise!Part(Asked', Asked)
    BY <1>1, <2>1, AskedAfter
  <2>7. QED
    BY <2>1, <2>4, <2>5, <2>6 DEF Promise!Restore
<1>10. QED
  BY <1>2, <1>3, <1>4, <1>5, <1>6, <1>7, <1>8, <1>9
     DEF Next, Upgrade, Rollback, Finishes, Promise!Next

\* If helm commands do not overlap, the release keeps the promise of the marker:
\* what a rollback puts back is the content its revision number was vouched for
\* when it was accepted. (KeepsPromise; _run_rollback, _build_argv)
THEOREM PromiseIsKept ==
  ASSUME Exclusive PROVE Spec => KeepsPromise
<1>1. IInv /\ [Next]_vars => IInv'
  BY InvStep
<1>2. IInv /\ [Next]_vars => [Promise!Next]_(Promise!vars)
  BY PromiseStep
<1>3. QED
  BY <1>1, <1>2, InvInit, PromiseInit, PTL DEF Spec, KeepsPromise, Promise!Spec

-----------------------------------------------------------------------------
\* Helm commands that may overlap

\* No step but Create makes a revision pending.
LEMMA StatusFacts ==
  ASSUME TypeOK, NEW r \in Runs, Finishes(r) \/ UpgradeSucceeds(r)
  PROVE  /\ \A n \in Numbers : hist'[n].status = "pending" => hist[n].status = "pending"
         /\ pc'[r] = "ended" /\ exit'[r] = 0
             => pc[r] = "wait" /\ hist'[mine[r]].status # "pending"
<1>1. ASSUME NEW S, NEW status \in Statuses \ {"pending"}, NEW n \in Numbers
      PROVE  /\ Record(S, status)[n].status \in {hist[n].status, status}
             /\ DOMAIN Record(S, status) = Numbers
  <2>1. Record(S, status)[n] = IF n \in S THEN [hist[n] EXCEPT !.status = status] ELSE hist[n]
    BY DEF Record
  <2>2. hist[n] \in Revision
    BY DEF TypeOK, Numbers
  <2>3. QED
    BY <2>1, <2>2 DEF Record, Revision
<1>2. CASE UpgradeFails(r) \/ UndoFails(r)
  <2>1. /\ hist' \in {hist, Record({mine[r]}, "failed")}
        /\ pc'[r] = "ended" => exit'[r] # 0
    BY <1>2 DEF UpgradeFails, UndoFails, Goto, End, TypeOK
  <2>2. QED
    BY <2>1, <1>1 DEF Statuses
<1>3. CASE Restored(r) \/ RollbackSucceeds(r)
  <2> DEFINE h == Record(WithStatus({"deployed"}), "superseded")
  <2>1. /\ hist' = [h EXCEPT ![mine[r]] = [@ EXCEPT !.status = "deployed"]]
        /\ mine[r] \in Numbers /\ (exit'[r] = 0 => pc[r] = "wait")
    BY <1>3 DEF Restored, RollbackSucceeds, End, TypeOK
  <2>2. /\ DOMAIN h = Numbers
        /\ \A n \in Numbers : h[n] \in Revision /\ h[n].status \in {hist[n].status, "superseded"}
    BY <1>1, RecordFacts DEF Statuses
  <2> HIDE DEF h
  <2>3. QED
    BY <2>1, <2>2 DEF Revision
<1>4. CASE UpgradeSucceeds(r)
  <2> DEFINE h == Record({prev[r]}, "superseded")
  <2>1. /\ hist' = [h EXCEPT ![mine[r]] = [@ EXCEPT !.status = "deployed", !.marked = Safe(r)]]
        /\ mine[r] \in Numbers /\ pc[r] = "wait"
    BY <1>4 DEF UpgradeSucceeds
  <2>2. /\ DOMAIN h = Numbers
        /\ \A n \in Numbers : h[n] \in Revision /\ h[n].status \in {hist[n].status, "superseded"}
    BY <1>1, RecordFacts DEF Statuses
  <2> HIDE DEF h
  <2>3. QED
    BY <2>1, <2>2 DEF Revision
<1>5. CASE RollbackFails(r)
  <2>1. exit'[r] # 0
    BY <1>5 DEF RollbackFails, End, TypeOK
  <2>2. \A n \in Numbers : hist[n] \in Revision
    BY DEF TypeOK, Numbers
  <2>3. QED
    BY <1>5, <2>1, <2>2 DEF RollbackFails, Revision
<1>6. QED
  BY <1>2, <1>3, <1>4, <1>5 DEF Finishes

LEMMA PendingStep == PInv /\ [Next]_vars => PInv'
<1> SUFFICES ASSUME PInv, [Next]_vars PROVE PInv'
  OBVIOUS
<1>1. TypeOK /\ TypeOK' /\ HasLatest /\ HasLatest' /\ Latest \in Nat
  BY TypeStep, LatestType DEF PInv
<1> USE <1>1 DEF PInv, OneEach, PendingMeansUnfinished, NoExit, Killed
<1>2. CASE Converge \/ UNCHANGED vars
  BY <1>2 DEF Converge, vars, Numbers
<1>3. ASSUME NEW r \in Runs, HelmRefuses(r) \/ Timeout(r) \/ Kill(r) PROVE PInv'
  BY <1>3 DEF HelmRefuses, Timeout, Kill, End, cluster, TypeOK, Numbers
<1>4. ASSUME NEW r \in Runs, Preflight(r) PROVE PInv'
  <2>1. /\ pc[r] = "start" /\ UNCHANGED <<hist, mine>>
        /\ \/ pc' = [pc EXCEPT ![r] = "rollback"] /\ exit' = exit
           \/ \E code \in {4, 5} : /\ pc' = [pc EXCEPT ![r] = "ended"]
                                  /\ exit' = [exit EXCEPT ![r] = code]
    BY <1>4 DEF Preflight, Goto, End
  <2>2. \A n \in Numbers : hist[n].by # r
    BY <2>1
  <2>3. QED
    BY <2>1, <2>2 DEF TypeOK, Numbers
<1>5. ASSUME NEW r \in Runs, Apply(r) PROVE PInv'
  BY <1>5 DEF Apply, Goto, TypeOK, Numbers
<1>6. ASSUME NEW r \in Runs, Finishes(r) \/ UpgradeSucceeds(r) PROVE PInv'
  <2>1. PICK step \in {"undo", "ended"}, code \in {NoExit, 0, 5} :
        /\ pc[r] \in {"apply", "wait", "undo", "restore"} /\ UNCHANGED mine
        /\ pc' = [pc EXCEPT ![r] = step] /\ exit' = [exit EXCEPT ![r] = code]
        /\ step = "undo" <=> code = NoExit
        /\ step = "undo" => pc[r] \in {"apply", "wait"}
    <3>1. exit[r] = NoExit /\ pc[r] # "ended"
      BY <1>6 DEF Finishes, UpgradeFails, Restored, UndoFails, RollbackSucceeds,
         RollbackFails, UpgradeSucceeds
    <3>2. exit = [exit EXCEPT ![r] = NoExit]
      BY <3>1 DEF TypeOK
    <3>3. QED
      BY <1>6, <3>2 DEF Finishes, UpgradeFails, Restored, UndoFails, RollbackSucceeds,
         RollbackFails, UpgradeSucceeds, Goto, End
  <2>2. /\ Numbers' = Numbers
        /\ \A n \in Numbers : hist'[n].by = hist[n].by
        /\ \A n \in Numbers : hist'[n].status = "pending" => hist[n].status = "pending"
        /\ code = 0 => pc[r] = "wait" /\ hist'[mine[r]].status # "pending"
    BY <1>6, <2>1, FinishesFacts, UpgradeSucceedsFacts, StatusFacts DEF Numbers, TypeOK
  <2>3. OneEach'
    BY <2>1, <2>2 DEF TypeOK
  <2>4. PendingMeansUnfinished'
    BY <2>1, <2>2 DEF TypeOK
  <2>5. QED
    BY <2>1, <2>3, <2>4 DEF TypeOK
<1>7. ASSUME NEW r \in Runs, Uninstall(r) PROVE PInv'
  BY <1>7 DEF Uninstall, End, TypeOK, Numbers
<1>8. ASSUME NEW r \in Runs, UpgradeBegins(r) \/ RollbackBegins(r) PROVE PInv'
  <2>1. /\ pc[r] \in {"start", "rollback"} /\ UNCHANGED exit
        /\ pc' = [pc EXCEPT ![r] = "apply"]
        /\ \E content \in Contents : Create(r, content, history_max(r))
    BY <1>8 DEF UpgradeBegins, RollbackBegins, Goto, Contents, Numbers, TypeOK, Revision
  <2>2. history_max(r) \in Nat
    BY ReleaseAssumption DEF history_max, TypeOK, JobType, Upgrades, NoMax
  <2>3. /\ mine' = [mine EXCEPT ![r] = Latest + 1]
        /\ Latest + 1 \notin Numbers /\ hist'[Latest + 1].by = r
        /\ \A n \in Numbers' : n = Latest + 1 \/ (n \in Numbers /\ hist'[n] = hist[n])
    BY <2>1, <2>2, CreateRevisions
  <2>4. QED
    BY <2>1, <2>3 DEF TypeOK
<1>9. ASSUME NEW r \in Runs, AutoRollback(r) PROVE PInv'
  <2>1. PICK n \in Newest(Targets) : Create(r, hist[n].content, 0)
    BY <1>9 DEF AutoRollback
  <2>2. hist[n].content \in Contents
    BY <2>1 DEF Newest, Targets, WithStatus, Numbers, TypeOK, Revision
  <2>3. /\ mine' = [mine EXCEPT ![r] = Latest + 1]
        /\ Latest + 1 \notin Numbers /\ hist'[Latest + 1].by = r
        /\ \A k \in Numbers' : k = Latest + 1 \/ (k \in Numbers /\ hist'[k] = hist[k])
    BY <2>1, <2>2, CreateRevisions
  <2>4. pc[r] = "undo" /\ pc' = [pc EXCEPT ![r] = "restore"] /\ UNCHANGED exit
    BY <1>9 DEF AutoRollback, Goto
  <2>5. QED
    BY <2>3, <2>4 DEF TypeOK
<1>10. QED
  BY <1>2, <1>3, <1>4, <1>5, <1>6, <1>7, <1>8, <1>9 DEF Next, Upgrade, Rollback, Finishes

\* A revision that stays pending never belongs to a run that reported success or
\* a refused rollback, even if helm commands overlap. (PendingMeansUnfinished;
\* upgrade_install and rollback, the codes of errors.py)
THEOREM PendingHasCause == Spec => []PendingMeansUnfinished
<1>1. Init => PInv
  <2> SUFFICES ASSUME Init PROVE PInv
    OBVIOUS
  <2>1. \A n \in Numbers : hist[n].by \notin Runs
    BY ReleaseAssumption DEF Init, Numbers
  <2>2. QED
    BY <2>1, TypeInit DEF Init, PInv, OneEach, PendingMeansUnfinished
<1>2. PInv => PendingMeansUnfinished
  BY DEF PInv
<1>3. QED
  BY <1>1, <1>2, PendingStep, PTL DEF Spec

\* Only a rollback gets past the pre-flight check.
OnlyRollbacks == \A r \in Runs : pc[r] = "rollback" => Rollbacks(r)

LEMMA OnlyRollbacksStep == TypeOK /\ OnlyRollbacks /\ [Next]_vars => OnlyRollbacks'
<1> SUFFICES ASSUME TypeOK, OnlyRollbacks, [Next]_vars PROVE OnlyRollbacks'
  OBVIOUS
<1>1. CASE Converge \/ UNCHANGED vars
  BY <1>1 DEF Converge, vars, OnlyRollbacks, Rollbacks
<1>2. ASSUME NEW r \in Runs,
             Upgrade(r) \/ Rollback(r) \/ HelmRefuses(r) \/ Apply(r) \/ Timeout(r) \/ Kill(r)
      PROVE  OnlyRollbacks'
  <2>1. /\ job' = job
        /\ \/ Rollbacks(r) /\ \E step : pc' = [pc EXCEPT ![r] = step]
           \/ \E step : step # "rollback" /\ pc' = [pc EXCEPT ![r] = step]
    BY <1>2 DEF Upgrade, Rollback, HelmRefuses, Apply, Timeout, Kill, UpgradeBegins,
       UpgradeSucceeds, UpgradeFails, Uninstall, AutoRollback, Restored, UndoFails,
       Preflight, RollbackBegins, RollbackSucceeds, RollbackFails, Goto, End
  <2>2. QED
    BY <2>1 DEF OnlyRollbacks, Rollbacks, TypeOK
<1>3. QED
  BY <1>1, <1>2 DEF Next

\* With HISTORY_MAX=0 no step of an upgrade deletes a revision, except undoing a
\* first install. (UnlimitedUpgradeKeepsHistory; _build_argv)
THEOREM UnlimitedIsNotUnset == Spec => UnlimitedUpgradeKeepsHistory
<1>1. TypeOK /\ HasLatest /\ OnlyRollbacks /\ [Next]_vars =>
        [\A r \in Runs :
           Upgrades(r) /\ job[r].history_max = 0 /\ pc[r] # pc'[r] /\ prev'[r] # 0
             => Numbers \subseteq DOMAIN hist']_vars
  <2> SUFFICES ASSUME TypeOK, HasLatest, OnlyRollbacks, Next,
                      NEW r \in Runs, Upgrades(r), job[r].history_max = 0,
                      pc[r] # pc'[r], prev'[r] # 0
               PROVE  Numbers \subseteq DOMAIN hist'
    BY DEF vars
  <2>1. ~Rollbacks(r) /\ history_max(r) = 0 /\ Kept(0) = Numbers
    BY DEF Upgrades, Rollbacks, history_max, NoMax, Kept
  <2>2. Upgrade(r) \/ Rollback(r) \/ HelmRefuses(r) \/ Apply(r) \/ Timeout(r) \/ Kill(r)
    <3>1. PICK q \in Runs : \/ Upgrade(q) \/ Rollback(q) \/ HelmRefuses(q)
                            \/ Apply(q) \/ Timeout(q) \/ Kill(q)
      BY DEF Next, Converge
    <3>2. \E step : pc' = [pc EXCEPT ![q] = step]
      BY <3>1 DEF Upgrade, Rollback, HelmRefuses, Apply, Timeout, Kill, UpgradeBegins,
         UpgradeSucceeds, UpgradeFails, Uninstall, AutoRollback, Restored, UndoFails,
         Preflight, RollbackBegins, RollbackSucceeds, RollbackFails, Goto, End
    <3>3. q = r
      BY <3>2 DEF TypeOK
    <3>4. QED
      BY <3>1, <3>3
  <2>3. CASE HelmRefuses(r) \/ Timeout(r) \/ Kill(r) \/ Apply(r) \/ Preflight(r)
    BY <2>3 DEF HelmRefuses, Timeout, Kill, Apply, Preflight, Numbers
  <2>4. CASE UpgradeBegins(r)
    BY <2>1, <2>4 DEF UpgradeBegins, Create
  <2>5. CASE AutoRollback(r)
    BY <2>1, <2>5 DEF AutoRollback, Create
  <2>6. CASE Uninstall(r)
    BY <2>6 DEF Uninstall
  <2>7. CASE Finishes(r)
    BY <2>7, FinishesFacts DEF Numbers
  <2>8. CASE UpgradeSucceeds(r)
    BY <2>8, UpgradeSucceedsFacts DEF Numbers
  <2>9. ~RollbackBegins(r)
    BY <2>1 DEF RollbackBegins, OnlyRollbacks
  <2>10. QED
    BY <2>2, <2>3, <2>4, <2>5, <2>6, <2>7, <2>8, <2>9 DEF Upgrade, Rollback, Finishes
<1>2. Init => OnlyRollbacks
  BY DEF Init, OnlyRollbacks
<1>3. QED
  BY <1>1, <1>2, TypeInit, TypeStep, OnlyRollbacksStep, PTL
     DEF Spec, UnlimitedUpgradeKeepsHistory
=============================================================================
