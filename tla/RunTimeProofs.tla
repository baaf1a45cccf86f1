---------------------------- MODULE RunTimeProofs ----------------------------
(***************************************************************************)
(* For every TIMEOUT and however long each step takes: how old the token   *)
(* can be when helm starts, how long a run can take, and that the pipe and *)
(* helm read the same duration out of TIMEOUT.                             *)
(***************************************************************************)
EXTENDS RunTime, TLAPS

\* The chart's steps that come after a step.
FitsChart ==
  /\ pc \in {"repo_add", "repo_update", "pull_repo"} => s.chart = "repo" /\ s.action # "rollback"
  /\ pc \in {"registry_login", "cosign", "pull_oci"} => s.chart = "oci" /\ s.action # "rollback"
  /\ pc = "registry_login" => s.login
  /\ pc = "cosign" => s.verify
  /\ pc \in {"upgrade", "diff"} => pc = s.action
  /\ pc \in {"history", "rollback"} => s.action = "rollback"

\* The most that the steps before pc take.
Before(step) ==
  CASE step \in {"repo_add", "registry_login"} -> 0
    [] step = "repo_update" -> 60
    [] step = "pull_repo" -> 180
    [] step = "cosign" -> IF s.login THEN 60 ELSE 0
    [] step = "pull_oci" -> (IF s.login THEN 60 ELSE 0) + (IF s.verify THEN 120 ELSE 0)
    [] OTHER -> FetchLimit

\* The clock never runs ahead of the limits of the steps taken.
OnTime ==
  /\ pc \in FetchSteps => now <= Before(pc)
  /\ pc = "prepare" => now <= IF s.action = "rollback" THEN 0 ELSE FetchLimit
  /\ pc \in {"upgrade", "diff"} =>
       /\ now <= FetchLimit + Local /\ started <= FetchLimit + Local
       /\ Valid(s.timeout) /\ timer = Seconds(s.timeout)
  /\ pc = "history" => started <= Local

IInv == TypeOK /\ FitsChart /\ OnTime /\ EndsInTime

LEMMA Fetches ==
  FetchSteps = {"repo_add", "repo_update", "pull_repo", "registry_login", "cosign", "pull_oci"}
BY DEF FetchSteps, Limit

LEMMA SecondsNat ==
  ASSUME NEW d \in Timeouts
  PROVE  Seconds(d) \in Nat
<1>1. d \in Seq(Nat \X Units)
  BY RunTimeAssumption
<1>2. ASSUME NEW u PROVE Group(d, u) \in Nat
  <2>1. CASE \E i \in DOMAIN d : d[i][2] = u
    <3>1. (CHOOSE i \in DOMAIN d : d[i][2] = u) \in DOMAIN d
      BY <2>1
    <3>2. \A i \in DOMAIN d : d[i] \in Nat \X Units
      BY <1>1
    <3>3. \A i \in DOMAIN d : d[i][1] \in Nat
      BY <3>2
    <3>4. QED
      BY <2>1, <3>1, <3>3 DEF Group
  <2>2. CASE ~ \E i \in DOMAIN d : d[i][2] = u
    BY <2>2 DEF Group
  <2>3. QED
    BY <2>1, <2>2
<1>3. Group(d, "h") \in Nat /\ Group(d, "m") \in Nat /\ Group(d, "s") \in Nat
  BY <1>2
<1>4. QED
  BY <1>3 DEF Seconds

LEMMA FetchLimitBound ==
  ASSUME TypeOK
  PROVE  FetchLimit \in 0 .. 780
BY DEF TypeOK, Settings, FetchLimit, Limit

LEMMA LimitNat == \A p \in FetchSteps : Limit[p] \in Nat
BY DEF FetchSteps, Limit

Pcs == FetchSteps \union {"prepare", "history"} \union HelmSteps \union Ended

LEMMA TypeParts ==
  TypeOK <=> /\ s \in Settings /\ pc \in Pcs
             /\ now \in Nat /\ started \in Nat /\ started <= now /\ timer \in Nat
BY DEF TypeOK, Pcs

\* What TypeOK says of the next state.
LEMMA TypeStep ==
  ASSUME s' = s, s \in Settings, pc' \in Pcs,
         now' \in Nat, started' \in Nat, started' <= now', timer' \in Nat
  PROVE  TypeOK'
<1>1. started' \in 0 .. now'
  OBVIOUS
<1>2. QED
  BY <1>1 DEF TypeOK, Pcs

LEMMA InitIInv == Init => IInv
<1> SUFFICES ASSUME Init PROVE IInv
  OBVIOUS
<1>1. TypeOK
  BY Fetches DEF Init, TypeOK, FirstStep, Settings
<1>2. Seconds(s.timeout) \in Nat /\ FetchLimit \in 0 .. 780
  BY <1>1, SecondsNat, FetchLimitBound DEF TypeOK, Settings
<1>3. FitsChart
  BY DEF Init, FitsChart, FirstStep, Settings, HelmSteps
<1>4. OnTime
  BY <1>2, Fetches DEF Init, OnTime, FirstStep, Before
<1>5. EndsInTime
  BY <1>2, RunTimeAssumption DEF Init, EndsInTime
<1>6. QED
  BY <1>1, <1>3, <1>4, <1>5 DEF IInv

LEMMA FetchIInv ==
  ASSUME IInv, Fetch
  PROVE  IInv'
<1>1. PICK d \in Delays : d < Limit[pc] /\ now' = now + d /\ s' = s
  BY DEF Fetch, Spend
<1>2. pc \in FetchSteps /\ pc' \in After(pc) \union {"failed"} /\ UNCHANGED <<started, timer>>
  BY DEF Fetch
<1>3. d \in Nat /\ now \in Nat /\ started \in Nat /\ started <= now
  BY RunTimeAssumption DEF IInv, TypeOK
<1>4. TypeOK'
  <2>1. pc' \in FetchSteps \union {"prepare", "failed"}
    BY <1>2, Fetches DEF After
  <2>2. now + d \in Nat /\ started <= now + d
    BY <1>3
  <2>3. QED
    BY <1>1, <1>2, <1>3, <2>1, <2>2, TypeParts, TypeStep DEF IInv, Pcs, Ended
<1>5. FitsChart'
  BY <1>1, <1>2, Fetches DEF IInv, FitsChart, After
<1>6. FetchLimit \in 0 .. 780 /\ FetchLimit' = FetchLimit /\ Seconds(s.timeout) \in Nat
  BY <1>1, FetchLimitBound, SecondsNat DEF IInv, TypeOK, Settings, FetchLimit
<1>7. /\ pc' \in FetchSteps \union {"prepare", "failed"}
      /\ pc' \in FetchSteps => now' <= Before(pc')
      /\ now' <= FetchLimit
  BY <1>1, <1>2, <1>3, Fetches DEF IInv, FitsChart, OnTime, After, Before, FetchLimit, Limit
<1>8. OnTime'
  <2>1. pc' \in FetchSteps => now' <= Before(pc)'
    BY <1>1, <1>6, <1>7 DEF Before
  <2>2. pc' = "prepare" => s'.action # "rollback"
    BY <1>1, <1>2, Fetches DEF IInv, FitsChart
  <2>3. QED
    BY <1>6, <1>7, <2>1, <2>2, Fetches DEF OnTime
<1>9. EndsInTime'
  BY <1>1, <1>3, <1>6, <1>7, RunTimeAssumption DEF EndsInTime
<1>10. QED
  BY <1>4, <1>5, <1>8, <1>9 DEF IInv

LEMMA FetchTimesOutIInv ==
  ASSUME IInv, FetchTimesOut
  PROVE  IInv'
<1>1. /\ pc \in FetchSteps /\ pc' = "failed" /\ now' = now + Limit[pc] /\ s' = s
      /\ UNCHANGED <<started, timer>>
  BY DEF FetchTimesOut, Spend
<1>2. now \in Nat /\ started \in Nat /\ started <= now /\ Limit[pc] \in Nat
  BY <1>1, LimitNat DEF IInv, TypeOK
<1>3. TypeOK'
  <2>1. now + Limit[pc] \in Nat /\ started <= now + Limit[pc]
    BY <1>2
  <2>2. QED
    BY <1>1, <1>2, <2>1, TypeParts, TypeStep DEF IInv, Pcs, Ended
<1>4. FitsChart' /\ OnTime'
  BY <1>1, Fetches DEF FitsChart, OnTime
<1>5. FetchLimit' = FetchLimit /\ Seconds(s.timeout) \in Nat
  BY <1>1, SecondsNat DEF IInv, TypeOK, Settings, FetchLimit
<1>6. now' <= FetchLimit
  BY <1>1, <1>2, Fetches DEF IInv, FitsChart, OnTime, Before, FetchLimit, Limit
<1>7. EndsInTime'
  <2>1. now' \in Nat /\ FetchLimit \in 0 .. 780 /\ Local \in Nat
    BY <1>1, <1>2, RunTimeAssumption, FetchLimitBound DEF IInv
  <2>2. QED
    BY <1>1, <1>5, <1>6, <2>1 DEF EndsInTime
<1>8. QED
  BY <1>3, <1>4, <1>7 DEF IInv

LEMMA PrepareIInv ==
  ASSUME IInv, Prepare
  PROVE  IInv'
<1>1. PICK d \in Delays : d <= Local /\ now' = now + d /\ s' = s
  BY DEF Prepare, Spend
<1>2. pc = "prepare" /\ d \in Nat /\ now \in Nat /\ started \in Nat /\ started <= now
      /\ Local \in Nat /\ s \in Settings
  BY RunTimeAssumption DEF Prepare, IInv, TypeOK
<1>3. FetchLimit \in 0 .. 780 /\ FetchLimit' = FetchLimit /\ Seconds(s.timeout) \in Nat
  BY <1>1, FetchLimitBound, SecondsNat DEF IInv, TypeOK, Settings, FetchLimit
<1>4. \/ pc' \in {"failed", "refused"} /\ started' \in {started, now'} /\ UNCHANGED timer
      \/ /\ s.action # "rollback" /\ pc' = s.action /\ started' = now'
         /\ Valid(s.timeout) /\ timer' = Seconds(s.timeout)
      \/ s.action = "rollback" /\ pc' = "history" /\ started' = now' /\ UNCHANGED timer
  BY DEF Prepare, Start
<1>5. now' \in Nat /\ started' \in Nat /\ started' <= now'
  BY <1>1, <1>2, <1>4
<1>6. s.action \in HelmSteps
  BY <1>2 DEF Settings
<1>7. TypeOK'
  BY <1>1, <1>3, <1>4, <1>5, <1>6, TypeParts, TypeStep DEF IInv, Pcs, Ended
<1>8. FitsChart'
  BY <1>1, <1>4, <1>6 DEF FitsChart, HelmSteps
<1>9. /\ s.action # "rollback" => now' <= FetchLimit + Local
      /\ s.action = "rollback" => now' <= Local
  BY <1>1, <1>2, <1>3 DEF IInv, OnTime
<1>10. OnTime'
  BY <1>1, <1>3, <1>4, <1>6, <1>9, Fetches DEF OnTime, HelmSteps
<1>11. EndsInTime'
  BY <1>1, <1>3, <1>5, <1>9, RunTimeAssumption DEF EndsInTime
<1>12. QED
  BY <1>7, <1>8, <1>10, <1>11 DEF IInv

LEMMA HistoryIInv ==
  ASSUME IInv, History
  PROVE  IInv'
<1>1. PICK d \in Delays : now' = now + d /\ s' = s
  BY DEF History, Spend
<1>2. /\ pc = "history" /\ s.action = "rollback"
      /\ d \in Nat /\ now \in Nat /\ started \in Nat /\ started <= now
  BY RunTimeAssumption DEF History, IInv, TypeOK, FitsChart
<1>3. Seconds(s.timeout) \in Nat
  BY SecondsNat DEF IInv, TypeOK, Settings
<1>4. /\ pc' \in {"failed", "refused", "rollback"}
      /\ started' \in {started, now'} /\ timer' \in {timer, Seconds(s.timeout)}
  BY DEF History, Start
<1>5. now' \in Nat /\ started' \in Nat /\ started' <= now'
  BY <1>1, <1>2, <1>4
<1>6. TypeOK'
  BY <1>1, <1>3, <1>4, <1>5, TypeParts, TypeStep DEF IInv, Pcs, Ended, HelmSteps
<1>7. FitsChart' /\ OnTime' /\ EndsInTime'
  BY <1>1, <1>2, <1>4, Fetches DEF FitsChart, OnTime, EndsInTime
<1>8. QED
  BY <1>6, <1>7 DEF IInv

LEMMA HelmIInv ==
  ASSUME IInv, Helm \/ HelmTimesOut
  PROVE  IInv'
<1>1. PICK d \in Nat : d <= timer /\ now' = now + d /\ s' = s
  <2>1. CASE Helm
    <3>1. PICK d \in Delays : d < timer /\ now' = now + d /\ s' = s
      BY <2>1 DEF Helm, Spend
    <3>2. d \in Nat /\ timer \in Nat
      BY RunTimeAssumption, TypeParts DEF IInv
    <3>3. d <= timer
      BY <3>1, <3>2
    <3>4. QED
      BY <3>1, <3>2, <3>3
  <2>2. CASE HelmTimesOut
    <3>1. timer \in Nat /\ timer <= timer
      BY TypeParts DEF IInv
    <3>2. QED
      BY <2>2, <3>1 DEF HelmTimesOut, Spend
  <2>3. QED
    BY <2>1, <2>2
<1>2. /\ pc \in HelmSteps /\ pc' \in Ended /\ UNCHANGED <<started, timer>>
      /\ now \in Nat /\ started \in Nat /\ started <= now
  BY TypeParts DEF Helm, HelmTimesOut, IInv, Ended
<1>3. FetchLimit \in 0 .. 780 /\ FetchLimit' = FetchLimit /\ Seconds(s.timeout) \in Nat
  BY <1>1, FetchLimitBound, SecondsNat DEF IInv, TypeOK, Settings, FetchLimit
<1>4. now' \in Nat /\ started' \in Nat /\ started' <= now'
  BY <1>1, <1>2
<1>5. TypeOK'
  BY <1>1, <1>2, <1>4, TypeParts, TypeStep DEF IInv, Pcs
<1>6. FitsChart' /\ OnTime'
  BY <1>2, Fetches DEF FitsChart, OnTime, Ended
<1>7. EndsInTime'
  <2>1. CASE pc = "rollback"
    BY <1>1, <2>1 DEF IInv, FitsChart, EndsInTime
  <2>2. CASE pc # "rollback"
    <3>1. /\ pc \in {"upgrade", "diff"} /\ now <= FetchLimit + Local
          /\ Valid(s.timeout) /\ timer = Seconds(s.timeout)
      BY <1>2, <2>2 DEF HelmSteps, IInv, OnTime
    <3>2. now' <= FetchLimit + Local + Seconds(s.timeout)
      BY <1>1, <1>2, <1>3, <3>1, RunTimeAssumption
    <3>3. QED
      BY <1>1, <1>3, <3>1, <3>2 DEF EndsInTime
  <2>3. QED
    BY <2>1, <2>2
<1>8. QED
  BY <1>5, <1>6, <1>7 DEF IInv

LEMMA NextIInv ==
  ASSUME IInv, [Next]_vars
  PROVE  IInv'
<1>1. CASE UNCHANGED vars
  BY <1>1 DEF IInv, TypeOK, FitsChart, OnTime, Before, EndsInTime, FetchLimit, vars
<1>2. QED
  BY <1>1, FetchIInv, FetchTimesOutIInv, PrepareIInv, HistoryIInv, HelmIInv DEF Next

LEMMA Invariant == Spec => []IInv
BY InitIInv, NextIInv, PTL DEF Spec

\* Type correctness, for every TIMEOUT.
THEOREM TypeCorrect == Spec => []TypeOK
<1>1. IInv => TypeOK
  BY DEF IInv
<1>2. QED
  BY <1>1, Invariant, PTL

\* An upgrade or diff ends within the limits of its steps, for every TIMEOUT.
THEOREM RunsEndInTime == Spec => []EndsInTime
<1>1. IInv => EndsInTime
  BY DEF IInv
<1>2. QED
  BY <1>1, Invariant, PTL

\* If the local work takes less than two minutes, helm upgrade, diff and history
\* start with a token that is still accepted, however slowly the chart came.
THEOREM TokenIsLive ==
  ASSUME Local < 120 PROVE Spec => []StartsWithLiveToken
<1>1. IInv => StartsWithLiveToken
  <2> SUFFICES ASSUME IInv PROVE StartsWithLiveToken
    OBVIOUS
  <2>1. started \in Nat /\ FetchLimit \in 0 .. 780 /\ Local \in Nat
    BY RunTimeAssumption, FetchLimitBound, TypeParts DEF IInv
  <2>2. pc \in {"upgrade", "diff", "history"} => started <= 780 + Local
    BY <2>1 DEF IInv, OnTime
  <2>3. QED
    BY <2>1, <2>2 DEF StartsWithLiveToken, TokenLife
<1>2. QED
  BY <1>1, Invariant, PTL

-----------------------------------------------------------------------------
\* Durations: what the pipe and what helm make of TIMEOUT

Weight == [h |-> 3600, m |-> 60, s |-> 1]

\* f holds the sums of the first components of d.
IsSum(f, d) ==
  f = [i \in 0 .. Len(d) |-> IF i = 0 THEN 0 ELSE f[i - 1] + d[i][1] * Weight[d[i][2]]]

\* helm's sum, if there is one at all: a recursive definition chooses a function.
LEMMA HelmSumIsChosen ==
  ASSUME NEW d, NEW g, IsSum(g, d)
  PROVE  \E f : IsSum(f, d) /\ HelmSeconds(d) = f[Len(d)]
<1> DEFINE F == CHOOSE f : IsSum(f, d)
<1>1. IsSum(F, d)
  OBVIOUS
<1>2. HelmSeconds(d) = F[Len(d)]
  BY DEF HelmSeconds, IsSum, Weight
<1>3. QED
  BY <1>1, <1>2

LEMMA Component ==
  ASSUME NEW d \in Seq(Nat \X Units), NEW i \in 1 .. Len(d)
  PROVE  d[i][1] \in Nat /\ d[i][2] \in Units
OBVIOUS

LEMMA UpToThree ==
  /\ \A n \in Nat : ~(n > 3) => n \in 0 .. 3
  /\ \A n \in 0 .. 3 : \A i \in 0 .. n : i \in {0, 1, 2, 3}
OBVIOUS

\* Each unit once, and there are three of them.
LEMMA AtMostThree ==
  ASSUME NEW d \in Seq(Nat \X Units), Matches(d)
  PROVE  Len(d) \in 0 .. 3
<1>1. ASSUME Len(d) > 3 PROVE FALSE
  <2>1. 1 \in DOMAIN d /\ 2 \in DOMAIN d /\ 3 \in DOMAIN d /\ 4 \in DOMAIN d
    BY <1>1
  <2>2. /\ <<d[1][2], d[2][2]>> \in {<<"h", "m">>, <<"h", "s">>, <<"m", "s">>}
        /\ <<d[2][2], d[3][2]>> \in {<<"h", "m">>, <<"h", "s">>, <<"m", "s">>}
        /\ <<d[3][2], d[4][2]>> \in {<<"h", "m">>, <<"h", "s">>, <<"m", "s">>}
    BY <2>1 DEF Matches
  <2>3. QED
    BY <2>2
<1>2. Len(d) \in Nat
  OBVIOUS
<1>3. ~(Len(d) > 3)
  BY <1>1
<1>4. QED
  BY <1>2, <1>3, UpToThree

\* A named group has matched the component with its unit, if there is one.
LEMMA GroupOfComponent ==
  ASSUME NEW d \in Seq(Nat \X Units), Matches(d), NEW i \in 1 .. Len(d)
  PROVE  Group(d, d[i][2]) = d[i][1]
<1>1. DOMAIN d = 1 .. Len(d)
  OBVIOUS
<1>2. ASSUME NEW j \in DOMAIN d, d[j][2] = d[i][2] PROVE j = i
  <2>1. ~(i < j)
    BY <1>1, <1>2 DEF Matches
  <2>2. ~(j < i)
    BY <1>1, <1>2 DEF Matches
  <2>3. QED
    BY <1>1, <2>1, <2>2
<1>3. (CHOOSE j \in DOMAIN d : d[j][2] = d[i][2]) = i
  BY <1>1, <1>2
<1>4. QED
  BY <1>1, <1>3 DEF Group

LEMMA GroupOfNone ==
  ASSUME NEW d, NEW u, \A i \in DOMAIN d : d[i][2] # u
  PROVE  Group(d, u) = 0
BY DEF Group

\* Durations with at most three components have a sum, and it is this one.
LEMMA HelmSum ==
  ASSUME NEW d \in Seq(Nat \X Units), Len(d) \in 0 .. 3
  PROVE  LET W(i) == d[i][1] * Weight[d[i][2]]
         IN  /\ Len(d) = 0 => HelmSeconds(d) = 0
             /\ Len(d) = 1 => HelmSeconds(d) = W(1)
             /\ Len(d) = 2 => HelmSeconds(d) = W(1) + W(2)
             /\ Len(d) = 3 => HelmSeconds(d) = W(1) + W(2) + W(3)
<1> DEFINE W(i) == d[i][1] * Weight[d[i][2]]
           g == [i \in 0 .. Len(d) |-> IF i = 0 THEN 0 ELSE IF i = 1 THEN W(1)
                                       ELSE IF i = 2 THEN W(1) + W(2)
                                       ELSE W(1) + W(2) + W(3)]
<1>1. \A i \in 1 .. Len(d) : W(i) \in Nat
  <2> SUFFICES ASSUME NEW i \in 1 .. Len(d) PROVE W(i) \in Nat
    OBVIOUS
  <2>1. d[i][1] \in Nat /\ d[i][2] \in Units
    BY Component
  <2>2. Weight[d[i][2]] \in {3600, 60, 1}
    BY <2>1 DEF Weight, Units
  <2>3. QED
    BY <2>1, <2>2
<1> HIDE DEF W
<1>2. IsSum(g, d)
  <2>1. ASSUME NEW i \in 0 .. Len(d) PROVE g[i] = IF i = 0 THEN 0 ELSE g[i - 1] + W(i)
    <3>1. CASE i = 0
      BY <3>1
    <3>2. CASE i = 1
      <4>1. g[0] = 0 /\ g[1] = W(1) /\ W(1) \in Nat
        BY <1>1, <3>2
      <4>2. QED
        BY <3>2, <4>1
    <3>3. CASE i = 2
      <4>1. g[1] = W(1) /\ g[2] = W(1) + W(2)
        BY <3>3
      <4>2. QED
        BY <3>3, <4>1
    <3>4. CASE i = 3
      <4>1. g[2] = W(1) + W(2) /\ g[3] = g[2] + W(3)
        BY <3>4
      <4>2. QED
        BY <3>4, <4>1
    <3>5. i \in {0, 1, 2, 3}
      BY UpToThree
    <3>6. QED
      BY <3>1, <3>2, <3>3, <3>4, <3>5
  <2>2. g = [i \in 0 .. Len(d) |-> IF i = 0 THEN 0 ELSE g[i - 1] + W(i)]
    BY <2>1
  <2>3. QED
    BY <2>2 DEF IsSum, W
<1> HIDE DEF g
<1>3. PICK f : IsSum(f, d) /\ HelmSeconds(d) = f[Len(d)]
  BY <1>2, HelmSumIsChosen
<1>4. \A i \in 0 .. Len(d) : f[i] = IF i = 0 THEN 0 ELSE f[i - 1] + W(i)
  BY <1>3 DEF IsSum, W
<1>5. Len(d) = 0 => HelmSeconds(d) = 0
  BY <1>3, <1>4
<1>6. Len(d) = 1 => HelmSeconds(d) = W(1)
  <2>1. ASSUME Len(d) = 1 PROVE f[0] = 0 /\ f[1] = f[0] + W(1) /\ W(1) \in Nat
    BY <1>1, <1>4, <2>1
  <2>2. QED
    BY <1>3, <2>1
<1>7. Len(d) = 2 => HelmSeconds(d) = W(1) + W(2)
  <2>1. ASSUME Len(d) = 2
        PROVE  /\ f[0] = 0 /\ f[1] = f[0] + W(1) /\ f[2] = f[1] + W(2)
               /\ W(1) \in Nat /\ W(2) \in Nat
    BY <1>1, <1>4, <2>1
  <2>2. QED
    BY <1>3, <2>1
<1>8. Len(d) = 3 => HelmSeconds(d) = W(1) + W(2) + W(3)
  <2>1. ASSUME Len(d) = 3
        PROVE  /\ f[0] = 0 /\ f[1] = f[0] + W(1) /\ f[2] = f[1] + W(2) /\ f[3] = f[2] + W(3)
               /\ W(1) \in Nat /\ W(2) \in Nat /\ W(3) \in Nat
    BY <1>1, <1>4, <2>1
  <2>2. QED
    BY <1>3, <2>1
<1>9. QED
  BY <1>5, <1>6, <1>7, <1>8 DEF W

\* helm adds up what the pipe's regular expression takes apart.
LEMMA SameDuration ==
  ASSUME NEW d \in Seq(Nat \X Units), Matches(d)
  PROVE  Seconds(d) = HelmSeconds(d)
<1>1. Len(d) \in 0 .. 3 /\ DOMAIN d = 1 .. Len(d)
  BY AtMostThree
<1>2. \A i \in 1 .. Len(d) : /\ Group(d, d[i][2]) = d[i][1] /\ d[i][1] \in Nat
                             /\ d[i][2] \in {"h", "m", "s"}
  BY GroupOfComponent, Component DEF Units
<1>3. \A u : (\A i \in 1 .. Len(d) : d[i][2] # u) => Group(d, u) = 0
  BY <1>1, GroupOfNone
<1>4. \A i, j \in 1 .. Len(d) : i < j =>
        <<d[i][2], d[j][2]>> \in {<<"h", "m">>, <<"h", "s">>, <<"m", "s">>}
  BY <1>1 DEF Matches
<1>5. CASE Len(d) = 0
  <2>1. Group(d, "h") = 0 /\ Group(d, "m") = 0 /\ Group(d, "s") = 0
    BY <1>3, <1>5
  <2>2. HelmSeconds(d) = 0
    BY <1>1, <1>5, HelmSum
  <2>3. QED
    BY <2>1, <2>2 DEF Seconds
<1>6. CASE Len(d) = 1
  <2> DEFINE n == d[1][1]
  <2>1. Group(d, d[1][2]) = n /\ n \in Nat /\ d[1][2] \in {"h", "m", "s"}
        /\ \A u : u # d[1][2] => Group(d, u) = 0
    BY <1>2, <1>3, <1>6
  <2>2. HelmSeconds(d) = n * Weight[d[1][2]]
    BY <1>1, <1>6, HelmSum
  <2>3. QED
    BY <2>1, <2>2 DEF Seconds, Weight
<1>7. CASE Len(d) = 2
  <2> DEFINE n == d[1][1]  m == d[2][1]
  <2>1. /\ Group(d, d[1][2]) = n /\ n \in Nat /\ Group(d, d[2][2]) = m /\ m \in Nat
        /\ <<d[1][2], d[2][2]>> \in {<<"h", "m">>, <<"h", "s">>, <<"m", "s">>}
        /\ \A u : u # d[1][2] /\ u # d[2][2] => Group(d, u) = 0
    BY <1>2, <1>3, <1>4, <1>7
  <2>2. HelmSeconds(d) = n * Weight[d[1][2]] + m * Weight[d[2][2]]
    BY <1>1, <1>7, HelmSum
  <2> HIDE DEF n, m
  <2>3. CASE d[1][2] = "h" /\ d[2][2] = "m"
    <3>1. Group(d, "h") = n /\ Group(d, "m") = m /\ Group(d, "s") = 0
      BY <2>1, <2>3
    <3>2. HelmSeconds(d) = n * Weight["h"] + m * Weight["m"]
      BY <2>2, <2>3
    <3>3. QED
      BY <2>1, <3>1, <3>2 DEF Seconds, Weight
  <2>4. CASE d[1][2] = "h" /\ d[2][2] = "s"
    <3>1. Group(d, "h") = n /\ Group(d, "s") = m /\ Group(d, "m") = 0
      BY <2>1, <2>4
    <3>2. HelmSeconds(d) = n * Weight["h"] + m * Weight["s"]
      BY <2>2, <2>4
    <3>3. QED
      BY <2>1, <3>1, <3>2 DEF Seconds, Weight
  <2>5. CASE d[1][2] = "m" /\ d[2][2] = "s"
    <3>1. Group(d, "m") = n /\ Group(d, "s") = m /\ Group(d, "h") = 0
      BY <2>1, <2>5
    <3>2. HelmSeconds(d) = n * Weight["m"] + m * Weight["s"]
      BY <2>2, <2>5
    <3>3. QED
      BY <2>1, <3>1, <3>2 DEF Seconds, Weight
  <2>6. QED
    BY <2>1, <2>3, <2>4, <2>5
<1>8. CASE Len(d) = 3
  <2> DEFINE n == d[1][1]  m == d[2][1]  k == d[3][1]
  <2>1. d[1][2] = "h" /\ d[2][2] = "m" /\ d[3][2] = "s"
    BY <1>4, <1>8
  <2>2. /\ Group(d, "h") = n /\ Group(d, "m") = m /\ Group(d, "s") = k
        /\ n \in Nat /\ m \in Nat /\ k \in Nat
    BY <1>2, <1>8, <2>1
  <2>3. HelmSeconds(d) = n * Weight["h"] + m * Weight["m"] + k * Weight["s"]
    BY <1>1, <1>8, <2>1, HelmSum
  <2> HIDE DEF n, m, k
  <2>4. QED
    BY <2>2, <2>3 DEF Seconds, Weight
<1>9. QED
  BY <1>1, <1>5, <1>6, <1>7, <1>8

\* helm is only started with a TIMEOUT that _parse_timeout has accepted.
TimerIsParsed ==
  s \in Settings /\ (pc \in HelmSteps => Valid(s.timeout) /\ timer = Seconds(s.timeout))

LEMMA NextTimerIsParsed == TimerIsParsed /\ [Next]_vars => TimerIsParsed'
<1> SUFFICES ASSUME TimerIsParsed, [Next]_vars PROVE TimerIsParsed'
  OBVIOUS
<1>1. s' = s
  BY DEF Next, vars, Fetch, FetchTimesOut, Prepare, History, Helm, HelmTimesOut, Spend
<1>2. CASE UNCHANGED vars \/ Helm \/ HelmTimesOut
  BY <1>1, <1>2 DEF TimerIsParsed, vars, Helm, HelmTimesOut, HelmSteps
<1>3. CASE Fetch \/ FetchTimesOut
  <2>1. pc' \notin HelmSteps
    BY <1>3, Fetches DEF Fetch, FetchTimesOut, After, HelmSteps
  <2>2. QED
    BY <1>1, <2>1 DEF TimerIsParsed
<1>4. CASE Prepare \/ History
  <2>1. pc' \in HelmSteps => \E command \in HelmSteps : Start(command)
    BY <1>4 DEF Prepare, History, TimerIsParsed, Settings, HelmSteps
  <2>2. QED
    BY <1>1, <2>1 DEF TimerIsParsed, Start, HelmSteps
<1>5. QED
  BY <1>2, <1>3, <1>4 DEF Next

\* The timer of the helm process is the duration that helm takes TIMEOUT for,
\* for every TIMEOUT of any number of components, in any order, with any numbers.
\* (TimersAgree; _parse_timeout)
THEOREM TimersAreOne == Spec => []TimersAgree
<1>1. Init => TimerIsParsed
  BY Fetches DEF Init, TimerIsParsed, FirstStep, HelmSteps
<1>2. TimerIsParsed => TimersAgree
  <2> SUFFICES ASSUME TimerIsParsed, pc \in HelmSteps PROVE timer = HelmSeconds(s.timeout)
    BY DEF TimersAgree
  <2>1. s.timeout \in Seq(Nat \X Units) /\ Matches(s.timeout) /\ timer = Seconds(s.timeout)
    BY RunTimeAssumption DEF TimerIsParsed, Settings, Valid
  <2>2. QED
    BY <2>1, SameDuration
<1>3. QED
  BY <1>1, <1>2, NextTimerIsParsed, PTL DEF Spec
=============================================================================
