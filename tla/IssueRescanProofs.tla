-------------------------- MODULE IssueRescanProofs --------------------------
(***************************************************************************)
(* For any number of branches, tags, images and CVEs: how many issues a    *)
(* finding can have.                                                       *)
(***************************************************************************)
EXTENDS IssueRescan, TLAPS

\* What a job may still create, with what is open, stays within the report.
Budget ==
  \A j \in Jobs, c \in CVEs :
    /\ todo[j][c] <= Packages[c]
    /\ pc[j] = "create" /\ todo[j][c] > 0 =>
         open[j[1]][TitleOf(j, c)] + todo[j][c] <= Packages[c]

\* A job gets past the probe only if its tag is published, and stays published.
Published ==
  \A j \in Jobs : pc[j] \in {"scan", "upload", "resolve"} => manifest[Tag(j)] \in Digests

TypeInv == TypeOK /\ Published

CountInv == TypeInv /\ Budget /\ DuplicatesBounded

LEMMA JobFacts ==
  ASSUME NEW j \in Jobs
  PROVE  j[1] \in Refs /\ Tag(j) \in Tags /\ j = <<j[1], Tag(j)>>
BY DEF Jobs, Tag

\* A job that is at its loop has a digest, so its titles are titles.
LEMMA TitleFacts ==
  ASSUME TypeOK, NEW j \in Jobs, NEW c \in CVEs, pc[j] \in {"list", "create"}
  PROVE  digest[j] \in Digests /\ TitleOf(j, c) \in Titles /\ TitleOf(j, c)[3] = c
<1>1. digest[j] \in Digests /\ Tag(j) \in Tags
  BY JobFacts DEF TypeOK
<1>2. QED
  BY <1>1 DEF TitleOf, Titles

LEMMA NothingFacts == Nothing \in [CVEs -> Nat] /\ \A c \in CVEs : Nothing[c] = 0
BY DEF Nothing

\* The end of a job leaves nothing behind.
LEMMA EndType ==
  ASSUME TypeOK, NEW j \in Jobs, End(j)
  PROVE  /\ pc' \in [Jobs -> {"idle", "probe", "scan", "upload", "resolve", "list", "create"}]
         /\ todo' \in [Jobs -> [CVEs -> Nat]]
         /\ digest' \in [Jobs -> Digests \union {Absent}]
         /\ \A k \in Jobs : digest'[k] = Absent <=> pc'[k] \notin {"list", "create"}
         /\ \A k \in Jobs : k # j => pc'[k] = pc[k] /\ todo'[k] = todo[k] /\ digest'[k] = digest[k]
         /\ pc'[j] = "idle" /\ todo'[j] = Nothing
BY NothingFacts DEF TypeOK, End, Goto

LEMMA UnlistedFacts ==
  ASSUME TypeOK, NEW j \in Jobs
  PROVE  /\ Unlisted(j) \in [CVEs -> Nat]
         /\ \A c \in CVEs : /\ Unlisted(j)[c] <= todo[j][c]
                            /\ Unlisted(j)[c] > 0 => /\ ~IsOpen(TitleOf(j, c))
                                                     /\ todo[j][c] > 0
BY DEF TypeOK, Unlisted

LEMMA OpenChange ==
  ASSUME TypeOK, NEW r \in Refs, NEW i \in Titles, NEW n \in Nat,
         open' = [open EXCEPT ![r] = [open[r] EXCEPT ![i] = n]]
  PROVE  /\ open' \in [Refs -> [Titles -> Nat]]
         /\ open'[r][i] = n
         /\ \A q \in Refs, k \in Titles : <<q, k>> # <<r, i>> => open'[q][k] = open[q][k]
<1>1. open \in [Refs -> [Titles -> Nat]]
  BY DEF TypeOK
<1>2. [open[r] EXCEPT ![i] = n] \in [Titles -> Nat]
  BY <1>1
<1>3. open' \in [Refs -> [Titles -> Nat]]
  BY <1>1, <1>2
<1>4. QED
  BY <1>1, <1>3

LEMMA CreateOpens ==
  ASSUME TypeOK, NEW j \in Jobs, NEW c \in CVEs, Create(j, c)
  PROVE  /\ open' \in [Refs -> [Titles -> Nat]]
         /\ open'[j[1]][TitleOf(j, c)] = open[j[1]][TitleOf(j, c)] + 1
         /\ \A q \in Refs, k \in Titles :
              <<q, k>> # <<j[1], TitleOf(j, c)>> => open'[q][k] = open[q][k]
<1>1. j[1] \in Refs /\ TitleOf(j, c) \in Titles
  BY JobFacts, TitleFacts DEF Create
<1>2. open[j[1]][TitleOf(j, c)] + 1 \in Nat
  BY <1>1 DEF TypeOK
<1>3. open' = [open EXCEPT ![j[1]] =
                 [open[j[1]] EXCEPT ![TitleOf(j, c)] = open[j[1]][TitleOf(j, c)] + 1]]
  BY DEF Create
<1>4. QED
  BY <1>1, <1>2, <1>3, OpenChange

LEMMA CloseOpens ==
  ASSUME TypeOK, NEW i \in Titles, Close(i)
  PROVE  /\ open' \in [Refs -> [Titles -> Nat]]
         /\ \A q \in Refs, k \in Titles : open'[q][k] <= open[q][k]
<1>1. PICK r \in Refs : open[r][i] > 0 /\ open' = [open EXCEPT ![r][i] = @ - 1]
  BY DEF Close
<1>2. open \in [Refs -> [Titles -> Nat]] /\ open[r][i] - 1 \in Nat
  BY <1>1 DEF TypeOK
<1>3. open' = [open EXCEPT ![r] = [open[r] EXCEPT ![i] = open[r][i] - 1]]
  BY <1>1
<1>4. /\ open' \in [Refs -> [Titles -> Nat]]
      /\ open'[r][i] = open[r][i] - 1
      /\ \A q \in Refs, k \in Titles : <<q, k>> # <<r, i>> => open'[q][k] = open[q][k]
  BY <1>2, <1>3, OpenChange
<1>5. ASSUME NEW q \in Refs, NEW k \in Titles PROVE open'[q][k] <= open[q][k]
  <2>1. CASE q = r /\ k = i
    BY <1>2, <1>4, <2>1
  <2>2. CASE <<q, k>> # <<r, i>>
    BY <1>2, <1>4, <2>2
  <2>3. QED
    BY <2>1, <2>2
<1>6. QED
  BY <1>4, <1>5

LEMMA InitType == Init => TypeInv
BY NothingFacts, IssueRescanAssumption DEF Init, TypeInv, TypeOK, Published, Jobs

LEMMA TypeStep == TypeInv /\ [Next]_vars => TypeInv'
<1> SUFFICES ASSUME TypeInv, [Next]_vars PROVE TypeInv'
  OBVIOUS
<1> USE DEF TypeInv
<1>1. ASSUME NEW r \in Refs, Start(r) PROVE TypeInv'
  <2>1. \A j \in Jobs : j[1] = r => pc[j] = "idle"
    BY <1>1, JobFacts DEF Start
  <2>2. TypeOK'
    BY <1>1, <2>1 DEF TypeOK, Start, world
  <2>3. Published'
    BY <1>1 DEF TypeOK, Published, Start, world
  <2>4. QED
    BY <2>2, <2>3
<1>2. ASSUME NEW j \in Jobs, Probe(j) PROVE TypeInv'
  <2>1. TypeOK'
    BY <1>2 DEF TypeOK, Probe, Goto, world
  <2>2. manifest[Tag(j)] \in Digests
    BY <1>2, JobFacts DEF TypeOK, Probe
  <2>3. Published'
    BY <1>2, <2>2 DEF TypeOK, Published, Probe, Goto, world
  <2>4. QED
    BY <2>1, <2>3
<1>3. ASSUME NEW j \in Jobs, Scan(j) PROVE TypeInv'
  <2>1. [c \in CVEs |-> IF c \in vulns[manifest[Tag(j)]] THEN Packages[c] ELSE 0] \in [CVEs -> Nat]
    BY IssueRescanAssumption
  <2>2. todo' \in [Jobs -> [CVEs -> Nat]]
    BY <1>3, <2>1 DEF Scan, TypeOK
  <2>3. TypeOK'
    <3>1. pc' = [pc EXCEPT ![j] = "upload"] /\ pc[j] = "scan"
      BY <1>3 DEF Scan, Goto
    <3>2. UNCHANGED <<manifest, vulns, open, digest>>
      BY <1>3 DEF Scan, world
    <3>3. QED
      BY <2>2, <3>1, <3>2 DEF TypeOK
  <2>4. Published'
    BY <1>3 DEF TypeOK, Published, Scan, Goto, world
  <2>5. QED
    BY <2>3, <2>4
<1>4. ASSUME NEW j \in Jobs, Upload(j) PROVE TypeInv'
  <2>1. TypeOK'
    BY <1>4 DEF TypeOK, Upload, Goto, world
  <2>2. Published'
    BY <1>4 DEF TypeOK, Published, Upload, Goto, world
  <2>3. QED
    BY <2>1, <2>2
<1>5. ASSUME NEW j \in Jobs, End(j), UNCHANGED <<world, open>> PROVE TypeInv'
  <2>1. TypeOK'
    BY <1>5, EndType DEF TypeOK, world
  <2>2. Published'
    BY <1>5, EndType DEF Published, world
  <2>3. QED
    BY <2>1, <2>2
<1>6. ASSUME NEW j \in Jobs, Resolve(j) PROVE TypeInv'
  <2>1. CASE End(j)
    BY <1>5, <1>6, <2>1 DEF Resolve
  <2>2. CASE digest' = [digest EXCEPT ![j] = manifest[Tag(j)]] /\ Goto(j, "list") /\ UNCHANGED todo
    <3>1. manifest[Tag(j)] \in Digests /\ manifest[Tag(j)] # Absent
      BY <1>6, IssueRescanAssumption DEF Published, Resolve
    <3>2. TypeOK'
      BY <1>6, <2>2, <3>1 DEF TypeOK, Resolve, Goto, world
    <3>3. Published'
      BY <1>6, <2>2 DEF TypeOK, Published, Resolve, Goto, world
    <3>4. QED
      BY <3>2, <3>3
  <2>3. QED
    BY <1>6, <2>1, <2>2 DEF Resolve
<1>7. ASSUME NEW j \in Jobs, List(j) PROVE TypeInv'
  <2>1. CASE End(j)
    BY <1>5, <1>7, <2>1 DEF List
  <2>2. CASE todo' = [todo EXCEPT ![j] = Unlisted(j)] /\ Goto(j, "create") /\ UNCHANGED digest
    <3>1. TypeOK'
      BY <1>7, <2>2, UnlistedFacts DEF TypeOK, List, Goto, world
    <3>2. Published'
      BY <1>7, <2>2 DEF TypeOK, Published, List, Goto, world
    <3>3. QED
      BY <3>1, <3>2
  <2>3. QED
    BY <1>7, <2>1, <2>2 DEF List
<1>8. ASSUME NEW j \in Jobs, NEW c \in CVEs, Create(j, c) PROVE TypeInv'
  <2>1. open' \in [Refs -> [Titles -> Nat]]
    BY <1>8, CreateOpens
  <2>2. CASE End(j)
    <3>1. TypeOK'
      BY <1>8, <2>1, <2>2, EndType DEF TypeOK, Create, world
    <3>2. Published'
      BY <1>8, <2>2, EndType DEF Published, Create, world
    <3>3. QED
      BY <3>1, <3>2
  <2>3. CASE todo' = [todo EXCEPT ![j] = [todo[j] EXCEPT ![c] = @ - 1]] /\ UNCHANGED <<pc, digest>>
    <3>1. todo' \in [Jobs -> [CVEs -> Nat]]
      BY <1>8, <2>3 DEF TypeOK, Create
    <3>2. TypeOK' /\ Published'
      BY <1>8, <2>1, <2>3, <3>1 DEF TypeOK, Published, Create, world
    <3>3. QED
      BY <3>2
  <2>4. QED
    BY <1>8, <2>2, <2>3 DEF Create
<1>9. ASSUME NEW t \in Tags, Move(t) PROVE TypeInv'
  <2>1. TypeOK'
    BY <1>9 DEF TypeOK, Move
  <2>2. Published'
    BY <1>9, JobFacts DEF TypeOK, Published, Move
  <2>3. QED
    BY <2>1, <2>2
<1>10. ASSUME NEW d \in Digests, Learn(d) PROVE TypeInv'
  BY <1>10 DEF TypeOK, Published, Learn
<1>11. ASSUME NEW i \in Titles, Close(i) PROVE TypeInv'
  <2>1. open' \in [Refs -> [Titles -> Nat]]
    BY <1>11, CloseOpens
  <2>2. QED
    BY <1>11, <2>1 DEF TypeOK, Published, Close, world
<1>12. CASE UNCHANGED vars
  BY <1>12 DEF TypeOK, Published, vars
<1>13. QED
  BY <1>1, <1>2, <1>3, <1>4, <1>5, <1>6, <1>7, <1>8, <1>9, <1>10, <1>11, <1>12
  DEF Next, Job, Stop

\* Type correctness of the workflow, the registry and the issues.
THEOREM TypeCorrect == Spec => []TypeOK
<1>1. Spec => []TypeInv
  BY InitType, TypeStep, PTL DEF Spec
<1>2. TypeInv => TypeOK
  BY DEF TypeInv
<1>3. QED
  BY <1>1, <1>2, PTL

-----------------------------------------------------------------------------
(* How many issues *)

LEMMA InitCount == Init => CountInv
<1>1. ASSUME Init PROVE Budget /\ DuplicatesBounded
  BY <1>1, NothingFacts, IssueRescanAssumption
  DEF Init, Budget, DuplicatesBounded, Titles
<1>2. QED
  BY <1>1, InitType DEF CountInv

\* What matters of a step that makes no issue: nothing grows.
LEMMA CountMonotone ==
  ASSUME CountInv, TypeInv',
         \A r \in Refs, i \in Titles : open'[r][i] <= open[r][i],
         \A j \in Jobs : \/ pc'[j] = pc[j] /\ digest'[j] = digest[j] /\ todo'[j] = todo[j]
                         \/ pc'[j] # "create" /\ \A c \in CVEs : todo'[j][c] <= Packages[c]
  PROVE  CountInv'
<1>0. IssueRescanAssumption
  BY IssueRescanAssumption
<1>1. DuplicatesBounded'
  BY <1>0 DEF CountInv, TypeInv, TypeOK, DuplicatesBounded, Titles, IssueRescanAssumption
<1>2. ASSUME NEW j \in Jobs, NEW c \in CVEs
      PROVE  /\ todo'[j][c] <= Packages[c]
             /\ pc'[j] = "create" /\ todo'[j][c] > 0 =>
                  open'[j[1]][TitleOf(j, c)'] + todo'[j][c] <= Packages[c]
  <2>1. todo[j][c] <= Packages[c]
    BY DEF CountInv, Budget
  <2>2. CASE pc'[j] # "create" /\ \A b \in CVEs : todo'[j][b] <= Packages[b]
    BY <2>2
  <2>3. CASE pc'[j] = pc[j] /\ digest'[j] = digest[j] /\ todo'[j] = todo[j]
    <3>1. SUFFICES ASSUME pc[j] = "create", todo[j][c] > 0
                   PROVE  open'[j[1]][TitleOf(j, c)'] + todo[j][c] <= Packages[c]
      BY <2>1, <2>3
    <3>2. TitleOf(j, c)' = TitleOf(j, c)
      BY <2>3 DEF TitleOf
    <3>3. open[j[1]][TitleOf(j, c)] + todo[j][c] <= Packages[c]
      BY <3>1 DEF CountInv, Budget
    <3>4. j[1] \in Refs /\ TitleOf(j, c) \in Titles
      BY <3>1, JobFacts, TitleFacts DEF CountInv, TypeInv
    <3>5. /\ open'[j[1]][TitleOf(j, c)] <= open[j[1]][TitleOf(j, c)]
          /\ open'[j[1]][TitleOf(j, c)] \in Nat /\ open[j[1]][TitleOf(j, c)] \in Nat
          /\ todo[j][c] \in Nat /\ Packages[c] \in Nat
      BY <3>4, <1>0 DEF CountInv, TypeInv, TypeOK, IssueRescanAssumption
    <3>6. QED
      BY <3>2, <3>3, <3>5
  <2>4. QED
    BY <2>2, <2>3
<1>3. QED
  BY <1>1, <1>2 DEF CountInv, Budget

LEMMA CountCreate ==
  ASSUME CountInv, TypeInv', NEW j \in Jobs, NEW c \in CVEs, Create(j, c)
  PROVE  CountInv'
<1> DEFINE i == TitleOf(j, c)
<1>1. /\ TypeOK /\ j[1] \in Refs /\ i \in Titles /\ i[3] = c /\ pc[j] = "create"
      /\ todo[j][c] > 0
  BY JobFacts, TitleFacts DEF CountInv, TypeInv, Create
<1>2. /\ open[j[1]][i] \in Nat /\ todo[j][c] \in Nat /\ Packages[c] \in Nat
      /\ open[j[1]][i] + todo[j][c] <= Packages[c]
  BY <1>1, IssueRescanAssumption DEF TypeOK, CountInv, Budget
<1>3. /\ open'[j[1]][i] = open[j[1]][i] + 1
      /\ \A q \in Refs, k \in Titles : <<q, k>> # <<j[1], i>> => open'[q][k] = open[q][k]
  BY <1>1, CreateOpens
<1>4. DuplicatesBounded'
  <2>1. ASSUME NEW q \in Refs, NEW k \in Titles PROVE open'[q][k] <= Packages[k[3]]
    <3>1. CASE q = j[1] /\ k = i
      BY <1>1, <1>2, <1>3, <3>1
    <3>2. CASE <<q, k>> # <<j[1], i>>
      BY <1>3, <3>2 DEF CountInv, DuplicatesBounded
    <3>3. QED
      BY <3>1, <3>2
  <2>2. QED
    BY <2>1 DEF DuplicatesBounded
<1>5. /\ \A b \in CVEs : todo'[j][b] <= todo[j][b] /\ (todo'[j][b] > 0 => todo[j][b] > 0)
      /\ pc'[j] = "create" => /\ digest'[j] = digest[j] /\ todo'[j][c] = todo[j][c] - 1
                              /\ \A b \in CVEs : b # c => todo'[j][b] = todo[j][b]
      /\ \A k \in Jobs : k # j =>
           pc'[k] = pc[k] /\ todo'[k] = todo[k] /\ digest'[k] = digest[k]
  <2>1. CASE End(j)
    BY <1>1, <2>1, EndType, NothingFacts DEF TypeOK
  <2>2. CASE todo' = [todo EXCEPT ![j] = [todo[j] EXCEPT ![c] = @ - 1]] /\ UNCHANGED <<pc, digest>>
    BY <1>1, <2>2 DEF TypeOK
  <2>3. QED
    BY <2>1, <2>2 DEF Create
<1>6. ASSUME NEW k \in Jobs, NEW b \in CVEs
      PROVE  /\ todo'[k][b] <= Packages[b]
             /\ pc'[k] = "create" /\ todo'[k][b] > 0 =>
                  open'[k[1]][TitleOf(k, b)'] + todo'[k][b] <= Packages[b]
  <2>0. /\ todo[k][b] \in Nat /\ todo'[k][b] \in Nat /\ Packages[b] \in Nat
        /\ todo[k][b] <= Packages[b]
    BY IssueRescanAssumption DEF CountInv, TypeInv, TypeOK, Budget
  <2>1. todo'[k][b] <= Packages[b]
    BY <1>5, <2>0
  <2>2. SUFFICES ASSUME pc'[k] = "create", todo'[k][b] > 0
                 PROVE  open'[k[1]][TitleOf(k, b)'] + todo'[k][b] <= Packages[b]
    BY <2>1
  <2>3. pc[k] = "create" /\ todo[k][b] > 0 /\ digest'[k] = digest[k]
    BY <1>1, <1>5, <2>2
  <2>4. /\ TitleOf(k, b)' = TitleOf(k, b) /\ TitleOf(k, b) \in Titles /\ k[1] \in Refs
        /\ open[k[1]][TitleOf(k, b)] + todo[k][b] <= Packages[b]
        /\ open[k[1]][TitleOf(k, b)] \in Nat
    <3>1. TitleOf(k, b) \in Titles /\ k[1] \in Refs
      BY <1>1, <2>3, JobFacts, TitleFacts
    <3>2. QED
      BY <1>1, <2>3, <3>1 DEF CountInv, Budget, TitleOf, TypeOK
  <2>5. CASE k = j /\ b = c
    BY <1>2, <1>3, <1>5, <2>2, <2>4, <2>5
  <2>6. CASE k = j /\ b # c
    <3>1. TitleOf(k, b) # i
      BY <2>6 DEF TitleOf
    <3>2. open'[k[1]][TitleOf(k, b)] = open[k[1]][TitleOf(k, b)]
      BY <1>3, <2>4, <3>1
    <3>3. QED
      BY <1>5, <2>2, <2>4, <2>6, <3>2
  <2>7. CASE k # j
    <3>1. <<k[1], TitleOf(k, b)>> # <<j[1], i>>
      BY <2>7, JobFacts DEF TitleOf
    <3>2. open'[k[1]][TitleOf(k, b)] = open[k[1]][TitleOf(k, b)]
      BY <1>3, <2>4, <3>1
    <3>3. QED
      BY <1>5, <2>4, <2>7, <3>2
  <2>8. QED
    BY <2>5, <2>6, <2>7
<1>7. QED
  BY <1>4, <1>6 DEF CountInv, Budget

\* After its listing a job has findings left only under titles nobody has open.
LEMMA CountList ==
  ASSUME CountInv, TypeInv', NEW j \in Jobs, List(j), ~End(j)
  PROVE  CountInv'
<1>1. /\ todo' = [todo EXCEPT ![j] = Unlisted(j)] /\ pc' = [pc EXCEPT ![j] = "create"]
      /\ UNCHANGED <<digest, open>> /\ TypeOK /\ pc[j] = "list"
  BY DEF List, Goto, CountInv, TypeInv, world
<1>2. DuplicatesBounded'
  BY <1>1 DEF CountInv, DuplicatesBounded
<1>3. ASSUME NEW k \in Jobs, NEW c \in CVEs
      PROVE  /\ todo'[k][c] <= Packages[c]
             /\ pc'[k] = "create" /\ todo'[k][c] > 0 =>
                  open'[k[1]][TitleOf(k, c)'] + todo'[k][c] <= Packages[c]
  <2>0. TitleOf(k, c)' = TitleOf(k, c)
    BY <1>1 DEF TitleOf
  <2>1. CASE k = j
    <3>1. /\ todo'[k][c] = Unlisted(j)[c] /\ Unlisted(j)[c] \in Nat
          /\ Unlisted(j)[c] <= todo[j][c] /\ todo[j][c] <= Packages[c]
          /\ todo[j][c] \in Nat /\ Packages[c] \in Nat
      BY <1>1, <2>1, UnlistedFacts, IssueRescanAssumption DEF TypeOK, CountInv, Budget
    <3>2. ASSUME Unlisted(j)[c] > 0 PROVE open[j[1]][TitleOf(j, c)] = 0
      <4>1. j[1] \in Refs /\ TitleOf(j, c) \in Titles /\ ~IsOpen(TitleOf(j, c))
        BY <1>1, <3>2, JobFacts, TitleFacts, UnlistedFacts
      <4>2. QED
        BY <1>1, <4>1 DEF TypeOK, IsOpen
    <3>3. QED
      BY <1>1, <2>0, <2>1, <3>1, <3>2
  <2>2. CASE k # j
    BY <1>1, <2>0, <2>2 DEF TypeOK, CountInv, Budget
  <2>3. QED
    BY <2>1, <2>2
<1>4. QED
  BY <1>2, <1>3 DEF CountInv, Budget

LEMMA CountStep == CountInv /\ [Next]_vars => CountInv'
<1> SUFFICES ASSUME CountInv, [Next]_vars PROVE CountInv'
  OBVIOUS
<1>1. TypeInv' /\ TypeOK
  BY TypeStep DEF CountInv, TypeInv
<1>2. ASSUME open' = open,
             \A j \in Jobs : \/ pc'[j] = pc[j] /\ digest'[j] = digest[j] /\ todo'[j] = todo[j]
                             \/ pc'[j] # "create" /\ \A c \in CVEs : todo'[j][c] <= Packages[c]
      PROVE  CountInv'
  <2>1. \A r \in Refs, i \in Titles : open'[r][i] <= open[r][i]
    BY <1>1, <1>2 DEF TypeOK
  <2>2. QED
    BY <1>1, <1>2, <2>1, CountMonotone
<1>3. \A j \in Jobs, c \in CVEs :
        todo[j][c] <= Packages[c] /\ Nothing[c] <= Packages[c] /\ Packages[c] \in Nat
  BY NothingFacts, IssueRescanAssumption DEF CountInv, Budget
<1>4. ASSUME NEW r \in Refs, Start(r) PROVE CountInv'
  <2>1. \A j \in Jobs : todo'[j] = todo[j] /\ digest'[j] = digest[j]
                       /\ (pc'[j] = pc[j] \/ pc'[j] = "probe")
    BY <1>4 DEF Start
  <2>2. open' = open
    BY <1>4 DEF Start
  <2>3. QED
    BY <1>2, <1>3, <2>1, <2>2
<1>5. ASSUME NEW j \in Jobs, End(j), UNCHANGED <<world, open>> PROVE CountInv'
  BY <1>1, <1>2, <1>3, <1>5, EndType
<1>6. ASSUME NEW j \in Jobs, NEW step \in {"scan", "resolve"}, Goto(j, step),
             UNCHANGED <<world, open, todo, digest>>
      PROVE  CountInv'
  <2>1. \A k \in Jobs : pc'[k] = pc[k] \/ pc'[k] # "create"
    BY <1>1, <1>6 DEF Goto, TypeOK
  <2>2. QED
    BY <1>2, <1>3, <1>6, <2>1
<1>7. ASSUME NEW j \in Jobs, Scan(j) PROVE CountInv'
  <2>1. \A k \in Jobs : /\ k # j => pc'[k] = pc[k] /\ todo'[k] = todo[k]
                        /\ k = j => pc'[k] = "upload"
                        /\ digest'[k] = digest[k]
    BY <1>1, <1>7 DEF Scan, Goto, TypeOK
  <2>2. \A c \in CVEs : todo'[j][c] <= Packages[c]
    <3>1. ASSUME NEW c \in CVEs PROVE todo'[j][c] \in {0, Packages[c]}
      BY <1>1, <1>7 DEF Scan, TypeOK
    <3>2. QED
      BY <1>3, <3>1
  <2>3. open' = open
    BY <1>7 DEF Scan
  <2>4. QED
    BY <1>2, <2>1, <2>2, <2>3
<1>8. ASSUME NEW j \in Jobs, Resolve(j) PROVE CountInv'
  <2>1. CASE End(j)
    BY <1>5, <1>8, <2>1 DEF Resolve
  <2>2. CASE Goto(j, "list") /\ UNCHANGED todo /\ digest' = [digest EXCEPT ![j] = manifest[Tag(j)]]
    <3>1. \A k \in Jobs : /\ k # j => pc'[k] = pc[k] /\ digest'[k] = digest[k]
                          /\ k = j => pc'[k] # "create"
                          /\ todo'[k] = todo[k]
      BY <1>1, <2>2 DEF Goto, TypeOK
    <3>2. open' = open
      BY <1>8 DEF Resolve
    <3>3. QED
      BY <1>2, <1>3, <3>1, <3>2
  <2>3. QED
    BY <1>8, <2>1, <2>2 DEF Resolve
<1>9. ASSUME NEW j \in Jobs, List(j) PROVE CountInv'
  BY <1>1, <1>5, <1>9, CountList DEF List
<1>10. ASSUME NEW i \in Titles, Close(i) PROVE CountInv'
  <2>1. UNCHANGED <<pc, todo, digest>>
    BY <1>10 DEF Close
  <2>2. QED
    BY <1>1, <1>10, <2>1, CloseOpens, CountMonotone
<1>11. ASSUME UNCHANGED <<open, pc, todo, digest>> PROVE CountInv'
  BY <1>2, <1>11
<1>12. QED
  BY <1>1, <1>4, <1>5, <1>6, <1>7, <1>8, <1>9, <1>10, <1>11, CountCreate
  DEF Next, Job, Probe, Upload, Stop, Move, Learn, vars

\* However runs overlap, die and repeat each other: a branch has no more open
\* issues under a title than packages the CVE was reported for.
THEOREM IssuesAreBounded == Spec => []DuplicatesBounded
<1>1. Spec => []CountInv
  BY InitCount, CountStep, PTL DEF Spec
<1>2. CountInv => DuplicatesBounded
  BY DEF CountInv
<1>3. QED
  BY <1>1, <1>2, PTL
=============================================================================
