--------------------------- MODULE PrCommentProofs ---------------------------
(***************************************************************************)
(* A page of any length and any number of runs, in any order: the page     *)
(* shows as many diff comments at most as runs were ever in flight.        *)
(***************************************************************************)
EXTENDS PrComment, FiniteSetTheorems, TLAPS

\* A run's request comes after its look.
Protocol == \A p \in Posters : pc[p] \in {"get", "send"} => answer[p] = "none"

\* The peak is one.
PeakCovers == Cardinality(InFlight) <= peak

Shown == Marked \intersect Page

\* The runs that will make a comment, having found none, and that on the page.
Creating == {p \in Posters : Busy(p) /\ target[p] = 0 /\ Len(comments) < PageLen}

\* A comment that comes to the page takes the place of a run that was to make it.
Room == Cardinality(Shown) + Cardinality(Creating) <= peak

IInv == TypeOK /\ Protocol /\ PeakCovers /\ Room

LEMMA MarkedAppend ==
  ASSUME TypeOK, NEW text \in Comment, Len(comments) < MaxComments,
         comments' = Append(comments, text)
  PROVE  /\ comments' \in Seq(Comment) /\ Len(comments') <= MaxComments
         /\ Marked' = Marked \union (IF text \in Posters THEN {Len(comments) + 1} ELSE {})
         /\ Len(comments') = Len(comments) + 1 /\ Len(comments) \in Nat
<1>1. comments \in Seq(Comment) /\ Len(comments) \in Nat /\ MaxComments \in Nat
  BY PrCommentAssumption DEF TypeOK
<1>2. /\ comments' \in Seq(Comment) /\ Len(comments') = Len(comments) + 1
      /\ \A n \in 1 .. Len(comments) : comments'[n] = comments[n]
      /\ comments'[Len(comments) + 1] = text
  BY <1>1
<1>3. 1 .. Len(comments') = (1 .. Len(comments)) \union {Len(comments) + 1}
  BY <1>1, <1>2
<1>4. QED
  BY <1>1, <1>2, <1>3 DEF Marked, Ids

LEMMA MarkedReplace ==
  ASSUME TypeOK, NEW n \in Marked, NEW text \in Comment,
         comments' = [comments EXCEPT ![n] = text]
  PROVE  /\ comments' \in Seq(Comment) /\ Len(comments') <= MaxComments
         /\ Marked' = IF text \in Posters THEN Marked ELSE Marked \ {n}
         /\ Len(comments') = Len(comments) /\ Len(comments) \in Nat
<1>1. comments \in Seq(Comment) /\ n \in 1 .. Len(comments)
  BY DEF TypeOK, Marked, Ids
<1>2. /\ comments' \in Seq(Comment) /\ Len(comments') = Len(comments)
      /\ \A m \in 1 .. Len(comments) : comments'[m] = IF m = n THEN text ELSE comments[m]
  BY <1>1
<1>3. QED
  BY <1>1, <1>2 DEF Marked, Ids, TypeOK

LEMMA InFlightFinite == IsFiniteSet(InFlight) /\ Cardinality(InFlight) \in Nat
<1>1. InFlight \subseteq Posters
  BY DEF InFlight
<1>2. QED
  BY <1>1, FS_Subset, FS_CardinalityType, PrCommentAssumption

LEMMA PeakWithFacts ==
  ASSUME TypeOK, NEW p \in Posters
  PROVE  /\ PeakWith(p) \in Nat /\ PeakWith(p) >= peak
         /\ PeakWith(p) >= Cardinality(InFlight \union {p})
<1>1. peak \in Nat
  BY DEF TypeOK
<1>2. IsFiniteSet(InFlight \union {p})
  BY InFlightFinite, FS_AddElement
<1>3. Cardinality(InFlight \union {p}) \in Nat
  BY <1>2, FS_CardinalityType
<1>4. QED
  BY <1>1, <1>3 DEF PeakWith

LEMMA TypeStep == TypeOK /\ [Next]_vars => TypeOK'
<1> SUFFICES ASSUME TypeOK, [Next]_vars PROVE TypeOK'
  OBVIOUS
<1> USE PrCommentAssumption
<1>1. CASE UNCHANGED vars
  BY <1>1 DEF vars, TypeOK
<1>2. ASSUME NEW p \in Posters, Get(p) PROVE TypeOK'
  <2>0. peak' \in Nat
    BY <1>2, PeakWithFacts DEF Get, TypeOK
  <2>1. Seen \subseteq 0 .. MaxComments
    BY DEF Seen, Marked, Ids, TypeOK
  <2>2. target' \in [Posters -> 0 .. MaxComments]
    <3>1. target' = target \/ \E n \in Seen : target' = [target EXCEPT ![p] = n]
      BY <1>2 DEF Get
    <3>2. QED
      BY <2>1, <3>1 DEF TypeOK
  <2>3. QED
    BY <1>2, <2>0, <2>2 DEF Get, Return, TypeOK
<1>3. ASSUME NEW p \in Posters, Send(p) \/ Receive(p) \/ GiveUp(p) \/ Kill(p) PROVE TypeOK'
  BY <1>3 DEF Send, Receive, GiveUp, Kill, Return, TypeOK
<1>4. ASSUME NEW p \in Posters, Handle(p) PROVE TypeOK'
  <2>1. comments' \in Seq(Comment) /\ Len(comments') <= MaxComments
    <3>1. CASE Len(comments) < MaxComments /\ comments' = Append(comments, p)
      BY <3>1, MarkedAppend DEF Comment
    <3>2. CASE target[p] \in Marked /\ comments' = [comments EXCEPT ![target[p]] = p]
      BY <3>2, MarkedReplace DEF Comment
    <3>3. CASE UNCHANGED comments
      BY <3>3 DEF TypeOK
    <3>4. QED
      BY <1>4, <3>1, <3>2, <3>3 DEF Handle
  <2>2. QED
    BY <1>4, <2>1 DEF Handle, TypeOK
<1>5. CASE PersonComments
  BY <1>5, MarkedAppend DEF PersonComments, Comment, TypeOK
<1>6. CASE PersonDeletes
  BY <1>6, MarkedReplace DEF PersonDeletes, Comment, TypeOK
<1>7. QED
  BY <1>1, <1>2, <1>3, <1>4, <1>5, <1>6 DEF Next

\* Comments, runs and requests are well typed, however the runs overlap and however
\* many comments a page holds. (TypeOK; all of PrComment)
THEOREM TypeCorrect == Spec => []TypeOK
<1>1. Init => TypeOK
  BY PrCommentAssumption DEF Init, TypeOK
<1>2. QED
  BY <1>1, TypeStep, PTL DEF Spec

LEMMA ProtocolStep == ASSUME TypeOK, Protocol, [Next]_vars PROVE Protocol'
BY DEF Next, vars, Protocol, TypeOK, Get, Send, Handle, Receive, GiveUp, Kill, Return,
   PersonComments, PersonDeletes

-----------------------------------------------------------------------------
\* How many comments there can be

\* Every other step leaves the peak, and puts no run in flight.
LEMMA PeakStep ==
  ASSUME TypeOK, Protocol, PeakCovers, [Next]_vars
  PROVE  PeakCovers' /\ peak' \in Nat /\ peak' >= peak
<1>1. ASSUME UNCHANGED peak, InFlight' \subseteq InFlight
      PROVE  PeakCovers' /\ peak' \in Nat /\ peak' >= peak
  <2>1. Cardinality(InFlight') <= Cardinality(InFlight) /\ Cardinality(InFlight') \in Nat
    BY <1>1, InFlightFinite, FS_Subset, FS_CardinalityType
  <2>2. Cardinality(InFlight) \in Nat /\ peak \in Nat
    BY InFlightFinite DEF TypeOK
  <2>3. QED
    BY <1>1, <2>1, <2>2 DEF PeakCovers
<1>2. ASSUME NEW p \in Posters, Get(p), peak' = PeakWith(p), UNCHANGED answer,
             pc' = [pc EXCEPT ![p] = "send"]
      PROVE  PeakCovers' /\ peak' \in Nat /\ peak' >= peak
  <2>1. InFlight' \subseteq InFlight \union {p}
    BY <1>2 DEF InFlight, Busy, TypeOK
  <2>2. IsFiniteSet(InFlight \union {p})
    BY InFlightFinite, FS_AddElement
  <2>3. /\ Cardinality(InFlight') <= Cardinality(InFlight \union {p})
        /\ Cardinality(InFlight') \in Nat /\ Cardinality(InFlight \union {p}) \in Nat
    BY <2>1, <2>2, FS_Subset, FS_CardinalityType
  <2>4. /\ peak' \in Nat /\ peak' >= peak
        /\ peak' >= Cardinality(InFlight \union {p})
    BY <1>2, PeakWithFacts
  <2>5. QED
    BY <2>3, <2>4 DEF PeakCovers
<1>3. ASSUME NEW p \in Posters, Get(p), UNCHANGED peak,
             \E event \in {"api_error", "unexpected_exception"} : Return(p, event)
      PROVE  InFlight' \subseteq InFlight
  BY <1>3 DEF Get, Return, InFlight, Busy, TypeOK
<1>4. ASSUME NEW p \in Posters, Send(p) \/ Handle(p) \/ Receive(p) \/ GiveUp(p) \/ Kill(p)
      PROVE  UNCHANGED peak /\ InFlight' \subseteq InFlight
  BY <1>4 DEF Send, Handle, Receive, GiveUp, Kill, Return, InFlight, Busy, TypeOK
<1>5. ASSUME PersonComments \/ PersonDeletes \/ UNCHANGED vars
      PROVE  UNCHANGED peak /\ InFlight' \subseteq InFlight
  BY <1>5 DEF PersonComments, PersonDeletes, vars, InFlight, Busy
<1>6. ASSUME NEW p \in Posters, Get(p)
      PROVE  PeakCovers' /\ peak' \in Nat /\ peak' >= peak
  BY <1>1, <1>2, <1>3, <1>6 DEF Get
<1>7. QED
  BY <1>1, <1>4, <1>5, <1>6 DEF Next

LEMMA ShownFinite ==
  ASSUME TypeOK
  PROVE  IsFiniteSet(Shown) /\ Cardinality(Shown) \in Nat
<1>1. Shown \subseteq 1 .. PageLen /\ PageLen \in Nat
  BY PrCommentAssumption DEF Shown, Page
<1>2. IsFiniteSet(1 .. PageLen)
  BY <1>1, FS_Interval
<1>3. IsFiniteSet(Shown)
  BY <1>1, <1>2, FS_Subset
<1>4. QED
  BY <1>3, FS_CardinalityType

LEMMA CreatingFinite == IsFiniteSet(Creating) /\ Cardinality(Creating) \in Nat
<1>1. Creating \subseteq Posters
  BY DEF Creating
<1>2. QED
  BY <1>1, FS_Subset, FS_CardinalityType, PrCommentAssumption

\* A step that brings no comment to the page, and no run that is going to, takes
\* no room.
LEMMA RoomKept ==
  ASSUME TypeOK, Room, Shown' \subseteq Shown, Creating' \subseteq Creating,
         peak' \in Nat, peak' >= peak
  PROVE  Room'
<1>1. Cardinality(Shown') <= Cardinality(Shown) /\ Cardinality(Shown') \in Nat
  BY ShownFinite, FS_Subset, FS_CardinalityType
<1>2. Cardinality(Creating') <= Cardinality(Creating) /\ Cardinality(Creating') \in Nat
  BY CreatingFinite, FS_Subset, FS_CardinalityType
<1>3. Cardinality(Shown) \in Nat /\ Cardinality(Creating) \in Nat /\ peak \in Nat
  BY ShownFinite, CreatingFinite DEF TypeOK
<1>4. QED
  BY <1>1, <1>2, <1>3 DEF Room

\* A run that finds no comment is in flight itself, so the peak has room for it.
LEMMA GetKeepsRoom ==
  ASSUME TypeOK, TypeOK', Protocol, Room, PeakCovers', peak' >= peak, NEW p \in Posters, Get(p)
  PROVE  Room'
<1>1. UNCHANGED <<comments, answer>> /\ Marked' = Marked /\ Shown' = Shown /\ Seen = Shown
  BY DEF Get, Marked, Ids, Shown, Seen
<1>2. Shown \subseteq Nat \ {0} /\ peak' \in Nat
  BY PrCommentAssumption DEF Shown, Page, TypeOK
<1>3. CASE pc' # [pc EXCEPT ![p] = "send"] \/ Shown # {}
  <2>1. \/ UNCHANGED target /\ \E event \in {"api_error", "unexpected_exception"} : Return(p, event)
        \/ pc' = [pc EXCEPT ![p] = "send"] /\ \E n \in Shown : target' = [target EXCEPT ![p] = n]
    BY <1>1, <1>3 DEF Get
  <2>2. Creating' \subseteq Creating
    BY <1>1, <1>2, <2>1 DEF Creating, Busy, Return, TypeOK
  <2>3. QED
    BY <1>1, <1>2, <2>2, RoomKept
<1>4. CASE Shown = {}
  <2>1. Cardinality(Shown') = 0
    BY <1>1, <1>4, FS_EmptySet
  <2>2. InFlight' \subseteq Posters /\ Creating' \subseteq InFlight'
    BY DEF Creating, InFlight
  <2>3. IsFiniteSet(InFlight')
    BY <2>2, FS_Subset, PrCommentAssumption
  <2>4. /\ Cardinality(Creating') <= Cardinality(InFlight')
        /\ Cardinality(Creating') \in Nat /\ Cardinality(InFlight') \in Nat
    BY <2>2, <2>3, FS_Subset, FS_CardinalityType
  <2>5. QED
    BY <1>2, <2>1, <2>4 DEF Room, PeakCovers
<1>5. QED
  BY <1>3, <1>4

LEMMA HandleKeepsRoom ==
  ASSUME TypeOK, Protocol, Room, NEW p \in Posters, Handle(p)
  PROVE  Room'
<1>1. /\ UNCHANGED <<pc, target, log, peak>> /\ peak \in Nat
      /\ answer[p] = "awaited" /\ answer'[p] \in {"ok", "error"}
      /\ \A q \in Posters : q # p => answer'[q] = answer[q]
  BY DEF Handle, TypeOK
<1>2. p \in Comment /\ \A q \in Posters : Busy(q)' => Busy(q) /\ q # p
  BY <1>1 DEF Busy, Protocol, Comment
<1>3. CASE Marked' = Marked /\ Len(comments') = Len(comments)
  <2>1. Shown' = Shown /\ Creating' \subseteq Creating
    BY <1>1, <1>2, <1>3 DEF Shown, Creating
  <2>2. QED
    BY <1>1, <2>1, RoomKept
<1>4. CASE target[p] = 0 /\ Len(comments) < MaxComments /\ comments' = Append(comments, p)
  <2>1. /\ Marked' = Marked \union {Len(comments) + 1}
        /\ Len(comments') = Len(comments) + 1 /\ Len(comments) \in Nat
    BY <1>2, <1>4, MarkedAppend
  <2>2. PageLen \in Nat
    BY PrCommentAssumption
  <2>3. CASE Len(comments) < PageLen
    <3>1. Shown' = Shown \union {Len(comments) + 1}
      BY <2>1, <2>2, <2>3 DEF Shown, Page
    <3>2. /\ IsFiniteSet(Shown')
          /\ \/ Cardinality(Shown') = Cardinality(Shown)
             \/ Cardinality(Shown') = Cardinality(Shown) + 1
      BY <3>1, ShownFinite, FS_AddElement
    <3>3. p \in Creating /\ Creating' \subseteq Creating \ {p}
      BY <1>1, <1>2, <1>4, <2>1, <2>2, <2>3 DEF Creating, Busy
    <3>4. Cardinality(Creating \ {p}) = Cardinality(Creating) - 1 /\ IsFiniteSet(Creating \ {p})
      BY <3>3, CreatingFinite, FS_RemoveElement
    <3>5. Cardinality(Creating') <= Cardinality(Creating \ {p}) /\ Cardinality(Creating') \in Nat
      BY <3>3, <3>4, FS_Subset, FS_CardinalityType
    <3>6. Cardinality(Shown) \in Nat /\ Cardinality(Creating) \in Nat
      BY ShownFinite, CreatingFinite
    <3>7. QED
      BY <1>1, <3>2, <3>4, <3>5, <3>6 DEF Room
  <2>4. CASE ~ (Len(comments) < PageLen)
    <3>1. Shown' = Shown
      BY <2>1, <2>2, <2>4 DEF Shown, Page
    <3>2. Creating' = {}
      BY <2>1, <2>2, <2>4 DEF Creating
    <3>3. QED
      BY <1>1, <3>1, <3>2, RoomKept
  <2>5. QED
    BY <2>3, <2>4
<1>5. CASE target[p] \in Marked /\ comments' = [comments EXCEPT ![target[p]] = p]
  BY <1>2, <1>3, <1>5, MarkedReplace
<1>6. CASE UNCHANGED comments
  BY <1>3, <1>6 DEF Marked, Ids
<1>7. QED
  BY <1>4, <1>5, <1>6 DEF Handle

LEMMA InvStep == IInv /\ [Next]_vars => IInv'
<1> SUFFICES ASSUME IInv, [Next]_vars PROVE IInv'
  OBVIOUS
<1>1. /\ TypeOK /\ Protocol /\ Room /\ TypeOK' /\ Protocol' /\ PeakCovers'
      /\ peak' \in Nat /\ peak' >= peak
  BY TypeStep, ProtocolStep, PeakStep DEF IInv
<1>2. CASE UNCHANGED vars
  <2>1. Shown' = Shown /\ Creating' = Creating
    BY <1>2 DEF vars, Shown, Marked, Ids, Creating, Busy
  <2>2. QED
    BY <1>1, <2>1, RoomKept DEF IInv
<1>3. ASSUME NEW p \in Posters, Get(p) PROVE IInv'
  BY <1>1, <1>3, GetKeepsRoom DEF IInv
<1>4. ASSUME NEW p \in Posters, Handle(p) PROVE IInv'
  BY <1>1, <1>4, HandleKeepsRoom DEF IInv
<1>5. ASSUME NEW p \in Posters, Send(p) \/ Receive(p) \/ GiveUp(p) \/ Kill(p) PROVE IInv'
  <2>1. UNCHANGED <<comments, target>> /\ Shown' = Shown
    BY <1>5 DEF Send, Receive, GiveUp, Kill, Shown, Marked, Ids
  <2>2. Creating' \subseteq Creating
    BY <1>1, <1>5, <2>1 DEF Send, Receive, GiveUp, Kill, Return, Creating, Busy, TypeOK
  <2>3. QED
    BY <1>1, <2>1, <2>2, RoomKept DEF IInv
<1>6. CASE PersonComments \/ PersonDeletes
  <2>1. /\ Marked' \subseteq Marked
        /\ Len(comments') \in {Len(comments), Len(comments) + 1} /\ Len(comments) \in Nat
    BY <1>1, <1>6, MarkedAppend, MarkedReplace, PrCommentAssumption
       DEF PersonComments, PersonDeletes, Comment
  <2>2. UNCHANGED <<pc, target, answer>> /\ PageLen \in Nat
    BY <1>6, PrCommentAssumption DEF PersonComments, PersonDeletes
  <2>3. Shown' \subseteq Shown /\ Creating' \subseteq Creating
    BY <2>1, <2>2 DEF Shown, Creating, Busy
  <2>4. QED
    BY <1>1, <2>3, RoomKept DEF IInv
<1>7. QED
  BY <1>2, <1>3, <1>4, <1>5, <1>6 DEF Next

\* The page never shows more diff comments than runs were in flight at one time,
\* whatever is killed, lost, handled late, deleted or pushed past the page.
\* (CommentsBounded; post_diff_comment)
THEOREM CommentsAreBounded == Spec => []CommentsBounded
<1>1. Init => IInv
  <2> SUFFICES ASSUME Init PROVE IInv
    OBVIOUS
  <2>1. Shown = {} /\ Creating = {} /\ InFlight = {} /\ peak = 0
    BY DEF Init, Shown, Marked, Ids, Creating, InFlight, Busy
  <2>2. Room /\ PeakCovers
    BY <2>1, FS_EmptySet DEF Room, PeakCovers
  <2>3. QED
    BY <2>2, PrCommentAssumption DEF Init, IInv, TypeOK, Protocol
<1>2. IInv => CommentsBounded
  <2> SUFFICES ASSUME IInv PROVE Cardinality(Shown) <= peak
    BY DEF CommentsBounded, Shown
  <2>1. Cardinality(Shown) \in Nat /\ Cardinality(Creating) \in Nat /\ peak \in Nat
    BY ShownFinite, CreatingFinite DEF IInv, TypeOK
  <2>2. QED
    BY <2>1 DEF IInv, Room
<1>3. QED
  BY <1>1, <1>2, InvStep, PTL DEF Spec
=============================================================================
