--------------------------- MODULE MarkedRollback ---------------------------
(***************************************************************************)
(* What SAFE_UPGRADE and the marker promise the people who roll a release  *)
(* back, without helm's history: a revision is vouched for only if its     *)
(* content has been seen ready; a rollback is accepted only to a revision  *)
(* that is vouched for; and what it puts back is what was vouched for when *)
(* it was accepted, or nothing: the number can be forgotten in between,    *)
(* but does not come to mean another content.  Release implements this if  *)
(* the helm commands of two runs are kept apart.                           *)
(***************************************************************************)
CONSTANT Contents

VARIABLES
  seen,      \* the contents that have been ready
  vouched,   \* revision number -> content, for the revisions with the marker
  asked,     \* run -> revision number, for the rollbacks that were accepted
  restored   \* the contents rollbacks put back, as far as the history tells

vars == <<seen, vouched, asked, restored>>

\* f is g on fewer arguments.
Part(f, g) == DOMAIN f \subseteq DOMAIN g /\ \A n \in DOMAIN f : f[n] = g[n]

Init ==
  /\ seen \subseteq Contents
  /\ \A n \in DOMAIN vouched : vouched[n] \in seen
  /\ DOMAIN asked = {} /\ restored = {}

See ==
  /\ seen \subseteq seen' /\ seen' \subseteq Contents
  /\ UNCHANGED <<vouched, asked, restored>>

\* A number some run has asked for gets no new meaning.
Vouch ==
  /\ \E n \in DOMAIN vouched' \ DOMAIN vouched :
       /\ DOMAIN vouched' = DOMAIN vouched \union {n}
       /\ vouched'[n] \in seen
       /\ \A r \in DOMAIN asked : asked[r] # n
  /\ Part(vouched, vouched')
  /\ UNCHANGED <<seen, asked, restored>>

Forget ==
  /\ Part(vouched', vouched) /\ restored' \subseteq restored
  /\ UNCHANGED <<seen, asked>>

Accept ==
  /\ \E r \in DOMAIN asked' \ DOMAIN asked :
       /\ DOMAIN asked' = DOMAIN asked \union {r}
       /\ asked'[r] \in DOMAIN vouched
  /\ Part(asked, asked')
  /\ UNCHANGED <<seen, vouched, restored>>

Withdraw ==
  /\ Part(asked', asked)
  /\ UNCHANGED <<seen, vouched, restored>>

Restore ==
  /\ \E r \in DOMAIN asked :
       /\ asked[r] \in DOMAIN vouched
       /\ restored' \subseteq restored \union {vouched[asked[r]]}
       /\ DOMAIN asked' = DOMAIN asked \ {r}
  /\ Part(asked', asked) /\ Part(vouched', vouched)
  /\ UNCHANGED seen

Next == See \/ Vouch \/ Forget \/ Accept \/ Withdraw \/ Restore

Spec == Init /\ [][Next]_vars
=============================================================================
