----------------------------- MODULE MCIdentity -----------------------------
(* Two phones, whose mailboxes rotate at different times, and one persona. *)
EXTENDS Identity
CONSTANTS s1, s2
MCPhase == (s1 :> 0) @@ (s2 :> 1)

\* Offers and requests share a bound; phone s1 has the persona first.
MCNext == /\ Next
          /\ Cardinality(reqs') + Cardinality(offers') <= 2
          /\ (id[s1].personas = {} => id'[s2].personas = {})
MCSpec == Init /\ [][MCNext]_vars
=============================================================================
