---------------------------- MODULE JobAgreement ----------------------------
(***************************************************************************)
(* What the handshake promises, without saying how: one party, the         *)
(* decider, hears an offer of every other party and then either refuses    *)
(* the job or fixes the terms of it; every party that runs the job runs it *)
(* on those terms; and the job completes at a party only when every party  *)
(* takes part.  Any party may leave at any time.                           *)
(***************************************************************************)
CONSTANTS Party, Decider, NoTerms

VARIABLES
  offered,    \* parties the decider has heard
  verdict,    \* "open", "agreed" or "refused"
  terms,      \* the terms fixed by the decider
  running,    \* the terms each party has started the job on
  left,       \* parties that are out
  complete    \* parties at which the job has completed

vars == <<offered, verdict, terms, running, left, complete>>

Init ==
  /\ offered = {}
  /\ verdict = "open"
  /\ terms = NoTerms
  /\ running = [p \in Party |-> NoTerms]
  /\ left = {}
  /\ complete = {}

Offer(p) ==
  /\ verdict = "open"
  /\ p \notin offered
  /\ offered' = offered \cup {p}
  /\ UNCHANGED <<verdict, terms, running, left, complete>>

Agree ==
  /\ verdict = "open"
  /\ offered = Party \ {Decider}
  /\ Decider \notin left
  /\ verdict' = "agreed"
  /\ terms' # NoTerms
  /\ running' = [running EXCEPT ![Decider] = terms']
  /\ UNCHANGED <<offered, left, complete>>

Refuse ==
  /\ verdict = "open"
  /\ offered = Party \ {Decider}
  /\ verdict' = "refused"
  /\ left' = left \cup {Decider}
  /\ UNCHANGED <<offered, terms, running, complete>>

Start(p) ==
  /\ verdict = "agreed"
  /\ p \notin left
  /\ running[p] = NoTerms
  /\ running' = [running EXCEPT ![p] = terms]
  /\ UNCHANGED <<offered, verdict, terms, left, complete>>

Complete(p) ==
  /\ p \notin left
  /\ \A q \in Party : running[q] # NoTerms
  /\ complete' = complete \cup {p}
  /\ UNCHANGED <<offered, verdict, terms, running, left>>

Leave(p) ==
  /\ p \notin complete
  /\ left' = left \cup {p}
  /\ UNCHANGED <<offered, verdict, terms, running, complete>>

Next ==
  \/ \E p \in Party : Offer(p) \/ Start(p) \/ Complete(p) \/ Leave(p)
  \/ Agree
  \/ Refuse

Spec == Init /\ [][Next]_vars
=============================================================================
