------------------------- MODULE HandshakeImplements -------------------------
(***************************************************************************)
(* Handshake implements JobAgreement.  A party that skips the handshake    *)
(* does not take part in what JobAgreement is about.                       *)
(***************************************************************************)
EXTENDS Handshake

NoTerms == [algo |-> "NONE"]

\* A party of another platform runs on the terms of the response it was sent.
RunningTerms(r) ==
  IF ~ Ran(r) \/ Skips(r) THEN NoTerms
  ELSE IF r \in Native THEN Terms(ctx[r]) ELSE Terms(ctx[Passive])

Job == INSTANCE JobAgreement WITH
  Party    <- Rank,
  Decider  <- Passive,
  offered  <- DOMAIN requests,
  verdict  <- IF response.code = "NONE" THEN "open"
              ELSE IF response.code = "OK" THEN "agreed" ELSE "refused",
  terms    <- IF response.code = "OK" THEN Terms(ctx[Passive]) ELSE NoTerms,
  running  <- [r \in Rank |-> RunningTerms(r)],
  left     <- {r \in Rank \ result : pc[r] \in Exited \cup {"finish"}},
  complete <- {r \in result : ~ Skips(r)}

(* The handshake of handler.cc keeps the promise of JobAgreement: the      *)
(* passive party decides once and after every proposal, nobody runs on     *)
(* other terms than the ones it fixed, and RunAlgo completes only when     *)
(* every rank has entered it after the handshake.                          *)
ImplementsJobAgreement == Job!Spec
=============================================================================
