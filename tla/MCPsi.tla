-------------------------------- MODULE MCPsi --------------------------------
(* Handshake over ECDH-PSI deployments: every party has the default flags  *)
(* except that it may differ in one of them.                               *)
EXTENDS MCFlags

\* Flags that take effect in the handshake.
PsiNegotiable ==
  {Curve25519, Sm2,
   [Curve25519 EXCEPT !.bit_length_after_truncated = 80],
   [Curve25519 EXCEPT !.bit_length_after_truncated = 96],
   [Curve25519 EXCEPT !.result_to_rank = 0],
   [Curve25519 EXCEPT !.result_to_rank = 1],
   Direct(Curve25519), [Direct(Curve25519) EXCEPT !.result_to_rank = 1]}

\* Flags with which a party stops before the handshake.
PsiUnusable ==
  {[Curve25519 EXCEPT !.version = 1],
   [Curve25519 EXCEPT !.version = 3],
   [Curve25519 EXCEPT !.protocol_families = << >>],
   [Curve25519 EXCEPT !.protocol_families = <<"SS">>],
   [Curve25519 EXCEPT !.curve_type = "SM2"],
   [Curve25519 EXCEPT !.hash_type = "SM3"],
   [Curve25519 EXCEPT !.input_readable = FALSE]}

\* Every combination of flags.
AnyFlags == [Native -> PsiNegotiable \cup PsiUnusable]

\* At most one party has flags with which it stops before the handshake.
OneUnusable ==
  {d \in [Native -> PsiNegotiable \cup PsiUnusable] :
     \A p, q \in Native : d[p] \in PsiUnusable /\ d[q] \in PsiUnusable => p = q}
=============================================================================
