------------------------------- MODULE MCMixed -------------------------------
(* Deployments in which the operators may not even have chosen the same    *)
(* algorithm, or not all to skip the handshake.                            *)
EXTENDS MCFlags

LrAt(r) == Owned([q \in Native |-> LrDefault], {0})[r]

Flags(r) == {Curve25519, [Curve25519 EXCEPT !.input_readable = FALSE],
             Direct(Curve25519),
             LrAt(r), [LrAt(r) EXCEPT !.protocol_families = <<"SS", "ECC">>],
             [LrAt(r) EXCEPT !.version = 3],
             DirectJob([q \in Native |-> LrDefault], 0)[r]}

MixedFlags ==
  {d \in [Native -> UNION {Flags(r) : r \in Native}] :
     \A r \in Native : d[r] \in Flags(r)}
=============================================================================
