------------------------------- MODULE EcdhPsi -------------------------------
(***************************************************************************)
(* The ECDH-PSI handler's part of the handshake                            *)
(* (algo/psi/v2/psi_handler_v2.cc and psi_context_v2.cc): how it prepares, *)
(* what it proposes, how the passive party negotiates over the proposals   *)
(* it received, and how an active party takes the response.                *)
(***************************************************************************)
EXTENDS IcContext

CurveType         == {"CURVE25519", "SM2", "SECP256K1"}
HashType          == {"SHA_256", "SM3"}
Hash2CurveStrategy == {"DIRECT_HASH_AS_POINT_X", "TRY_AND_REHASH"}
PointOctetFormat  == {"UNCOMPRESSED", "X962_COMPRESSED"}

EcSuit == [curve : CurveType, hash : HashType,
           hash2curve_strategy : Hash2CurveStrategy]

PsiContext ==
  [algo : {"ECDH_PSI"}, version : Nat, protocol_families : Seq(ProtocolFamily),
   disable_handshake : BOOLEAN,
   input_readable : BOOLEAN,            \* CheckInput finds a valid csv file
   curve_type : CurveType, hash_type : HashType,
   hash_to_curve_strategy : Hash2CurveStrategy,
   point_octet_format : PointOctetFormat,
   bit_length_after_truncated : Int,    \* -1: do not truncate
   result_to_rank : Int]                \* -1: every party gets the result

EccProposal == [ec_suits : SUBSET EcSuit,
                point_octet_formats : SUBSET PointOctetFormat,
                support_point_truncation : BOOLEAN]
PsiIoProposal == [result_to_rank : Int]

PsiResult == [ec_suit : EcSuit, point_octet_format : PointOctetFormat,
              bit_length_after_truncated : Int, result_to_rank : Int]

ContextSuit(c) == [curve |-> c.curve_type, hash |-> c.hash_type,
                   hash2curve_strategy |-> c.hash_to_curve_strategy]

(* PrepareDataset: CreateBucketPsi accepts two suites with their formats,  *)
(* CheckInput needs a readable file.                                       *)
PsiPrepares(c) ==
  /\ \/ /\ ContextSuit(c) = [curve |-> "CURVE25519", hash |-> "SHA_256",
                             hash2curve_strategy |-> "DIRECT_HASH_AS_POINT_X"]
        /\ c.point_octet_format = "UNCOMPRESSED"
     \/ /\ ContextSuit(c) = [curve |-> "SM2", hash |-> "SHA_256",
                             hash2curve_strategy |-> "TRY_AND_REHASH"]
        /\ c.point_octet_format = "X962_COMPRESSED"
  /\ c.input_readable

PsiEccProposal(c) ==
  [ec_suits |-> {ContextSuit(c)},
   point_octet_formats |-> {c.point_octet_format},
   support_point_truncation |-> c.bit_length_after_truncated # -1]

PsiBuildRequest(c, rank) ==
  [version |-> c.version, requester_rank |-> rank,
   lr |-> {}, sigmoid |-> {}, ss |-> {}, ecc |-> {PsiEccProposal(c)},
   psi_io |-> {[result_to_rank |-> c.result_to_rank]}, lr_io |-> {}]

-----------------------------------------------------------------------------
(* The passive party.                                                      *)

ExtractReqEccParams(requests)   == ExtractParams(requests, "ecc")
IntersectEcSuits(ecc)           == IntersectParamItems(ecc, "ec_suits")
IntersectPointOctetFormats(ecc) == IntersectParamItems(ecc, "point_octet_formats")

NegotiateEcSuits(c, ecc) == ContextSuit(c) \in IntersectEcSuits(ecc)

NegotiatePointOctetFormats(c, ecc) ==
  c.point_octet_format \in IntersectPointOctetFormats(ecc)

\* Mutant: the passive party keeps its length whoever can truncate.
NegotiateBitLengthAfterTruncated_Kept(c, ecc) == c.bit_length_after_truncated

\* The length the passive party keeps: truncation needs everybody's support.
NegotiateBitLengthAfterTruncated(c, ecc) ==
  IF TRUE \in AlignParamItem(ecc, "support_point_truncation")
  THEN c.bit_length_after_truncated
  ELSE -1

\* Mutant: a requester's result_to_rank is not looked at.
NegotiateResultToRank_Unchecked(c, io) == io # {}

NegotiateResultToRank(c, io) ==
  c.result_to_rank \in AlignParamItem(io, "result_to_rank")

NegotiateEccParams(c, requests) ==
  LET ecc == ExtractReqEccParams(requests)
  IN  IF ecc = {} THEN "INVALID_REQUEST"
      ELSE IF NegotiateEcSuits(c, ecc) /\ NegotiatePointOctetFormats(c, ecc)
           THEN "OK" ELSE "HANDSHAKE_REFUSED"

NegotiatePsiIoParams(c, requests) ==
  LET io == ExtractParams(requests, "psi_io")
  IN  IF io = {} THEN "INVALID_REQUEST"
      ELSE IF NegotiateResultToRank(c, io) THEN "OK" ELSE "HANDSHAKE_REFUSED"

PsiNegotiate(c, requests) ==
  FirstError(NegotiateEccParams(c, requests), NegotiatePsiIoParams(c, requests))

\* The passive party's context once the negotiation has succeeded.
PsiNegotiated(c, requests) ==
  [c EXCEPT !.bit_length_after_truncated =
     NegotiateBitLengthAfterTruncated(c, ExtractReqEccParams(requests))]

PsiBuildResponse(c) ==
  [ec_suit |-> ContextSuit(c), point_octet_format |-> c.point_octet_format,
   bit_length_after_truncated |-> c.bit_length_after_truncated,
   result_to_rank |-> c.result_to_rank]

-----------------------------------------------------------------------------
(* An active party, given the parameters of an OK response.                *)

\* The YACL_ENFORCEs of ProcessHandshakeResponse.
PsiAccepts(c, result) ==
  /\ result.ec_suit = ContextSuit(c)
  /\ result.point_octet_format = c.point_octet_format
  /\ result.bit_length_after_truncated # -1 =>
       c.bit_length_after_truncated # -1

\* Mutant: the active party goes on with the length it was started with.
PsiProcessed_KeepsLength(c, result) == c

PsiProcessed(c, result) ==
  [c EXCEPT !.bit_length_after_truncated = result.bit_length_after_truncated]

\* CreateBucketPsi always asks for the two-party protocol, whatever the link.
PsiRunnable == WorldSize = 2

-----------------------------------------------------------------------------
(* What two parties must have in common to intersect their sets.           *)
PsiTerms(c) ==
  [algo |-> c.algo, suit |-> ContextSuit(c),
   point_octet_format |-> c.point_octet_format,
   bit_length_after_truncated |-> c.bit_length_after_truncated,
   result_to_rank |-> c.result_to_rank]
=============================================================================
