------------------------------ MODULE IcContext ------------------------------
(***************************************************************************)
(* The part of a party's configuration that does not depend on the         *)
(* algorithm (ic_impl/context.cc, ic_impl/party.cc) and the helpers with   *)
(* which every handler reads handshake messages (ic_impl/util.h).          *)
(*                                                                         *)
(* A handshake request is a record with one field per parameter message it *)
(* may carry.  Such a field is an optional value, written as a set with at *)
(* most one element: {} stands for everything ExtractParam answers nullopt *)
(* to (the enum value is not listed, the parameter list is shorter than    *)
(* the enum list, or the Any holds a message of another type).             *)
(***************************************************************************)
EXTENDS Integers, Sequences

CONSTANT WorldSize          \* number of parties of the link

ASSUME WorldSizeAssumption == WorldSize \in Nat \ {0, 1}

Rank    == 0 .. WorldSize - 1
Passive == 0                \* Party::Run: recv_rank
Active  == 1 .. WorldSize - 1

\* GetFlagValues lets the unspecified family through.
ProtocolFamily == {"ECC", "SS", "UNSPECIFIED"}
ErrorCode == {"OK", "INVALID_REQUEST", "UNSUPPORTED_PARAMS", "HANDSHAKE_REFUSED"}

\* Negotiation steps run in order; the first one that fails gives the status.
\* "THROW" stands for a failed YACL_ENFORCE inside a step.
FirstError(status, next) == IF status = "OK" THEN next ELSE status

-----------------------------------------------------------------------------
(* context.cc: what CreateIcContext insists on before it makes the link.   *)
kSupportedVersions == {1, 2}

FlagsSupported(c) ==
  /\ c.version \in kSupportedVersions
  /\ c.protocol_families # << >>

(* party.cc: Run throws for version 1, and CreateHandlerFactory needs the  *)
(* first protocol family to be the one the algorithm is built on.          *)
HandlerExists(c) ==
  /\ c.version # 1
  /\ \/ c.algo = "ECDH_PSI" /\ Head(c.protocol_families) = "ECC"
     \/ c.algo = "SS_LR"    /\ Head(c.protocol_families) = "SS"

-----------------------------------------------------------------------------
(* util.h over a sequence of requests.  The order of the requests does not *)
(* matter to these helpers, so the extracted parameters form a set.        *)

\* Mutant: goes on with the requests that do carry the parameter.
ExtractParams_SkipsMissing(requests, field) ==
  UNION {requests[i][field] : i \in DOMAIN requests}

ExtractParams(requests, field) ==
  IF \E i \in DOMAIN requests : requests[i][field] = {}
  THEN {}
  ELSE UNION {requests[i][field] : i \in DOMAIN requests}

\* The values that every parameter message lists under item.
IntersectParamItems(params, item) ==
  {v \in UNION {p[item] : p \in params} : \A p \in params : v \in p[item]}

\* Mutant: a differing value does not end the search.
AlignParamItem_AnyValue(params, item) == {p[item] : p \in params}

\* The value all parameter messages share under item, if they share one.
AlignParamItem(params, item) ==
  IF \A p, q \in params : p[item] = q[item]
  THEN {p[item] : p \in params}
  ELSE {}

(* handler.cc: the version all requests agree on, 0 when they do not.      *)
AlignHandshakeVersion(requests) ==
  IF \A i, j \in DOMAIN requests : requests[i].version = requests[j].version
  THEN requests[1].version
  ELSE 0
=============================================================================
