------------------------------ MODULE ParamLoops ------------------------------
(***************************************************************************)
(* How the passive party reads the proposals, loop by loop: the version    *)
(* (handler.cc), one repeated parameter (the templates of util.h:          *)
(* extraction, intersection, alignment) and the io parameters              *)
(* (lr_handler.cc).  The operators of IcContext and SsLr say what these    *)
(* loops compute; here they are shown to compute that.                     *)
(*                                                                         *)
(* A request as it comes has a list of enumeration values and a list of    *)
(* parameters, which need not be equally long, and each parameter is of    *)
(* some message type.                                                      *)
(***************************************************************************)
EXTENDS SsLr, Functions

CONSTANTS
  Requests,     \* the sequences of requests considered
  Contexts,     \* the contexts of the passive party
  Enumeration,  \* the value looked for
  ParamType     \* the type that its parameter should have

ASSUME LoopsAssumption ==
  /\ \A rs \in Requests :
       /\ rs # << >> /\ rs \in Seq(Range(rs))
       /\ \A k \in DOMAIN rs :
            /\ rs[k].version \in Nat \ {0}  \* RecvHandshakeRequests: at least 2
            /\ rs[k].enums \in Seq(Range(rs[k].enums))
            /\ rs[k].params \in Seq(Range(rs[k].params))
            /\ rs[k].requester_rank \in Int
            /\ \A io \in rs[k].lr_io : /\ rs[k].lr_io = {io}
                                       /\ io.feature_num \in Int
  \* What the io loop uses of a context.
  /\ Contexts \subseteq [sample_size : Nat, feature_nums : [Rank -> Int], label_rank : Int]

VARIABLES
  requests,  \* the requests, by active rank
  given,     \* the passive party's context before the negotiation
  ctx,       \* and during it
  pc,        \* the loop that runs
  i, j,      \* its index, and that of the inner loop
  version,   \* AlignHandshakeVersion: version
  params,    \* ExtractParams: params
  last, cur, \* Intersection: last_intersection, cur_intersection
  value,     \* AlignParamItem: last_value, as an optional value
  status     \* NegotiateLrIoParams: what it returns

vars == <<requests, given, ctx, pc, i, j, version, params, last, cur, value, status>>

Init ==
  /\ requests \in Requests
  /\ given \in Contexts
  /\ ctx = given
  /\ pc = "version"
  /\ i = 1 /\ j = 1
  /\ version = 0
  /\ params = << >>
  /\ last = {} /\ cur = {}
  /\ value = {}
  /\ status = "OK"

\* The next turn of a loop over the requests, and the next loop.
Turn     == i' = i + 1 /\ j' = 1 /\ UNCHANGED pc
Goto(l)  == pc' = l /\ i' = 1 /\ j' = 1

-----------------------------------------------------------------------------
\* Mutant: a version that differs does not end the loop.
AlignVersion_GoesOn ==
  /\ pc = "version"
  /\ IF i > Len(requests) THEN Goto("extract") /\ UNCHANGED version
     ELSE IF version # 0 /\ version # requests[i].version
     THEN version' = 0 /\ Turn
     ELSE version' = requests[i].version /\ Turn
  /\ UNCHANGED <<requests, given, ctx, params, last, cur, value, status>>

(* AlignHandshakeVersion; 0 is the answer at the first one that differs.   *)
AlignVersion ==
  /\ pc = "version"
  /\ IF i > Len(requests) THEN Goto("extract") /\ UNCHANGED version
     ELSE IF version # 0 /\ version # requests[i].version
     THEN version' = 0 /\ Goto("extract")
     ELSE version' = requests[i].version /\ Turn
  /\ UNCHANGED <<requests, given, ctx, params, last, cur, value, status>>

\* ExtractParam: what is at position k of both lists, if it has the type.
ParamAt(request, k) ==
  IF k \in DOMAIN request.enums \cap DOMAIN request.params /\ request.params[k].type = ParamType
  THEN {request.params[k].param} ELSE {}

(* ExtractParam: the first enumeration that is the one looked for says     *)
(* where the parameter is.                                                 *)
Searching == j \in DOMAIN requests[i].enums /\ requests[i].enums[j] # Enumeration

SearchEnum ==
  /\ pc = "extract"
  /\ i <= Len(requests)
  /\ Searching
  /\ j' = j + 1
  /\ UNCHANGED <<requests, given, ctx, pc, i, version, params, last, cur, value, status>>

\* Mutant: what was found before the request without the parameter is returned.
ExtractParams_Partial ==
  /\ pc = "extract"
  /\ IF i > Len(requests) THEN Goto("intersect") /\ UNCHANGED params
     ELSE /\ ~ Searching
          /\ IF ParamAt(requests[i], j) = {} THEN Goto("intersect") /\ UNCHANGED params
             ELSE \E p \in ParamAt(requests[i], j) : params' = Append(params, p) /\ Turn
  /\ UNCHANGED <<requests, given, ctx, version, last, cur, value, status>>

(* ExtractParams: all or nothing.                                          *)
ExtractNext ==
  /\ pc = "extract"
  /\ IF i > Len(requests) THEN Goto("intersect") /\ UNCHANGED params
     ELSE /\ ~ Searching
          /\ IF ParamAt(requests[i], j) = {} THEN Goto("intersect") /\ params' = << >>
             ELSE \E p \in ParamAt(requests[i], j) : params' = Append(params, p) /\ Turn
  /\ UNCHANGED <<requests, given, ctx, version, last, cur, value, status>>

\* Mutant: the set swapped out is not cleared.
Intersect_NoClear ==
  /\ pc = "intersect"
  /\ IF i > Len(params) THEN Goto("align") /\ UNCHANGED <<last, cur>>
     ELSE /\ IF i = 1 THEN last' = params[1].items /\ UNCHANGED cur
             ELSE last' = cur \cup (last \cap params[i].items) /\ cur' = last
          /\ Turn
  /\ UNCHANGED <<requests, given, ctx, version, params, value, status>>

(* Intersection, over the items of the parameters: the common items are    *)
(* put into cur, the two sets are swapped, and cur is cleared.             *)
Intersect ==
  /\ pc = "intersect"
  /\ IF i > Len(params) THEN Goto("align") /\ UNCHANGED <<last, cur>>
     ELSE /\ IF i = 1 THEN last' = params[1].items /\ UNCHANGED cur
             ELSE last' = cur \cup (last \cap params[i].items) /\ cur' = {}
          /\ Turn
  /\ UNCHANGED <<requests, given, ctx, version, params, value, status>>

(* AlignParamItem: nothing at the first item that differs from the last.   *)
Align ==
  /\ pc = "align"
  /\ IF i > Len(params) THEN Goto("io") /\ UNCHANGED value
     ELSE IF value \in {{}, {params[i].item}} THEN value' = {params[i].item} /\ Turn
     ELSE value' = {} /\ Goto("io")
  /\ UNCHANGED <<requests, given, ctx, version, params, last, cur, status>>

Return(s) == status' = s /\ Goto("done")

\* The vector with the width at the index.  A negative index is not checked: the
\* write falls outside of the vector.
WithWidth(feature_nums, rank, width) ==
  IF rank \in Rank THEN [feature_nums EXCEPT ![rank] = width] ELSE feature_nums

\* Mutant: a second owner of the label takes the place of the first.
NegotiateIo_LastOwner ==
  /\ pc = "io"
  /\ IF i > Len(requests)
     THEN /\ Return(IF ctx.label_rank = -1 THEN "INVALID_REQUEST" ELSE "OK")
          /\ UNCHANGED ctx
     ELSE IF requests[i].lr_io = {} THEN Return("INVALID_REQUEST") /\ UNCHANGED ctx
     ELSE \E io \in requests[i].lr_io :
       IF io.sample_size # ctx.sample_size THEN Return("HANDSHAKE_REFUSED") /\ UNCHANGED ctx
       ELSE IF io.feature_num <= 0 THEN Return("INVALID_REQUEST") /\ UNCHANGED ctx
       ELSE IF requests[i].requester_rank >= WorldSize THEN Return("THROW") /\ UNCHANGED ctx
       ELSE /\ Turn /\ UNCHANGED status
            /\ ctx' = [ctx EXCEPT
                 !.feature_nums = WithWidth(@, requests[i].requester_rank, io.feature_num),
                 !.label_rank = IF io.has_label THEN requests[i].requester_rank ELSE @]
  /\ UNCHANGED <<requests, given, version, params, last, cur, value>>

(* NegotiateLrIoParams: the context changes from request to request, also  *)
(* before a later one is refused.                                          *)
NegotiateIo ==
  /\ pc = "io"
  /\ IF i > Len(requests)
     THEN /\ Return(IF ctx.label_rank = -1 THEN "INVALID_REQUEST" ELSE "OK")
          /\ UNCHANGED ctx
     ELSE IF requests[i].lr_io = {} THEN Return("INVALID_REQUEST") /\ UNCHANGED ctx
     ELSE \E io \in requests[i].lr_io :
       LET rank == requests[i].requester_rank
           wide == [ctx EXCEPT !.feature_nums = WithWidth(@, rank, io.feature_num)]
       IN  IF io.sample_size # ctx.sample_size THEN Return("HANDSHAKE_REFUSED") /\ UNCHANGED ctx
           ELSE IF io.feature_num <= 0 THEN Return("INVALID_REQUEST") /\ UNCHANGED ctx
           ELSE IF rank >= WorldSize THEN Return("THROW") /\ UNCHANGED ctx
           ELSE IF ~ io.has_label THEN ctx' = wide /\ Turn /\ UNCHANGED status
           ELSE IF ctx.label_rank # -1 THEN ctx' = wide /\ Return("HANDSHAKE_REFUSED")
           ELSE ctx' = [wide EXCEPT !.label_rank = rank] /\ Turn /\ UNCHANGED status
  /\ UNCHANGED <<requests, given, version, params, last, cur, value>>

\* The process dies of the write outside of the vector.
DieOfIo ==
  /\ pc = "io"
  /\ i <= Len(requests)
  /\ requests[i].requester_rank < 0
  /\ \E io \in requests[i].lr_io : io.sample_size = ctx.sample_size /\ io.feature_num > 0
  /\ Goto("dead")
  /\ UNCHANGED <<requests, given, ctx, version, params, last, cur, value, status>>

Done == pc \in {"done", "dead"} /\ UNCHANGED vars

Next == AlignVersion \/ SearchEnum \/ ExtractNext \/ Intersect \/ Align \/ NegotiateIo
          \/ DieOfIo \/ Done

Spec == Init /\ [][Next]_vars

-----------------------------------------------------------------------------
(* Properties.                                                             *)

\* The requests as the operators have them: the parameter is an optional value.
FirstAt(request) ==
  {k \in DOMAIN request.enums : /\ request.enums[k] = Enumeration
                                /\ \A l \in 1 .. k - 1 : request.enums[l] # Enumeration}

Offered ==
  [k \in DOMAIN requests |->
     [version |-> requests[k].version, requester_rank |-> requests[k].requester_rank,
      lr_io |-> requests[k].lr_io,
      param |-> UNION {ParamAt(requests[k], l) : l \in FirstAt(requests[k])}]]

Past(l) == pc \notin l

(* Whatever the lengths, orders and types of the lists are: ParamLoops     *)
(* leaves its loop over the versions with what AlignHandshakeVersion says. *)
VersionIsAligned == Past({"version"}) => version = AlignHandshakeVersion(Offered)

(* Whatever the lengths, orders and types of the lists of the requests are: *)
(* the templates of util.h extract the parameter of each request, or none.  *)
ExtractedFromAll ==
  Past({"version", "extract"}) =>
    {params[k] : k \in DOMAIN params} = ExtractParams(Offered, "param")

(* ... and the items and the item they find common to the parameters are   *)
(* those of the operators, in whatever order the parameters come.          *)
CommonIsFound ==
  LET extracted == ExtractParams(Offered, "param")
  IN  /\ Past({"version", "extract", "intersect"}) =>
           last = IntersectParamItems(extracted, "items")
      /\ Past({"version", "extract", "intersect", "align"}) =>
           value = AlignParamItem(extracted, "item")

(* The io loop, if the process does not die of it, returns the status of   *)
(* the first request that is not in order, in the order of the checks, and *)
(* if there is none, leaves the widths and the owner of the label that the *)
(* handshake goes on with, whatever ranks the requests give, negative ones *)
(* included.                                                               *)
IoIsNegotiated ==
  pc = "done" => /\ status = NegotiateLrIoParams(given, Offered)
                 /\ status = "OK" =>
                      /\ ctx.feature_nums = IoFeatureNums(given, Offered)
                      /\ ctx.label_rank = IoLabelRank(given, Offered, Len(Offered))
=============================================================================
