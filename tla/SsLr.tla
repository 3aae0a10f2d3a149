-------------------------------- MODULE SsLr --------------------------------
(***************************************************************************)
(* The SS-LR handler's part of the handshake (algo/lr/lr_handler.cc,       *)
(* algo/lr/lr_context.cc).  Norms and the learning rate are natural        *)
(* numbers; 0 stands for every double AlmostZero takes for zero.           *)
(***************************************************************************)
EXTENDS IcContext

Optimizer       == {"SGD", "MOMENTUM"}
LastBatchPolicy == {"DISCARD", "KEEP"}     \* KEEP: any other value of the enum
SigmoidMode     == {"MINIMAX_1", "REAL"}
ProtocolKind    == {"SEMI2K", "ABY3", "CHEETAH"}
FieldType       == {"32", "64", "128"}
TruncMode       == {"PROBABILISTIC", "PRECISE"}
ShardFormat     == {"RAW", "OTHER"}
PrgCryptoType   == {"AES128_CTR", "SM4_CTR"}
TtpServerVersion == 2       \* ss.h: never set from a flag

\* Enum numbers of the interconnection protocol's TruncMode.
TruncModeNumber == [PROBABILISTIC |-> 1, PRECISE |-> 2]

LrContext ==
  [algo : {"SS_LR"}, version : Nat, protocol_families : Seq(ProtocolFamily),
   disable_handshake : BOOLEAN,
   rows : Nat, columns : Nat,           \* the csv file; 0 rows: unreadable
   num_epoch : Int, batch_size : Int, last_batch_policy : LastBatchPolicy,
   l0_norm : Nat, l1_norm : Nat, l2_norm : Nat,
   optimizer : Optimizer, learning_rate : Nat,
   sample_size : Nat, feature_nums : [Rank -> Int], label_rank : Int,
   sigmoid_mode : SigmoidMode,
   protocol : ProtocolKind, field_type : FieldType, fxp_bits : Int,
   trunc_mode : TruncMode, shard_serialize_format : ShardFormat,
   use_ttp : BOOLEAN, ttp_server_host : STRING, ttp_adjust_rank : Int,
   ttp_public_key : STRING]             \* and the scheme it is for

LrProposal == [optimizers : SUBSET Optimizer,
               last_batch_policies : SUBSET LastBatchPolicy,
               use_l0_norm : BOOLEAN, use_l1_norm : BOOLEAN,
               use_l2_norm : BOOLEAN]
SigmoidProposal == [sigmoid_modes : SUBSET SigmoidMode]
\* A truncation mode lists the enum numbers of the protocols it is compatible
\* with; an empty list means all of them.
TruncProposal == [method : TruncMode, compatible_protocols : SUBSET Nat]
SsProposal == [supported_protocols : SUBSET ProtocolKind,
               field_types : SUBSET FieldType,
               shard_serialize_formats : SUBSET ShardFormat,
               trunc_modes : SUBSET TruncProposal,
               prg_crypto_types : SUBSET PrgCryptoType,
               ttp_server_versions : SUBSET Nat]
LrIoProposal == [sample_size : Int, feature_num : Int, has_label : BOOLEAN]

LrResult ==
  [num_epoch : Int, batch_size : Int, last_batch_policy : LastBatchPolicy,
   l0_norm : Nat, l1_norm : Nat, l2_norm : Nat,
   optimizer : Optimizer, learning_rate : Nat,
   sample_size : Nat, feature_nums : [Rank -> Int], label_rank : Int,
   sigmoid_mode : SigmoidMode,
   protocol : ProtocolKind, field_type : FieldType, fxp_bits : Int,
   trunc_mode : TruncMode, shard_serialize_format : ShardFormat,
   ttp_server_host : STRING, ttp_server_version : Nat, ttp_adjust_rank : Int]

HasLabel(c, rank) == c.label_rank = rank

FeatureNum(c, rank) == IF HasLabel(c, rank) THEN c.columns - 1 ELSE c.columns

\* The optimizer constructors throw for everything but SGD.
LrHandlerCreated(c) == c.optimizer = "SGD"

\* ReadDataset and the YACL_ENFORCEs of PrepareDataset.  Without a handshake
\* the environment has said how wide every data set is, this one included.
LrPrepares(c, rank) ==
  /\ c.rows > 0
  /\ IF c.disable_handshake THEN c.feature_nums[rank] = FeatureNum(c, rank)
                            ELSE FeatureNum(c, rank) > 0

\* Mutant: the number of rows is not taken over.
LrPrepared_Unsized(c, rank) ==
  [c EXCEPT !.feature_nums[rank] = IF c.disable_handshake THEN @
                                   ELSE FeatureNum(c, rank)]

LrPrepared(c, rank) ==
  [c EXCEPT !.sample_size = c.rows,
            !.feature_nums[rank] = IF c.disable_handshake THEN @
                                   ELSE FeatureNum(c, rank)]

\* BuildHandshakeRequest throws at a family it has no parameters for.
LrCanPropose(c) ==
  \A i \in DOMAIN c.protocol_families : c.protocol_families[i] = "SS"

LrSsProposal(c) ==
  [supported_protocols |-> {c.protocol}, field_types |-> {c.field_type},
   shard_serialize_formats |-> {c.shard_serialize_format},
   trunc_modes |-> {[method |-> "PROBABILISTIC", compatible_protocols |-> {}]},
   prg_crypto_types |-> {"AES128_CTR"},
   ttp_server_versions |-> {TtpServerVersion}]

LrBuildRequest(c, rank) ==
  [version |-> 2, requester_rank |-> rank,
   lr |-> {[optimizers |-> {c.optimizer},
            last_batch_policies |-> {c.last_batch_policy},
            use_l0_norm |-> FALSE, use_l1_norm |-> FALSE,
            use_l2_norm |-> c.l2_norm # 0]},
   sigmoid |-> {[sigmoid_modes |-> {c.sigmoid_mode}]},
   ss |-> {LrSsProposal(c)},
   ecc |-> {}, psi_io |-> {},
   lr_io |-> {[sample_size |-> c.sample_size,
               feature_num |-> c.feature_nums[rank],
               has_label |-> HasLabel(c, rank)]}]

-----------------------------------------------------------------------------
(* The passive party: the four negotiation steps, in order.                *)

\* What the requests carry for this algorithm, and what all of it lists.
ExtractReqLrParams(requests)      == ExtractParams(requests, "lr")
ExtractReqSigmoidParams(requests) == ExtractParams(requests, "sigmoid")
ExtractReqSsParams(requests)      == ExtractParams(requests, "ss")

IntersectOptimizers(lr)           == IntersectParamItems(lr, "optimizers")
IntersectLastBatchPolicies(lr)    == IntersectParamItems(lr, "last_batch_policies")
IntersectSigmoidModes(op)         == IntersectParamItems(op, "sigmoid_modes")
IntersectProtocols(ss)            == IntersectParamItems(ss, "supported_protocols")
IntersectFieldTypes(ss)           == IntersectParamItems(ss, "field_types")
IntersectShardSerializeFormats(ss) == IntersectParamItems(ss, "shard_serialize_formats")
IntersectPrgCryptoTypes(ss)       == IntersectParamItems(ss, "prg_crypto_types")
IntersectTtpVersions(ss)          == IntersectParamItems(ss, "ttp_server_versions")

NegotiateOptimizerParams(c, lr)   == c.optimizer \in IntersectOptimizers(lr)
NegotiateLastBatchPolicy(c, lr)   == c.last_batch_policy \in IntersectLastBatchPolicies(lr)

NegotiateLrAlgoParams(c, requests) ==
  LET lr == ExtractReqLrParams(requests)
  IN  IF lr = {} THEN "INVALID_REQUEST"
      ELSE IF NegotiateOptimizerParams(c, lr) /\ NegotiateLastBatchPolicy(c, lr)
           THEN "OK" ELSE "UNSUPPORTED_PARAMS"

NegotiateSigmoidParams(c, op) == c.sigmoid_mode \in IntersectSigmoidModes(op)

NegotiateOpParams(c, requests) ==
  LET op == ExtractReqSigmoidParams(requests)
  IN  IF op = {} THEN "INVALID_REQUEST"
      ELSE IF NegotiateSigmoidParams(c, op) THEN "OK" ELSE "UNSUPPORTED_PARAMS"

\* IntersectTruncModes: compatible_protocols is searched for the context's
\* truncation mode, not for its protocol (both are enum numbers).
OffersTruncMode(c, p) ==
  \E t \in p.trunc_modes :
    /\ t.method = c.trunc_mode
    /\ \/ t.compatible_protocols = {}
       \/ TruncModeNumber[c.trunc_mode] \in t.compatible_protocols

NegotiateTruncMode(c, ss) == \A p \in ss : OffersTruncMode(c, p)

NegotiateProtocol(c, ss)   == c.protocol \in IntersectProtocols(ss)
NegotiateFieldType(c, ss)  == c.field_type \in IntersectFieldTypes(ss)
NegotiateShardSerializeFormat(c, ss) ==
  c.shard_serialize_format \in IntersectShardSerializeFormats(ss)
NegotiatePrgConfig(c, ss)  == "AES128_CTR" \in IntersectPrgCryptoTypes(ss)
NegotiateTtpConfig(c, ss)  == TtpServerVersion \in IntersectTtpVersions(ss)

NegotiateSsParams(c, requests) ==
  LET ss == ExtractReqSsParams(requests)
  IN  IF ss = {} THEN "INVALID_REQUEST"
      ELSE IF /\ NegotiateProtocol(c, ss)
              /\ NegotiateFieldType(c, ss)
              /\ NegotiateShardSerializeFormat(c, ss)
              /\ NegotiateTruncMode(c, ss)
              /\ NegotiatePrgConfig(c, ss)
              /\ NegotiateTtpConfig(c, ss)
           THEN "OK" ELSE "UNSUPPORTED_PARAMS"

\* Mutant: a second claim of the label goes unnoticed.
LrIoStatus_AnyLabel(c, requests, i) ==
  IF requests[i].lr_io = {} THEN "INVALID_REQUEST"
  ELSE IF \E io \in requests[i].lr_io : io.sample_size # c.sample_size
       THEN "HANDSHAKE_REFUSED"
  ELSE "OK"

\* The last of a set of requests, and those among the first n with the label.
LatestOf(S)           == CHOOSE i \in S : \A j \in S : j <= i
Labelled(requests, n) == {j \in 1 .. n : \E io \in requests[j].lr_io : io.has_label}

\* label_rank after the first n requests: the requester_rank of who claimed the
\* label last, whatever number that is.
IoLabelRank(c, requests, n) ==
  LET owners == Labelled(requests, n)
  IN  IF owners = {} THEN c.label_rank ELSE requests[LatestOf(owners)].requester_rank

\* What the loop over the requests finds at request i.  The rank is checked from
\* above only, and a label_rank of -1 is taken for a label nobody has claimed.
LrIoStatus(c, requests, i) ==
  IF requests[i].lr_io = {} THEN "INVALID_REQUEST"
  ELSE IF \E io \in requests[i].lr_io : io.sample_size # c.sample_size
       THEN "HANDSHAKE_REFUSED"
  ELSE IF \E io \in requests[i].lr_io : io.feature_num <= 0
       THEN "INVALID_REQUEST"
  ELSE IF requests[i].requester_rank >= WorldSize THEN "THROW"
  ELSE IF /\ \E io \in requests[i].lr_io : io.has_label
          /\ IoLabelRank(c, requests, i - 1) # -1
       THEN "HANDSHAKE_REFUSED"
  ELSE "OK"

\* Mutant: a job in which nobody has the label goes on.
NegotiateLrIoParams_NoOwner(c, requests) ==
  LET bad == {i \in DOMAIN requests : LrIoStatus(c, requests, i) # "OK"}
  IN  IF bad = {} THEN "OK"
      ELSE LrIoStatus(c, requests, CHOOSE i \in bad : \A j \in bad : i <= j)

NegotiateLrIoParams(c, requests) ==
  LET bad == {i \in DOMAIN requests : LrIoStatus(c, requests, i) # "OK"}
  IN  IF bad # {}
      THEN LrIoStatus(c, requests, CHOOSE i \in bad : \A j \in bad : i <= j)
      ELSE IF IoLabelRank(c, requests, Len(requests)) = -1 THEN "INVALID_REQUEST"
      ELSE "OK"

\* The loop gets to a request with a negative rank and writes its width outside
\* of feature_nums, which is undefined: the process may go on or die of it.
LrWritesOutside(c, requests) ==
  /\ NegotiateLrAlgoParams(c, requests) = "OK"
  /\ NegotiateOpParams(c, requests) = "OK"
  /\ NegotiateSsParams(c, requests) = "OK"
  /\ \E i \in DOMAIN requests :
       /\ requests[i].requester_rank < 0
       /\ \E io \in requests[i].lr_io : /\ io.sample_size = c.sample_size
                                        /\ io.feature_num > 0
       /\ \A j \in 1 .. i - 1 : LrIoStatus(c, requests, j) = "OK"

LrNegotiate(c, requests) ==
  FirstError(NegotiateLrAlgoParams(c, requests),
    FirstError(NegotiateOpParams(c, requests),
      FirstError(NegotiateSsParams(c, requests),
        NegotiateLrIoParams(c, requests))))

\* Mutant: the passive party keeps its norm whoever uses it.
NegotiatedNorm_Kept(norm, lr, use) == norm

\* Mutant: "no norm" is written as "no truncation" is, by -1.
NegotiatedNorm_Negative(norm, lr, use) ==
  IF TRUE \in AlignParamItem(lr, use) THEN norm ELSE -1

\* A norm survives only if every requester uses it.
NegotiatedNorm(norm, lr, use) ==
  IF TRUE \in AlignParamItem(lr, use) THEN norm ELSE 0

\* The io parameters of request i.
LrIo(requests, i) == CHOOSE p \in requests[i].lr_io : TRUE

\* The widths that the loop of NegotiateLrIoParams leaves: the last from a rank.
IoFeatureNums(c, requests) ==
  [q \in Rank |->
     LET from == {i \in DOMAIN requests : requests[i].requester_rank = q}
     IN  IF from = {} THEN c.feature_nums[q]
         ELSE LrIo(requests, LatestOf(from)).feature_num]

\* The passive party's context once the negotiation has succeeded.
LrNegotiated(c, requests) ==
  LET lr == ExtractReqLrParams(requests)
  IN  [c EXCEPT
         !.l0_norm = NegotiatedNorm(@, lr, "use_l0_norm"),
         !.l1_norm = NegotiatedNorm(@, lr, "use_l1_norm"),
         !.l2_norm = NegotiatedNorm(@, lr, "use_l2_norm"),
         !.feature_nums = IoFeatureNums(c, requests),
         !.label_rank = IoLabelRank(c, requests, Len(requests))]

LrBuildResponse(c) ==
  [num_epoch |-> c.num_epoch, batch_size |-> c.batch_size,
   last_batch_policy |-> c.last_batch_policy,
   l0_norm |-> c.l0_norm, l1_norm |-> c.l1_norm, l2_norm |-> c.l2_norm,
   optimizer |-> c.optimizer, learning_rate |-> c.learning_rate,
   sample_size |-> c.sample_size, feature_nums |-> c.feature_nums,
   label_rank |-> c.label_rank, sigmoid_mode |-> c.sigmoid_mode,
   protocol |-> c.protocol, field_type |-> c.field_type,
   fxp_bits |-> c.fxp_bits, trunc_mode |-> c.trunc_mode,
   shard_serialize_format |-> c.shard_serialize_format,
   ttp_server_host |-> c.ttp_server_host,
   ttp_server_version |-> TtpServerVersion,
   ttp_adjust_rank |-> c.ttp_adjust_rank]

-----------------------------------------------------------------------------
(* An active party, given the parameters of an OK response.                *)

\* The YACL_ENFORCEs of ProcessHandshakeResponse.
LrAccepts(c, rank, result) ==
  /\ result.l0_norm # 0 => c.l0_norm # 0
  /\ result.l1_norm # 0 => c.l1_norm # 0
  /\ result.l2_norm # 0 => c.l2_norm # 0
  /\ result.optimizer = "SGD"
  /\ result.sample_size = c.sample_size
  /\ result.feature_nums[rank] = c.feature_nums[rank]
  /\ result.sigmoid_mode = c.sigmoid_mode
  /\ result.field_type = c.field_type
  /\ result.trunc_mode = c.trunc_mode
  /\ result.shard_serialize_format = c.shard_serialize_format
  /\ result.ttp_server_version = TtpServerVersion

\* Mutant: the widths of the other parties' data sets are not taken over.
LrProcessed_OwnWidths(c, rank, result) ==
  [c EXCEPT !.num_epoch = result.num_epoch, !.batch_size = result.batch_size,
            !.l2_norm = result.l2_norm]

\* protocol, last_batch_policy and label_rank of the response are not read.
LrProcessed(c, rank, result) ==
  [c EXCEPT
     !.num_epoch = result.num_epoch, !.batch_size = result.batch_size,
     !.l0_norm = result.l0_norm, !.l1_norm = result.l1_norm,
     !.l2_norm = result.l2_norm, !.learning_rate = result.learning_rate,
     !.feature_nums = [result.feature_nums EXCEPT ![rank] = c.feature_nums[rank]],
     !.fxp_bits = result.fxp_bits,
     !.ttp_server_host = result.ttp_server_host,
     !.ttp_adjust_rank = result.ttp_adjust_rank]

\* What RunAlgo needs of the context: a protocol in protocol_map, a batch size
\* Train can divide by, and a data set as wide as the context says.
LrRunnable(c, rank) ==
  /\ c.protocol \in {"SEMI2K", "ABY3"}
  /\ c.batch_size # 0
  /\ c.feature_nums[rank] = FeatureNum(c, rank)

\* Whom MakeSpuContext asks for multiplication triples: the third party, or the
\* first party of the link.  Only host and rank are part of a response, so two
\* parties that agree may still draw their triples from different dealers.
LrBeaver(c) ==
  IF c.use_ttp THEN <<c.ttp_server_host, c.ttp_adjust_rank, c.ttp_public_key>>
  ELSE << >>

\* Shares are typed as those of SEMI2K even when the protocol is ABY3
\* (ProcessDataset); what the SPU makes of that is its own affair.
LrMayFail(c) == c.protocol # "SEMI2K"

-----------------------------------------------------------------------------
(* What two parties must have in common to train together.                 *)
LrTerms(c) ==
  [algo |-> c.algo, num_epoch |-> c.num_epoch, batch_size |-> c.batch_size,
   last_batch_policy |-> c.last_batch_policy, l0_norm |-> c.l0_norm,
   l1_norm |-> c.l1_norm, l2_norm |-> c.l2_norm, optimizer |-> c.optimizer,
   learning_rate |-> c.learning_rate, sample_size |-> c.sample_size,
   feature_nums |-> c.feature_nums, sigmoid_mode |-> c.sigmoid_mode,
   protocol |-> c.protocol, field_type |-> c.field_type,
   fxp_bits |-> c.fxp_bits, trunc_mode |-> c.trunc_mode,
   shard_serialize_format |-> c.shard_serialize_format,
   ttp_server_host |-> c.ttp_server_host,
   ttp_adjust_rank |-> c.ttp_adjust_rank]
=============================================================================
