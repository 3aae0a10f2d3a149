--------------------------- MODULE HandshakeProofs ---------------------------
(***************************************************************************)
(* Safety of Handshake for any number of parties, any deployment of flags  *)
(* and data sets, any proposals of foreign parties, any number of crashes  *)
(* and any timeouts.  First, facts about the operators from which the      *)
(* actions are built: what a successful negotiation implies about every    *)
(* request, which types the handler functions keep, and that an active     *)
(* party which takes a response to its own proposal ends with the passive  *)
(* party's terms.                                                          *)
(***************************************************************************)
EXTENDS Handshake, WellFoundedInduction, TLAPS

-----------------------------------------------------------------------------
(* Sets of positions.                                                      *)

\* A set of positions has a first one (the loops that stop at an error).
LEMMA FirstPosition ==
  ASSUME NEW S, S \subseteq Nat, S # {}
  PROVE  \E i \in S : \A j \in S : i <= j
<1>1. PICK i \in S : \A j \in S : ~ (<<j, i>> \in OpToRel(<, Nat))
  BY NatLessThanWellFounded, WFMin, Zenon
<1>2. \A j \in S : ~ (j < i)
  BY <1>1 DEF OpToRel
<1> QED BY <1>2

\* A bounded set of positions has a last one (the loops that overwrite).
LEMMA LastPosition ==
  ASSUME NEW n \in Nat, NEW S, S \subseteq 1 .. n, S # {}
  PROVE  /\ LatestOf(S) \in S
         /\ \A j \in S : j <= LatestOf(S)
<1> DEFINE T == {n - i : i \in S}
<1>1. T \subseteq Nat
  OBVIOUS
<1>0. T # {}
  <2>1. PICK i \in S : TRUE
    OBVIOUS
  <2>2. n - i \in T
    BY <2>1
  <2> QED BY <2>2
<1> HIDE DEF T
<1>2. PICK t \in T : \A u \in T : t <= u
  BY <1>1, <1>0, FirstPosition
<1>3. PICK i \in S : t = n - i
  BY DEF T
<1>4. \A j \in S : j <= i
  BY <1>2, <1>3 DEF T
<1> QED BY <1>4 DEF LatestOf

-----------------------------------------------------------------------------
(* util.h.                                                                 *)

\* ExtractParams fails unless it takes a parameter out of every request.
LEMMA ExtractedFromEach ==
  ASSUME NEW rs, NEW field, ExtractParams(rs, field) # {}, NEW i \in DOMAIN rs
  PROVE  /\ rs[i][field] # {}
         /\ rs[i][field] \subseteq ExtractParams(rs, field)
BY DEF ExtractParams

\* AlignParamItem answers only with a value that all parameters share.
LEMMA AlignedIsCommon ==
  ASSUME NEW params, NEW item, NEW v \in AlignParamItem(params, item),
         NEW p \in params
  PROVE  p[item] = v
BY DEF AlignParamItem

\* IntersectParamItems answers only with values that all parameters list.
LEMMA IntersectedIsListed ==
  ASSUME NEW params, NEW item, NEW v \in IntersectParamItems(params, item),
         NEW p \in params
  PROVE  v \in p[item]
BY DEF IntersectParamItems

-----------------------------------------------------------------------------
(* ECDH-PSI.                                                               *)

\* The parameters negotiated over requests were offered by each of them.
LEMMA PsiOffered ==
  ASSUME NEW c \in PsiContext, NEW rs, PsiNegotiate(c, rs) = "OK",
         NEW i \in DOMAIN rs
  PROVE  OfferedPsi(rs[i], PsiBuildResponse(PsiNegotiated(c, rs)))
<1> DEFINE ecc == ExtractParams(rs, "ecc")
           io  == ExtractParams(rs, "psi_io")
           x   == PsiBuildResponse(PsiNegotiated(c, rs))
<1>1. /\ ecc # {} /\ NegotiateEcSuits(c, ecc) /\ NegotiatePointOctetFormats(c, ecc)
      /\ io # {} /\ NegotiateResultToRank(c, io)
  BY DEF PsiNegotiate, FirstError, NegotiateEccParams, NegotiatePsiIoParams,
         ExtractReqEccParams
<1>2. /\ x.ec_suit = ContextSuit(c)
      /\ x.point_octet_format = c.point_octet_format
      /\ x.result_to_rank = c.result_to_rank
      /\ x.bit_length_after_truncated = NegotiateBitLengthAfterTruncated(c, ecc)
  BY DEF PsiBuildResponse, PsiNegotiated, ContextSuit, PsiContext,
         ExtractReqEccParams
<1>3. PICK e \in rs[i].ecc : e \in ecc
  BY <1>1, ExtractedFromEach
<1>4. PICK o \in rs[i].psi_io : o \in io
  BY <1>1, ExtractedFromEach
<1> HIDE DEF ecc, io, x
<1>5. x.ec_suit \in e.ec_suits /\ x.point_octet_format \in e.point_octet_formats
  BY <1>1, <1>2, <1>3, IntersectedIsListed
     DEF NegotiateEcSuits, NegotiatePointOctetFormats,
         IntersectEcSuits, IntersectPointOctetFormats
<1>6. ASSUME x.bit_length_after_truncated # -1 PROVE e.support_point_truncation
  <2>1. TRUE \in AlignParamItem(ecc, "support_point_truncation")
    BY <1>2, <1>6 DEF NegotiateBitLengthAfterTruncated
  <2> QED BY <2>1, <1>3, AlignedIsCommon
<1>7. o.result_to_rank = x.result_to_rank
  BY <1>1, <1>2, <1>4, AlignedIsCommon DEF NegotiateResultToRank
<1> QED BY <1>3, <1>4, <1>5, <1>6, <1>7 DEF OfferedPsi, x

\* The handler functions keep the type of the context, and what they build has
\* the type of a request or of a result.
LEMMA PsiTypes ==
  ASSUME NEW c \in PsiContext
  PROVE  /\ \A r \in Rank : PsiBuildRequest(c, r) \in Request
         /\ PsiBuildResponse(c) \in PsiResult
         /\ \A rs : /\ PsiNegotiated(c, rs) \in PsiContext
                    /\ PsiNegotiated(c, rs).disable_handshake = c.disable_handshake
         /\ \A x \in PsiResult :
              /\ PsiProcessed(c, x) \in PsiContext
              /\ PsiProcessed(c, x).disable_handshake = c.disable_handshake
<1>1. ContextSuit(c) \in EcSuit
  BY DEF PsiContext, ContextSuit, EcSuit
<1>2. ASSUME NEW r \in Rank PROVE PsiBuildRequest(c, r) \in Request
  <2>1. PsiEccProposal(c) \in EccProposal
    BY <1>1 DEF PsiContext, PsiEccProposal, EccProposal
  <2>2. [result_to_rank |-> c.result_to_rank] \in PsiIoProposal
    BY DEF PsiContext, PsiIoProposal
  <2>3. c.version \in Nat /\ r \in Nat
    BY DEF PsiContext, Rank
  <2> QED BY <2>1, <2>2, <2>3 DEF PsiBuildRequest, Request
<1>3. PsiBuildResponse(c) \in PsiResult
  BY <1>1 DEF PsiContext, PsiBuildResponse, PsiResult
<1>4. ASSUME NEW rs
      PROVE  /\ PsiNegotiated(c, rs) \in PsiContext
             /\ PsiNegotiated(c, rs).disable_handshake = c.disable_handshake
  <2>1. NegotiateBitLengthAfterTruncated(c, ExtractReqEccParams(rs)) \in Int
    <3>1. c.bit_length_after_truncated \in Int /\ -1 \in Int
      BY DEF PsiContext
    <3> QED BY <3>1 DEF NegotiateBitLengthAfterTruncated
  <2> QED BY <2>1 DEF PsiNegotiated, PsiContext
<1>5. ASSUME NEW x \in PsiResult
      PROVE  /\ PsiProcessed(c, x) \in PsiContext
             /\ PsiProcessed(c, x).disable_handshake = c.disable_handshake
  BY DEF PsiProcessed, PsiContext, PsiResult
<1> QED BY <1>2, <1>3, <1>4, <1>5

\* An active party that takes a response within its own proposal ends with the
\* terms of the passive party that sent it.
LEMMA PsiTermsMeet ==
  ASSUME NEW c \in PsiContext, NEW d \in PsiContext, NEW r,
         OfferedPsi(PsiBuildRequest(c, r), PsiBuildResponse(d)),
         PsiAccepts(c, PsiBuildResponse(d))
  PROVE  PsiTerms(PsiProcessed(c, PsiBuildResponse(d))) = PsiTerms(d)
<1> DEFINE x == PsiBuildResponse(d)
           e == PsiProcessed(c, x)
<1>1. /\ x.ec_suit = ContextSuit(d)
      /\ x.point_octet_format = d.point_octet_format
      /\ x.bit_length_after_truncated = d.bit_length_after_truncated
      /\ x.result_to_rank = d.result_to_rank
  BY DEF PsiBuildResponse
<1>2. x.result_to_rank = c.result_to_rank
  BY DEF OfferedPsi, PsiBuildRequest
<1>3. /\ x.ec_suit = ContextSuit(c)
      /\ x.point_octet_format = c.point_octet_format
  BY DEF PsiAccepts
<1>4. /\ e.algo = c.algo /\ ContextSuit(e) = ContextSuit(c)
      /\ e.point_octet_format = c.point_octet_format
      /\ e.bit_length_after_truncated = x.bit_length_after_truncated
      /\ e.result_to_rank = c.result_to_rank
  BY DEF PsiProcessed, PsiContext, ContextSuit
<1>5. c.algo = d.algo
  BY DEF PsiContext
<1> HIDE DEF x, e
<1> QED BY <1>1, <1>2, <1>3, <1>4, <1>5 DEF PsiTerms, x, e

-----------------------------------------------------------------------------
(* SS-LR.                                                                  *)

\* A negotiation over the io parameters that succeeds has looked at all of them.
LEMMA LrIoChecked ==
  ASSUME NEW c, NEW rs \in Seq(Request), NegotiateLrIoParams(c, rs) = "OK",
         NEW i \in DOMAIN rs
  PROVE  LrIoStatus(c, rs, i) = "OK"
<1> DEFINE bad == {j \in DOMAIN rs : LrIoStatus(c, rs, j) # "OK"}
<1>1. bad \subseteq Nat
  OBVIOUS
<1>2. CASE bad = {}
  BY <1>2
<1>3. CASE bad # {}
  <2>1. \E k \in bad : \A j \in bad : k <= j
    <3> HIDE DEF bad
    <3> QED BY <1>1, <1>3, FirstPosition
  <2>2. (CHOOSE k \in bad : \A j \in bad : k <= j) \in bad
    BY <2>1
  <2>3. NegotiateLrIoParams(c, rs)
          = LrIoStatus(c, rs, CHOOSE k \in bad : \A j \in bad : k <= j)
    BY <1>3 DEF NegotiateLrIoParams
  <2> QED BY <2>2, <2>3
<1> QED BY <1>2, <1>3

\* The four negotiation steps have all succeeded when the last one is reached.
LEMMA LrStepsDone ==
  ASSUME NEW c, NEW rs, LrNegotiate(c, rs) = "OK"
  PROVE  /\ NegotiateLrAlgoParams(c, rs) = "OK"
         /\ NegotiateOpParams(c, rs) = "OK"
         /\ NegotiateSsParams(c, rs) = "OK"
         /\ NegotiateLrIoParams(c, rs) = "OK"
BY DEF LrNegotiate, FirstError

\* A norm that the passive party keeps is used by every requester.
LEMMA NormIsCommon ==
  ASSUME NEW norm, NEW lr, NEW use, NEW p \in lr,
         NegotiatedNorm(norm, lr, use) # 0
  PROVE  p[use]
<1>1. TRUE \in AlignParamItem(lr, use)
  BY DEF NegotiatedNorm
<1> QED BY <1>1, AlignedIsCommon

\* What the loop over the io parameters leaves is typed.
LEMMA IoTyped ==
  ASSUME NEW c \in LrContext, NEW rs \in Seq(Request),
         \A i \in DOMAIN rs : rs[i].lr_io # {}
  PROVE  /\ IoFeatureNums(c, rs) \in [Rank -> Int]
         /\ IoLabelRank(c, rs, Len(rs)) \in Int
<1> DEFINE from(q) == {i \in DOMAIN rs : rs[i].requester_rank = q}
           owners  == Labelled(rs, Len(rs))
<1>1. \A S : S \subseteq DOMAIN rs /\ S # {} => LatestOf(S) \in DOMAIN rs
  <2>1. Len(rs) \in Nat /\ DOMAIN rs = 1 .. Len(rs)
    OBVIOUS
  <2> QED BY <2>1, LastPosition
<1>2. \A i \in DOMAIN rs : /\ rs[i] \in Request
                            /\ LrIo(rs, i) \in LrIoProposal
  <2>1. \A i \in DOMAIN rs : rs[i] \in Request
    OBVIOUS
  <2> QED BY <2>1 DEF LrIo, Request
<1>3. IoFeatureNums(c, rs) \in [Rank -> Int]
  <2>1. \A q \in Rank : c.feature_nums[q] \in Int
    BY DEF LrContext
  <2>2. \A i \in DOMAIN rs : LrIo(rs, i).feature_num \in Int
    BY <1>2 DEF LrIoProposal
  <2>3. \A q : from(q) \subseteq DOMAIN rs
    OBVIOUS
  <2>4. IoFeatureNums(c, rs) =
          [q \in Rank |-> IF from(q) = {} THEN c.feature_nums[q]
                          ELSE LrIo(rs, LatestOf(from(q))).feature_num]
    BY DEF IoFeatureNums
  <2> HIDE DEF from
  <2> QED BY <1>1, <2>1, <2>2, <2>3, <2>4
<1>4. IoLabelRank(c, rs, Len(rs)) \in Int
  <2>1. c.label_rank \in Int
    BY DEF LrContext
  <2>2. \A i \in DOMAIN rs : rs[i].requester_rank \in Int
    BY <1>2 DEF Request
  <2>3. owners \subseteq DOMAIN rs
    BY DEF Labelled
  <2>4. IoLabelRank(c, rs, Len(rs)) =
          IF owners = {} THEN c.label_rank ELSE rs[LatestOf(owners)].requester_rank
    BY DEF IoLabelRank
  <2> HIDE DEF owners
  <2> QED BY <1>1, <2>1, <2>2, <2>3, <2>4
<1> QED
  BY <1>3, <1>4

\* The context after a negotiation, field by field.
LEMMA LrNegotiatedFields ==
  ASSUME NEW c \in LrContext, NEW rs \in Seq(Request),
         \A i \in DOMAIN rs : rs[i].lr_io # {}
  PROVE  LET n  == LrNegotiated(c, rs)
             lr == ExtractParams(rs, "lr")
         IN  /\ n \in LrContext
             /\ n = [c EXCEPT !.l0_norm = n.l0_norm, !.l1_norm = n.l1_norm,
                              !.l2_norm = n.l2_norm,
                              !.feature_nums = n.feature_nums,
                              !.label_rank = n.label_rank]
             /\ n.l0_norm = NegotiatedNorm(c.l0_norm, lr, "use_l0_norm")
             /\ n.l1_norm = NegotiatedNorm(c.l1_norm, lr, "use_l1_norm")
             /\ n.l2_norm = NegotiatedNorm(c.l2_norm, lr, "use_l2_norm")
             /\ n.feature_nums = IoFeatureNums(c, rs)
             /\ n.label_rank = IoLabelRank(c, rs, Len(rs))
<1> DEFINE lr    == ExtractParams(rs, "lr")
           fn    == IoFeatureNums(c, rs)
           label == IoLabelRank(c, rs, Len(rs))
           n == [c EXCEPT !.l0_norm = NegotiatedNorm(@, lr, "use_l0_norm"),
                          !.l1_norm = NegotiatedNorm(@, lr, "use_l1_norm"),
                          !.l2_norm = NegotiatedNorm(@, lr, "use_l2_norm"),
                          !.feature_nums = fn, !.label_rank = label]
<1>1. fn \in [Rank -> Int] /\ label \in Int
  BY IoTyped
<1>2. \A use : \A v \in Nat : NegotiatedNorm(v, lr, use) \in Nat
  BY DEF NegotiatedNorm
<1>3. LrNegotiated(c, rs) = n
  BY DEF LrNegotiated, ExtractReqLrParams
<1> HIDE DEF fn, label, lr
<1>4. n \in LrContext
  BY <1>1, <1>2 DEF LrContext
<1>5. /\ n.l0_norm = NegotiatedNorm(c.l0_norm, lr, "use_l0_norm")
      /\ n.l1_norm = NegotiatedNorm(c.l1_norm, lr, "use_l1_norm")
      /\ n.l2_norm = NegotiatedNorm(c.l2_norm, lr, "use_l2_norm")
      /\ n.feature_nums = fn /\ n.label_rank = label
  BY DEF LrContext
<1> QED BY <1>3, <1>4, <1>5 DEF lr, fn, label

\* The parameters negotiated over requests were offered by each of them.
LEMMA LrOffered ==
  ASSUME NEW c \in LrContext, NEW rs \in Seq(Request),
         LrNegotiate(c, rs) = "OK", NEW i \in DOMAIN rs
  PROVE  OfferedLr(rs[i], LrBuildResponse(LrNegotiated(c, rs)))
<1> DEFINE lr == ExtractParams(rs, "lr")
           op == ExtractParams(rs, "sigmoid")
           ss == ExtractParams(rs, "ss")
           n  == LrNegotiated(c, rs)
           x  == LrBuildResponse(n)
<1>1. /\ lr # {} /\ c.optimizer \in IntersectParamItems(lr, "optimizers")
      /\ c.last_batch_policy \in IntersectParamItems(lr, "last_batch_policies")
  BY LrStepsDone DEF NegotiateLrAlgoParams, ExtractReqLrParams, IntersectOptimizers,
     IntersectLastBatchPolicies, NegotiateOptimizerParams, NegotiateLastBatchPolicy
<1>2. op # {} /\ c.sigmoid_mode \in IntersectParamItems(op, "sigmoid_modes")
  BY LrStepsDone DEF NegotiateOpParams, ExtractReqSigmoidParams,
     NegotiateSigmoidParams, IntersectSigmoidModes
<1>3. /\ ss # {} /\ NegotiateProtocol(c, ss) /\ NegotiateTruncMode(c, ss)
      /\ c.field_type \in IntersectParamItems(ss, "field_types")
      /\ c.shard_serialize_format
           \in IntersectParamItems(ss, "shard_serialize_formats")
      /\ TtpServerVersion \in IntersectParamItems(ss, "ttp_server_versions")
  BY LrStepsDone DEF NegotiateSsParams, ExtractReqSsParams, NegotiateFieldType,
     NegotiateShardSerializeFormat, NegotiateTtpConfig, IntersectFieldTypes,
     IntersectShardSerializeFormats, IntersectTtpVersions
<1>4. \A j \in DOMAIN rs : /\ rs[j].lr_io # {}
                            /\ \A io \in rs[j].lr_io :
                                 io.sample_size = c.sample_size
  BY LrStepsDone, LrIoChecked DEF LrIoStatus
<1>5. /\ n = [c EXCEPT !.l0_norm = n.l0_norm, !.l1_norm = n.l1_norm,
                       !.l2_norm = n.l2_norm,
                       !.feature_nums = n.feature_nums,
                       !.label_rank = n.label_rank]
      /\ n.l0_norm = NegotiatedNorm(c.l0_norm, lr, "use_l0_norm")
      /\ n.l1_norm = NegotiatedNorm(c.l1_norm, lr, "use_l1_norm")
      /\ n.l2_norm = NegotiatedNorm(c.l2_norm, lr, "use_l2_norm")
  BY <1>4, LrNegotiatedFields
<1> HIDE DEF lr, op, ss, n
<1>6. /\ n.optimizer = c.optimizer /\ n.last_batch_policy = c.last_batch_policy
      /\ n.sigmoid_mode = c.sigmoid_mode /\ n.protocol = c.protocol
      /\ n.field_type = c.field_type /\ n.trunc_mode = c.trunc_mode
      /\ n.shard_serialize_format = c.shard_serialize_format
      /\ n.sample_size = c.sample_size
  BY <1>5 DEF LrContext
<1>7. /\ x.optimizer = c.optimizer /\ x.last_batch_policy = c.last_batch_policy
      /\ x.sigmoid_mode = c.sigmoid_mode /\ x.protocol = c.protocol
      /\ x.field_type = c.field_type /\ x.trunc_mode = c.trunc_mode
      /\ x.shard_serialize_format = c.shard_serialize_format
      /\ x.sample_size = c.sample_size
      /\ x.ttp_server_version = TtpServerVersion
      /\ x.l0_norm = n.l0_norm /\ x.l1_norm = n.l1_norm
      /\ x.l2_norm = n.l2_norm
  BY <1>6 DEF LrBuildResponse
<1> HIDE DEF x
<1>8. \E p \in rs[i].lr :
        /\ x.optimizer \in p.optimizers
        /\ x.last_batch_policy \in p.last_batch_policies
        /\ x.l0_norm # 0 => p.use_l0_norm
        /\ x.l1_norm # 0 => p.use_l1_norm
        /\ x.l2_norm # 0 => p.use_l2_norm
  <2>1. PICK p \in rs[i].lr : p \in lr
    BY <1>1, ExtractedFromEach DEF lr
  <2>2. x.optimizer \in p.optimizers /\ x.last_batch_policy \in p.last_batch_policies
    BY <1>1, <1>7, <2>1, IntersectedIsListed
  <2>3. x.l0_norm # 0 => p.use_l0_norm
    <3>1. NegotiatedNorm(c.l0_norm, lr, "use_l0_norm") # 0 => p["use_l0_norm"]
      BY <2>1, NormIsCommon
    <3> QED BY <1>5, <1>7, <3>1
  <2>4. x.l1_norm # 0 => p.use_l1_norm
    <3>1. NegotiatedNorm(c.l1_norm, lr, "use_l1_norm") # 0 => p["use_l1_norm"]
      BY <2>1, NormIsCommon
    <3> QED BY <1>5, <1>7, <3>1
  <2>5. x.l2_norm # 0 => p.use_l2_norm
    <3>1. NegotiatedNorm(c.l2_norm, lr, "use_l2_norm") # 0 => p["use_l2_norm"]
      BY <2>1, NormIsCommon
    <3> QED BY <1>5, <1>7, <3>1
  <2> QED BY <2>1, <2>2, <2>3, <2>4, <2>5
<1>9. \E p \in rs[i].sigmoid : x.sigmoid_mode \in p.sigmoid_modes
  <2>1. PICK p \in rs[i].sigmoid : p \in op
    BY <1>2, ExtractedFromEach DEF op
  <2> QED BY <1>2, <1>7, <2>1, IntersectedIsListed
<1>10. \E p \in rs[i].ss :
         /\ x.protocol \in p.supported_protocols
         /\ x.field_type \in p.field_types
         /\ x.shard_serialize_format \in p.shard_serialize_formats
         /\ \E t \in p.trunc_modes : t.method = x.trunc_mode
         /\ x.ttp_server_version \in p.ttp_server_versions
  <2>1. PICK p \in rs[i].ss : p \in ss
    BY <1>3, ExtractedFromEach DEF ss
  <2>2. x.protocol \in p.supported_protocols
    BY <1>3, <1>7, <2>1, IntersectedIsListed
       DEF NegotiateProtocol, IntersectProtocols
  <2>3. /\ x.field_type \in p.field_types
        /\ x.shard_serialize_format \in p.shard_serialize_formats
        /\ x.ttp_server_version \in p.ttp_server_versions
    BY <1>3, <1>7, <2>1, IntersectedIsListed
  <2>4. \E t \in p.trunc_modes : t.method = x.trunc_mode
    BY <1>3, <1>7, <2>1 DEF NegotiateTruncMode, OffersTruncMode
  <2> QED BY <2>1, <2>2, <2>3, <2>4
<1>11. \E io \in rs[i].lr_io : io.sample_size = x.sample_size
  BY <1>4, <1>7
<1>12. OfferedLr(rs[i], x)
  BY <1>8, <1>9, <1>10, <1>11 DEF OfferedLr
<1> QED BY <1>12 DEF x, n

\* The handler functions keep the type of the context, and what they build has
\* the type of a request or of a result.
LEMMA LrTypes ==
  ASSUME NEW c \in LrContext, NEW r \in Rank
  PROVE  /\ LrBuildRequest(c, r) \in Request
         /\ LrBuildResponse(c) \in LrResult
         /\ LrPrepared(c, r) \in LrContext
         /\ LrPrepared(c, r).disable_handshake = c.disable_handshake
         /\ \A x \in LrResult :
              /\ LrProcessed(c, r, x) \in LrContext
              /\ LrProcessed(c, r, x).disable_handshake = c.disable_handshake
<1>1. LrBuildRequest(c, r) \in Request
  <2> DEFINE lr == [optimizers |-> {c.optimizer},
                    last_batch_policies |-> {c.last_batch_policy},
                    use_l0_norm |-> FALSE, use_l1_norm |-> FALSE,
                    use_l2_norm |-> c.l2_norm # 0]
             sigmoid == [sigmoid_modes |-> {c.sigmoid_mode}]
             io == [sample_size |-> c.sample_size,
                    feature_num |-> c.feature_nums[r],
                    has_label |-> HasLabel(c, r)]
  <2>1. lr \in LrProposal
    BY DEF LrContext, LrProposal
  <2>2. sigmoid \in SigmoidProposal
    BY DEF LrContext, SigmoidProposal
  <2>3. LrSsProposal(c) \in SsProposal
    BY DEF LrContext, LrSsProposal, SsProposal, TruncProposal, TruncMode,
           PrgCryptoType, TtpServerVersion
  <2>4. io \in LrIoProposal
    BY DEF LrContext, LrIoProposal, HasLabel
  <2>5. r \in Nat
    BY DEF Rank
  <2> HIDE DEF lr, sigmoid, io
  <2>6. [version |-> 2, requester_rank |-> r, lr |-> {lr},
         sigmoid |-> {sigmoid}, ss |-> {LrSsProposal(c)},
         ecc |-> {}, psi_io |-> {}, lr_io |-> {io}] \in Request
    BY <2>1, <2>2, <2>3, <2>4, <2>5 DEF Request
  <2> QED BY <2>6 DEF LrBuildRequest, lr, sigmoid, io
<1>2. LrBuildResponse(c) \in LrResult
  BY DEF LrContext, LrBuildResponse, LrResult, TtpServerVersion
<1>3. /\ LrPrepared(c, r) \in LrContext
      /\ LrPrepared(c, r).disable_handshake = c.disable_handshake
  <2> DEFINE own  == IF c.disable_handshake THEN c.feature_nums[r]
                     ELSE FeatureNum(c, r)
             nums == [c.feature_nums EXCEPT ![r] = own]
  <2>1. FeatureNum(c, r) \in Int
    BY DEF FeatureNum, LrContext
  <2>2. nums \in [Rank -> Int]
    BY <2>1 DEF LrContext
  <2>3. LrPrepared(c, r) = [c EXCEPT !.sample_size = c.rows, !.feature_nums = nums]
    BY DEF LrPrepared, LrContext
  <2>4. ASSUME NEW n \in [Rank -> Int], NEW size \in Nat, NEW p,
               p = [c EXCEPT !.sample_size = size, !.feature_nums = n]
        PROVE  p \in LrContext /\ p.disable_handshake = c.disable_handshake
    BY <2>4 DEF LrContext
  <2>5. c.rows \in Nat
    BY DEF LrContext
  <2> HIDE DEF nums
  <2> QED BY <2>2, <2>3, <2>4, <2>5, Zenon
<1>4. ASSUME NEW x \in LrResult
      PROVE  /\ LrProcessed(c, r, x) \in LrContext
             /\ LrProcessed(c, r, x).disable_handshake = c.disable_handshake
  <2>1. [x.feature_nums EXCEPT ![r] = c.feature_nums[r]] \in [Rank -> Int]
    BY DEF LrContext, LrResult
  <2> QED BY <2>1 DEF LrProcessed, LrContext, LrResult
<1> QED BY <1>1, <1>2, <1>3, <1>4

\* An active party that takes a response within its own proposal ends with the
\* terms of the passive party that sent it.
LEMMA LrTermsMeet ==
  ASSUME NEW c \in LrContext, NEW d \in LrContext, NEW r \in Rank,
         OfferedLr(LrBuildRequest(c, r), LrBuildResponse(d)),
         LrAccepts(c, r, LrBuildResponse(d))
  PROVE  LrTerms(LrProcessed(c, r, LrBuildResponse(d))) = LrTerms(d)
<1> DEFINE x == LrBuildResponse(d)
           e == LrProcessed(c, r, x)
           q == LrBuildRequest(c, r)
<1>1. x \in LrResult
  BY LrTypes
<1>2. /\ q.lr = {[optimizers |-> {c.optimizer},
                  last_batch_policies |-> {c.last_batch_policy},
                  use_l0_norm |-> FALSE, use_l1_norm |-> FALSE,
                  use_l2_norm |-> c.l2_norm # 0]}
      /\ q.ss = {LrSsProposal(c)}
  BY DEF LrBuildRequest
<1>3. /\ x.optimizer = c.optimizer
      /\ x.last_batch_policy = c.last_batch_policy
      /\ x.protocol = c.protocol
  BY <1>2 DEF OfferedLr, LrSsProposal
<1>4. /\ x.sample_size = c.sample_size
      /\ x.feature_nums[r] = c.feature_nums[r]
      /\ x.sigmoid_mode = c.sigmoid_mode /\ x.field_type = c.field_type
      /\ x.trunc_mode = c.trunc_mode
      /\ x.shard_serialize_format = c.shard_serialize_format
  BY DEF LrAccepts
<1>5. [x.feature_nums EXCEPT ![r] = c.feature_nums[r]] = x.feature_nums
  BY <1>1, <1>4 DEF LrResult
<1> HIDE DEF x
<1>6. /\ e.algo = c.algo /\ e.last_batch_policy = c.last_batch_policy
      /\ e.optimizer = c.optimizer /\ e.sample_size = c.sample_size
      /\ e.sigmoid_mode = c.sigmoid_mode /\ e.protocol = c.protocol
      /\ e.field_type = c.field_type /\ e.trunc_mode = c.trunc_mode
      /\ e.shard_serialize_format = c.shard_serialize_format
  BY DEF LrProcessed, LrContext
<1>7. /\ e.num_epoch = x.num_epoch /\ e.batch_size = x.batch_size
      /\ e.l0_norm = x.l0_norm /\ e.l1_norm = x.l1_norm
      /\ e.l2_norm = x.l2_norm /\ e.learning_rate = x.learning_rate
      /\ e.fxp_bits = x.fxp_bits /\ e.ttp_server_host = x.ttp_server_host
      /\ e.ttp_adjust_rank = x.ttp_adjust_rank
      /\ e.feature_nums = x.feature_nums
  BY <1>5 DEF LrProcessed, LrContext
<1>8. c.algo = d.algo
  BY DEF LrContext
<1> HIDE DEF e
<1>9. LrTerms(e) = LrTerms(d)
  BY <1>3, <1>4, <1>6, <1>7, <1>8 DEF LrTerms, LrBuildResponse, x
<1> QED BY <1>9 DEF e, x

-----------------------------------------------------------------------------
(* The virtual functions, whichever handler they are dispatched to.        *)

\* Rank 0 runs this program; the ranks are rank 0 and the active ones.
LEMMA Ranks ==
  /\ Passive \in Native /\ Native \subseteq Rank /\ Foreign \subseteq Rank
  /\ Rank = {Passive} \cup Active /\ Passive \notin Active
BY WorldSizeAssumption, HandshakeAssumption DEF Native, Passive, Active, Rank

\* The algorithm tells which type a context has.
LEMMA ContextKind ==
  ASSUME NEW c \in Context
  PROVE  IF IsPsi(c) THEN c \in PsiContext /\ c.algo = "ECDH_PSI"
                     ELSE c \in LrContext /\ c.algo = "SS_LR"
BY DEF Context, IsPsi, PsiContext, LrContext

\* A negotiation ends with OK, with an error code or with an exception.
LEMMA VerdictCode ==
  ASSUME NEW c \in Context, NEW rs
  PROVE  Verdict(c, rs) \in ErrorCode \cup {"THROW"}
<1>1. PsiNegotiate(c, rs) \in ErrorCode
  BY DEF PsiNegotiate, FirstError, NegotiateEccParams, NegotiatePsiIoParams, ErrorCode
<1>2. \A i : LrIoStatus(c, rs, i) \in ErrorCode \cup {"THROW"}
  BY DEF LrIoStatus, ErrorCode
<1>3. NegotiateLrIoParams(c, rs) \in ErrorCode \cup {"THROW"}
  <2> DEFINE bad == {i \in DOMAIN rs : LrIoStatus(c, rs, i) # "OK"}
             k   == CHOOSE i \in bad : \A j \in bad : i <= j
  <2>1. LrIoStatus(c, rs, k) \in ErrorCode \cup {"THROW"}
    BY <1>2
  <2> QED BY <2>1 DEF NegotiateLrIoParams, ErrorCode
<1>4. LrNegotiate(c, rs) \in ErrorCode \cup {"THROW"}
  BY <1>3 DEF LrNegotiate, FirstError, NegotiateLrAlgoParams, NegotiateOpParams,
     NegotiateSsParams, ErrorCode
<1> QED BY <1>1, <1>4 DEF Verdict, Negotiate, ErrorCode

\* A negotiation that succeeds leaves a context of the right type, whose terms
\* every request offered.
LEMMA Negotiating ==
  ASSUME NEW c \in Context, NEW rs \in Seq(Request), Verdict(c, rs) = "OK"
  PROVE  /\ Negotiated(c, rs) \in Context
         /\ Negotiated(c, rs).disable_handshake = c.disable_handshake
         /\ \A i \in DOMAIN rs :
              Offered(rs[i], BuildResponse(Negotiated(c, rs)))
<1>1. Negotiate(c, rs) = "OK"
  BY DEF Verdict
<1>2. CASE IsPsi(c)
  <2>1. c \in PsiContext /\ PsiNegotiate(c, rs) = "OK"
    BY <1>1, <1>2, ContextKind DEF Negotiate
  <2>2. Negotiated(c, rs) = PsiNegotiated(c, rs)
    BY <1>2 DEF Negotiated
  <2>3. /\ PsiNegotiated(c, rs) \in PsiContext
        /\ PsiNegotiated(c, rs).disable_handshake = c.disable_handshake
    BY <2>1, PsiTypes
  <2>4. IsPsi(PsiNegotiated(c, rs)) /\ PsiNegotiated(c, rs).algo = "ECDH_PSI"
    BY <2>3 DEF PsiContext, IsPsi
  <2>5. BuildResponse(PsiNegotiated(c, rs))
          = [code |-> "OK", algo |-> "ECDH_PSI",
             result |-> {PsiBuildResponse(PsiNegotiated(c, rs))}]
    BY <2>4 DEF BuildResponse
  <2>6. \A i \in DOMAIN rs : OfferedPsi(rs[i], PsiBuildResponse(PsiNegotiated(c, rs)))
    BY <2>1, PsiOffered
  <2> QED BY <2>2, <2>3, <2>5, <2>6 DEF Context, Offered
<1>3. CASE ~ IsPsi(c)
  <2>1. c \in LrContext /\ LrNegotiate(c, rs) = "OK"
    BY <1>1, <1>3, ContextKind DEF Negotiate
  <2>2. Negotiated(c, rs) = LrNegotiated(c, rs)
    BY <1>3 DEF Negotiated
  <2>3. /\ LrNegotiated(c, rs) \in LrContext
        /\ LrNegotiated(c, rs).disable_handshake = c.disable_handshake
    <3> DEFINE n == LrNegotiated(c, rs)
    <3>1. \A i \in DOMAIN rs : rs[i].lr_io # {}
      BY <2>1, LrStepsDone, LrIoChecked DEF LrIoStatus
    <3>2. /\ n \in LrContext
          /\ n = [c EXCEPT !.l0_norm = n.l0_norm, !.l1_norm = n.l1_norm,
                           !.l2_norm = n.l2_norm,
                           !.feature_nums = n.feature_nums,
                           !.label_rank = n.label_rank]
      BY <2>1, <3>1, LrNegotiatedFields
    <3> HIDE DEF n
    <3>3. n.disable_handshake = c.disable_handshake
      BY <2>1, <3>2 DEF LrContext
    <3> QED BY <3>2, <3>3 DEF n
  <2>4. ~ IsPsi(LrNegotiated(c, rs)) /\ LrNegotiated(c, rs).algo = "SS_LR"
    BY <2>3 DEF LrContext, IsPsi
  <2>5. BuildResponse(LrNegotiated(c, rs))
          = [code |-> "OK", algo |-> "SS_LR",
             result |-> {LrBuildResponse(LrNegotiated(c, rs))}]
    BY <2>4 DEF BuildResponse
  <2>6. \A i \in DOMAIN rs : OfferedLr(rs[i], LrBuildResponse(LrNegotiated(c, rs)))
    BY <2>1, LrOffered
  <2> QED BY <2>2, <2>3, <2>5, <2>6 DEF Context, Offered
<1> QED BY <1>2, <1>3

\* The other functions keep the types, too.
LEMMA HandlerTypes ==
  ASSUME NEW c \in Context, NEW r \in Rank
  PROVE  /\ BuildRequest(c, r) \in Request
         /\ Prepared(c, r) \in Context
         /\ Prepared(c, r).disable_handshake = c.disable_handshake
         /\ BuildResponse(c) \in Response /\ BuildResponse(c).code = "OK"
         /\ \A rsp \in Response : Accepts(c, r, rsp) =>
              /\ Processed(c, r, rsp) \in Context
              /\ Processed(c, r, rsp).disable_handshake = c.disable_handshake
<1>1. CASE IsPsi(c)
  <2>1. c \in PsiContext /\ c.algo = "ECDH_PSI"
    BY <1>1, ContextKind
  <2>2. /\ BuildRequest(c, r) \in Request /\ Prepared(c, r) \in Context
        /\ Prepared(c, r).disable_handshake = c.disable_handshake
    BY <1>1, <2>1, PsiTypes DEF BuildRequest, Prepared, Context
  <2>3. PsiBuildResponse(c) \in PsiResult
    BY <2>1, PsiTypes
  <2>4. BuildResponse(c) = [code |-> "OK", algo |-> "ECDH_PSI",
                            result |-> {PsiBuildResponse(c)}]
    BY <1>1, <2>1 DEF BuildResponse
  <2>5. BuildResponse(c) \in Response
    BY <2>3, <2>4 DEF Response
  <2>6. ASSUME NEW rsp \in Response, Accepts(c, r, rsp)
        PROVE  /\ Processed(c, r, rsp) \in Context
               /\ Processed(c, r, rsp).disable_handshake = c.disable_handshake
    <3>1. rsp.result \subseteq PsiResult /\ rsp.result # {}
      BY <2>1, <2>6 DEF Response, Accepts
    <3>2. (CHOOSE x \in rsp.result : TRUE) \in PsiResult
      BY <3>1
    <3> QED BY <1>1, <2>1, <3>2, PsiTypes DEF Processed, Context
  <2> QED BY <2>2, <2>4, <2>5, <2>6
<1>2. CASE ~ IsPsi(c)
  <2>1. c \in LrContext /\ c.algo = "SS_LR"
    BY <1>2, ContextKind
  <2>2. /\ BuildRequest(c, r) \in Request /\ Prepared(c, r) \in Context
        /\ Prepared(c, r).disable_handshake = c.disable_handshake
    BY <1>2, <2>1, LrTypes DEF BuildRequest, Prepared, Context
  <2>3. LrBuildResponse(c) \in LrResult
    BY <2>1, LrTypes
  <2>4. BuildResponse(c) = [code |-> "OK", algo |-> "SS_LR",
                            result |-> {LrBuildResponse(c)}]
    BY <1>2, <2>1 DEF BuildResponse
  <2>5. BuildResponse(c) \in Response
    BY <2>3, <2>4 DEF Response
  <2>6. ASSUME NEW rsp \in Response, Accepts(c, r, rsp)
        PROVE  /\ Processed(c, r, rsp) \in Context
               /\ Processed(c, r, rsp).disable_handshake = c.disable_handshake
    <3>1. rsp.result \subseteq LrResult /\ rsp.result # {}
      BY <2>1, <2>6 DEF Response, Accepts
    <3>2. (CHOOSE x \in rsp.result : TRUE) \in LrResult
      BY <3>1
    <3> QED BY <1>2, <2>1, <3>2, LrTypes DEF Processed, Context
  <2> QED BY <2>2, <2>4, <2>5, <2>6
<1> QED BY <1>1, <1>2

\* An active party that takes a response within its own proposal ends with the
\* terms of the passive party that sent it.
LEMMA TermsMeet ==
  ASSUME NEW c \in Context, NEW d \in Context, NEW r \in Rank,
         Offered(BuildRequest(c, r), BuildResponse(d)),
         Accepts(c, r, BuildResponse(d))
  PROVE  Terms(Processed(c, r, BuildResponse(d))) = Terms(d)
<1>1. c.algo = d.algo
  BY DEF Accepts, BuildResponse
<1>2. CASE IsPsi(c)
  <2>1. c \in PsiContext /\ d \in PsiContext /\ IsPsi(d) /\ d.algo = "ECDH_PSI"
    BY <1>1, <1>2, ContextKind DEF IsPsi
  <2>2. BuildResponse(d) = [code |-> "OK", algo |-> "ECDH_PSI",
                            result |-> {PsiBuildResponse(d)}]
    BY <2>1 DEF BuildResponse
  <2>3. OfferedPsi(PsiBuildRequest(c, r), PsiBuildResponse(d))
    BY <1>2, <2>2 DEF Offered, BuildRequest
  <2>4. PsiAccepts(c, PsiBuildResponse(d))
    BY <1>2, <2>2 DEF Accepts
  <2>5. Processed(c, r, BuildResponse(d)) = PsiProcessed(c, PsiBuildResponse(d))
    BY <1>2, <2>2 DEF Processed
  <2>6. PsiProcessed(c, PsiBuildResponse(d)) \in PsiContext
    BY <2>1, PsiTypes
  <2>7. IsPsi(PsiProcessed(c, PsiBuildResponse(d)))
    BY <2>6 DEF IsPsi, PsiContext
  <2> QED BY <2>1, <2>3, <2>4, <2>5, <2>7, PsiTermsMeet DEF Terms
<1>3. CASE ~ IsPsi(c)
  <2>1. c \in LrContext /\ d \in LrContext /\ ~ IsPsi(d) /\ d.algo = "SS_LR"
    BY <1>1, <1>3, ContextKind DEF IsPsi
  <2>2. BuildResponse(d) = [code |-> "OK", algo |-> "SS_LR",
                            result |-> {LrBuildResponse(d)}]
    BY <2>1 DEF BuildResponse
  <2>3. OfferedLr(LrBuildRequest(c, r), LrBuildResponse(d))
    BY <1>3, <2>2 DEF Offered, BuildRequest
  <2>4. LrAccepts(c, r, LrBuildResponse(d))
    BY <1>3, <2>2 DEF Accepts
  <2>5. Processed(c, r, BuildResponse(d)) = LrProcessed(c, r, LrBuildResponse(d))
    BY <1>3, <2>2 DEF Processed
  <2>6. LrProcessed(c, r, LrBuildResponse(d)) \in LrContext
    BY <2>1, LrTypes
  <2>7. ~ IsPsi(LrProcessed(c, r, LrBuildResponse(d)))
    BY <2>6 DEF IsPsi, LrContext
  <2> QED BY <2>1, <2>3, <2>4, <2>5, <2>7, LrTermsMeet DEF Terms
<1> QED BY <1>2, <1>3

-----------------------------------------------------------------------------
(* The inductive invariant.                                                *)

\* What the passive party has, or is about to receive, from a native party that
\* still waits for the response is that party's own proposal; from one that
\* skips the handshake there is none.
RequestsAreTrue ==
  /\ DOMAIN requests \subseteq Active
  /\ \A r \in Native : Skips(r) =>
       /\ pc[r] \notin {"collect", "propose", "await"}
       /\ r # Passive => inbox[r] = {} /\ r \notin DOMAIN requests
  /\ \A r \in Native \ {Passive} :
       /\ pc[r] \in {"init", "linking", "linked", "propose"} =>
            inbox[r] = {} /\ r \notin DOMAIN requests
       /\ pc[r] = "await" =>
            /\ inbox[r] \subseteq {BuildRequest(ctx[r], r)}
            /\ r \in DOMAIN requests => requests[r] = BuildRequest(ctx[r], r)

\* An OK response carries the passive party's present terms, and was built
\* after every proposal had been read and found to offer them.
ResponseIsTrue ==
  response.code = "OK" =>
    /\ response = BuildResponse(ctx[Passive])
    /\ DOMAIN requests = Active
    /\ \A i \in Active : Offered(requests[i], response)
    /\ ~ Skips(Passive)
    /\ pc[Passive] \in PastHandshake

\* Who runs, or has run, after a handshake holds the passive party's terms.
RunsOnTerms ==
  \A r \in Native :
    /\ Ran(r) /\ ~ Skips(r) =>
         response.code = "OK" /\ Terms(ctx[r]) = Terms(ctx[Passive])
    /\ Ran(r) => pc[r] \in PastHandshake

IInv == TypeOK /\ RequestsAreTrue /\ ResponseIsTrue /\ RunsOnTerms

-----------------------------------------------------------------------------
(* Type correctness.                                                       *)

\* The states a job starts in are typed.
LEMMA InitTyped == Init => TypeOK
<1> SUFFICES ASSUME Init PROVE TypeOK
  OBVIOUS
<1>1. ctx \in [Native -> Context]
  BY HandshakeAssumption DEF Init
<1>2. pc \in [Rank -> Phase]
  BY DEF Init, Phase
<1>3. response \in Response
  BY DEF Init, NoResponse, Refusal, Response
<1>4. mesh \subseteq Rank /\ crashes \in 0 .. MaxCrashes
  BY Ranks, HandshakeAssumption DEF Init
<1>5. inbox \in [Rank -> SUBSET Request] /\ requests \in Seq(Request)
  BY DEF Init
<1> QED BY <1>1, <1>2, <1>3, <1>4, <1>5 DEF Init, TypeOK

\* A step of a process of this program keeps the types.
LEMMA NativeStepTyped ==
  ASSUME TypeOK, NEW r \in Native, NativeStep(r)
  PROVE  TypeOK'
<1> USE DEF TypeOK, Goto, Exit, Throw
<1>0. r \in Rank /\ \A phase \in Phase : [pc EXCEPT ![r] = phase] \in [Rank -> Phase]
  BY Ranks
<1>p. {"linking", "linked", "collect", "propose", "await", "run", "finish",
       "exit0", "exit1", "crashed"} \subseteq Phase
  BY DEF Phase, Exited
<1>1. CASE CreateIcContext(r)
  BY <1>0, <1>p, <1>1 DEF CreateIcContext
<1>2. CASE ConnectToMesh(r)
  BY <1>0, <1>p, <1>2 DEF ConnectToMesh
<1>3. CASE MeshFailure(r)
  BY <1>0, <1>p, <1>3 DEF MeshFailure
<1>4. CASE PrepareDataset(r)
  <2>1. Prepared(ctx[r], r) \in Context
    BY <1>0, HandlerTypes
  <2> QED BY <1>0, <1>p, <1>4, <2>1 DEF PrepareDataset
<1>5. CASE SendHandshakeRequest(r)
  <2>1. {BuildRequest(ctx[r], r)} \in SUBSET Request
    BY <1>0, HandlerTypes
  <2> QED BY <1>0, <1>p, <1>5, <2>1 DEF SendHandshakeRequest
<1>6. CASE RecvHandshakeResponse(r)
  <2>1. Accepts(ctx[r], r, response) => Processed(ctx[r], r, response) \in Context
    BY <1>0, HandlerTypes
  <2> QED BY <1>0, <1>p, <1>6, <2>1 DEF RecvHandshakeResponse
<1>7. CASE RecvHandshakeRequest(r)
  <2>1. NextRequester \in Rank
    BY <1>7, Ranks DEF RecvHandshakeRequest
  <2>2. PICK m \in inbox[NextRequester] :
          /\ inbox' = [inbox EXCEPT ![NextRequester] = {}]
          /\ IF m.version >= 2
             THEN requests' = Append(requests, m) /\ UNCHANGED <<pc, outbox>>
             ELSE Throw(r) /\ UNCHANGED requests
    BY <1>7 DEF RecvHandshakeRequest
  <2>3. Append(requests, m) \in Seq(Request)
    BY <2>1
  <2>4. requests' \in Seq(Request) /\ pc' \in [Rank -> Phase] /\ outbox' \subseteq Active
    BY <1>0, <1>p, <2>2, <2>3
  <2>5. inbox' \in [Rank -> SUBSET Request]
    BY <2>2
  <2>6. UNCHANGED <<ctx, mesh, response, arrived, entered, result, crashes>>
    BY <1>7 DEF RecvHandshakeRequest
  <2> QED BY <2>4, <2>5, <2>6
<1>8. CASE PassiveHandshake(r)
  <2> DEFINE verdict == Verdict(ctx[r], requests)
  <2>1. CASE verdict = "OK"
    <3>1. Negotiated(ctx[r], requests) \in Context
      BY <2>1, Negotiating
    <3>2. BuildResponse(Negotiated(ctx[r], requests)) \in Response
      BY <1>0, <3>1, HandlerTypes
    <3> QED BY <1>0, <1>p, <1>8, <2>1, <3>1, <3>2 DEF PassiveHandshake
  <2>2. CASE verdict \notin {"OK", "THROW"}
    <3>1. Refusal(verdict) \in Response
      BY <2>2, VerdictCode DEF Refusal, Response
    <3> QED BY <1>0, <1>p, <1>8, <2>2, <3>1 DEF PassiveHandshake
  <2>3. CASE verdict = "THROW"
    BY <1>0, <1>p, <1>8, <2>3 DEF PassiveHandshake
  <2> QED BY <2>1, <2>2, <2>3
<1>9. CASE AlgoDone(r)
  BY <1>0, <1>p, <1>9 DEF AlgoDone
<1>10. CASE AlgoFails(r)
  BY <1>0, <1>p, <1>10 DEF AlgoFails
<1>11. CASE WaitLinkTaskFinish(r)
  BY <1>0, <1>p, <1>11 DEF WaitLinkTaskFinish
<1>12. CASE RecvTimeout(r)
  BY <1>0, <1>p, <1>12 DEF RecvTimeout
<1> QED BY <1>1, <1>2, <1>3, <1>4, <1>5, <1>6, <1>7, <1>8, <1>9, <1>10, <1>11,
           <1>12 DEF NativeStep

\* So do the steps of a foreign party, of the link and a crash.
LEMMA OtherStepTyped ==
  ASSUME TypeOK,
         \/ \E r \in Foreign : ForeignStep(r)
         \/ \E r \in Active : DeliverResponse(r)
         \/ \E r \in Native : Crash(r)
  PROVE  TypeOK'
<1> USE DEF TypeOK, Goto, Exit, Throw
<1>0. \A r \in Rank, phase \in Phase : [pc EXCEPT ![r] = phase] \in [Rank -> Phase]
  OBVIOUS
<1>p. {"linking", "linked", "collect", "propose", "await", "run", "finish",
       "exit0", "exit1", "crashed"} \subseteq Phase
  BY DEF Phase, Exited
<1>1. ASSUME NEW r \in Foreign, ConnectToMesh(r) PROVE TypeOK'
  BY Ranks, <1>0, <1>p, <1>1 DEF ConnectToMesh
<1>2. ASSUME NEW r \in Foreign, ForeignRequest(r) PROVE TypeOK'
  <2>1. PICK m \in Proposals[r] : inbox' = [inbox EXCEPT ![r] = {m}]
    BY <1>2 DEF ForeignRequest
  <2>2. {m} \in SUBSET Request
    BY HandshakeAssumption
  <2> QED BY Ranks, <1>0, <1>p, <1>2, <2>1, <2>2 DEF ForeignRequest
<1>3. ASSUME NEW r \in Foreign, ForeignResponse(r) PROVE TypeOK'
  BY Ranks, <1>0, <1>p, <1>3 DEF ForeignResponse
<1>4. ASSUME NEW r \in Foreign, AlgoDone(r) PROVE TypeOK'
  BY Ranks, <1>0, <1>p, <1>4 DEF AlgoDone
<1>5. ASSUME NEW r \in Foreign, WaitLinkTaskFinish(r) PROVE TypeOK'
  BY Ranks, <1>0, <1>p, <1>5 DEF WaitLinkTaskFinish
<1>6. ASSUME NEW r \in Foreign, ForeignGivesUp(r) PROVE TypeOK'
  BY Ranks, <1>0, <1>p, <1>6 DEF ForeignGivesUp
<1>7. ASSUME NEW r \in Active, DeliverResponse(r) PROVE TypeOK'
  BY <1>7 DEF DeliverResponse
<1>8. ASSUME NEW r \in Native, Crash(r) PROVE TypeOK'
  <2>1. crashes' \in 0 .. MaxCrashes
    BY <1>0, <1>8, HandshakeAssumption DEF Crash
  <2> QED BY Ranks, <1>0, <1>p, <1>8, <2>1 DEF Crash
<1> QED BY <1>1, <1>2, <1>3, <1>4, <1>5, <1>6, <1>7, <1>8 DEF ForeignStep

\* No step of the system breaks a type.
LEMMA NextTyped == TypeOK /\ [Next]_vars => TypeOK'
<1>1. ASSUME TypeOK, UNCHANGED vars PROVE TypeOK'
  BY <1>1 DEF TypeOK, vars
<1> QED BY <1>1, NativeStepTyped, OtherStepTyped DEF Next, Done

(* Every variable has its type in every reachable state, whatever the      *)
(* number of parties and whatever flags they were started with.            *)
THEOREM TypeCorrect == Spec => []TypeOK
<1>1. TypeOK /\ [Next]_vars => TypeOK'
  BY NextTyped
<1> QED BY InitTyped, <1>1, PTL DEF Spec

-----------------------------------------------------------------------------
(* The inductive invariant is preserved.                                   *)

\* Most steps only bring one process nearer to its end: it has not begun to
\* propose, or it will not run the algorithm (any more).
LEMMA QuietStep ==
  ASSUME IInv, NEW r \in Rank, NEW phase,
         pc' = [pc EXCEPT ![r] = phase],
         \/ phase \in {"finish"} \cup Exited
         \/ phase \in {"linking", "linked"} /\ pc[r] \in {"init", "linking"},
         ctx' = ctx, requests' = requests, response' = response,
         \A q \in Native : inbox'[q] \subseteq inbox[q],
         entered' = entered
  PROVE  RequestsAreTrue' /\ ResponseIsTrue' /\ RunsOnTerms'
<1>0. /\ pc \in [Rank -> Phase] /\ Native \subseteq Rank /\ Passive \in Native
      /\ \A q \in Rank : pc'[q] = IF q = r THEN phase ELSE pc[q]
      /\ \A q : Skips(q)' <=> Skips(q)
  BY Ranks DEF IInv, TypeOK, Skips
<1>1. RequestsAreTrue'
  BY <1>0 DEF IInv, RequestsAreTrue, Exited
<1>2. ResponseIsTrue'
  <2> SUFFICES ASSUME response.code = "OK"
               PROVE  pc'[Passive] \in PastHandshake
    BY <1>0 DEF IInv, ResponseIsTrue
  <2>1. pc[Passive] \in PastHandshake
    BY DEF IInv, ResponseIsTrue
  <2> QED BY <1>0, <2>1 DEF PastHandshake, Exited
<1>3. RunsOnTerms'
  <2> SUFFICES ASSUME NEW q \in Native
               PROVE  /\ Ran(q)' /\ ~ Skips(q) =>
                           /\ response.code = "OK"
                           /\ Terms(ctx[q]) = Terms(ctx[Passive])
                      /\ Ran(q)' => pc'[q] \in PastHandshake
    BY <1>0 DEF RunsOnTerms
  <2>1. /\ Ran(q) /\ ~ Skips(q) =>
             response.code = "OK" /\ Terms(ctx[q]) = Terms(ctx[Passive])
        /\ Ran(q) => pc[q] \in PastHandshake
    BY DEF IInv, RunsOnTerms
  <2>2. Ran(q)' => Ran(q)
    BY DEF Ran
  <2>3. Ran(q)' => pc'[q] \in PastHandshake
    BY <1>0, <2>1, <2>2 DEF PastHandshake, Exited
  <2> QED BY <2>1, <2>2, <2>3
<1> QED BY <1>1, <1>2, <1>3

\* A native party prepares its data set before it has proposed anything.
LEMMA PrepareDatasetStep ==
  ASSUME IInv, NEW r \in Native, PrepareDataset(r)
  PROVE  RequestsAreTrue' /\ ResponseIsTrue' /\ RunsOnTerms'
<1>0. /\ pc \in [Rank -> Phase] /\ ctx \in [Native -> Context]
      /\ r \in Rank /\ Native \subseteq Rank /\ Passive \in Native
  BY Ranks DEF IInv, TypeOK
<1>1. CASE ~ Prepares(ctx[r], r)
  BY <1>0, <1>1, QuietStep DEF PrepareDataset, Throw, Exit, Goto, Exited
<1>2. CASE Prepares(ctx[r], r)
  <2>1. /\ pc[r] = "linked"
        /\ pc' = [pc EXCEPT ![r] = IF Skips(r) THEN "run"
                                    ELSE IF r = Passive THEN "collect" ELSE "propose"]
        /\ ctx' = [ctx EXCEPT ![r] = Prepared(@, r)]
        /\ entered' = IF Skips(r) THEN entered \cup {r} ELSE entered
        /\ UNCHANGED <<inbox, requests, response>>
    BY <1>2 DEF PrepareDataset, Goto
  <2>2. \A q \in Native : q # r => pc'[q] = pc[q] /\ ctx'[q] = ctx[q]
    BY <1>0, <2>1
  <2>s. \A q \in Native : Skips(q)' <=> Skips(q)
    <3>1. ctx'[r].disable_handshake = ctx[r].disable_handshake
      BY <1>0, <2>1, HandlerTypes
    <3> QED BY <1>0, <2>2, <3>1 DEF Skips
  <2>3. RequestsAreTrue'
    BY <1>0, <2>1, <2>2, <2>s DEF IInv, RequestsAreTrue
  <2>4. ~ Ran(r)
    BY <1>0, <2>1 DEF IInv, RunsOnTerms, Ran, PastHandshake, Exited
  <2>5. response.code = "OK" => r # Passive
    BY <2>1 DEF IInv, ResponseIsTrue, PastHandshake, Exited
  <2>6. ResponseIsTrue'
    BY <1>0, <2>1, <2>2, <2>s, <2>5 DEF IInv, ResponseIsTrue
  <2>7. ASSUME NEW q \in Native
        PROVE  /\ Ran(q)' /\ ~ Skips(q)' =>
                    response'.code = "OK" /\ Terms(ctx'[q]) = Terms(ctx'[Passive])
               /\ Ran(q)' => pc'[q] \in PastHandshake
    <3>1. CASE q = r
      BY <1>0, <2>1, <2>s, <2>4, <3>1 DEF Ran, PastHandshake
    <3>2. CASE q # r
      <4>1. Ran(q)' => Ran(q)
        BY <2>1, <3>2 DEF Ran
      <4> QED BY <1>0, <2>1, <2>2, <2>s, <2>5, <3>2, <4>1 DEF IInv, RunsOnTerms
    <3> QED BY <3>1, <3>2
  <2> QED BY <2>3, <2>6, <2>7 DEF RunsOnTerms
<1> QED BY <1>1, <1>2

\* An active native party sends its own proposal.
LEMMA SendHandshakeRequestStep ==
  ASSUME IInv, NEW r \in Native, SendHandshakeRequest(r)
  PROVE  RequestsAreTrue' /\ ResponseIsTrue' /\ RunsOnTerms'
<1>0. /\ pc \in [Rank -> Phase] /\ inbox \in [Rank -> SUBSET Request]
      /\ r \in Rank /\ Native \subseteq Rank /\ Passive \in Native
  BY Ranks DEF IInv, TypeOK
<1>1. CASE ~ (CanPropose(ctx[r]) /\ pc[Passive] \notin Exited)
  BY <1>0, <1>1, QuietStep DEF SendHandshakeRequest, Throw, Exit, Goto, Exited
<1>2. CASE CanPropose(ctx[r]) /\ pc[Passive] \notin Exited
  <2>1. /\ pc[r] = "propose" /\ pc' = [pc EXCEPT ![r] = "await"]
        /\ inbox' = [inbox EXCEPT ![r] = {BuildRequest(ctx[r], r)}]
        /\ UNCHANGED <<ctx, requests, response, entered>>
    BY <1>2 DEF SendHandshakeRequest, Goto
  <2>2. \A q \in Native : q # r => pc'[q] = pc[q] /\ inbox'[q] = inbox[q]
    BY <1>0, <2>1
  <2>3. pc'[r] = "await" /\ inbox'[r] = {BuildRequest(ctx[r], r)}
    BY <1>0, <2>1
  <2>s. ~ Skips(r) /\ \A q : Skips(q)' <=> Skips(q)
    BY <2>1 DEF IInv, RequestsAreTrue, Skips
  <2>4. RequestsAreTrue'
    BY <1>0, <2>1, <2>2, <2>3, <2>s DEF IInv, RequestsAreTrue
  <2>5. response.code = "OK" => r # Passive
    BY <2>1 DEF IInv, ResponseIsTrue, PastHandshake, Exited
  <2>6. ResponseIsTrue'
    BY <1>0, <2>1, <2>2, <2>s, <2>5 DEF IInv, ResponseIsTrue
  <2>7. RunsOnTerms'
    BY <1>0, <2>1, <2>2, <2>3, <2>s DEF IInv, RunsOnTerms, Ran, PastHandshake, Exited
  <2> QED BY <2>4, <2>6, <2>7
<1> QED BY <1>1, <1>2

\* An active native party that takes an OK response takes over the passive
\* party's terms, since the response is within what it had proposed itself.
LEMMA RecvHandshakeResponseStep ==
  ASSUME IInv, NEW r \in Native, RecvHandshakeResponse(r)
  PROVE  RequestsAreTrue' /\ ResponseIsTrue' /\ RunsOnTerms'
<1>0. /\ pc \in [Rank -> Phase] /\ ctx \in [Native -> Context]
      /\ r \in Active /\ r # Passive /\ pc[r] = "await"
      /\ r \in Rank /\ Native \subseteq Rank /\ Passive \in Native
  BY Ranks DEF IInv, TypeOK, RecvHandshakeResponse
<1>1. CASE ~ (response.code = "OK" /\ Accepts(ctx[r], r, response))
  BY <1>0, <1>1, QuietStep DEF RecvHandshakeResponse, Throw, Exit, Goto, Exited
<1>2. CASE response.code = "OK" /\ Accepts(ctx[r], r, response)
  <2>1. /\ pc' = [pc EXCEPT ![r] = "run"]
        /\ ctx' = [ctx EXCEPT ![r] = Processed(@, r, response)]
        /\ entered' = entered \cup {r}
        /\ UNCHANGED <<inbox, requests, response>>
    BY <1>2 DEF RecvHandshakeResponse, Goto
  <2>2. \A q \in Native : q # r => pc'[q] = pc[q] /\ ctx'[q] = ctx[q]
    BY <1>0, <2>1
  <2>3. pc'[r] = "run" /\ ctx'[r] = Processed(ctx[r], r, response)
    BY <1>0, <2>1
  <2>4. /\ response = BuildResponse(ctx[Passive])
        /\ Offered(BuildRequest(ctx[r], r), response)
    BY <1>0, <1>2 DEF IInv, ResponseIsTrue, RequestsAreTrue
  <2>5. Terms(ctx'[r]) = Terms(ctx[Passive])
    BY <1>0, <1>2, <2>3, <2>4, TermsMeet
  <2>s. \A q \in Native : Skips(q)' <=> Skips(q)
    <3>1. response \in Response
      BY DEF IInv, TypeOK
    <3>2. ctx'[r].disable_handshake = ctx[r].disable_handshake
      BY <1>0, <1>2, <2>3, <3>1, HandlerTypes
    <3> QED BY <1>0, <2>2, <3>2 DEF Skips
  <2>6. RequestsAreTrue'
    <3>1. ~ Skips(r)
      BY <1>0 DEF IInv, RequestsAreTrue
    <3> QED BY <1>0, <2>1, <2>2, <2>3, <2>s, <3>1 DEF IInv, RequestsAreTrue
  <2>7. ResponseIsTrue'
    BY <1>0, <2>1, <2>2, <2>s DEF IInv, ResponseIsTrue
  <2>8. RunsOnTerms'
    BY <1>0, <1>2, <2>1, <2>2, <2>3, <2>5, <2>s
       DEF IInv, RunsOnTerms, Ran, PastHandshake
  <2> QED BY <2>6, <2>7, <2>8
<1> QED BY <1>1, <1>2

\* The passive party reads the proposal of the next rank.
LEMMA RecvHandshakeRequestStep ==
  ASSUME IInv, NEW r \in Native, RecvHandshakeRequest(r)
  PROVE  RequestsAreTrue' /\ ResponseIsTrue' /\ RunsOnTerms'
<1>0. /\ pc \in [Rank -> Phase] /\ inbox \in [Rank -> SUBSET Request]
      /\ requests \in Seq(Request) /\ NextRequester = Len(requests) + 1
      /\ r \in Rank /\ r = Passive /\ pc[r] = "collect"
      /\ NextRequester \in Active /\ Active \subseteq Rank
      /\ Native \subseteq Rank /\ Passive \in Native
  BY Ranks DEF IInv, TypeOK, RecvHandshakeRequest, NextRequester
<1>1. PICK m \in inbox[NextRequester] :
        /\ inbox' = [inbox EXCEPT ![NextRequester] = {}]
        /\ IF m.version >= 2
           THEN requests' = Append(requests, m) /\ UNCHANGED <<pc, outbox>>
           ELSE Throw(r) /\ UNCHANGED requests
  BY DEF RecvHandshakeRequest
<1>2. UNCHANGED <<ctx, response, entered>> /\ \A q : Skips(q)' <=> Skips(q)
  BY DEF RecvHandshakeRequest, Skips
<1>3. \A q \in Native : inbox'[q] \subseteq inbox[q]
  BY <1>0, <1>1
<1>4. CASE ~ (m.version >= 2)
  BY <1>0, <1>1, <1>2, <1>3, <1>4, QuietStep DEF Throw, Exit, Goto, Exited
<1>5. CASE m.version >= 2
  <2>1. requests' = Append(requests, m) /\ pc' = pc
    BY <1>1, <1>5
  <2>2. /\ DOMAIN requests' = DOMAIN requests \cup {NextRequester}
        /\ requests'[NextRequester] = m
        /\ \A i \in DOMAIN requests : requests'[i] = requests[i]
    BY <1>0, <2>1
  <2>3. RequestsAreTrue'
    <3>1. DOMAIN requests' \subseteq Active
      BY <1>0, <2>2 DEF IInv, RequestsAreTrue
    <3>2. ASSUME NEW q \in Native \ {Passive}
          PROVE  /\ Skips(q) => inbox'[q] = {} /\ q \notin DOMAIN requests'
                 /\ pc[q] \in {"init", "linking", "linked", "propose"} =>
                      inbox'[q] = {} /\ q \notin DOMAIN requests'
                 /\ pc[q] = "await" =>
                      /\ inbox'[q] \subseteq {BuildRequest(ctx[q], q)}
                      /\ q \in DOMAIN requests' =>
                           requests'[q] = BuildRequest(ctx[q], q)
      <4>1. CASE q = NextRequester
        BY <1>1, <1>3, <2>2, <4>1 DEF IInv, RequestsAreTrue
      <4>2. CASE q # NextRequester
        BY <1>3, <2>2, <4>2 DEF IInv, RequestsAreTrue
      <4> QED BY <4>1, <4>2
    <3> QED BY <1>2, <2>1, <3>1, <3>2 DEF IInv, RequestsAreTrue
  <2>4. response.code # "OK"
    BY <1>0 DEF IInv, ResponseIsTrue, PastHandshake, Exited
  <2>5. ResponseIsTrue'
    BY <1>2, <2>4 DEF ResponseIsTrue
  <2>6. RunsOnTerms'
    BY <1>2, <2>1 DEF IInv, RunsOnTerms, Ran
  <2> QED BY <2>3, <2>5, <2>6
<1> QED BY <1>4, <1>5

\* The passive party decides: only now can a response be OK, and nobody has run
\* before but for those who skip the handshake.
LEMMA PassiveHandshakeStep ==
  ASSUME IInv, NEW r \in Native, PassiveHandshake(r)
  PROVE  RequestsAreTrue' /\ ResponseIsTrue' /\ RunsOnTerms'
<1>0. /\ pc \in [Rank -> Phase] /\ ctx \in [Native -> Context]
      /\ requests \in Seq(Request) /\ NextRequester = Len(requests) + 1
      /\ r \in Rank /\ r = Passive /\ pc[r] = "collect"
      /\ NextRequester \notin Active /\ DOMAIN requests \subseteq Active
      /\ Native \subseteq Rank /\ Passive \in Native
  BY Ranks DEF IInv, TypeOK, RequestsAreTrue, PassiveHandshake, NextRequester
<1>1. DOMAIN requests = Active
  <2>1. Len(requests) \in Nat /\ DOMAIN requests = 1 .. Len(requests)
    BY <1>0
  <2>2. Len(requests) <= WorldSize - 1
    <3>1. CASE Len(requests) = 0
      BY <3>1, WorldSizeAssumption
    <3>2. CASE Len(requests) # 0
      <4>1. Len(requests) \in Active
        BY <1>0, <2>1, <3>2
      <4> QED BY <2>1, <4>1, WorldSizeAssumption DEF Active
    <3> QED BY <3>1, <3>2
  <2>3. Len(requests) >= WorldSize - 1
    BY <1>0, <2>1, WorldSizeAssumption DEF Active
  <2>4. Len(requests) = WorldSize - 1
    BY <2>1, <2>2, <2>3, WorldSizeAssumption
  <2> QED BY <2>1, <2>4 DEF Active
<1>2. response.code # "OK" /\ ~ Skips(r)
  BY <1>0 DEF IInv, ResponseIsTrue, RequestsAreTrue, PastHandshake, Exited
<1>3. \A q \in Native : Ran(q) => Skips(q) /\ q # r
  BY <1>2 DEF IInv, RunsOnTerms
<1> DEFINE verdict == Verdict(ctx[r], requests)
<1>4. CASE verdict = "OK"
  <2>1. /\ pc' = [pc EXCEPT ![r] = "run"]
        /\ ctx' = [ctx EXCEPT ![r] = Negotiated(@, requests)]
        /\ response' = BuildResponse(ctx'[r])
        /\ entered' = entered \cup {r}
        /\ UNCHANGED <<inbox, requests>>
    BY <1>4 DEF PassiveHandshake, Goto
  <2>2. pc'[r] = "run" /\ ctx'[r] = Negotiated(ctx[r], requests)
    BY <1>0, <2>1
  <2>3. \A q \in Native : q # r => pc'[q] = pc[q] /\ ctx'[q] = ctx[q]
    BY <1>0, <2>1
  <2>4. \A i \in DOMAIN requests : Offered(requests[i], response')
    BY <1>0, <1>4, <2>1, <2>2, Negotiating
  <2>5. response'.code = "OK"
    BY <2>1 DEF BuildResponse
  <2>s. \A q \in Native : Skips(q)' <=> Skips(q)
    <3>1. ctx'[r].disable_handshake = ctx[r].disable_handshake
      BY <1>0, <1>4, <2>2, Negotiating
    <3> QED BY <1>0, <2>3, <3>1 DEF Skips
  <2>6. RequestsAreTrue'
    BY <1>0, <1>2, <2>1, <2>3, <2>s DEF IInv, RequestsAreTrue
  <2>7. ResponseIsTrue'
    BY <1>0, <1>1, <1>2, <2>1, <2>2, <2>4, <2>s DEF ResponseIsTrue, PastHandshake
  <2>8. \A q \in Native : Ran(q)' => q = Passive \/ (q # r /\ Skips(q) /\ Ran(q))
    BY <1>0, <1>3, <2>1, <2>3 DEF Ran
  <2>9. RunsOnTerms'
    <3> SUFFICES ASSUME NEW q \in Native, Ran(q)'
                 PROVE  /\ ~ Skips(q)' => response'.code = "OK"
                                           /\ Terms(ctx'[q]) = Terms(ctx'[Passive])
                        /\ pc'[q] \in PastHandshake
      BY DEF RunsOnTerms
    <3>1. CASE q = Passive
      BY <1>0, <2>2, <2>5, <3>1 DEF PastHandshake
    <3>2. CASE q # r /\ Skips(q) /\ Ran(q)
      BY <2>3, <2>s, <3>2 DEF IInv, RunsOnTerms
    <3> QED BY <2>8, <3>1, <3>2
  <2> QED BY <2>6, <2>7, <2>9
<1>5. CASE verdict \notin {"OK", "THROW"}
  <2>1. /\ pc' = [pc EXCEPT ![r] = "finish"]
        /\ response'.code # "OK"
        /\ UNCHANGED <<ctx, inbox, requests, entered>>
    BY <1>5 DEF PassiveHandshake, Goto, Refusal
  <2>2. /\ \A q \in Native : q # r => pc'[q] = pc[q]
        /\ \A q : Skips(q)' <=> Skips(q)
    BY <1>0, <2>1 DEF Skips
  <2>3. RequestsAreTrue'
    BY <1>0, <1>2, <2>1, <2>2 DEF IInv, RequestsAreTrue
  <2>4. ResponseIsTrue'
    BY <2>1 DEF ResponseIsTrue
  <2>5. \A q \in Native : Ran(q)' => q # r /\ Skips(q) /\ Ran(q)
    BY <1>3, <2>1 DEF Ran
  <2>6. RunsOnTerms'
    BY <2>2, <2>5 DEF IInv, RunsOnTerms
  <2> QED BY <2>3, <2>4, <2>6
<1>6. CASE verdict = "THROW"
  BY <1>0, <1>6, QuietStep DEF PassiveHandshake, Throw, Exit, Goto, Exited
<1> QED BY <1>4, <1>5, <1>6

\* A foreign party's steps concern the native ones only through its request.
LEMMA ForeignStepKeeps ==
  ASSUME IInv, NEW r \in Foreign, ForeignStep(r)
  PROVE  RequestsAreTrue' /\ ResponseIsTrue' /\ RunsOnTerms'
<1>0. /\ pc \in [Rank -> Phase] /\ inbox \in [Rank -> SUBSET Request]
      /\ r \in Rank /\ r \notin Native
      /\ Native \subseteq Rank /\ Passive \in Native
  BY Ranks DEF IInv, TypeOK, Native
<1>1. CASE ForeignRequest(r) \/ ForeignResponse(r)
  <2>1. /\ \A q \in Native : pc'[q] = pc[q] /\ inbox'[q] = inbox[q]
        /\ \A q \in Native : Ran(q)' = Ran(q)
        /\ \A q : Skips(q)' <=> Skips(q)
        /\ UNCHANGED <<ctx, requests, response>>
    BY <1>0, <1>1 DEF Ran, Skips, ForeignRequest, ForeignResponse, Goto
  <2>2. RequestsAreTrue'
    BY <2>1 DEF IInv, RequestsAreTrue
  <2>3. ResponseIsTrue'
    BY <1>0, <2>1 DEF IInv, ResponseIsTrue
  <2>4. RunsOnTerms'
    BY <2>1 DEF IInv, RunsOnTerms
  <2> QED BY <2>2, <2>3, <2>4
<1>2. CASE ConnectToMesh(r)
  BY <1>0, <1>2, QuietStep DEF ConnectToMesh, Goto
<1>3. CASE AlgoDone(r)
  BY <1>0, <1>3, QuietStep DEF AlgoDone, Goto
<1>4. CASE WaitLinkTaskFinish(r)
  BY <1>0, <1>4, QuietStep DEF WaitLinkTaskFinish, Goto, Exited
<1>5. CASE ForeignGivesUp(r)
  BY <1>0, <1>5, QuietStep DEF ForeignGivesUp, Goto, Exited
<1> QED BY <1>1, <1>2, <1>3, <1>4, <1>5 DEF ForeignStep

\* A native party's step keeps the invariant.
LEMMA NativeStepKeeps ==
  ASSUME IInv, NEW r \in Native, NativeStep(r)
  PROVE  RequestsAreTrue' /\ ResponseIsTrue' /\ RunsOnTerms'
<1>0. r \in Rank
  BY Ranks
<1>1. CASE CreateIcContext(r)
  BY <1>0, <1>1, QuietStep DEF CreateIcContext, Throw, Exit, Goto, Exited
<1>2. CASE ConnectToMesh(r)
  BY <1>0, <1>2, QuietStep DEF ConnectToMesh, Goto
<1>3. CASE MeshFailure(r)
  BY <1>0, <1>3, QuietStep DEF MeshFailure, Throw, Exit, Goto, Exited
<1>4. CASE AlgoDone(r)
  BY <1>0, <1>4, QuietStep DEF AlgoDone, Goto
<1>5. CASE AlgoFails(r)
  BY <1>0, <1>5, QuietStep DEF AlgoFails, Throw, Exit, Goto, Exited
<1>6. CASE WaitLinkTaskFinish(r)
  BY <1>0, <1>6, QuietStep DEF WaitLinkTaskFinish, Goto, Exited
<1>7. CASE RecvTimeout(r)
  BY <1>0, <1>7, QuietStep DEF RecvTimeout, Throw, Exit, Goto, Exited
<1> QED BY <1>1, <1>2, <1>3, <1>4, <1>5, <1>6, <1>7, PrepareDatasetStep,
           SendHandshakeRequestStep, RecvHandshakeResponseStep,
           RecvHandshakeRequestStep, PassiveHandshakeStep DEF NativeStep

\* No step of the system breaks the invariant.
LEMMA NextKeeps == IInv /\ [Next]_vars => IInv'
<1> SUFFICES ASSUME IInv, [Next]_vars
             PROVE  RequestsAreTrue' /\ ResponseIsTrue' /\ RunsOnTerms'
  BY NextTyped DEF IInv
<1>1. ASSUME NEW r \in Active, DeliverResponse(r)
      PROVE  RequestsAreTrue' /\ ResponseIsTrue' /\ RunsOnTerms'
  <2>1. /\ UNCHANGED <<pc, ctx, inbox, requests, response, entered>>
        /\ \A q : Skips(q)' <=> Skips(q)
    BY <1>1 DEF DeliverResponse, Skips
  <2> QED BY <2>1 DEF IInv, RequestsAreTrue, ResponseIsTrue, RunsOnTerms, Ran
<1>2. ASSUME NEW r \in Native, Crash(r)
      PROVE  RequestsAreTrue' /\ ResponseIsTrue' /\ RunsOnTerms'
  BY <1>2, Ranks, QuietStep DEF Crash, Exit, Goto, Exited
<1>3. ASSUME UNCHANGED vars
      PROVE  RequestsAreTrue' /\ ResponseIsTrue' /\ RunsOnTerms'
  BY <1>3 DEF vars, IInv, RequestsAreTrue, ResponseIsTrue, RunsOnTerms, Ran, Skips
<1> QED BY <1>1, <1>2, <1>3, NativeStepKeeps, ForeignStepKeeps DEF Next, Done

\* The invariant holds when the job starts.
LEMMA InitKept == Init => IInv
<1> SUFFICES ASSUME Init PROVE IInv
  OBVIOUS
<1>1. TypeOK
  BY InitTyped
<1>2. RequestsAreTrue
  BY Ranks DEF Init, RequestsAreTrue
<1>3. ResponseIsTrue
  BY DEF Init, NoResponse, Refusal, ResponseIsTrue
<1>4. RunsOnTerms
  BY Ranks DEF Init, RunsOnTerms, Ran
<1> QED BY <1>1, <1>2, <1>3, <1>4 DEF IInv

\* The inductive invariant holds throughout.
LEMMA Inductive == Spec => []IInv
<1> QED BY InitKept, NextKeeps, PTL DEF Spec

-----------------------------------------------------------------------------
(* The theorems.                                                           *)

\* Who runs agrees, by the invariant.
LEMMA IInvAgreement == IInv => Agreement
<1> SUFFICES ASSUME IInv, NEW p \in Native, NEW q \in Native,
                    Ran(p), Ran(q), ~ Skips(p)
             PROVE  ~ Skips(q) /\ Terms(ctx[p]) = Terms(ctx[q])
  BY DEF Agreement
<1>1. response.code = "OK" /\ Terms(ctx[p]) = Terms(ctx[Passive])
  BY DEF IInv, RunsOnTerms
<1>2. DOMAIN requests = Active /\ ~ Skips(Passive)
  BY <1>1 DEF IInv, ResponseIsTrue
<1>3. ~ Skips(q)
  BY <1>2, Ranks DEF IInv, RequestsAreTrue
<1>4. Terms(ctx[q]) = Terms(ctx[Passive])
  BY <1>3 DEF IInv, RunsOnTerms
<1> QED BY <1>1, <1>3, <1>4

(* A party of this program that runs the algorithm after a handshake holds *)
(* the same terms as any other that runs it, none of which has skipped the *)
(* handshake, for every number of parties, every mixture of flags and data *)
(* sets, every proposal of a foreign party, and whoever refused, timed out *)
(* or was killed meanwhile.                                                *)
THEOREM PartiesAgree == Spec => []Agreement
<1> QED BY IInvAgreement, Inductive, PTL

(* The passive party never settles on anything that one of the requesters  *)
(* has not offered.                                                        *)
THEOREM SettledWithinProposals == Spec => []ResponseWithinProposals
<1>1. IInv => ResponseWithinProposals
  <2> SUFFICES ASSUME IInv PROVE ResponseWithinProposals
    OBVIOUS
  <2>1. CASE response.code = "OK"
    BY <2>1 DEF IInv, ResponseIsTrue, ResponseWithinProposals
  <2>2. CASE response.code # "OK"
    <3>1. response.result = {}
      BY <2>2 DEF IInv, TypeOK, Response
    <3> QED BY <3>1 DEF ResponseWithinProposals, Offered
  <2> QED BY <2>1, <2>2
<1> QED BY Inductive, <1>1, PTL

(* No party of the handshake starts to compute before every party has      *)
(* proposed and every proposal has been read and accepted.                 *)
THEOREM NobodyRunsEarly == Spec => []NoEarlyRun
<1>1. IInv => NoEarlyRun
  <2> SUFFICES ASSUME IInv, NEW p \in Native, Ran(p), ~ Skips(p)
               PROVE  /\ response.code = "OK"
                      /\ DOMAIN requests = Active
                      /\ \A q \in Native :
                           pc[q] \notin {"init", "linking", "linked", "propose"}
    BY DEF NoEarlyRun
  <2>1. response.code = "OK"
    BY DEF IInv, RunsOnTerms
  <2>2. DOMAIN requests = Active /\ pc[Passive] \in PastHandshake
    BY <2>1 DEF IInv, ResponseIsTrue
  <2>3. ASSUME NEW q \in Native
        PROVE  pc[q] \notin {"init", "linking", "linked", "propose"}
    <3>1. CASE q = Passive
      BY <2>2, <3>1 DEF PastHandshake, Exited
    <3>2. CASE q # Passive
      BY <2>2, <3>2, Ranks DEF IInv, RequestsAreTrue
    <3> QED BY <3>1, <3>2
  <2> QED BY <2>1, <2>2, <2>3
<1> QED BY Inductive, <1>1, PTL
=============================================================================
