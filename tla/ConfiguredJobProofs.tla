------------------------- MODULE ConfiguredJobProofs -------------------------
(***************************************************************************)
(* A job started from flags and environments is one that Handshake is      *)
(* about, and parties that skip the handshake with one and the same        *)
(* complete environment compute the same thing: for any texts, any         *)
(* library functions that have one result, and any number of parties.      *)
(***************************************************************************)
EXTENDS HandshakeProofs, ConfiguredJob

-----------------------------------------------------------------------------
(* The configured job is a job of Handshake.                               *)

jobvars == <<vars, settings>>

(* What holds of every job (Agreement, NoEarlyRun, ...) holds of those     *)
(* that Config's contexts start.                                           *)
THEOREM ConfiguredIsHandshake == JobSpec => FairSpec
<1>1. JobInit => Init
  BY DEF JobInit
<1>2. [Next /\ UNCHANGED settings]_jobvars => [Next]_vars
  BY DEF jobvars
<1> QED BY <1>1, <1>2, PTL DEF JobSpec, FairSpec, Spec, jobvars

-----------------------------------------------------------------------------
(* What the environment says is the same for both.                         *)

\* s and t have the same environment, which holds only texts.
OneEnv(s, t) ==
  s.env = t.env /\ \A n \in DOMAIN s.env : s.env[n] \in Texts

\* A value that is read from the environment is the same for both.
LEMMA OneValue ==
  ASSUME NEW s, NEW t, OneEnv(s, t), NEW name \in DOMAIN s.env
  PROVE  /\ Text(s, name) = Text(t, name)
         /\ Boolean(s, name) = Boolean(t, name)
         /\ \A x \in Integer(s, name), y \in Integer(t, name) : x = y
         /\ \A x \in Double(s, name), y \in Double(t, name) : x = y
         /\ \A V : \A x \in Enum(s, name, V), y \in Enum(t, name, V) : x = y
<1>1. Given(s, name) /\ Given(t, name) /\ s.env[name] = t.env[name]
  BY DEF OneEnv, Given
<1>2. AtMostOne(Stoi(s.env[name])) /\ AtMostOne(Stod(s.env[name]))
  BY LibraryAssumption DEF OneEnv
<1>3. Text(s, name) = Text(t, name)
  BY <1>1 DEF Text
<1>4. Boolean(s, name) = Boolean(t, name)
  BY <1>1 DEF Boolean
<1>5. \A x \in Integer(s, name), y \in Integer(t, name) : x = y
  BY <1>1, <1>2 DEF Integer, AtMostOne
<1>6. \A x \in Double(s, name), y \in Double(t, name) : x = y
  BY <1>1, <1>2 DEF Double, AtMostOne
<1>7. \A V : \A x \in Enum(s, name, V), y \in Enum(t, name, V) : x = y
  BY <1>3 DEF Enum, GetFlagValue
<1> QED BY <1>3, <1>4, <1>5, <1>6, <1>7

\* The parameters of ECDH-PSI and of SS-LR.
PsiParameters ==
  {"curve_type", "hash_type", "hash2curve_strategy", "point_octet_format",
   "bit_length_after_truncated", "result_to_rank"}
LrParameters ==
  {"batch_size", "last_batch_policy", "num_epoch", "l0_norm", "l1_norm",
   "l2_norm", "optimizer", "learning_rate", "sigmoid_mode", "protocol",
   "field", "fxp_bits", "trunc_mode", "shard_serialize_format", "use_ttp",
   "ttp_server_host", "ttp_public_key", "ttp_adjust_rank", "feature_nums"}

\* One environment, one set of ECDH-PSI terms.
LEMMA OnePsi ==
  ASSUME NEW s, NEW t, OneEnv(s, t), PsiParameters \subseteq DOMAIN s.env,
         NEW ic, NEW jc, ic.algo = jc.algo,
         NEW c \in CreateEcdhPsiContext(s, ic), NEW d \in CreateEcdhPsiContext(t, jc)
  PROVE  PsiTerms(c) = PsiTerms(d)
<1>1. c.algo = d.algo
  BY DEF CreateEcdhPsiContext
<1>2. /\ c.curve_type \in Enum(s, "curve_type", CurveType)
      /\ c.hash_type \in Enum(s, "hash_type", HashType)
      /\ c.hash_to_curve_strategy \in Enum(s, "hash2curve_strategy", Hash2CurveStrategy)
      /\ c.point_octet_format \in Enum(s, "point_octet_format", PointOctetFormat)
      /\ c.bit_length_after_truncated \in SuggestedBitLengthAfterTruncated(s)
      /\ c.result_to_rank \in Integer(s, "result_to_rank")
  BY DEF CreateEcdhPsiContext, SuggestedResultToRank
<1>3. /\ d.curve_type \in Enum(t, "curve_type", CurveType)
      /\ d.hash_type \in Enum(t, "hash_type", HashType)
      /\ d.hash_to_curve_strategy \in Enum(t, "hash2curve_strategy", Hash2CurveStrategy)
      /\ d.point_octet_format \in Enum(t, "point_octet_format", PointOctetFormat)
      /\ d.bit_length_after_truncated \in SuggestedBitLengthAfterTruncated(t)
      /\ d.result_to_rank \in Integer(t, "result_to_rank")
  BY DEF CreateEcdhPsiContext, SuggestedResultToRank
<1>4. \A n \in PsiParameters : n \in DOMAIN s.env
  OBVIOUS
<1>5. c.curve_type = d.curve_type
  BY <1>2, <1>3, <1>4, OneValue DEF PsiParameters
<1>6. c.hash_type = d.hash_type
  BY <1>2, <1>3, <1>4, OneValue DEF PsiParameters
<1>7. c.hash_to_curve_strategy = d.hash_to_curve_strategy
  BY <1>2, <1>3, <1>4, OneValue DEF PsiParameters
<1>8. c.point_octet_format = d.point_octet_format
  BY <1>2, <1>3, <1>4, OneValue DEF PsiParameters
<1>9. c.bit_length_after_truncated = d.bit_length_after_truncated
  <2>1. s.env["bit_length_after_truncated"] \in Texts
    BY <1>4 DEF OneEnv, PsiParameters
  <2> QED BY <1>2, <1>3, <1>4, <2>1, LibraryAssumption
         DEF SuggestedBitLengthAfterTruncated, Given, AtMostOne, OneEnv, PsiParameters
<1>10. c.result_to_rank = d.result_to_rank
  BY <1>2, <1>3, <1>4, OneValue DEF PsiParameters
<1> QED BY <1>1, <1>5, <1>6, <1>7, <1>8, <1>9, <1>10 DEF PsiTerms, ContextSuit

\* The fields of an SS-LR context and where they come from.
LEMMA LrSources ==
  ASSUME NEW s, NEW ic, NEW link, NEW c \in CreateLrContext(s, ic, link)
  PROVE  /\ c.algo = ic.algo /\ c.disable_handshake = ic.disable_handshake
         /\ c.num_epoch \in Integer(s, "num_epoch")
         /\ c.batch_size \in Integer(s, "batch_size")
         /\ c.last_batch_policy \in Enum(s, "last_batch_policy", LastBatchPolicy)
         /\ c.l0_norm \in Double(s, "l0_norm")
         /\ c.l1_norm \in Double(s, "l1_norm")
         /\ c.l2_norm \in Double(s, "l2_norm")
         /\ c.optimizer \in Enum(s, "optimizer", Optimizer) \cap {"SGD"}
         /\ c.learning_rate \in Double(s, "learning_rate")
         /\ c.sample_size = 0
         /\ c.feature_nums \in GetFeatureNums(s, link)
         /\ c.label_rank \in GetLabelRank(s, link)
         /\ c.sigmoid_mode \in Enum(s, "sigmoid_mode", SigmoidMode)
         /\ c.protocol \in Enum(s, "protocol", ProtocolKind)
         /\ c.field_type \in Enum(s, "field", FieldType)
         /\ c.fxp_bits \in Integer(s, "fxp_bits")
         /\ c.trunc_mode \in Enum(s, "trunc_mode", TruncMode)
         /\ c.shard_serialize_format \in Enum(s, "shard_serialize_format", ShardFormat)
         /\ c.use_ttp = Boolean(s, "use_ttp")
         /\ c.ttp_server_host = Text(s, "ttp_server_host")
         /\ c.ttp_public_key \in Base64Decode(Text(s, "ttp_public_key"))
         /\ c.ttp_adjust_rank \in Integer(s, "ttp_adjust_rank")
<1>1. PICK h \in SuggestedLrHyperParam(s), l \in GetLabelRank(s, link),
           f \in GetFeatureNums(s, link), g \in SuggestedSigmoidMode(s),
           t \in SuggestedTtpConfig(s), p \in SuggestedSsProtocolParam(s),
           o \in SuggestedOptimizer(s) :
        c = [algo |-> ic.algo, version |-> ic.version,
             protocol_families |-> ic.protocol_families,
             disable_handshake |-> ic.disable_handshake,
             rows |-> Dataset(s).rows, columns |-> Dataset(s).columns,
             num_epoch |-> h.num_epoch, batch_size |-> h.batch_size,
             last_batch_policy |-> h.last_batch_policy,
             l0_norm |-> h.l0_norm, l1_norm |-> h.l1_norm, l2_norm |-> h.l2_norm,
             optimizer |-> o.optimizer, learning_rate |-> o.learning_rate,
             sample_size |-> 0, feature_nums |-> f, label_rank |-> l, sigmoid_mode |-> g,
             protocol |-> p.protocol, field_type |-> p.field_type,
             fxp_bits |-> p.fxp_bits, trunc_mode |-> p.trunc_mode,
             shard_serialize_format |-> p.shard_serialize_format,
             use_ttp |-> t.use_ttp, ttp_server_host |-> t.ttp_server_host,
             ttp_adjust_rank |-> t.ttp_adjust_rank, ttp_public_key |-> t.ttp_public_key]
  BY DEF CreateLrContext
<1>2. /\ h.num_epoch \in Integer(s, "num_epoch") /\ h.batch_size \in Integer(s, "batch_size")
      /\ h.last_batch_policy \in Enum(s, "last_batch_policy", LastBatchPolicy)
      /\ h.l0_norm \in Double(s, "l0_norm") /\ h.l1_norm \in Double(s, "l1_norm")
      /\ h.l2_norm \in Double(s, "l2_norm")
  BY DEF SuggestedLrHyperParam
<1>3. /\ t.use_ttp = Boolean(s, "use_ttp") /\ t.ttp_server_host = Text(s, "ttp_server_host")
      /\ t.ttp_public_key \in Base64Decode(Text(s, "ttp_public_key"))
      /\ t.ttp_adjust_rank \in Integer(s, "ttp_adjust_rank")
  BY DEF SuggestedTtpConfig
<1>4. /\ p.protocol \in Enum(s, "protocol", ProtocolKind)
      /\ p.field_type \in Enum(s, "field", FieldType)
      /\ p.fxp_bits \in Integer(s, "fxp_bits")
      /\ p.trunc_mode \in Enum(s, "trunc_mode", TruncMode)
      /\ p.shard_serialize_format \in Enum(s, "shard_serialize_format", ShardFormat)
  BY DEF SuggestedSsProtocolParam
<1>5. /\ o.optimizer \in Enum(s, "optimizer", Optimizer) \cap {"SGD"}
      /\ o.learning_rate \in Double(s, "learning_rate")
  BY DEF SuggestedOptimizer
<1>6. g \in Enum(s, "sigmoid_mode", SigmoidMode)
  BY DEF SuggestedSigmoidMode
<1> QED BY <1>1, <1>2, <1>3, <1>4, <1>5, <1>6

\* Without a handshake the widths are those of the environment, by party id.
LEMMA OneVector ==
  ASSUME NEW s, NEW t, OneEnv(s, t), "feature_nums" \in DOMAIN s.env,
         s.flags.disable_handshake, t.flags.disable_handshake,
         NEW link, NEW peer, link.ids = peer.ids,
         NEW f \in GetFeatureNums(s, link), NEW g \in GetFeatureNums(t, peer)
  PROVE  f = g
<1> DEFINE texts == s.env["feature_nums"]
           named == {h \in JsonInts(texts) : Range(link.ids) \subseteq DOMAIN h}
<1>1. AtMostOne(JsonInts(texts))
  BY LibraryAssumption DEF OneEnv
<1>2. PICK h \in named : f = [i \in DOMAIN link.ids |-> h[link.ids[i]]]
  BY DEF GetFeatureNums
<1>3. PICK k \in named : g = [i \in DOMAIN link.ids |-> k[link.ids[i]]]
  BY DEF GetFeatureNums, OneEnv
<1>4. h = k
  BY <1>1 DEF AtMostOne
<1> QED BY <1>2, <1>3, <1>4

\* One environment, one set of SS-LR terms and one dealer of triples.
LEMMA OneLr ==
  ASSUME NEW s, NEW t, OneEnv(s, t), LrParameters \subseteq DOMAIN s.env,
         s.flags.disable_handshake, t.flags.disable_handshake,
         NEW ic, NEW jc, ic.algo = jc.algo,
         NEW link, NEW peer, link.ids = peer.ids,
         NEW c \in CreateLrContext(s, ic, link), NEW d \in CreateLrContext(t, jc, peer)
  PROVE  LrTerms(c) = LrTerms(d) /\ LrBeaver(c) = LrBeaver(d)
<1>1. \A n \in LrParameters : n \in DOMAIN s.env
  OBVIOUS
<1>2. \A n \in LrParameters :
        /\ Text(s, n) = Text(t, n) /\ Boolean(s, n) = Boolean(t, n)
        /\ \A x \in Integer(s, n), y \in Integer(t, n) : x = y
        /\ \A x \in Double(s, n), y \in Double(t, n) : x = y
        /\ \A V : \A x \in Enum(s, n, V), y \in Enum(t, n, V) : x = y
  BY <1>1, OneValue
<1>3. c.num_epoch = d.num_epoch /\ c.batch_size = d.batch_size
      /\ c.fxp_bits = d.fxp_bits /\ c.ttp_adjust_rank = d.ttp_adjust_rank
  BY <1>2, LrSources DEF LrParameters
<1>4. c.l0_norm = d.l0_norm /\ c.l1_norm = d.l1_norm /\ c.l2_norm = d.l2_norm
      /\ c.learning_rate = d.learning_rate
  BY <1>2, LrSources DEF LrParameters
<1>5. c.last_batch_policy = d.last_batch_policy /\ c.sigmoid_mode = d.sigmoid_mode
      /\ c.protocol = d.protocol /\ c.field_type = d.field_type
  BY <1>2, LrSources DEF LrParameters
<1>6. c.trunc_mode = d.trunc_mode /\ c.shard_serialize_format = d.shard_serialize_format
      /\ c.optimizer = d.optimizer
  BY <1>2, LrSources DEF LrParameters
<1>7. /\ c.use_ttp = d.use_ttp /\ c.ttp_server_host = d.ttp_server_host
      /\ c.ttp_public_key = d.ttp_public_key
  <2>1. /\ c.ttp_public_key \in Base64Decode(Text(s, "ttp_public_key"))
        /\ d.ttp_public_key \in Base64Decode(Text(s, "ttp_public_key"))
    BY <1>2, LrSources DEF LrParameters
  <2>2. Text(s, "ttp_public_key") \in Texts
    BY <1>1 DEF Text, Given, OneEnv, LrParameters
  <2>3. c.ttp_public_key = d.ttp_public_key
    BY <2>1, <2>2, LibraryAssumption DEF AtMostOne
  <2> QED BY <1>2, <2>3, LrSources DEF LrParameters
<1>8. c.feature_nums = d.feature_nums
  BY <1>1, LrSources, OneVector DEF LrParameters
<1>9. c.algo = d.algo /\ c.sample_size = d.sample_size
  BY LrSources
<1> QED BY <1>3, <1>4, <1>5, <1>6, <1>7, <1>8, <1>9 DEF LrTerms, LrBeaver

-----------------------------------------------------------------------------
(* A party that skips the handshake runs on the context of its settings.   *)

\* The context r was started with.
StartContext(r) == ContextOf(settings[r])

\* Who skips the handshake takes no part in it and prepares once.
Skipping ==
  \A r \in Native :
    /\ ctx[r].disable_handshake = StartContext(r).disable_handshake
    /\ StartContext(r).disable_handshake =>
         /\ pc[r] \notin {"collect", "propose", "await"}
         /\ pc[r] \in {"init", "linking", "linked"} => ctx[r] = StartContext(r) /\ ~ Ran(r)
         /\ Ran(r) => ctx[r] = Prepared(StartContext(r), r)

\* A step that leaves a party's context alone and does not start its algorithm.
LEMMA QuietSkip ==
  ASSUME Skipping, settings' = settings, NEW q \in Native,
         ctx'[q] = ctx[q], Ran(q)' <=> Ran(q),
         \/ pc'[q] = pc[q]
         \/ pc'[q] \in {"linking", "linked"} /\ pc[q] \in {"init", "linking"}
         \/ pc'[q] \in {"run", "finish"} \cup Exited
         \/ ~ ctx[q].disable_handshake
  PROVE  /\ ctx'[q].disable_handshake = StartContext(q)'.disable_handshake
         /\ StartContext(q)'.disable_handshake =>
              /\ pc'[q] \notin {"collect", "propose", "await"}
              /\ pc'[q] \in {"init", "linking", "linked"} => ctx'[q] = StartContext(q)' /\ ~ Ran(q)'
              /\ Ran(q)' => ctx'[q] = Prepared(StartContext(q)', q)
<1> DEFINE c == StartContext(q)
<1>1. StartContext(q)' = c
  BY DEF StartContext
<1>2. /\ ctx[q].disable_handshake = c.disable_handshake
      /\ c.disable_handshake =>
           /\ pc[q] \notin {"collect", "propose", "await"}
           /\ pc[q] \in {"init", "linking", "linked"} => ctx[q] = c /\ ~ Ran(q)
           /\ Ran(q) => ctx[q] = Prepared(c, q)
  BY DEF Skipping
<1> HIDE DEF c
<1> QED BY <1>1, <1>2 DEF Exited

\* A step of another party.
LEMMA OthersSkip ==
  ASSUME TypeOK, NEW r \in Rank, NEW q \in Native, q # r,
         (r \in Native /\ (NativeStep(r) \/ Crash(r))) \/ (r \in Foreign /\ ForeignStep(r))
  PROVE  ctx'[q] = ctx[q] /\ (Ran(q)' <=> Ran(q)) /\ pc'[q] = pc[q]
<1>0. pc \in [Rank -> Phase] /\ ctx \in [Native -> Context] /\ q \in Rank
  BY Ranks DEF TypeOK
<1>1. CASE r \in Native /\ NativeStep(r)
  <2> USE DEF Goto, Exit, Throw, Ran
  <2>1. CASE CreateIcContext(r) \/ ConnectToMesh(r) \/ MeshFailure(r)
    BY <1>0, <2>1 DEF CreateIcContext, ConnectToMesh, MeshFailure
  <2>2. CASE PrepareDataset(r)
    BY <1>0, <1>1, <2>2 DEF PrepareDataset
  <2>3. CASE SendHandshakeRequest(r)
    BY <1>0, <2>3 DEF SendHandshakeRequest
  <2>4. CASE RecvHandshakeResponse(r)
    BY <1>0, <1>1, <2>4 DEF RecvHandshakeResponse
  <2>5. CASE RecvHandshakeRequest(r)
    BY <1>0, <2>5 DEF RecvHandshakeRequest
  <2>6. CASE PassiveHandshake(r)
    BY <1>0, <1>1, <2>6 DEF PassiveHandshake
  <2>7. CASE AlgoDone(r) \/ AlgoFails(r) \/ WaitLinkTaskFinish(r) \/ RecvTimeout(r)
    BY <1>0, <2>7 DEF AlgoDone, AlgoFails, WaitLinkTaskFinish, RecvTimeout
  <2> QED BY <1>1, <2>1, <2>2, <2>3, <2>4, <2>5, <2>6, <2>7 DEF NativeStep
<1>2. CASE r \in Native /\ Crash(r)
  BY <1>0, <1>2 DEF Crash, Exit, Goto, Ran
<1>3. CASE r \in Foreign /\ ForeignStep(r)
  BY <1>0, <1>3 DEF ForeignStep, ConnectToMesh, ForeignRequest, ForeignResponse,
     AlgoDone, WaitLinkTaskFinish, ForeignGivesUp, Goto, Ran
<1> QED BY <1>1, <1>2, <1>3

\* A step of the party itself.
LEMMA OwnSkip ==
  ASSUME TypeOK, Skipping, settings' = settings, NEW r \in Native, NativeStep(r) \/ Crash(r)
  PROVE  /\ ctx'[r].disable_handshake = StartContext(r)'.disable_handshake
         /\ StartContext(r)'.disable_handshake =>
              /\ pc'[r] \notin {"collect", "propose", "await"}
              /\ pc'[r] \in {"init", "linking", "linked"} => ctx'[r] = StartContext(r)' /\ ~ Ran(r)'
              /\ Ran(r)' => ctx'[r] = Prepared(StartContext(r)', r)
<1> DEFINE c == StartContext(r)
<1>0. /\ pc \in [Rank -> Phase] /\ ctx \in [Native -> Context] /\ ctx[r] \in Context
      /\ response \in Response /\ requests \in Seq(Request) /\ r \in Rank
  BY Ranks DEF TypeOK
<1>g. StartContext(r)' = c
  BY DEF StartContext
<1>i. /\ ctx[r].disable_handshake = c.disable_handshake
      /\ c.disable_handshake =>
           /\ pc[r] \notin {"collect", "propose", "await"}
           /\ pc[r] \in {"init", "linking", "linked"} => ctx[r] = c /\ ~ Ran(r)
           /\ Ran(r) => ctx[r] = Prepared(c, r)
  BY DEF Skipping
<1> HIDE DEF c
<1>1. CASE CreateIcContext(r) \/ ConnectToMesh(r) \/ MeshFailure(r)
  <2>1. /\ ctx' = ctx /\ entered' = entered
        /\ \/ pc'[r] \in {"linking", "linked"} /\ pc[r] \in {"init", "linking"}
           \/ pc'[r] \in Exited
    BY <1>0, <1>1 DEF CreateIcContext, ConnectToMesh, MeshFailure, Goto, Exit, Throw, Exited
  <2> QED BY <2>1, QuietSkip DEF Ran
<1>2. CASE PrepareDataset(r)
  <2>1. CASE ~ Prepares(ctx[r], r)
    <3>1. ctx' = ctx /\ entered' = entered /\ pc'[r] \in Exited
      BY <1>0, <1>2, <2>1 DEF PrepareDataset, Goto, Exit, Throw, Exited
    <3> QED BY <3>1, QuietSkip DEF Ran
  <2>2. CASE Prepares(ctx[r], r)
    <3>1. /\ pc[r] = "linked" /\ ctx'[r] = Prepared(ctx[r], r)
          /\ ctx[r].disable_handshake => pc'[r] = "run"
      BY <1>0, <1>2, <2>2 DEF PrepareDataset, Goto, Skips
    <3>2. ctx'[r].disable_handshake = ctx[r].disable_handshake
      BY <1>0, <3>1, HandlerTypes
    <3> QED BY <1>g, <1>i, <3>1, <3>2
  <2> QED BY <2>1, <2>2
<1>3. CASE SendHandshakeRequest(r) \/ RecvHandshakeRequest(r)
  <2>1. ctx' = ctx /\ entered' = entered /\ ~ ctx[r].disable_handshake
    BY <1>i, <1>3 DEF SendHandshakeRequest, RecvHandshakeRequest
  <2> QED BY <2>1, QuietSkip DEF Ran
<1>4. CASE RecvHandshakeResponse(r)
  <2>1. ~ c.disable_handshake
    BY <1>i, <1>4 DEF RecvHandshakeResponse
  <2>2. \/ ctx' = ctx
        \/ Accepts(ctx[r], r, response) /\ ctx'[r] = Processed(ctx[r], r, response)
    BY <1>0, <1>4 DEF RecvHandshakeResponse
  <2>3. ctx'[r].disable_handshake = ctx[r].disable_handshake
    BY <1>0, <2>2, HandlerTypes
  <2> QED BY <1>g, <1>i, <2>1, <2>3
<1>5. CASE PassiveHandshake(r)
  <2>1. ~ c.disable_handshake
    BY <1>i, <1>5 DEF PassiveHandshake
  <2>2. \/ ctx' = ctx
        \/ Verdict(ctx[r], requests) = "OK" /\ ctx'[r] = Negotiated(ctx[r], requests)
    BY <1>0, <1>5 DEF PassiveHandshake
  <2>3. ctx'[r].disable_handshake = ctx[r].disable_handshake
    BY <1>0, <2>2, Negotiating
  <2> QED BY <1>g, <1>i, <2>1, <2>3
<1>6. CASE \/ AlgoDone(r) \/ AlgoFails(r) \/ WaitLinkTaskFinish(r) \/ RecvTimeout(r)
           \/ Crash(r)
  <2>1. ctx' = ctx /\ entered' = entered /\ pc'[r] \in {"finish"} \cup Exited
    BY <1>0, <1>6 DEF AlgoDone, AlgoFails, WaitLinkTaskFinish, RecvTimeout, Crash,
       Goto, Exit, Throw, Exited
  <2> QED BY <2>1, QuietSkip DEF Ran
<1> QED BY <1>1, <1>2, <1>3, <1>4, <1>5, <1>6 DEF NativeStep

\* No step breaks it.
LEMMA SkippingStep ==
  TypeOK /\ Skipping /\ [Next /\ UNCHANGED settings]_jobvars => Skipping'
<1> SUFFICES ASSUME TypeOK, Skipping, [Next /\ UNCHANGED settings]_jobvars
             PROVE  Skipping'
  OBVIOUS
<1>0. settings' = settings
  BY DEF jobvars
<1> SUFFICES ASSUME NEW q \in Native
             PROVE  /\ ctx'[q].disable_handshake = StartContext(q)'.disable_handshake
                    /\ StartContext(q)'.disable_handshake =>
                         /\ pc'[q] \notin {"collect", "propose", "await"}
                         /\ pc'[q] \in {"init", "linking", "linked"} =>
                              ctx'[q] = StartContext(q)' /\ ~ Ran(q)'
                         /\ Ran(q)' => ctx'[q] = Prepared(StartContext(q)', q)
  BY DEF Skipping
<1>1. ASSUME NEW r \in Native, NativeStep(r) \/ Crash(r), q = r
      PROVE  /\ ctx'[q].disable_handshake = StartContext(q)'.disable_handshake
             /\ StartContext(q)'.disable_handshake =>
                  /\ pc'[q] \notin {"collect", "propose", "await"}
                  /\ pc'[q] \in {"init", "linking", "linked"} =>
                       ctx'[q] = StartContext(q)' /\ ~ Ran(q)'
                  /\ Ran(q)' => ctx'[q] = Prepared(StartContext(q)', q)
  BY <1>0, <1>1, OwnSkip
<1>2. CASE ctx'[q] = ctx[q] /\ (Ran(q)' <=> Ran(q)) /\ pc'[q] = pc[q]
  BY <1>0, <1>2, QuietSkip
<1>3. ASSUME NEW r \in Native, NativeStep(r) \/ Crash(r), q # r
      PROVE  ctx'[q] = ctx[q] /\ (Ran(q)' <=> Ran(q)) /\ pc'[q] = pc[q]
  BY <1>3, Ranks, OthersSkip
<1>4. ASSUME NEW r \in Foreign, ForeignStep(r)
      PROVE  ctx'[q] = ctx[q] /\ (Ran(q)' <=> Ran(q)) /\ pc'[q] = pc[q]
  <2>1. q # r /\ r \in Rank
    BY Ranks DEF Native
  <2> QED BY <1>4, <2>1, OthersSkip
<1>5. ASSUME UNCHANGED vars \/ \E r \in Active : DeliverResponse(r)
      PROVE  ctx'[q] = ctx[q] /\ (Ran(q)' <=> Ran(q)) /\ pc'[q] = pc[q]
  BY <1>5 DEF vars, DeliverResponse, Ran
<1> QED BY <1>1, <1>2, <1>3, <1>4, <1>5 DEF Next, Done, jobvars

-----------------------------------------------------------------------------
(* The environment decides.                                                *)

\* Without a handshake, preparing changes nothing but the number of rows.
LEMMA PreparedFields ==
  ASSUME NEW c \in LrContext, NEW r \in Rank, c.disable_handshake
  PROVE  LET p == LrPrepared(c, r)
         IN  /\ LrTerms(p) = [LrTerms(c) EXCEPT !.sample_size = c.rows]
             /\ LrBeaver(p) = LrBeaver(c)
             /\ p.rows = c.rows /\ p.algo = c.algo
<1>1. [c.feature_nums EXCEPT ![r] = c.feature_nums[r]] = c.feature_nums
  BY DEF LrContext
<1>2. LrPrepared(c, r) = [c EXCEPT !.sample_size = c.rows,
                                   !.feature_nums = c.feature_nums]
  BY <1>1 DEF LrPrepared, LrContext
<1> DEFINE OfTheFile(p) ==
                       /\ p.algo = c.algo /\ p.num_epoch = c.num_epoch
                       /\ p.batch_size = c.batch_size
                       /\ p.last_batch_policy = c.last_batch_policy
                       /\ p.l0_norm = c.l0_norm /\ p.l1_norm = c.l1_norm
                       /\ p.l2_norm = c.l2_norm /\ p.optimizer = c.optimizer
                       /\ p.learning_rate = c.learning_rate
                       /\ p.sample_size = c.rows /\ p.feature_nums = c.feature_nums
                       /\ p.sigmoid_mode = c.sigmoid_mode /\ p.protocol = c.protocol
                       /\ p.field_type = c.field_type /\ p.fxp_bits = c.fxp_bits
                       /\ p.trunc_mode = c.trunc_mode
                       /\ p.shard_serialize_format = c.shard_serialize_format
                       /\ p.use_ttp = c.use_ttp /\ p.ttp_server_host = c.ttp_server_host
                       /\ p.ttp_adjust_rank = c.ttp_adjust_rank
                       /\ p.ttp_public_key = c.ttp_public_key /\ p.rows = c.rows
<1>3. ASSUME NEW p, p = [c EXCEPT !.sample_size = c.rows, !.feature_nums = c.feature_nums]
      PROVE  OfTheFile(p)
  BY <1>3 DEF LrContext
<1>4. ASSUME NEW p, OfTheFile(p)
      PROVE  /\ LrTerms(p) = [LrTerms(c) EXCEPT !.sample_size = c.rows]
             /\ LrBeaver(p) = LrBeaver(c)
             /\ p.rows = c.rows /\ p.algo = c.algo
  BY <1>4 DEF LrTerms, LrBeaver
<1> HIDE DEF OfTheFile
<1>5. OfTheFile(LrPrepared(c, r))
  BY <1>2, <1>3, Zenon
<1> QED BY <1>4, <1>5

\* What Skipping rests on, and a step does not change.
Configuration ==
  settings \in Choices /\ \A r \in Native : StartContext(r) \in Context

\* Where the context of a party comes from.
LEMMA Origin ==
  ASSUME Configuration, NEW r \in Native
  PROVE  \E ic \in IcContextOf(settings[r]), link \in MakeLink(settings[r]) :
           StartContext(r) \in CreateContext(settings[r], ic, link)
<1>1. r \in Rank /\ settings \in Choices
  BY Ranks DEF Configuration
<1>2. Configured(settings[r]) # {}
  BY <1>1, ChoicesAssumption
<1>3. StartContext(r) \in Configured(settings[r])
  BY <1>2 DEF StartContext, ContextOf
<1> QED BY <1>3 DEF Configured

\* One environment is enough.
LEMMA Decided ==
  TypeOK /\ Skipping /\ Configuration => EnvironmentDecides
<1> SUFFICES ASSUME TypeOK, Skipping, Configuration, NEW p \in Native, NEW q \in Native,
                    Ran(p), Ran(q), SameEnvironment(p, q), SameRows(p, q)
             PROVE  Fits(ctx[p], ctx[q])
  BY DEF EnvironmentDecides
<1> DEFINE s == settings[p]
           t == settings[q]
           c == StartContext(p)
           d == StartContext(q)
<1>1. /\ ctx[p].disable_handshake = c.disable_handshake /\ ctx[p].disable_handshake
      /\ ctx[q].disable_handshake = d.disable_handshake /\ ctx[q].disable_handshake
      /\ s.env = t.env /\ ParametersOf(ctx[p]) \subseteq DOMAIN s.env
  BY DEF SameEnvironment, Skips, Skipping
<1>2. /\ ctx[p] = Prepared(c, p) /\ ctx[q] = Prepared(d, q)
      /\ c.disable_handshake /\ d.disable_handshake
  BY <1>1 DEF Skipping
<1>3. PICK ic \in IcContextOf(s), link \in MakeLink(s) : c \in CreateContext(s, ic, link)
  BY Origin
<1>4. PICK jc \in IcContextOf(t), peer \in MakeLink(t) : d \in CreateContext(t, jc, peer)
  BY Origin
<1>5. c \in Context /\ d \in Context
  BY DEF Configuration
<1>6. /\ \A n \in DOMAIN s.env : s.env[n] \in Texts
      /\ link.ids = peer.ids /\ p \in Rank /\ q \in Rank
  <2>1. p \in Rank /\ q \in Rank /\ settings \in Choices
    BY Ranks DEF Configuration
  <2> QED BY <2>1, ChoicesAssumption
<1>7. OneEnv(s, t)
  BY <1>1, <1>6 DEF OneEnv
<1>8. /\ ic.algo \in Enum(s, "algo", AlgoType) /\ jc.algo \in Enum(t, "algo", AlgoType)
      /\ ic.disable_handshake = s.flags.disable_handshake
      /\ jc.disable_handshake = t.flags.disable_handshake
  BY DEF IcContextOf
<1>9. "algo" \in DOMAIN s.env
  BY <1>1 DEF ParametersOf
<1>10. ic.algo = jc.algo
  BY <1>7, <1>8, <1>9, OneValue
<1> HIDE DEF s, t, c, d
<1>11. CASE ic.algo = "ECDH_PSI"
  <2>1. c \in CreateEcdhPsiContext(s, ic) /\ d \in CreateEcdhPsiContext(t, jc)
    BY <1>3, <1>4, <1>10, <1>11 DEF CreateContext
  <2>2. c.algo = "ECDH_PSI" /\ d.algo = "ECDH_PSI"
    BY <1>10, <1>11, <2>1 DEF CreateEcdhPsiContext
  <2>3. ctx[p] = c /\ ctx[q] = d /\ IsPsi(c) /\ IsPsi(d)
    BY <1>2, <2>2 DEF Prepared, IsPsi
  <2>4. PsiParameters \subseteq DOMAIN s.env
    BY <1>1, <2>3 DEF ParametersOf, PsiParameters
  <2>5. PsiTerms(c) = PsiTerms(d)
    BY <1>7, <1>10, <2>1, <2>4, OnePsi
  <2> QED BY <2>3, <2>5 DEF Fits, Terms
<1>12. CASE ic.algo # "ECDH_PSI"
  <2>1. c \in CreateLrContext(s, ic, link) /\ d \in CreateLrContext(t, jc, peer)
    BY <1>3, <1>4, <1>10, <1>12 DEF CreateContext
  <2>2. /\ c.algo = ic.algo /\ c.disable_handshake = ic.disable_handshake
        /\ d.algo = jc.algo /\ d.disable_handshake = jc.disable_handshake
    BY <2>1, LrSources
  <2>3. /\ ~ IsPsi(c) /\ ~ IsPsi(d) /\ c \in LrContext /\ d \in LrContext
    BY <1>5, <1>10, <1>12, <2>2, ContextKind DEF IsPsi
  <2>4. /\ ctx[p] = LrPrepared(c, p) /\ ctx[q] = LrPrepared(d, q)
    BY <1>2, <2>3 DEF Prepared
  <2>5. /\ LrTerms(ctx[p]) = [LrTerms(c) EXCEPT !.sample_size = c.rows]
        /\ LrTerms(ctx[q]) = [LrTerms(d) EXCEPT !.sample_size = d.rows]
        /\ LrBeaver(ctx[p]) = LrBeaver(c) /\ LrBeaver(ctx[q]) = LrBeaver(d)
        /\ ctx[p].rows = c.rows /\ ctx[q].rows = d.rows
        /\ ctx[p].algo = c.algo /\ ctx[q].algo = d.algo
    BY <1>2, <1>6, <2>3, <2>4, PreparedFields
  <2>6. ~ IsPsi(ctx[p]) /\ ~ IsPsi(ctx[q])
    BY <2>3, <2>5 DEF IsPsi
  <2>7. LrParameters \subseteq DOMAIN s.env
    BY <1>1, <2>6 DEF ParametersOf, LrParameters
  <2>8. LrTerms(c) = LrTerms(d) /\ LrBeaver(c) = LrBeaver(d)
    <3>1. s.flags.disable_handshake /\ t.flags.disable_handshake
      BY <1>2, <1>8, <2>2
    <3> QED BY <1>6, <1>7, <1>10, <2>1, <2>7, <3>1, OneLr
  <2>9. c.rows = d.rows
    BY <2>5, <2>6 DEF SameRows
  <2> QED BY <2>5, <2>6, <2>8, <2>9 DEF Fits, Terms
<1> QED BY <1>11, <1>12

\* The states a configured job starts in.
LEMMA InitConfigured == JobInit => Skipping /\ Configuration
<1> SUFFICES ASSUME JobInit PROVE Skipping /\ Configuration
  OBVIOUS
<1>1. /\ ctx \in [Native -> Context] /\ settings \in Choices /\ entered = {}
      /\ \A r \in Native : pc[r] = "init" /\ ctx[r] = StartContext(r)
  BY Ranks, HandshakeAssumption DEF JobInit, Init, StartContext
<1> QED BY <1>1 DEF Skipping, Configuration, Ran

(* Parties that skip the handshake and have one and the same complete      *)
(* environment compute the same thing, whatever their command lines say,   *)
(* if their data sets have equally many rows: the environment goes before  *)
(* the flags (GetParamEnv) in every parameter of an algorithm.             *)
THEOREM EnvironmentGoesFirst == JobSpec => []EnvironmentDecides
<1>1. JobInit => TypeOK /\ Skipping /\ Configuration
  BY InitTyped, InitConfigured DEF JobInit
<1>2. TypeOK /\ [Next /\ UNCHANGED settings]_jobvars => TypeOK'
  <2>1. [Next /\ UNCHANGED settings]_jobvars => [Next]_vars
    BY DEF jobvars
  <2> QED BY <2>1, NextTyped
<1>3. Configuration /\ [Next /\ UNCHANGED settings]_jobvars => Configuration'
  BY DEF jobvars, Configuration, StartContext
<1> QED BY <1>1, <1>2, <1>3, SkippingStep, Decided, PTL DEF JobSpec, jobvars

==============================================================================
