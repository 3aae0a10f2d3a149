------------------------------ MODULE MCForeign ------------------------------
(* Rank 2 is another platform's party, whose proposals may list several    *)
(* values, speak another version, miss a parameter, be numbered from 1 or  *)
(* give a negative rank.  The two others may not even have chosen the same *)
(* algorithm.                                                              *)
EXTENDS MCMixed

ForeignRank == {2}

Offer == LrBuildRequest([LrDefault EXCEPT !.sample_size = 4,
                           !.feature_nums = [q \in Rank |-> 3]], 2)
LrOffer    == CHOOSE p \in Offer.lr : TRUE
SsOffer    == CHOOSE p \in Offer.ss : TRUE
IoOffer    == CHOOSE p \in Offer.lr_io : TRUE
TruncOffer == CHOOSE t \in SsOffer.trunc_modes : TRUE

ForeignProposals ==
  {Offer, PsiBuildRequest(Curve25519, 2),
   [Offer EXCEPT !.version = 1],
   [Offer EXCEPT !.version = 3],
   [Offer EXCEPT !.ss = {}],
   [Offer EXCEPT !.requester_rank = 3],
   [Offer EXCEPT !.requester_rank = -1],
   [Offer EXCEPT !.requester_rank = -1, !.lr_io = {[IoOffer EXCEPT !.has_label = TRUE]}],
   [Offer EXCEPT !.requester_rank = -2, !.lr_io = {[IoOffer EXCEPT !.has_label = TRUE]}],
   [Offer EXCEPT !.lr = {[LrOffer EXCEPT
      !.optimizers = Optimizer, !.last_batch_policies = LastBatchPolicy,
      !.use_l0_norm = TRUE, !.use_l1_norm = TRUE]}],
   [Offer EXCEPT !.ss = {[SsOffer EXCEPT
      !.supported_protocols = ProtocolKind, !.field_types = FieldType,
      !.trunc_modes = @ \cup {[TruncOffer EXCEPT !.method = "PRECISE"]},
      !.prg_crypto_types = PrgCryptoType]}],
   [Offer EXCEPT !.ss = {[SsOffer EXCEPT !.trunc_modes =
      {[TruncOffer EXCEPT !.compatible_protocols = {2}]}]}],
   [Offer EXCEPT !.ss = {[SsOffer EXCEPT !.prg_crypto_types = {"SM4_CTR"}]}],
   [Offer EXCEPT !.sigmoid = {[sigmoid_modes |-> SigmoidMode]},
      !.lr_io = {[IoOffer EXCEPT !.has_label = TRUE]}],
   [Offer EXCEPT !.lr_io = {[IoOffer EXCEPT !.feature_num = 0]}]}

ProposalsOf == [r \in ForeignRank |-> ForeignProposals]

NativeFlags ==
  Deploy([Native -> {LrDefault, [LrDefault EXCEPT !.l2_norm = 0],
                     [LrDefault EXCEPT !.l0_norm = 2, !.l1_norm = 3],
                     [LrDefault EXCEPT !.protocol = "ABY3"]}],
         {{}, {0}, {1}}) \cup MixedFlags
=============================================================================
