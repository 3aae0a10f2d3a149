----------------------------- MODULE MCConfigured -----------------------------
(* Two parties with the environments of the example scripts, complete, in  *)
(* part or not at all, and with command lines that say something else.     *)
EXTENDS ConfiguredJob, MCLibrary, TLC

\* Flags that a complete environment makes void, and skip_rows.
CommandLines ==
  {DefaultFlags,
   [DefaultFlags EXCEPT !.learning_rate = 2, !.use_ttp = TRUE, !.result_to_rank = 0],
   [DefaultFlags EXCEPT !.batch_size = 1, !.l2_norm = 0, !.has_label = TRUE, !.hash_type = "x"],
   [DefaultFlags EXCEPT !.algo = "SS_LR", !.protocol_families = "ss", !.optimizer = "momentum"],
   [DefaultFlags EXCEPT !.skip_rows = 0]}

LrEnv ==
  "algo" :> "ss_lr" @@ "protocol_families" :> "ss,tee" @@ "batch_size" :> "2"
  @@ "last_batch_policy" :> "discard" @@ "num_epoch" :> "1" @@ "l0_norm" :> "0"
  @@ "l1_norm" :> "0" @@ "l2_norm" :> "0.5" @@ "optimizer" :> "sgd"
  @@ "learning_rate" :> "0.0001" @@ "sigmoid_mode" :> "Minimax_1"
  @@ "protocol" :> "semi2k" @@ "field" :> "64" @@ "fxp_bits" :> "18"
  @@ "trunc_mode" :> "probabilistic" @@ "shard_serialize_format" :> "raw"
  @@ "use_ttp" :> "True" @@ "ttp_server_host" :> "ttp:1" @@ "ttp_public_key" :> "key"
  @@ "ttp_adjust_rank" :> "0" @@ "skip_rows" :> "1" @@ "label_owner" :> "host.0"
  @@ "feature_nums" :> "{host:1,guest:2}"

PsiEnv ==
  "algo" :> "ecdh_psi" @@ "protocol_families" :> "ecc" @@ "curve_type" :> "curve25519"
  @@ "hash_type" :> "sha_256" @@ "hash2curve_strategy" :> "direct_hash_as_point_x"
  @@ "point_octet_format" :> "uncompressed" @@ "bit_length_after_truncated" :> "-1"
  @@ "field_names" :> "id" @@ "result_to_rank" :> "-1"

Without(env, name) == [n \in DOMAIN env \ {name} |-> env[n]]

Environments ==
  {LrEnv, PsiEnv,
   [LrEnv EXCEPT !["learning_rate"] = "0.0002", !["use_ttp"] = "false"],
   [LrEnv EXCEPT !["feature_nums"] = "{host:1}"],
   Without(LrEnv, "learning_rate"), Without(LrEnv, "label_owner"),
   [PsiEnv EXCEPT !["result_to_rank"] = "1"], NoEnv}

Roles(rank) == [ids |-> (0 :> "host.0" @@ 1 :> "guest.0"),
                nodes |-> (0 :> "a:1" @@ 1 :> "b:1"), rank |-> rank]

Setting(flags, env, rank) ==
  [Default EXCEPT !.flags = [flags EXCEPT !.disable_handshake = env # NoEnv],
                  !.env = env, !.nodes = {Roles(rank)},
                  !.transport = {Roles(rank).nodes[rank]},
                  !.storage = {"obs://bucket"}, !.storage_host = {"file://root"},
                  !.input = {"{a.csv}"},
                  !.output = IF env = NoEnv THEN {} ELSE {"{out}"}]

\* One environment and any command lines, or any environments and no flags.
PairChoices ==
  LET pair(f, g, e, h) == [r \in Rank |-> IF r = 0 THEN Setting(f, e, 0) ELSE Setting(g, h, 1)]
      same  == {pair(f, g, e, e) : f, g \in CommandLines, e \in Environments}
      plain == {pair(DefaultFlags, DefaultFlags, e, h) : e, h \in Environments}
  IN  {c \in same \cup plain : \A r \in Rank : Configured(c[r]) # {}}
PairDeployments == {[r \in Rank |-> ContextOf(c[r])] : c \in PairChoices}

NoProposals == [r \in {} |-> {}]
=============================================================================
