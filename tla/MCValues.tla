------------------------------ MODULE MCValues ------------------------------
(* The contexts that the example flags and data sets give a party.         *)
EXTENDS EcdhPsi, SsLr

\* The default flags of ic_main.
Curve25519 ==
  [algo |-> "ECDH_PSI", version |-> 2, protocol_families |-> <<"ECC">>,
   disable_handshake |-> FALSE,
   input_readable |-> TRUE, curve_type |-> "CURVE25519",
   hash_type |-> "SHA_256",
   hash_to_curve_strategy |-> "DIRECT_HASH_AS_POINT_X",
   point_octet_format |-> "UNCOMPRESSED",
   bit_length_after_truncated |-> -1, result_to_rank |-> -1]

Sm2 == [Curve25519 EXCEPT !.curve_type = "SM2",
          !.hash_to_curve_strategy = "TRY_AND_REHASH",
          !.point_octet_format = "X962_COMPRESSED"]

\* The flags of the SS-LR example, over a data set of four rows.  A norm of 0.5
\* is written 5; sample_size and feature_nums are set by PrepareDataset.
LrDefault ==
  [algo |-> "SS_LR", version |-> 2, protocol_families |-> <<"SS">>,
   disable_handshake |-> FALSE,
   rows |-> 4, columns |-> 2, num_epoch |-> 1, batch_size |-> 2,
   last_batch_policy |-> "DISCARD", l0_norm |-> 0, l1_norm |-> 0,
   l2_norm |-> 5, optimizer |-> "SGD", learning_rate |-> 1,
   sample_size |-> 0, feature_nums |-> [q \in Rank |-> 0],
   label_rank |-> -1, sigmoid_mode |-> "MINIMAX_1", protocol |-> "SEMI2K",
   field_type |-> "64", fxp_bits |-> 18, trunc_mode |-> "PROBABILISTIC",
   shard_serialize_format |-> "RAW", use_ttp |-> FALSE,
   ttp_server_host |-> "host:1", ttp_adjust_rank |-> 0, ttp_public_key |-> ""]
=============================================================================
