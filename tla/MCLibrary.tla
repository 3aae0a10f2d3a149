------------------------------ MODULE MCLibrary ------------------------------
(* What the library functions of Config make of the texts of the examples. *)
(* A norm of 0.5 is written 5, a rate of 0.0001 is written 1.              *)
EXTENDS Integers, Sequences

Upper(t) ==
  CASE t = "ss_lr" -> "SS_LR"          [] t = "ecdh_psi" -> "ECDH_PSI"
    [] t = "ss" -> "SS"                [] t = "ecc" -> "ECC"
    [] t = "discard" -> "DISCARD"      [] t = "sgd" -> "SGD"
    [] t = "momentum" -> "MOMENTUM"    [] t = "Minimax_1" -> "MINIMAX_1"
    [] t = "semi2k" -> "SEMI2K"        [] t = "raw" -> "RAW"
    [] t = "probabilistic" -> "PROBABILISTIC"
    [] t = "True" -> "TRUE"            [] t = "sha_256" -> "SHA_256"
    [] t = "curve25519" -> "CURVE25519"
    [] t = "uncompressed" -> "UNCOMPRESSED"
    [] t = "direct_hash_as_point_x" -> "DIRECT_HASH_AS_POINT_X"
    [] t = "unspecified" -> "UNSPECIFIED"
    [] OTHER -> t

Split(t) ==
  CASE t = "a:1,b:1" -> <<"a:1", "b:1">>
    [] t = "b:1,a:1" -> <<"b:1", "a:1">>
    [] t = "a:1,b:1,c:1" -> <<"a:1", "b:1", "c:1">>
    [] t = "b:1,a:1,c:1" -> <<"b:1", "a:1", "c:1">>
    [] t = "ss,tee" -> <<"ss", "tee">>
    [] OTHER -> <<t>>

ToInt(t) ==
  CASE t = "-1" -> {-1} [] t = "0" -> {0} [] t = "1" -> {1} [] t = "2" -> {2}
    [] t = "18" -> {18} [] OTHER -> {}

ToDouble(t) ==
  CASE t = "0" -> {0} [] t = "0.5" -> {5} [] t = "0.0001" -> {1}
    [] t = "0.0002" -> {2} [] OTHER -> {}

\* "?" is no base64 text.
Decoded(t) == IF t = "?" THEN {} ELSE {t}

\* "obs://bucket" is a root that is not local.
LocalRoot(t) == IF t = "file://root" THEN {"root"} ELSE {}

\* "{" is no JSON text.
FileObject(t) ==
  CASE t = "{a.csv}" -> {[namespace |-> "data", name |-> "a.csv"]}
    [] t = "{out}"   -> {[namespace |-> "output", name |-> "out"]}
    [] OTHER -> {}

IntObject(t) ==
  CASE t = "{host:1,guest:2}" -> {[i \in {"host.0", "guest.0"} |-> IF i = "host.0" THEN 1 ELSE 2]}
    [] t = "{host:1,guest:2,guest:3}" ->
         {[i \in {"host.0", "guest.0", "guest.1"} |->
             CASE i = "host.0" -> 1 [] i = "guest.0" -> 2 [] OTHER -> 3]}
    [] t = "{host:1}"         -> {[i \in {"host.0"} |-> 1]}
    [] t = "{party0:1,party1:2}" -> {[i \in {"party0", "party1"} |-> IF i = "party0" THEN 1 ELSE 2]}
    [] OTHER -> {}

Name(i) == CASE i = 0 -> "party0" [] i = 1 -> "party1" [] OTHER -> "party2"

AllTexts ==
  {"SS_LR", "ss_lr", "ECDH_PSI", "ecdh_psi", "other", "ss", "ecc", "ss,tee", "tee",
   "discard", "sgd", "momentum", "Minimax_1", "semi2k", "64", "probabilistic",
   "raw", "True", "false", "sha_256", "curve25519", "uncompressed",
   "direct_hash_as_point_x", "unspecified", "a:1,b:1", "b:1,a:1", "a:1,b:1,c:1", "b:1,a:1,c:1",
   "a:1", "b:1", "c:1", "-1", "0", "1", "2", "18", "x", "0.5", "0.0001", "0.0002",
   "?", "key", "ttp:1", "data.csv", "/tmp/sslr_result", "", "id",
   "host.0", "guest.0", "party0",
   "{host:1,guest:2}", "{host:1,guest:2,guest:3}", "{host:1}", "{party0:1,party1:2}", "{a.csv}", "{out}", "{"}

\* The defaults of the flags; the parameters of a variable that is not set.
DefaultFlags ==
  [parties |-> "a:1,b:1", rank |-> 0, ic_version |-> 2, algo |-> "ECDH_PSI",
   protocol_families |-> "ecc", disable_handshake |-> FALSE,
   has_label |-> FALSE, num_epoch |-> 1, batch_size |-> 2,
   last_batch_policy |-> "discard", l0_norm |-> 0, l1_norm |-> 0, l2_norm |-> 5,
   optimizer |-> "sgd", learning_rate |-> 1, sigmoid_mode |-> "Minimax_1",
   protocol |-> "semi2k", field |-> "64", fxp_bits |-> 18,
   trunc_mode |-> "probabilistic", shard_serialize_format |-> "raw",
   use_ttp |-> FALSE, ttp_server_host |-> "ttp:1", ttp_public_key |-> "",
   ttp_adjust_rank |-> 0, dataset |-> "data.csv", skip_rows |-> 1,
   lr_output |-> "/tmp/sslr_result", curve_type |-> "curve25519",
   hash_type |-> "sha_256", hash2curve_strategy |-> "direct_hash_as_point_x",
   point_octet_format |-> "uncompressed", result_to_rank |-> -1,
   in_path |-> "data.csv", out_path |-> "", field_names |-> "id"]

NoEnv == [n \in {} |-> ""]

\* -in_path or -dataset with the default name, and the file under a root.
Files == {[name |-> <<"data.csv">>, rows |-> 5, columns |-> 2, fields |-> {"id"}],
          [name |-> <<"root", [namespace |-> "data", name |-> "a.csv"]>>,
           rows |-> 5, columns |-> 2, fields |-> {"id"}]}

Default ==
  [flags |-> DefaultFlags, env |-> NoEnv, storage |-> {}, storage_host |-> {},
   input |-> {}, output |-> {}, nodes |-> {}, transport |-> {}, files |-> Files]
=============================================================================
