-------------------------------- MODULE Config --------------------------------
(***************************************************************************)
(* What a process makes of its command line and its environment: the       *)
(* common context (context.cc), the two kinds of link (util.cc) and the    *)
(* algorithm's context (lr_context.cc, ss.cc, optimizer.cc, sigmoid.cc,    *)
(* psi_context_v2.cc, ecc.cc).                                             *)
(*                                                                         *)
(* A function of the code that may throw is an operator whose value is a   *)
(* set: empty when it throws, otherwise with the result as its element.    *)
(* The constants below are library functions; those that may throw follow  *)
(* the same rule.  Texts are strings, and the meaning of each text is what *)
(* these functions make of it.                                             *)
(***************************************************************************)
EXTENDS EcdhPsi, SsLr, Functions

CONSTANTS
  Texts,               \* the texts that flags and environment may hold
  AsciiStrToUpper(_),  \* absl
  StrSplit(_),         \* absl: a comma-separated list as a sequence
  Stoi(_), Stod(_),    \* std: may throw
  Base64Decode(_),     \* butil: may fail
  AfterFileScheme(_),  \* the path after "file://", if the text starts so
  JsonFile(_),         \* nlohmann: namespace and name of an object; may throw
  JsonInts(_),         \* nlohmann: an object of integers; may throw
  PartyName(_)         \* fmt::format("party{}", rank)

\* A function that may throw has one result otherwise.
AtMostOne(S) == \A x, y \in S : x = y

ASSUME LibraryAssumption ==
  \A t \in Texts :
    /\ t \in STRING
    /\ StrSplit(t) \in Seq(Texts)
    /\ Stoi(t) \subseteq Int /\ Stod(t) \subseteq Nat
    /\ Base64Decode(t) \subseteq STRING
    /\ \A f \in JsonInts(t) : \A id \in DOMAIN f : f[id] \in Int
    /\ AtMostOne(Stoi(t)) /\ AtMostOne(Stod(t))
    /\ AtMostOne(Base64Decode(t)) /\ AtMostOne(JsonInts(t))

\* Flags, already parsed to their types, with the names of the code; env maps
\* the names of the parameters that are set (runtime.component.parameter.*) to
\* their texts.  The other variables have fields of their own:
\*   storage, storage_host   system.storage, system.storage.host.url
\*   input, output           runtime.component.input, output .train_data
\*   nodes                   what yacl reads of config.*, if it is complete
\*   transport               system.transport
\* files are the csv files the process can open: name, rows and columns.
Flags ==
  [parties : Texts, rank : Int, ic_version : Nat, algo : Texts,
   protocol_families : Texts, disable_handshake : BOOLEAN,
   has_label : BOOLEAN, num_epoch : Int, batch_size : Int,
   last_batch_policy : Texts, l0_norm : Nat, l1_norm : Nat, l2_norm : Nat,
   optimizer : Texts, learning_rate : Nat, sigmoid_mode : Texts,
   protocol : Texts, field : Texts, fxp_bits : Int, trunc_mode : Texts,
   shard_serialize_format : Texts, use_ttp : BOOLEAN,
   ttp_server_host : Texts, ttp_public_key : Texts, ttp_adjust_rank : Int,
   dataset : Texts, skip_rows : Int, lr_output : Texts,
   curve_type : Texts, hash_type : Texts, hash2curve_strategy : Texts,
   point_octet_format : Texts, result_to_rank : Int,
   in_path : Texts, out_path : Texts, field_names : Texts]

-----------------------------------------------------------------------------
(* util.h, util.cc: the environment goes before the command line.          *)

Given(s, name) == name \in DOMAIN s.env

\* GetParamEnv for a string, a bool, an integer and a double.
Text(s, name)    == IF Given(s, name) THEN s.env[name] ELSE s.flags[name]
ToBool(text)     == AsciiStrToUpper(text) = "TRUE"
Boolean(s, name) == IF Given(s, name) THEN ToBool(s.env[name]) ELSE s.flags[name]
Integer(s, name) == IF Given(s, name) THEN Stoi(s.env[name]) ELSE {s.flags[name]}
Double(s, name)  == IF Given(s, name) THEN Stod(s.env[name]) ELSE {s.flags[name]}

\* The value of an enumeration that a name stands for, case ignored; throws at
\* an unknown name and at the unspecified value.
GetFlagValue(values, name) ==
  {v \in values \ {"UNSPECIFIED"} : v = AsciiStrToUpper(name)}

\* The names of a list that are known, the unspecified value among them.
GetFlagValues(values, names) ==
  LET upper == [i \in DOMAIN StrSplit(names) |-> AsciiStrToUpper(StrSplit(names)[i])]
      Known(v) == v \in values
  IN  SelectSeq(upper, Known)

Enum(s, name, values) == GetFlagValue(values, Text(s, name))

\* The root of the files: system.storage if it is a local one, or else
\* system.storage.host.url.
Root(s) ==
  LET storage == UNION {AfterFileScheme(t) : t \in s.storage}
  IN  IF storage # {} THEN storage
      ELSE UNION {AfterFileScheme(t) : t \in s.storage_host}

\* The file that train_data names, the default without a root or train_data.
IoFileName(s, train_data, default) ==
  IF Root(s) = {} \/ train_data = {} THEN {<<default>>}
  ELSE {<<root, file>> : root \in Root(s), file \in UNION {JsonFile(t) : t \in train_data}}

GetInputFileName(s, default)  == IoFileName(s, s.input, default)
GetOutputFileName(s, default) == IoFileName(s, s.output, default)

-----------------------------------------------------------------------------
(* context.cc and the link.  A link knows its parties' ids and addresses,  *)
(* by rank, and its own rank.                                              *)

AlgoType == {"ECDH_PSI", "SS_LR", "OTHER"}

\* CreateIcContext, all but the link.  The version has no environment variable.
IcContextOf(s) ==
  LET families == GetFlagValues(ProtocolFamily, Text(s, "protocol_families"))
  IN  IF s.flags.ic_version \in kSupportedVersions /\ families # << >>
      THEN {[version |-> s.flags.ic_version, algo |-> algo,
             protocol_families |-> families,
             disable_handshake |-> s.flags.disable_handshake] :
              algo \in Enum(s, "algo", AlgoType)}
      ELSE {}

\* FactoryBrpcBlackBox: ids, addresses and rank are those of config.*.
BlackBoxLink(s) ==
  {[kind |-> "black", ids |-> n.ids, nodes |-> n.nodes, rank |-> n.rank] : n \in s.nodes}

\* FactoryBrpc: ids are made up, addresses and rank are flags; throws at a rank
\* that is none of them.
WhiteBoxLink(s) ==
  LET hosts == StrSplit(s.flags.parties)
      ranks == 0 .. Len(hosts) - 1
  IN  IF s.flags.rank \in ranks
      THEN {[kind |-> "white", ids |-> [i \in ranks |-> PartyName(i)],
             nodes |-> [i \in ranks |-> hosts[i + 1]], rank |-> s.flags.rank]}
      ELSE {}

-----------------------------------------------------------------------------
(* The SS-LR context.                                                      *)

SuggestedLrHyperParam(s) ==
  {[num_epoch |-> e, batch_size |-> b, last_batch_policy |-> p,
    l0_norm |-> l0, l1_norm |-> l1, l2_norm |-> l2] :
     e \in Integer(s, "num_epoch"), b \in Integer(s, "batch_size"),
     p \in Enum(s, "last_batch_policy", LastBatchPolicy),
     l0 \in Double(s, "l0_norm"), l1 \in Double(s, "l1_norm"),
     l2 \in Double(s, "l2_norm")}

\* The first rank with the owner's id; without a handshake there must be one.
GetLabelRank(s, link) ==
  IF ~ s.flags.disable_handshake
  THEN {IF s.flags.has_label THEN link.rank ELSE -1}
  ELSE LET owner == {i \in DOMAIN link.ids :
                       Given(s, "label_owner") /\ link.ids[i] = s.env["label_owner"]}
       IN  {i \in owner : \A j \in owner : i <= j}

\* All zeros stand for the vector that the handshake will fill.
GetFeatureNums(s, link) ==
  IF ~ s.flags.disable_handshake THEN {[i \in DOMAIN link.ids |-> 0]}
  ELSE IF ~ Given(s, "feature_nums") THEN {}
  ELSE {[i \in DOMAIN link.ids |-> f[link.ids[i]]] :
          f \in {g \in JsonInts(s.env["feature_nums"]) : Range(link.ids) \subseteq DOMAIN g}}

SuggestedSigmoidMode(s) == Enum(s, "sigmoid_mode", SigmoidMode)

\* Mutant: whether there is a third party is asked of the command line only.
SuggestedTtpConfig_FlagOnly(s) ==
  {[use_ttp |-> s.flags.use_ttp, ttp_server_host |-> Text(s, "ttp_server_host"),
    ttp_public_key |-> k, ttp_adjust_rank |-> r] :
     k \in Base64Decode(Text(s, "ttp_public_key")), r \in Integer(s, "ttp_adjust_rank")}

SuggestedTtpConfig(s) ==
  {[use_ttp |-> Boolean(s, "use_ttp"), ttp_server_host |-> Text(s, "ttp_server_host"),
    ttp_public_key |-> k, ttp_adjust_rank |-> r] :
     k \in Base64Decode(Text(s, "ttp_public_key")), r \in Integer(s, "ttp_adjust_rank")}

SuggestedSsProtocolParam(s) ==
  {[protocol |-> p, field_type |-> f, fxp_bits |-> b, trunc_mode |-> t,
    shard_serialize_format |-> h] :
     p \in Enum(s, "protocol", ProtocolKind), f \in Enum(s, "field", FieldType),
     b \in Integer(s, "fxp_bits"), t \in Enum(s, "trunc_mode", TruncMode),
     h \in Enum(s, "shard_serialize_format", ShardFormat)}

\* Mutant: the rate of the command line goes before that of the environment.
SuggestedOptimizer_FlagRate(s) ==
  {[optimizer |-> o, learning_rate |-> s.flags.learning_rate] :
     o \in Enum(s, "optimizer", Optimizer) \cap {"SGD"}}

\* Every optimizer but SGD throws.
SuggestedOptimizer(s) ==
  {[optimizer |-> o, learning_rate |-> r] :
     o \in Enum(s, "optimizer", Optimizer) \cap {"SGD"}, r \in Double(s, "learning_rate")}

\* The rows and columns ReadDataset will find.  skip_rows is only a flag.
Dataset(s) ==
  LET file == {f \in s.files : f.name \in GetInputFileName(s, s.flags.dataset)}
  IN  [rows    |-> IF \E f \in file : s.flags.skip_rows \in 0 .. f.rows
                   THEN (CHOOSE f \in file : TRUE).rows - s.flags.skip_rows ELSE 0,
       columns |-> IF file = {} THEN 0 ELSE (CHOOSE f \in file : TRUE).columns]

CreateLrContext(s, ic, link) ==
  {[algo |-> ic.algo, version |-> ic.version,
    protocol_families |-> ic.protocol_families,
    disable_handshake |-> ic.disable_handshake,
    rows |-> Dataset(s).rows, columns |-> Dataset(s).columns,
    num_epoch |-> h.num_epoch, batch_size |-> h.batch_size,
    last_batch_policy |-> h.last_batch_policy,
    l0_norm |-> h.l0_norm, l1_norm |-> h.l1_norm, l2_norm |-> h.l2_norm,
    optimizer |-> o.optimizer, learning_rate |-> o.learning_rate,
    sample_size |-> 0, feature_nums |-> f, label_rank |-> l, sigmoid_mode |-> g,
    protocol |-> p.protocol, field_type |-> p.field_type,
    fxp_bits |-> p.fxp_bits, trunc_mode |-> p.trunc_mode,
    shard_serialize_format |-> p.shard_serialize_format,
    use_ttp |-> t.use_ttp, ttp_server_host |-> t.ttp_server_host,
    ttp_adjust_rank |-> t.ttp_adjust_rank, ttp_public_key |-> t.ttp_public_key] :
     h \in SuggestedLrHyperParam(s), l \in GetLabelRank(s, link),
     f \in GetFeatureNums(s, link), g \in SuggestedSigmoidMode(s),
     t \in SuggestedTtpConfig(s), p \in SuggestedSsProtocolParam(s),
     o \in SuggestedOptimizer(s)}

\* LrHandler's output: the default name ends in the flag, whatever rank the link
\* gives; a name of the environment does not end in a rank.
LrOutputFileName(s) == GetOutputFileName(s, <<s.flags.lr_output, s.flags.rank>>)

-----------------------------------------------------------------------------
(* The ECDH-PSI context.                                                   *)

GetPsiInputFileName(s)       == GetInputFileName(s, s.flags.in_path)
GetPsiOutputFileName(s)      == GetOutputFileName(s, s.flags.out_path)
GetPsiInputFileFieldNames(s) == StrSplit(Text(s, "field_names"))
SuggestedResultToRank(s)     == Integer(s, "result_to_rank")

\* The files are named when PrepareDataset makes the PSI object; a train_data
\* that is no JSON object throws there, for the output file too.
InputReadable(s) ==
  /\ GetPsiOutputFileName(s) # {}
  /\ \E f \in s.files : /\ f.name \in GetPsiInputFileName(s)
                        /\ Range(GetPsiInputFileFieldNames(s)) \subseteq f.fields

\* bit_length_after_truncated has no flag.
SuggestedBitLengthAfterTruncated(s) ==
  IF Given(s, "bit_length_after_truncated")
  THEN Stoi(s.env["bit_length_after_truncated"]) ELSE {-1}

CreateEcdhPsiContext(s, ic) ==
  {[algo |-> ic.algo, version |-> ic.version,
    protocol_families |-> ic.protocol_families,
    disable_handshake |-> ic.disable_handshake,
    input_readable |-> InputReadable(s),
    curve_type |-> c, hash_type |-> h, hash_to_curve_strategy |-> g,
    point_octet_format |-> p, bit_length_after_truncated |-> b,
    result_to_rank |-> r] :
     c \in Enum(s, "curve_type", CurveType), h \in Enum(s, "hash_type", HashType),
     g \in Enum(s, "hash2curve_strategy", Hash2CurveStrategy),
     p \in Enum(s, "point_octet_format", PointOctetFormat),
     b \in SuggestedBitLengthAfterTruncated(s), r \in SuggestedResultToRank(s)}

\* Party::CreateHandlerFactory and the factory's CreateAlgoV2Handler.
CreateContext(s, ic, link) ==
  IF ~ HandlerExists(ic) THEN {}
  ELSE IF ic.algo = "ECDH_PSI" THEN CreateEcdhPsiContext(s, ic)
  ELSE CreateLrContext(s, ic, link)
=============================================================================
