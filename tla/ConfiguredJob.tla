----------------------------- MODULE ConfiguredJob -----------------------------
(***************************************************************************)
(* Handshake over contexts that Config makes of flags and environments:    *)
(* the processes have found each other, and now run the job their settings *)
(* describe.  A party whose context cannot be created never gets here      *)
(* (Startup).                                                              *)
(***************************************************************************)
EXTENDS Handshake, Config

CONSTANT Choices   \* the flags and environments the ranks may be started with

VARIABLE settings  \* those they were started with

\* The link and the context of a process with settings s.
MakeLink(s) ==
  IF s.nodes # {} /\ s.transport # {} THEN BlackBoxLink(s) ELSE WhiteBoxLink(s)

Configured(s) ==
  UNION {CreateContext(s, ic, link) : ic \in IcContextOf(s), link \in MakeLink(s)}

ContextOf(s) == CHOOSE c \in Configured(s) : TRUE

\* The processes are started with the same list of parties, each with its own
\* rank in it.
ASSUME ChoicesAssumption ==
  \A d \in Choices : \A r \in Rank :
    /\ Configured(d[r]) # {}
    /\ \A n \in DOMAIN d[r].env : d[r].env[n] \in Texts
    /\ \A link \in MakeLink(d[r]) : link.rank = r /\ DOMAIN link.ids = Rank
    /\ \A q \in Rank : \A link \in MakeLink(d[r]), peer \in MakeLink(d[q]) :
         link.ids = peer.ids

JobInit ==
  /\ settings \in Choices
  /\ ctx = [r \in Rank |-> ContextOf(settings[r])]
  /\ Init

JobSpec == JobInit /\ [][Next /\ UNCHANGED settings]_<<vars, settings>> /\ Fairness

-----------------------------------------------------------------------------
(* Properties.                                                             *)

\* The parameters that README.md lists for the environment of an algorithm.
ParametersOf(c) ==
  {"algo", "protocol_families"} \cup
    IF IsPsi(c)
    THEN {"curve_type", "hash_type", "hash2curve_strategy", "point_octet_format",
          "bit_length_after_truncated", "field_names", "result_to_rank"}
    ELSE {"batch_size", "last_batch_policy", "num_epoch", "l0_norm", "l1_norm",
          "l2_norm", "optimizer", "learning_rate", "sigmoid_mode", "protocol",
          "field", "fxp_bits", "trunc_mode", "shard_serialize_format", "use_ttp",
          "ttp_server_host", "ttp_public_key", "ttp_adjust_rank", "skip_rows",
          "label_owner", "feature_nums"}

\* p and q do not shake hands and have the same, complete environment.
SameEnvironment(p, q) ==
  /\ Skips(p) /\ Skips(q)
  /\ settings[p].env = settings[q].env
  /\ ParametersOf(ctx[p]) \subseteq DOMAIN settings[p].env

\* The data sets that p and q will use have equally many rows.
SameRows(p, q) == IsPsi(ctx[p]) \/ ctx[p].rows = ctx[q].rows

(* Parties that skip the handshake and have the same environment compute   *)
(* the same thing, whatever their command lines say: the environment goes  *)
(* before the flags (util.h GetParamEnv).  The number of rows is left to   *)
(* the operators, see the next property.                                   *)
EnvironmentDecides ==
  \A p, q \in Native :
    Ran(p) /\ Ran(q) /\ SameEnvironment(p, q) /\ SameRows(p, q) => Fits(ctx[p], ctx[q])

(* The same for data sets whose files have equally many rows: skip_rows is *)
(* among the parameters that README.md lists for the environment.          *)
EnvironmentDecidesRows ==
  \A p, q \in Native :
    /\ Ran(p) /\ Ran(q) /\ SameEnvironment(p, q)
    /\ settings[p].files = settings[q].files
    => Fits(ctx[p], ctx[q])

(* Parties with the same environment get their result without a handshake, *)
(* if it suits their data sets and the program.                            *)
EnvironmentSuffices ==
  (/\ \A p, q \in Native : /\ SameEnvironment(p, q) /\ SameRows(p, q)
                           /\ IsPsi(ctx[p]) = IsPsi(ctx[q])
   /\ \A p \in Native : /\ Prepares(ctx[p], p)
                        /\ IsPsi(ctx[p]) \/ (ctx[p].protocol = "SEMI2K" /\ ctx[p].batch_size # 0)
   /\ WorldSize = 2)
  => <>(result = Rank)
=============================================================================
