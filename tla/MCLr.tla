-------------------------------- MODULE MCLr --------------------------------
(* Handshake over SS-LR deployments: every party has the default flags     *)
(* except that it may differ in one of them, and any set of parties may    *)
(* have been told that it owns the label.                                  *)
EXTENDS MCFlags

\* Flags that the response overrides at an active party.
Overridden ==
  {[LrDefault EXCEPT !.num_epoch = 2, !.batch_size = 3],
   [LrDefault EXCEPT !.l2_norm = 0],
   [LrDefault EXCEPT !.l2_norm = 7, !.l1_norm = 3],
   [LrDefault EXCEPT !.learning_rate = 2, !.fxp_bits = 20],
   [LrDefault EXCEPT !.ttp_server_host = "host:2", !.ttp_adjust_rank = 1]}

\* Flags that make a proposal unacceptable to a party with the default ones.
Refused ==
  {[LrDefault EXCEPT !.last_batch_policy = "KEEP"],
   [LrDefault EXCEPT !.sigmoid_mode = "REAL"],
   [LrDefault EXCEPT !.protocol = "ABY3"],
   [LrDefault EXCEPT !.field_type = "128"],
   [LrDefault EXCEPT !.shard_serialize_format = "OTHER"],
   [LrDefault EXCEPT !.rows = 5]}

\* Flags with which a party stops before it has sent or received a proposal,
\* or cannot run what was agreed.
Unusable ==
  {[LrDefault EXCEPT !.version = 1],
   [LrDefault EXCEPT !.protocol_families = <<"ECC">>],
   [LrDefault EXCEPT !.protocol_families = <<"SS", "ECC">>],
   [LrDefault EXCEPT !.optimizer = "MOMENTUM"],
   [LrDefault EXCEPT !.rows = 0],
   [LrDefault EXCEPT !.columns = 0],
   [LrDefault EXCEPT !.batch_size = 0],
   [LrDefault EXCEPT !.protocol = "CHEETAH"]}

\* Parties of which some or all skip the handshake and rely on an environment
\* that may not be the same, or wrong about the width of a data set.
DirectJobs ==
  LET jobs    == {DirectJob(d, o) : o \in Native,
                    d \in [Native -> {LrDefault, [LrDefault EXCEPT !.batch_size = 3],
                                     [LrDefault EXCEPT !.use_ttp = TRUE]}]}
      wrong   == {[d EXCEPT ![r].feature_nums = [q \in Rank |-> 9]] :
                    d \in jobs, r \in Native}
      partial == {[d EXCEPT ![r] = Owned([q \in Native |-> LrDefault], {1})[r]] :
                    d \in jobs, r \in Native}
  IN  jobs \cup wrong \cup partial

\* Every combination of flags, for two parties.
PairFlags ==
  DirectJobs \cup
  Deploy([Native -> {LrDefault, [LrDefault EXCEPT !.use_ttp = TRUE]}
                      \cup Overridden \cup Refused \cup Unusable],
         SUBSET Native)

\* At most two of three parties deviate from the default.
TrioFlags ==
  Deploy({d \in [Native -> {LrDefault} \cup Overridden
                             \cup {[LrDefault EXCEPT !.protocol = "ABY3"],
                                   [LrDefault EXCEPT !.rows = 5]}] :
            \E r \in Native : d[r] = LrDefault},
         {{0}, {2}, {1, 2}})

\* The truncation mode differs.
TruncFlags ==
  Deploy([Native -> {LrDefault, [LrDefault EXCEPT !.trunc_mode = "PRECISE"]}], {{0}})
=============================================================================
