-------------------------------- MODULE MCJobs --------------------------------
(* Jobs of both algorithms, for two parties that have chosen the same one, *)
(* and for three that may not have.                                        *)
EXTENDS MCPsi, MCLr, MCMixed

PairJobs == AnyFlags \cup PairFlags
TrioJobs == OneUnusable \cup TrioFlags \cup MixedFlags
=============================================================================
