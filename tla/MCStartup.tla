------------------------------ MODULE MCStartup ------------------------------
(* Three processes, started with the settings of the examples for three    *)
(* parties, in one of which an operator may have got something wrong, or   *)
(* for two parties with one process too many.                              *)
EXTENDS Startup, MCLibrary, TLC

White(parties, rank) ==
  [Default EXCEPT !.flags = [@ EXCEPT !.parties = parties, !.rank = rank]]

\* The roles of the environment scripts, with the transport they are given.
Addresses   == 0 :> "a:1" @@ 1 :> "b:1" @@ 2 :> "c:1"
Roles(rank) == [ids |-> (0 :> "host.0" @@ 1 :> "guest.0" @@ 2 :> "guest.1"),
                nodes |-> Addresses, rank |-> rank]
Black(rank) ==
  [Default EXCEPT !.nodes = {Roles(rank)}, !.transport = {Addresses[rank]}]

\* The environment of an SS-LR job without a handshake.
Direct(s) ==
  [s EXCEPT !.flags = [@ EXCEPT !.disable_handshake = TRUE],
            !.env = "algo" :> "ss_lr" @@ "protocol_families" :> "ss,tee"
                    @@ "label_owner" :> "host.0"
                    @@ "feature_nums" :> "{host:1,guest:2,guest:3}"]

GoodSettings(rank) ==
  {White("a:1,b:1,c:1", rank), Black(rank), Direct(Black(rank))}

BadSettings ==
  {White("a:1,b:1,c:1", 3),                      \* no such rank
   White("b:1,a:1,c:1", 0),                      \* the addresses in another order
   White("a:1,b:1", 1),                          \* one address too few
   [Black(0) EXCEPT !.transport = {"c:1"}],      \* somebody else's role
   [Black(1) EXCEPT !.transport = {}],           \* falls back
   [Direct(Black(0)) EXCEPT !.nodes = {}],
   [White("a:1,b:1,c:1", 1) EXCEPT !.flags = [@ EXCEPT !.ic_version = 3]],
   [White("a:1,b:1,c:1", 1) EXCEPT !.env = "algo" :> "other"],
   [Black(1) EXCEPT !.env = "curve_type" :> "unspecified"]}

Trio == {"p", "q", "r"}

Rightly == {"p" :> a @@ "q" :> b @@ "r" :> c :
              a \in GoodSettings(0), b \in GoodSettings(1), c \in GoodSettings(2)}

\* One process has the settings of another rank, or bad ones.
Wrongly == {[d EXCEPT ![p] = s] : d \in Rightly, p \in Trio,
              s \in BadSettings \cup UNION {GoodSettings(rank) : rank \in 0 .. 2}}

\* Three processes for two ranks.
TooMany == [Trio -> {White("a:1,b:1", 0), White("a:1,b:1", 1)}]

TrioSettings == Rightly \cup Wrongly \cup TooMany
=============================================================================
