-------------------------------- MODULE RouterLr --------------------------------
(***************************************************************************)
(* The horizontal logistic regression demo of the privacy router: in every *)
(* round the arbiter rc_03 splits its weights into two shares, the servers *)
(* rs_01 and rs_02 pass one share each on to the clients rc_01 and rc_02,  *)
(* the clients give them back, and the servers add them up under the       *)
(* arbiter's key.  Each of the three clients counts the rounds by itself.  *)
(*                                                                         *)
(* Nodes, connections and transactions are those of the router and         *)
(* anyconn_core packages, as the demo uses them: a connection keeps the    *)
(* order of its packages, a node collects the n_batches packages with one  *)
(* uid into a transaction, and drops a transaction that does not become    *)
(* complete in time, or a package that it cannot send in time, without     *)
(* telling the program.                                                    *)
(***************************************************************************)
EXTENDS Naturals, Sequences, FiniteSets

CONSTANTS
  NumRounds,  \* range(4) in the demo
  MaxFaults   \* bound: packages lost and transactions dropped

ASSUME RouterAssumption == NumRounds \in Nat \ {0} /\ MaxFaults \in Nat

Client == {"rc_01", "rc_02", "rc_03"}
Server == {"rs_01", "rs_02"}
Node   == Client \cup Server

router_table ==
  [rs_01 |-> [rs |-> <<"rs_02">>, rc |-> <<"rc_01", "rc_03">>],
   rs_02 |-> [rs |-> <<"rs_01">>, rc |-> <<"rc_02", "rc_03">>]]

\* uid is f"round{round}{tag}"; a server puts "_" before it, which is a hop.
Uid(hops, round, tag) == [hops |-> hops, round |-> round, tag |-> tag]

\* The arbiter's shares of the weights of a round.
Share == {"w1", "w2"}
Shares(r) == {[round |-> r, share |-> w] : w \in Share}

VARIABLES
  pc,       \* where the arbiter is
  round,    \* the round each client is in
  channel,  \* packages under way, by sender and receiver
  trans,    \* the transactions each node collects or has collected
  q_recv,   \* the packages that recv will return at each client
  agg,      \* the shares in the aggregate the arbiter took for each round
  faults    \* packages lost and transactions dropped so far

vars == <<pc, round, channel, trans, q_recv, agg, faults>>

-----------------------------------------------------------------------------
Init ==
  /\ pc = "w1"
  /\ round = [c \in Client |-> 0]
  /\ channel = [n \in Node |-> [m \in Node |-> << >>]]
  /\ trans = [n \in Node |-> {}]
  /\ q_recv = [c \in Client |-> << >>]
  /\ agg = [r \in 0 .. NumRounds - 1 |-> {}]
  /\ faults = 0

Send(pack) ==
  channel' = [channel EXCEPT ![pack.source_id][pack.target_id] = Append(@, pack)]

-----------------------------------------------------------------------------
(* The arbiter.                                                            *)

\* A share of the weights, in the clear.
SharePack(share, target, tag) ==
  [source_id |-> "rc_03", target_id |-> target, encryption |-> "ss",
   process |-> "he2ss", n_batches |-> 1, uid |-> Uid(0, round["rc_03"], tag),
   data |-> {[round |-> round["rc_03"], share |-> share]}]

\* The key that the aggregate is to be encrypted under; its data mean nothing.
PubkeyPack ==
  [source_id |-> "rc_03", target_id |-> "rs_01", encryption |-> "he",
   process |-> "ss2he", n_batches |-> 2, uid |-> Uid(0, round["rc_03"], "_1"),
   data |-> {}]

ArbiterSends ==
  /\ \/ pc = "w1"  /\ pc' = "w2"   /\ Send(SharePack("w1", "rs_01", "__2"))
     \/ pc = "w2"  /\ pc' = "key"  /\ Send(SharePack("w2", "rs_02", "_2"))
     \/ pc = "key" /\ pc' = "recv" /\ Send(PubkeyPack)
  /\ UNCHANGED <<round, trans, q_recv, agg, faults>>

NextRound(c) == round' = [round EXCEPT ![c] = @ + 1]

\* Mutant: recv gets a timeout, and a round without an aggregate is given up.
ArbiterReceives_TimesOut ==
  /\ pc = "recv"
  /\ NextRound("rc_03")
  /\ pc' = IF round["rc_03"] + 1 = NumRounds THEN "done" ELSE "w1"
  /\ \/ /\ q_recv["rc_03"] # << >>
        /\ agg' = [agg EXCEPT ![round["rc_03"]] = Head(q_recv["rc_03"]).data]
        /\ q_recv' = [q_recv EXCEPT !["rc_03"] = Tail(@)]
     \/ UNCHANGED <<q_recv, agg>>
  /\ UNCHANGED <<channel, trans, faults>>

\* recv blocks, without a timeout; the first package is taken, whatever its uid.
ArbiterReceives ==
  /\ pc = "recv"
  /\ q_recv["rc_03"] # << >>
  /\ agg' = [agg EXCEPT ![round["rc_03"]] = Head(q_recv["rc_03"]).data]
  /\ q_recv' = [q_recv EXCEPT !["rc_03"] = Tail(@)]
  /\ NextRound("rc_03")
  /\ pc' = IF round["rc_03"] + 1 = NumRounds THEN "done" ELSE "w1"
  /\ UNCHANGED <<channel, trans, faults>>

-----------------------------------------------------------------------------
(* The clients of the secret sharing platform.                             *)

\* Mutant: the share is a transaction of its own.
ReturnedPack_OneBatch(c, pack) ==
  [source_id |-> c, target_id |-> IF c = "rc_01" THEN "rs_01" ELSE "rs_02",
   encryption |-> "ss", process |-> "ss2he", n_batches |-> 1,
   uid |-> Uid(IF c = "rc_01" THEN 0 ELSE 1, round[c], "_1"), data |-> pack.data]

\* The share goes back under the client's own round; rc_02's uid is the one that
\* rs_01's package will have.
ReturnedPack(c, pack) ==
  [source_id |-> c, target_id |-> IF c = "rc_01" THEN "rs_01" ELSE "rs_02",
   encryption |-> "ss", process |-> "ss2he", n_batches |-> 2,
   uid |-> Uid(IF c = "rc_01" THEN 0 ELSE 1, round[c], "_1"), data |-> pack.data]

\* Mutant: the rounds are counted before the share is received.
ReturnShare_CountsFirst(c) ==
  /\ c # "rc_03"
  /\ round[c] < NumRounds
  /\ NextRound(c)
  /\ q_recv[c] # << >>
  /\ q_recv' = [q_recv EXCEPT ![c] = Tail(@)]
  /\ Send([ReturnedPack(c, Head(q_recv[c])) EXCEPT !.uid = Uid(@.hops, @.round + 1, @.tag)])
  /\ UNCHANGED <<pc, trans, agg, faults>>

ReturnShare(c) ==
  /\ c # "rc_03"
  /\ round[c] < NumRounds
  /\ q_recv[c] # << >>
  /\ q_recv' = [q_recv EXCEPT ![c] = Tail(@)]
  /\ Send(ReturnedPack(c, Head(q_recv[c])))
  /\ NextRound(c)
  /\ UNCHANGED <<pc, trans, agg, faults>>

-----------------------------------------------------------------------------
(* The nodes.                                                              *)

\* A package opens a transaction, or joins the one with its uid.
Receive(n, m) ==
  /\ channel[n][m] # << >>
  /\ channel' = [channel EXCEPT ![n][m] = Tail(@)]
  /\ LET pack == Head(channel[n][m])
         same == {t \in trans[m] : t.uid = pack.uid}
         new  == [uid |-> pack.uid, n_batches |-> pack.n_batches, packs |-> {}]
         t    == IF same = {} THEN new ELSE CHOOSE u \in same : TRUE
     IN  trans' = [trans EXCEPT ![m] =
                     (@ \ same) \cup {[t EXCEPT !.packs = @ \cup {pack}]}]
  /\ UNCHANGED <<pc, round, q_recv, agg, faults>>

Complete(t) == Cardinality(t.packs) = t.n_batches

\* What becomes of pack at server s: a package like it, one hop further.
Like(pack, s, target, n_batches, data) ==
  [pack EXCEPT !.source_id = s, !.target_id = target, !.n_batches = n_batches,
               !.uid = Uid(@.hops + 1, @.round, @.tag), !.data = data]

\* Mutant: a share is passed on to the other server.
Dispatched_ToServer(s, t) ==
  {Like(p, s, router_table[s].rs[1], 1, p.data) : p \in {q \in t.packs : q.process = "he2ss"}}

\* he2ss: the share goes to the server's client.  ss2he: the share is encrypted
\* and goes, with the key, to the other server, which adds its own share and
\* answers to the owner of the key.  Nothing becomes of other packages.
Dispatched(s, t) ==
  {Like(p, s, router_table[s].rc[1], p.n_batches, p.data) :
     p \in {q \in t.packs : q.process = "he2ss"}}
  \cup
  {IF p.source_id \in Client THEN Like(p, s, router_table[s].rs[1], 2, share.data)
   ELSE Like(p, s, router_table[s].rc[2], 1, share.data \cup p.data) :
     p \in {q \in t.packs : q.process = "ss2he" /\ q.encryption = "he"},
     share \in {q \in t.packs : q.process = "ss2he" /\ q.encryption = "ss"}}

Dispatch(n) ==
  \E t \in trans[n] :
    /\ Complete(t)
    /\ trans' = [trans EXCEPT ![n] = @ \ {t}]
    /\ IF n \in Client
       THEN /\ \E pack \in t.packs : q_recv' = [q_recv EXCEPT ![n] = Append(@, pack)]
            /\ UNCHANGED channel
       ELSE /\ \/ \E pack \in Dispatched(n, t) : Send(pack)
               \/ Dispatched(n, t) = {} /\ UNCHANGED channel
            /\ UNCHANGED q_recv
    /\ UNCHANGED <<pc, round, agg, faults>>

Fault == faults < MaxFaults /\ faults' = faults + 1

\* recv_timeout: an incomplete transaction is dropped.  The sender only logs it.
DropTransaction(n) ==
  /\ Fault
  /\ \E t \in trans[n] : ~ Complete(t) /\ trans' = [trans EXCEPT ![n] = @ \ {t}]
  /\ UNCHANGED <<pc, round, channel, q_recv, agg>>

\* send_timeout: a package is dropped.
LosePackage(n, m) ==
  /\ Fault
  /\ channel[n][m] # << >>
  /\ channel' = [channel EXCEPT ![n][m] = Tail(@)]
  /\ UNCHANGED <<pc, round, trans, q_recv, agg>>

-----------------------------------------------------------------------------
Step ==
  \/ ArbiterSends
  \/ ArbiterReceives
  \/ \E c \in Client : ReturnShare(c)
  \/ \E n, m \in Node : Receive(n, m)
  \/ \E n \in Node : Dispatch(n)

Next ==
  \/ Step
  \/ \E n \in Node : DropTransaction(n)
  \/ \E n, m \in Node : LosePackage(n, m)

Spec == Init /\ [][Next]_vars

(* A node or a program that can go on does; nothing has to go wrong.       *)
FairSpec == Spec /\ WF_vars(Step)

-----------------------------------------------------------------------------
(* Properties.                                                             *)

Packs == (UNION {{channel[n][m][i] : i \in DOMAIN channel[n][m]} : n, m \in Node})
         \cup (UNION {UNION {t.packs : t \in trans[n]} : n \in Node})
         \cup (UNION {{q_recv[c][i] : i \in DOMAIN q_recv[c]} : c \in Client})

(* Every variable has its type; in particular no package makes more than   *)
(* the two hops of a share on its way to the arbiter.                      *)
TypeOK ==
  /\ pc \in {"w1", "w2", "key", "recv", "done"}
  /\ round \in [Client -> 0 .. NumRounds]
  /\ \A p \in Packs :
       /\ p.source_id \in Node /\ p.target_id \in Node
       /\ p.uid.hops \in 0 .. 2 /\ p.uid.round \in 0 .. NumRounds - 1
       /\ p.n_batches \in {1, 2}
       /\ p.data \subseteq UNION {Shares(r) : r \in 0 .. NumRounds - 1}
  /\ faults \in 0 .. MaxFaults

(* Whatever is lost or late, a package carries shares of the round it is   *)
(* labelled with, although the clients count the rounds by themselves and  *)
(* look at no label (run_ss_rc): so the servers never join shares of one   *)
(* round with those, or with the key, of another.                          *)
LabelsAreTrue == \A p \in Packs : p.data \subseteq Shares(p.uid.round)

(* Whatever is lost or late, what the arbiter takes for the aggregate of a *)
(* round is made of both shares of that round, although it takes whatever  *)
(* comes first (sync_with_rs).                                             *)
AggregateOfTheRound == \A r \in DOMAIN agg : agg[r] \in {{}, Shares(r)}

(* If nothing is lost or late, every round gets its aggregate: the arbiter *)
(* does not wait forever.                                                  *)
EveryRoundCompletes == [](faults = 0) => <>(pc = "done" /\ \A r \in DOMAIN agg : agg[r] # {})
=============================================================================
