---------------------------- MODULE RouterLrProofs ----------------------------
(***************************************************************************)
(* Safety of RouterLr for any number of rounds and any number of packages  *)
(* lost and transactions dropped.                                          *)
(***************************************************************************)
EXTENDS RouterLr, FiniteSetTheorems, SequenceTheorems, TLAPS

-----------------------------------------------------------------------------
(* The inductive invariant: in a round three things travel, the two shares *)
(* of the weights and the key that becomes the aggregate, and where each   *)
(* of them is determines what every connection, every node and every queue *)
(* holds, and which round every client counts.                             *)

ShareStage == {"kept", "sent", "atServer", "passed", "atClient", "taken",
               "back", "joined", "gone", "lost"}
KeyStage == {"kept", "sent", "atFirst", "half", "atSecond", "sum", "arrived",
             "answer", "lost"}

\* The packages of round r, in the order in which they come into being.
Pack(source, target, encryption, process, n_batches, uid, data) ==
  [source_id |-> source, target_id |-> target, encryption |-> encryption,
   process |-> process, n_batches |-> n_batches, uid |-> uid, data |-> data]

W(r, w) == {[round |-> r, share |-> w]}

Sent1(r)   == Pack("rc_03", "rs_01", "ss", "he2ss", 1, Uid(0, r, "__2"), W(r, "w1"))
Sent2(r)   == Pack("rc_03", "rs_02", "ss", "he2ss", 1, Uid(0, r, "_2"), W(r, "w2"))
Passed1(r) == Pack("rs_01", "rc_01", "ss", "he2ss", 1, Uid(1, r, "__2"), W(r, "w1"))
Passed2(r) == Pack("rs_02", "rc_02", "ss", "he2ss", 1, Uid(1, r, "_2"), W(r, "w2"))
Back1(r)   == Pack("rc_01", "rs_01", "ss", "ss2he", 2, Uid(0, r, "_1"), W(r, "w1"))
Back2(r)   == Pack("rc_02", "rs_02", "ss", "ss2he", 2, Uid(1, r, "_1"), W(r, "w2"))
Key(r)     == Pack("rc_03", "rs_01", "he", "ss2he", 2, Uid(0, r, "_1"), {})
Half(r)    == Pack("rs_01", "rs_02", "he", "ss2he", 2, Uid(1, r, "_1"), W(r, "w1"))
Sum(r)     == Pack("rs_02", "rc_03", "he", "ss2he", 1, Uid(2, r, "_1"), Shares(r))

Single(p)  == [uid |-> p.uid, n_batches |-> p.n_batches, packs |-> {p}]
Pair(p, q) == [uid |-> p.uid, n_batches |-> p.n_batches, packs |-> {p, q}]

\* One package on a connection, if it is there; one transaction, likewise.
Only(there, p) == IF there THEN <<p>> ELSE << >>
Open(there, p) == IF there THEN {Single(p)} ELSE {}

\* What is under way from n to m.
Under(n, m, r, s1, s2, k) ==
  CASE n = "rc_03" /\ m = "rs_01" ->
         IF s1 = "sent" /\ k = "sent" THEN <<Sent1(r), Key(r)>>
         ELSE IF s1 = "sent" THEN <<Sent1(r)>> ELSE Only(k = "sent", Key(r))
    [] n = "rc_03" /\ m = "rs_02" -> Only(s2 = "sent", Sent2(r))
    [] n = "rs_01" /\ m = "rc_01" -> Only(s1 = "passed", Passed1(r))
    [] n = "rs_02" /\ m = "rc_02" -> Only(s2 = "passed", Passed2(r))
    [] n = "rc_01" /\ m = "rs_01" -> Only(s1 = "back", Back1(r))
    [] n = "rc_02" /\ m = "rs_02" -> Only(s2 = "back", Back2(r))
    [] n = "rs_01" /\ m = "rs_02" -> Only(k = "half", Half(r))
    [] n = "rs_02" /\ m = "rc_03" -> Only(k = "sum", Sum(r))
    [] OTHER -> << >>

\* A share that has come back and the key, in one transaction.
Joint(s, back, k, key) ==
  IF s /\ k THEN {Pair(back, key)} ELSE IF s THEN {Single(back)} ELSE Open(k, key)

\* The transactions of n.
Gathered(n, r, s1, s2, k) ==
  CASE n = "rs_01" -> Open(s1 = "atServer", Sent1(r))
                        \cup Joint(s1 = "joined", Back1(r), k = "atFirst", Key(r))
    [] n = "rs_02" -> Open(s2 = "atServer", Sent2(r))
                        \cup Joint(s2 = "joined", Back2(r), k = "atSecond", Half(r))
    [] n = "rc_01" -> Open(s1 = "atClient", Passed1(r))
    [] n = "rc_02" -> Open(s2 = "atClient", Passed2(r))
    [] OTHER       -> Open(k = "arrived", Sum(r))

\* What recv will return at c, and the round that c counts.
Waiting(c, r, s1, s2, k) ==
  CASE c = "rc_01" -> Only(s1 = "taken", Passed1(r))
    [] c = "rc_02" -> Only(s2 = "taken", Passed2(r))
    [] OTHER       -> Only(k = "answer", Sum(r))

Returned(s) == s \in {"back", "joined", "gone"}

Counts(c, r, s1, s2) ==
  CASE c = "rc_01" -> IF Returned(s1) THEN r + 1 ELSE r
    [] c = "rc_02" -> IF Returned(s2) THEN r + 1 ELSE r
    [] OTHER       -> r

Channels(r, s1, s2, k)     == [n \in Node |-> [m \in Node |-> Under(n, m, r, s1, s2, k)]]
Transactions(r, s1, s2, k) == [n \in Node |-> Gathered(n, r, s1, s2, k)]
Queues(r, s1, s2, k)       == [c \in Client |-> Waiting(c, r, s1, s2, k)]

\* What the arbiter has sent, and which package waits for which.
Causes(s1, s2, k) ==
  /\ pc \in {"w1", "done"} => s1 = "kept"
  /\ pc = "w2" => s1 # "kept"
  /\ pc \in {"w1", "w2", "done"} => s2 = "kept"
  /\ pc \in {"key", "recv"} => s1 # "kept" /\ s2 # "kept"
  /\ pc = "recv" <=> k # "kept"
  /\ k \in {"half", "atSecond", "sum", "arrived", "answer"} => s1 = "gone"
  /\ k \in {"sum", "arrived", "answer"} => s2 = "gone"

Round == round["rc_03"]

Progress ==
  /\ pc \in {"w1", "w2", "key", "recv", "done"}
  /\ Round \in 0 .. NumRounds
  /\ pc = "done" <=> Round = NumRounds
  /\ agg = [r \in 0 .. NumRounds - 1 |-> IF r < Round THEN Shares(r) ELSE {}]
  /\ faults \in 0 .. MaxFaults

At(s1, s2, k) ==
  /\ channel = Channels(Round, s1, s2, k)
  /\ trans = Transactions(Round, s1, s2, k)
  /\ q_recv = Queues(Round, s1, s2, k)
  /\ round = [c \in Client |-> Counts(c, Round, s1, s2)]
  /\ Causes(s1, s2, k)

IInv == Progress /\ \E s1, s2 \in ShareStage, k \in KeyStage : At(s1, s2, k)

-----------------------------------------------------------------------------
(* The operators.                                                          *)

\* A package like another one differs in where it comes from and goes to, in
\* the number of packages it waits for, in its data, and by a hop.
LEMMA LikePack ==
  ASSUME NEW source, NEW target, NEW encryption, NEW process, NEW n_batches,
         NEW uid, NEW data, NEW s, NEW t, NEW n, NEW d
  PROVE  Like(Pack(source, target, encryption, process, n_batches, uid, data), s, t, n, d)
           = Pack(s, t, encryption, process, n, Uid(uid.hops + 1, uid.round, uid.tag), d)
<1> DEFINE p == Pack(source, target, encryption, process, n_batches, uid, data)
<1>1. p \in [source_id : {source}, target_id : {target}, encryption : {encryption},
             process : {process}, n_batches : {n_batches}, uid : {uid}, data : {data}]
  BY DEF Pack
<1> HIDE DEF p
<1>2. ASSUME NEW u
      PROVE  [p EXCEPT !.source_id = s, !.target_id = t, !.n_batches = n, !.uid = u, !.data = d]
               \in [source_id : {s}, target_id : {t}, encryption : {encryption},
                   process : {process}, n_batches : {n}, uid : {u}, data : {d}]
  BY <1>1
<1>3. Like(p, s, t, n, d) =
        [p EXCEPT !.source_id = s, !.target_id = t, !.n_batches = n,
                  !.uid = Uid(uid.hops + 1, uid.round, uid.tag), !.data = d]
  BY <1>1 DEF Like
<1>4. Like(p, s, t, n, d)
        \in [source_id : {s}, target_id : {t}, encryption : {encryption},
            process : {process}, n_batches : {n},
            uid : {Uid(uid.hops + 1, uid.round, uid.tag)}, data : {d}]
  BY <1>2, <1>3, Zenon
<1> QED BY <1>4 DEF Pack, p

\* What becomes of a package at a server.
LEMMA Passing ==
  ASSUME NEW r \in Nat
  PROVE  /\ Like(Sent1(r), "rs_01", "rc_01", 1, Sent1(r).data) = Passed1(r)
         /\ Like(Sent2(r), "rs_02", "rc_02", 1, Sent2(r).data) = Passed2(r)
         /\ Like(Key(r), "rs_01", "rs_02", 2, Back1(r).data) = Half(r)
         /\ Like(Half(r), "rs_02", "rc_03", 1, Back2(r).data \cup Half(r).data) = Sum(r)
<1>1. /\ Sent1(r).data = W(r, "w1") /\ Sent2(r).data = W(r, "w2")
      /\ Back1(r).data = W(r, "w1") /\ Back2(r).data \cup Half(r).data = Shares(r)
  BY DEF Sent1, Sent2, Back1, Back2, Half, Pack, W, Shares, Share
<1>2. \A h \in Nat : \A tag : LET u == Uid(h, r, tag)
                             IN  Uid(u.hops + 1, u.round, u.tag) = Uid(h + 1, r, tag)
  BY DEF Uid
<1>3. Like(Sent1(r), "rs_01", "rc_01", 1, W(r, "w1")) = Passed1(r)
  BY <1>2, LikePack DEF Sent1, Passed1
<1>4. Like(Sent2(r), "rs_02", "rc_02", 1, W(r, "w2")) = Passed2(r)
  BY <1>2, LikePack DEF Sent2, Passed2
<1>5. Like(Key(r), "rs_01", "rs_02", 2, W(r, "w1")) = Half(r)
  BY <1>2, LikePack DEF Key, Half
<1>6. Like(Half(r), "rs_02", "rc_03", 1, Shares(r)) = Sum(r)
  BY <1>2, LikePack DEF Half, Sum
<1> QED BY <1>1, <1>3, <1>4, <1>5, <1>6


\* Collecting a package, as Receive does it.
Collect(S, p) ==
  LET same == {t \in S : t.uid = p.uid}
      new  == [uid |-> p.uid, n_batches |-> p.n_batches, packs |-> {}]
      t    == IF same = {} THEN new ELSE CHOOSE u \in same : TRUE
  IN  (S \ same) \cup {[t EXCEPT !.packs = @ \cup {p}]}

\* A package whose uid is new opens a transaction.
LEMMA Opens ==
  ASSUME NEW S, NEW p, \A t \in S : t.uid # p.uid
  PROVE  Collect(S, p) = S \cup {Single(p)}
<1>1. {t \in S : t.uid = p.uid} = {}
  OBVIOUS
<1>2. [[uid |-> p.uid, n_batches |-> p.n_batches, packs |-> {}]
         EXCEPT !.packs = @ \cup {p}] = Single(p)
  BY DEF Single
<1> QED BY <1>1, <1>2 DEF Collect

\* A package joins the transaction with its uid.
LEMMA Joins ==
  ASSUME NEW S, NEW p, NEW q, p.uid = q.uid, \A t \in S : t.uid # p.uid
  PROVE  Collect(S \cup {Single(q)}, p) = S \cup {Pair(q, p)}
<1> DEFINE U    == S \cup {Single(q)}
           same == {t \in U : t.uid = p.uid}
<1>1. Single(q).uid = p.uid
  BY DEF Single
<1>2. same = {Single(q)}
  BY <1>1
<1>3. (CHOOSE u \in {Single(q)} : TRUE) = Single(q)
  OBVIOUS
<1>4. [Single(q) EXCEPT !.packs = @ \cup {p}] = Pair(q, p)
  <2>1. {q} \cup {p} = {q, p}
    OBVIOUS
  <2> QED BY <2>1 DEF Single, Pair
<1>5. U \ {Single(q)} = S
  BY <1>1
<1> HIDE DEF U
<1>6. Collect(U, p) = (U \ {Single(q)}) \cup {[Single(q) EXCEPT !.packs = @ \cup {p}]}
  BY <1>2, <1>3 DEF Collect
<1> QED BY <1>4, <1>5, <1>6 DEF U

\* When a transaction is complete.
LEMMA Completes ==
  ASSUME NEW p
  PROVE  Complete(Single(p)) <=> p.n_batches = 1
BY FS_Singleton DEF Complete, Single

\* Two different packages complete the transaction that waits for two.
LEMMA CompletesPair ==
  ASSUME NEW p, NEW q, p # q
  PROVE  Complete(Pair(p, q)) <=> p.n_batches = 2
<1>1. Cardinality({p}) = 1 /\ IsFiniteSet({p})
  BY FS_Singleton
<1>2. Cardinality({p} \cup {q}) = 2
  BY <1>1, FS_AddElement
<1>3. {p} \cup {q} = {p, q}
  OBVIOUS
<1> QED BY <1>2, <1>3 DEF Complete, Pair

\* Two packages of one transaction come in either order.
LEMMA PairEither ==
  ASSUME NEW p, NEW q, p.uid = q.uid, p.n_batches = q.n_batches
  PROVE  Pair(p, q) = Pair(q, p)
BY DEF Pair

\* What the packages of a round say.
LEMMA Labels ==
  ASSUME NEW r \in Nat
  PROVE  /\ Sent1(r).uid = Uid(0, r, "__2")   /\ Sent1(r).n_batches = 1
         /\ Sent2(r).uid = Uid(0, r, "_2")    /\ Sent2(r).n_batches = 1
         /\ Passed1(r).uid = Uid(1, r, "__2") /\ Passed1(r).n_batches = 1
         /\ Passed2(r).uid = Uid(1, r, "_2")  /\ Passed2(r).n_batches = 1
         /\ Back1(r).uid = Uid(0, r, "_1")    /\ Back1(r).n_batches = 2
         /\ Back2(r).uid = Uid(1, r, "_1")    /\ Back2(r).n_batches = 2
         /\ Key(r).uid = Uid(0, r, "_1")      /\ Key(r).n_batches = 2
         /\ Half(r).uid = Uid(1, r, "_1")     /\ Half(r).n_batches = 2
         /\ Sum(r).uid = Uid(2, r, "_1")      /\ Sum(r).n_batches = 1
         /\ Back1(r) # Key(r) /\ Back2(r) # Half(r)
         /\ Uid(0, r, "__2") # Uid(0, r, "_1") /\ Uid(0, r, "_2") # Uid(1, r, "_1")
<1>1. Back1(r).encryption = "ss" /\ Key(r).encryption = "he"
  BY DEF Back1, Key, Pack
<1>2. Back2(r).encryption = "ss" /\ Half(r).encryption = "he"
  BY DEF Back2, Half, Pack
<1>3. /\ Uid(0, r, "__2").tag = "__2" /\ Uid(0, r, "_2").tag = "_2"
      /\ Uid(0, r, "_1").tag = "_1" /\ Uid(1, r, "_1").tag = "_1"
  BY DEF Uid
<1>4. /\ Sent1(r).uid = Uid(0, r, "__2")   /\ Sent1(r).n_batches = 1
      /\ Sent2(r).uid = Uid(0, r, "_2")    /\ Sent2(r).n_batches = 1
      /\ Passed1(r).uid = Uid(1, r, "__2") /\ Passed1(r).n_batches = 1
      /\ Passed2(r).uid = Uid(1, r, "_2")  /\ Passed2(r).n_batches = 1
  BY DEF Sent1, Sent2, Passed1, Passed2, Pack
<1>5. /\ Back1(r).uid = Uid(0, r, "_1")    /\ Back1(r).n_batches = 2
      /\ Back2(r).uid = Uid(1, r, "_1")    /\ Back2(r).n_batches = 2
      /\ Key(r).uid = Uid(0, r, "_1")      /\ Key(r).n_batches = 2
      /\ Half(r).uid = Uid(1, r, "_1")     /\ Half(r).n_batches = 2
      /\ Sum(r).uid = Uid(2, r, "_1")      /\ Sum(r).n_batches = 1
  BY DEF Back1, Back2, Key, Half, Sum, Pack
<1> QED BY <1>1, <1>2, <1>3, <1>4, <1>5

\* A package behind another one.
LEMMA SecondPackage ==
  ASSUME NEW a, NEW b
  PROVE  Append(<<a>>, b) = <<a, b>>
<1>1. <<a>> \in Seq({a, b}) /\ <<a, b>> \in Seq({a, b})
  OBVIOUS
<1>2. /\ Append(<<a>>, b) \in Seq({a, b}) /\ Len(Append(<<a>>, b)) = 2
      /\ Append(<<a>>, b)[1] = a /\ Append(<<a>>, b)[2] = b
  BY <1>1, AppendProperties
<1>3. Len(<<a, b>>) = 2 /\ <<a, b>>[1] = a /\ <<a, b>>[2] = b
  OBVIOUS
<1>4. \A i \in 1 .. 2 : Append(<<a>>, b)[i] = <<a, b>>[i]
  <2>1. \A i \in 1 .. 2 : i = 1 \/ i = 2
    OBVIOUS
  <2> QED BY <1>2, <1>3, <2>1
<1> DEFINE s == Append(<<a>>, b)
           t == <<a, b>>
<1>5. s \in Seq({a, b}) /\ t \in Seq({a, b}) /\ Len(s) = Len(t) /\ Len(s) = 2
  BY <1>1, <1>2, <1>3
<1>6. \A i \in 1 .. Len(s) : s[i] = t[i]
  BY <1>4, <1>5
<1> HIDE DEF s, t
<1>7. s = t
  BY <1>5, <1>6, SeqEqual
<1> QED BY <1>7 DEF s, t

\* What is under way from a to b becomes x, and nothing else changes: the other
\* connections, which depend on the stages too, have to stay what they are.
Put(f, a, b, x) == [f EXCEPT ![a][b] = x]

Elsewhere(a, b, r, s1, s2, k, t1, t2, l) ==
  \A n, m \in Node : (n = a /\ m = b) \/ Under(n, m, r, t1, t2, l) = Under(n, m, r, s1, s2, k)

\* A connection that becomes what the new stages say is the only one that changes.
LEMMA Carrying ==
  ASSUME NEW a \in Node, NEW b \in Node,
         NEW r, NEW s1, NEW s2, NEW k, NEW t1, NEW t2, NEW l,
         Elsewhere(a, b, r, s1, s2, k, t1, t2, l)
  PROVE  Put(Channels(r, s1, s2, k), a, b, Under(a, b, r, t1, t2, l)) = Channels(r, t1, t2, l)
<1> DEFINE old(n) == [m \in Node |-> Under(n, m, r, s1, s2, k)]
           new(n) == [m \in Node |-> Under(n, m, r, t1, t2, l)]
           x == Under(a, b, r, t1, t2, l)
<1>1. Put(Channels(r, s1, s2, k), a, b, x)
        = [n \in Node |-> IF n = a THEN [old(a) EXCEPT ![b] = x] ELSE old(n)]
  BY DEF Channels, Put
<1>2. [old(a) EXCEPT ![b] = x] = new(a)
  BY DEF Elsewhere
<1>3. \A n \in Node \ {a} : old(n) = new(n)
  BY DEF Elsewhere
<1> HIDE DEF old, new
<1>4. Put(Channels(r, s1, s2, k), a, b, x) = [n \in Node |-> new(n)]
  BY <1>1, <1>2, <1>3
<1> QED BY <1>4 DEF new, Channels

Grows(a, b, p, r, s1, s2, k, t1, t2, l) ==
  /\ Under(a, b, r, t1, t2, l) = Append(Under(a, b, r, s1, s2, k), p)
  /\ Elsewhere(a, b, r, s1, s2, k, t1, t2, l)

\* A package that is sent is appended to its connection.
LEMMA Sending ==
  ASSUME NEW p, NEW r, NEW s1, NEW s2, NEW k, NEW t1, NEW t2, NEW l,
         p.source_id \in Node, p.target_id \in Node, Send(p),
         channel = Channels(r, s1, s2, k),
         Grows(p.source_id, p.target_id, p, r, s1, s2, k, t1, t2, l)
  PROVE  channel' = Channels(r, t1, t2, l)
<1> DEFINE a == p.source_id
           b == p.target_id
<1>1. channel[a][b] = Under(a, b, r, s1, s2, k)
  BY DEF Channels
<1>2. channel' = Put(channel, a, b, Append(channel[a][b], p))
  BY DEF Send, Put
<1>3. channel' = Put(Channels(r, s1, s2, k), a, b, Under(a, b, r, t1, t2, l))
  BY <1>1, <1>2 DEF Grows
<1>4. Elsewhere(a, b, r, s1, s2, k, t1, t2, l)
  BY DEF Grows
<1>5. a \in Node /\ b \in Node
  OBVIOUS
<1> HIDE DEF a, b
<1>6. Put(Channels(r, s1, s2, k), a, b, Under(a, b, r, t1, t2, l)) = Channels(r, t1, t2, l)
  BY <1>4, <1>5, Carrying, SMT
<1> QED BY <1>3, <1>6

Shrinks(a, b, r, s1, s2, k, t1, t2, l) ==
  /\ Under(a, b, r, t1, t2, l) = Tail(Under(a, b, r, s1, s2, k))
  /\ Elsewhere(a, b, r, s1, s2, k, t1, t2, l)

Take(a, b) == channel' = [channel EXCEPT ![a][b] = Tail(@)]

\* The first package of a connection is taken off it.
LEMMA Taking ==
  ASSUME NEW a \in Node, NEW b \in Node,
         NEW r, NEW s1, NEW s2, NEW k, NEW t1, NEW t2, NEW l, Take(a, b),
         channel = Channels(r, s1, s2, k),
         Shrinks(a, b, r, s1, s2, k, t1, t2, l)
  PROVE  channel' = Channels(r, t1, t2, l)
<1>1. channel[a][b] = Under(a, b, r, s1, s2, k)
  BY DEF Channels
<1>2. channel' = Put(channel, a, b, Tail(channel[a][b]))
  BY DEF Put, Take
<1>3. channel' = Put(Channels(r, s1, s2, k), a, b, Under(a, b, r, t1, t2, l))
  BY <1>1, <1>2 DEF Shrinks
<1>4. Elsewhere(a, b, r, s1, s2, k, t1, t2, l)
  BY DEF Shrinks
<1>5. Put(Channels(r, s1, s2, k), a, b, Under(a, b, r, t1, t2, l)) = Channels(r, t1, t2, l)
  BY <1>4, Carrying, SMT
<1> QED BY <1>3, <1>5

\* The same for transactions and queues.
Set(f, a, x) == [f EXCEPT ![a] = x]

\* Only the transactions of one node change.
LEMMA Collecting ==
  ASSUME NEW a \in Node,
         NEW r, NEW s1, NEW s2, NEW k, NEW t1, NEW t2, NEW l,
         \A n \in Node \ {a} : Gathered(n, r, t1, t2, l) = Gathered(n, r, s1, s2, k)
  PROVE  Set(Transactions(r, s1, s2, k), a, Gathered(a, r, t1, t2, l))
           = Transactions(r, t1, t2, l)
BY DEF Transactions, Set

\* Only the queue of one client changes.
LEMMA Queueing ==
  ASSUME NEW a \in Client,
         NEW r, NEW s1, NEW s2, NEW k, NEW t1, NEW t2, NEW l,
         \A c \in Client \ {a} : Waiting(c, r, t1, t2, l) = Waiting(c, r, s1, s2, k)
  PROVE  Set(Queues(r, s1, s2, k), a, Waiting(a, r, t1, t2, l)) = Queues(r, t1, t2, l)
BY DEF Queues, Set

\* Only one client counts on.
LEMMA Counting ==
  ASSUME NEW a \in Client, NEW r, NEW s1, NEW s2, NEW t1, NEW t2,
         \A c \in Client \ {a} : Counts(c, r, t1, t2) = Counts(c, r, s1, s2)
  PROVE  Set([c \in Client |-> Counts(c, r, s1, s2)], a, Counts(a, r, t1, t2))
           = [c \in Client |-> Counts(c, r, t1, t2)]
BY DEF Set

-----------------------------------------------------------------------------
(* Every step keeps the invariant.                                         *)

\* At first nothing is under way.
LEMMA InitHolds == Init => IInv
<1> SUFFICES ASSUME Init PROVE IInv
  OBVIOUS
<1>1. Round = 0
  BY DEF Init, Round, Client
<1>2. Progress
  BY <1>1, RouterAssumption DEF Init, Progress
<1>3. \A n, m \in Node : Under(n, m, 0, "kept", "kept", "kept") = << >>
  BY DEF Under, Only
<1>4. \A n \in Node : Gathered(n, 0, "kept", "kept", "kept") = {}
  BY DEF Gathered, Open, Joint
<1>5. \A c \in Client : /\ Waiting(c, 0, "kept", "kept", "kept") = << >>
                        /\ Counts(c, 0, "kept", "kept") = 0
  BY DEF Waiting, Only, Counts, Returned
<1>6. At("kept", "kept", "kept")
  BY <1>1, <1>3, <1>4, <1>5 DEF At, Init, Causes, Channels, Transactions, Queues
<1> QED BY <1>2, <1>6 DEF IInv, ShareStage, KeyStage

\* What the stages determine, apart from the connections.
Rest(r, s1, s2, k) ==
  /\ trans = Transactions(r, s1, s2, k)
  /\ q_recv = Queues(r, s1, s2, k)
  /\ round = [c \in Client |-> Counts(c, r, s1, s2)]

\* The arbiter sends a share or the key: its stage becomes "sent".
LEMMA ArbiterSendsKeeps ==
  ASSUME Progress, NEW s1 \in ShareStage, NEW s2 \in ShareStage, NEW k \in KeyStage,
         At(s1, s2, k), ArbiterSends
  PROVE  IInv'
<1> DEFINE r == Round
<1>1. /\ Round' = r /\ Progress /\ Progress'
      /\ r \in Nat
  BY RouterAssumption DEF Progress, ArbiterSends, Round
<1>2. ASSUME NEW t1 \in ShareStage, NEW t2 \in ShareStage, NEW l \in KeyStage,
             channel' = Channels(r, t1, t2, l),
             Transactions(r, t1, t2, l) = Transactions(r, s1, s2, k),
             Queues(r, t1, t2, l) = Queues(r, s1, s2, k),
             [c \in Client |-> Counts(c, r, t1, t2)] = [c \in Client |-> Counts(c, r, s1, s2)],
             Causes(t1, t2, l)'
      PROVE  IInv'
  <2>1. At(t1, t2, l)'
    BY <1>1, <1>2 DEF At, ArbiterSends
  <2> QED BY <1>1, <2>1 DEF IInv
<1>3. ASSUME pc = "w1", pc' = "w2", Send(SharePack("w1", "rs_01", "__2"))
      PROVE  IInv'
  <2>1. SharePack("w1", "rs_01", "__2") = Sent1(r)
    BY DEF SharePack, Sent1, Pack, W, Round
  <2>2. s1 = "kept" /\ s2 = "kept" /\ k = "kept"
    BY <1>3 DEF At, Causes
  <2>3. Grows("rc_03", "rs_01", Sent1(r), r, s1, s2, k, "sent", s2, k)
    BY <2>2 DEF Grows, Elsewhere, Under, Only
  <2>4. channel' = Channels(r, "sent", s2, k)
    <3>1. Sent1(r).source_id = "rc_03" /\ Sent1(r).target_id = "rs_01"
      BY DEF Sent1, Pack
    <3>2. "rc_03" \in Node /\ "rs_01" \in Node
      BY DEF Node, Client, Server
    <3>3. channel = Channels(r, s1, s2, k) /\ Send(Sent1(r))
      BY <1>3, <2>1 DEF At
    <3>4. Grows(Sent1(r).source_id, Sent1(r).target_id, Sent1(r), r, s1, s2, k, "sent", s2, k)
      BY <2>3, <3>1
    <3> HIDE DEF r
    <3> QED BY <3>1, <3>2, <3>3, <3>4, Sending
  <2>5. /\ Transactions(r, "sent", s2, k) = Transactions(r, s1, s2, k)
        /\ Queues(r, "sent", s2, k) = Queues(r, s1, s2, k)
        /\ [c \in Client |-> Counts(c, r, "sent", s2)] = [c \in Client |-> Counts(c, r, s1, s2)]
    BY <2>2 DEF Transactions, Queues, Gathered, Waiting, Counts, Open, Joint, Only, Returned
  <2>6. Causes("sent", s2, k)'
    BY <1>3, <2>2 DEF Causes
  <2> QED BY <1>2, <2>4, <2>5, <2>6 DEF ShareStage
<1>4. ASSUME pc = "w2", pc' = "key", Send(SharePack("w2", "rs_02", "_2"))
      PROVE  IInv'
  <2>1. SharePack("w2", "rs_02", "_2") = Sent2(r)
    BY DEF SharePack, Sent2, Pack, W, Round
  <2>2. s1 # "kept" /\ s2 = "kept" /\ k = "kept"
    BY <1>4 DEF At, Causes
  <2>3. Grows("rc_03", "rs_02", Sent2(r), r, s1, s2, k, s1, "sent", k)
    BY <2>2 DEF Grows, Elsewhere, Under, Only
  <2>4. channel' = Channels(r, s1, "sent", k)
    <3>1. Sent2(r).source_id = "rc_03" /\ Sent2(r).target_id = "rs_02"
      BY DEF Sent2, Pack
    <3>2. "rc_03" \in Node /\ "rs_02" \in Node
      BY DEF Node, Client, Server
    <3>3. channel = Channels(r, s1, s2, k) /\ Send(Sent2(r))
      BY <1>4, <2>1 DEF At
    <3>4. Grows(Sent2(r).source_id, Sent2(r).target_id, Sent2(r), r, s1, s2, k, s1, "sent", k)
      BY <2>3, <3>1
    <3> HIDE DEF r
    <3> QED BY <3>1, <3>2, <3>3, <3>4, Sending
  <2>5. /\ Transactions(r, s1, "sent", k) = Transactions(r, s1, s2, k)
        /\ Queues(r, s1, "sent", k) = Queues(r, s1, s2, k)
        /\ [c \in Client |-> Counts(c, r, s1, "sent")] = [c \in Client |-> Counts(c, r, s1, s2)]
    BY <2>2 DEF Transactions, Queues, Gathered, Waiting, Counts, Open, Joint, Only, Returned
  <2>6. Causes(s1, "sent", k)'
    BY <1>4, <2>2 DEF Causes
  <2> QED BY <1>2, <2>4, <2>5, <2>6 DEF ShareStage
<1>5. ASSUME pc = "key", pc' = "recv", Send(PubkeyPack)
      PROVE  IInv'
  <2>1. PubkeyPack = Key(r)
    BY DEF PubkeyPack, Key, Pack, Round
  <2>2. s1 # "kept" /\ s2 # "kept" /\ k = "kept"
    BY <1>5 DEF At, Causes
  <2>3. Grows("rc_03", "rs_01", Key(r), r, s1, s2, k, s1, s2, "sent")
    <3>1. /\ Append(<<Sent1(r)>>, Key(r)) = <<Sent1(r), Key(r)>>
          /\ Append(<< >>, Key(r)) = <<Key(r)>>
      BY SecondPackage
    <3>2. Elsewhere("rc_03", "rs_01", r, s1, s2, k, s1, s2, "sent")
      BY <2>2 DEF Elsewhere, Under, Only
    <3>3. /\ Under("rc_03", "rs_01", r, s1, s2, k)
                = IF s1 = "sent" THEN <<Sent1(r)>> ELSE << >>
          /\ Under("rc_03", "rs_01", r, s1, s2, "sent")
                = IF s1 = "sent" THEN <<Sent1(r), Key(r)>> ELSE <<Key(r)>>
      BY <2>2 DEF Under, Only
    <3> QED BY <3>1, <3>2, <3>3 DEF Grows
  <2>4. channel' = Channels(r, s1, s2, "sent")
    <3>1. Key(r).source_id = "rc_03" /\ Key(r).target_id = "rs_01"
      BY DEF Key, Pack
    <3>2. "rc_03" \in Node /\ "rs_01" \in Node
      BY DEF Node, Client, Server
    <3>3. channel = Channels(r, s1, s2, k) /\ Send(Key(r))
      BY <1>5, <2>1 DEF At
    <3>4. Grows(Key(r).source_id, Key(r).target_id, Key(r), r, s1, s2, k, s1, s2, "sent")
      BY <2>3, <3>1
    <3> HIDE DEF r
    <3> QED BY <3>1, <3>2, <3>3, <3>4, Sending
  <2>5. /\ Transactions(r, s1, s2, "sent") = Transactions(r, s1, s2, k)
        /\ Queues(r, s1, s2, "sent") = Queues(r, s1, s2, k)
    BY <2>2 DEF Transactions, Queues, Gathered, Waiting, Open, Joint, Only
  <2>6. Causes(s1, s2, "sent")'
    BY <1>5, <2>2 DEF Causes
  <2> QED BY <1>2, <2>4, <2>5, <2>6 DEF KeyStage
<1> QED BY <1>3, <1>4, <1>5 DEF ArbiterSends

\* The arbiter takes the aggregate, and the next round starts where this one did.
LEMMA ArbiterReceivesKeeps ==
  ASSUME Progress, NEW s1 \in ShareStage, NEW s2 \in ShareStage, NEW k \in KeyStage,
         At(s1, s2, k), ArbiterReceives
  PROVE  IInv'
<1> DEFINE r == Round
<1>1. q_recv["rc_03"] = Only(k = "answer", Sum(r))
  BY DEF At, Queues, Waiting, Client
<1>2. k = "answer" /\ s1 = "gone" /\ s2 = "gone" /\ q_recv["rc_03"] = <<Sum(r)>>
  BY <1>1 DEF Only, ArbiterReceives, At, Causes
<1>3. r \in 0 .. NumRounds - 1 /\ NumRounds \in Nat
  BY RouterAssumption DEF Progress, ArbiterReceives
<1>4. Round' = r + 1
  <2>1. DOMAIN round = Client /\ "rc_03" \in Client
    BY DEF At, Client
  <2> QED BY <2>1 DEF ArbiterReceives, NextRound, Round
<1>5. Progress'
  <2>1. Head(q_recv["rc_03"]).data = Shares(r)
    BY <1>2 DEF Sum, Pack
  <2>2. agg' = [agg EXCEPT ![r] = Shares(r)]
    BY <2>1 DEF ArbiterReceives, Round
  <2>3. agg' = [n \in 0 .. NumRounds - 1 |-> IF n < r + 1 THEN Shares(n) ELSE {}]
    <3>1. agg = [n \in 0 .. NumRounds - 1 |-> IF n < r THEN Shares(n) ELSE {}]
      BY DEF Progress
    <3>2. \A n \in 0 .. NumRounds - 1 : n < r + 1 <=> n < r \/ n = r
      BY <1>3
    <3> HIDE DEF r
    <3> QED BY <1>3, <2>2, <3>1, <3>2
  <2>4. pc' = IF r + 1 = NumRounds THEN "done" ELSE "w1"
    BY DEF ArbiterReceives, Round
  <2>5. faults' = faults
    BY DEF ArbiterReceives
  <2> HIDE DEF r
  <2> QED BY <1>3, <1>4, <2>3, <2>4, <2>5 DEF Progress
<1>6. channel' = Channels(r + 1, "kept", "kept", "kept")
  BY <1>2 DEF At, ArbiterReceives, Channels, Under, Only
<1>7. trans' = Transactions(r + 1, "kept", "kept", "kept")
  BY <1>2 DEF At, ArbiterReceives, Transactions, Gathered, Open, Joint
<1>8. q_recv' = Queues(r + 1, "kept", "kept", "kept")
  <2>1. q_recv' = [q_recv EXCEPT !["rc_03"] = << >>]
    BY <1>2 DEF ArbiterReceives
  <2>2. q_recv = Queues(r, "gone", "gone", "answer")
    BY <1>2 DEF At
  <2> QED BY <2>1, <2>2 DEF Queues, Waiting, Only, Client
<1>9. round' = [c \in Client |-> Counts(c, r + 1, "kept", "kept")]
  <2>1. round = [c \in Client |-> IF c = "rc_03" THEN r ELSE r + 1]
    BY <1>2 DEF At, Counts, Returned, Client
  <2>2. round' = [c \in Client |-> r + 1]
    BY <1>3, <2>1 DEF ArbiterReceives, NextRound
  <2> QED BY <2>2 DEF Counts, Returned
<1>10. Causes("kept", "kept", "kept")'
  BY DEF ArbiterReceives, Causes
<1>11. At("kept", "kept", "kept")'
  BY <1>4, <1>6, <1>7, <1>8, <1>9, <1>10 DEF At
<1> QED BY <1>5, <1>11 DEF IInv, ShareStage, KeyStage

\* A step of the nodes or of a client leaves the arbiter where it is.
LEMMA Settles ==
  ASSUME Progress, NEW t1 \in ShareStage, NEW t2 \in ShareStage, NEW l \in KeyStage,
         UNCHANGED <<pc, agg>>, faults' \in 0 .. MaxFaults,
         channel' = Channels(Round, t1, t2, l),
         trans' = Transactions(Round, t1, t2, l),
         q_recv' = Queues(Round, t1, t2, l),
         round' = [c \in Client |-> Counts(c, Round, t1, t2)],
         Causes(t1, t2, l)
  PROVE  IInv'
<1>1. Round' = Round
  <2>1. "rc_03" \in Client /\ Counts("rc_03", Round, t1, t2) = Round
    BY DEF Counts, Client
  <2>2. round'["rc_03"] = Round
    BY <2>1
  <2> QED BY <2>2 DEF Round
<1>2. Progress' /\ Causes(t1, t2, l)'
  BY <1>1 DEF Progress, Causes
<1>3. At(t1, t2, l)'
  BY <1>1, <1>2 DEF At
<1> QED BY <1>2, <1>3 DEF IInv

\* A client gives its share back and counts on.
LEMMA ReturnShareKeeps ==
  ASSUME Progress, NEW s1 \in ShareStage, NEW s2 \in ShareStage, NEW k \in KeyStage,
         At(s1, s2, k), NEW c \in Client, ReturnShare(c)
  PROVE  IInv'
<1> DEFINE r == Round
<1>1. CASE c = "rc_01"
  <2>1. s1 = "taken" /\ q_recv[c] = <<Passed1(r)>> /\ round[c] = r
    <3>1. q_recv[c] = Only(s1 = "taken", Passed1(r)) /\ round[c] = Counts(c, r, s1, s2)
      BY <1>1 DEF At, Queues, Waiting, Client
    <3> QED BY <1>1, <3>1 DEF Only, ReturnShare, Counts, Returned
  <2>2. ReturnedPack(c, Head(q_recv[c])) = Back1(r)
    <3>1. Head(q_recv[c]).data = W(r, "w1")
      BY <2>1 DEF Passed1, Pack
    <3> QED BY <1>1, <2>1, <3>1 DEF ReturnedPack, Back1, Pack
  <2>3. channel' = Channels(r, "back", s2, k)
    <3>1. Grows("rc_01", "rs_01", Back1(r), r, s1, s2, k, "back", s2, k)
      BY <2>1 DEF Grows, Elsewhere, Under, Only
    <3>2. Back1(r).source_id = "rc_01" /\ Back1(r).target_id = "rs_01"
      BY DEF Back1, Pack
    <3>3. "rc_01" \in Node /\ "rs_01" \in Node
      BY DEF Node, Client, Server
    <3>4. channel = Channels(r, s1, s2, k) /\ Send(Back1(r))
      BY <2>2 DEF At, ReturnShare
    <3>5. Grows(Back1(r).source_id, Back1(r).target_id, Back1(r), r, s1, s2, k, "back", s2, k)
      BY <3>1, <3>2
    <3> HIDE DEF r
    <3> QED BY <3>2, <3>3, <3>4, <3>5, Sending
  <2>4. trans' = Transactions(r, "back", s2, k)
    BY <2>1 DEF At, ReturnShare, Transactions, Gathered, Open, Joint
  <2>5. q_recv' = Queues(r, "back", s2, k)
    <3>1. q_recv' = [q_recv EXCEPT !["rc_01"] = << >>]
      BY <1>1, <2>1 DEF ReturnShare
    <3> QED BY <2>1, <3>1 DEF At, Queues, Waiting, Only, Client
  <2>6. round' = [d \in Client |-> Counts(d, r, "back", s2)]
    <3>1. round' = [round EXCEPT !["rc_01"] = r + 1]
      BY <1>1, <2>1 DEF ReturnShare, NextRound
    <3> QED BY <2>1, <3>1 DEF At, Counts, Returned, Client
  <2>7. Causes("back", s2, k)
    BY <2>1 DEF At, Causes
  <2>8. UNCHANGED <<pc, agg, faults>> /\ faults \in 0 .. MaxFaults
    BY DEF ReturnShare, Progress
  <2> QED BY <2>3, <2>4, <2>5, <2>6, <2>7, <2>8, Settles DEF ShareStage
<1>2. CASE c = "rc_02"
  <2>1. s2 = "taken" /\ q_recv[c] = <<Passed2(r)>> /\ round[c] = r
    <3>1. q_recv[c] = Only(s2 = "taken", Passed2(r)) /\ round[c] = Counts(c, r, s1, s2)
      BY <1>2 DEF At, Queues, Waiting, Client
    <3> QED BY <1>2, <3>1 DEF Only, ReturnShare, Counts, Returned
  <2>2. ReturnedPack(c, Head(q_recv[c])) = Back2(r)
    <3>1. Head(q_recv[c]).data = W(r, "w2")
      BY <2>1 DEF Passed2, Pack
    <3> QED BY <1>2, <2>1, <3>1 DEF ReturnedPack, Back2, Pack
  <2>3. channel' = Channels(r, s1, "back", k)
    <3>1. Grows("rc_02", "rs_02", Back2(r), r, s1, s2, k, s1, "back", k)
      BY <2>1 DEF Grows, Elsewhere, Under, Only
    <3>2. Back2(r).source_id = "rc_02" /\ Back2(r).target_id = "rs_02"
      BY DEF Back2, Pack
    <3>3. "rc_02" \in Node /\ "rs_02" \in Node
      BY DEF Node, Client, Server
    <3>4. channel = Channels(r, s1, s2, k) /\ Send(Back2(r))
      BY <2>2 DEF At, ReturnShare
    <3>5. Grows(Back2(r).source_id, Back2(r).target_id, Back2(r), r, s1, s2, k, s1, "back", k)
      BY <3>1, <3>2
    <3> HIDE DEF r
    <3> QED BY <3>2, <3>3, <3>4, <3>5, Sending
  <2>4. trans' = Transactions(r, s1, "back", k)
    BY <2>1 DEF At, ReturnShare, Transactions, Gathered, Open, Joint
  <2>5. q_recv' = Queues(r, s1, "back", k)
    <3>1. q_recv' = [q_recv EXCEPT !["rc_02"] = << >>]
      BY <1>2, <2>1 DEF ReturnShare
    <3> QED BY <2>1, <3>1 DEF At, Queues, Waiting, Only, Client
  <2>6. round' = [d \in Client |-> Counts(d, r, s1, "back")]
    <3>1. round' = [round EXCEPT !["rc_02"] = r + 1]
      BY <1>2, <2>1 DEF ReturnShare, NextRound
    <3> QED BY <2>1, <3>1 DEF At, Counts, Returned, Client
  <2>7. Causes(s1, "back", k)
    BY <2>1 DEF At, Causes
  <2>8. UNCHANGED <<pc, agg, faults>> /\ faults \in 0 .. MaxFaults
    BY DEF ReturnShare, Progress
  <2> QED BY <2>3, <2>4, <2>5, <2>6, <2>7, <2>8, Settles DEF ShareStage
<1> QED BY <1>1, <1>2 DEF ReturnShare, Client

\* The stages in which a share, or the key, is on no connection.
Landed    == ShareStage \ {"sent", "passed", "back"}
LandedKey == KeyStage \ {"sent", "half", "sum"}

\* The package that comes first on a connection.
LEMMA Arrivals ==
  ASSUME NEW n \in Node, NEW m \in Node, NEW r, NEW s1, NEW s2, NEW k,
         Under(n, m, r, s1, s2, k) # << >>
  PROVE  LET pack == Head(Under(n, m, r, s1, s2, k))
         IN
    \/ /\ n = "rc_03" /\ m = "rs_01" /\ s1 = "sent" /\ pack = Sent1(r)
       /\ \A t \in Landed : Shrinks(n, m, r, s1, s2, k, t, s2, k)
    \/ /\ n = "rc_03" /\ m = "rs_01" /\ s1 # "sent" /\ k = "sent" /\ pack = Key(r)
       /\ \A t \in LandedKey : Shrinks(n, m, r, s1, s2, k, s1, s2, t)
    \/ /\ n = "rc_03" /\ m = "rs_02" /\ s2 = "sent" /\ pack = Sent2(r)
       /\ \A t \in Landed : Shrinks(n, m, r, s1, s2, k, s1, t, k)
    \/ /\ n = "rs_01" /\ m = "rc_01" /\ s1 = "passed" /\ pack = Passed1(r)
       /\ \A t \in Landed : Shrinks(n, m, r, s1, s2, k, t, s2, k)
    \/ /\ n = "rs_02" /\ m = "rc_02" /\ s2 = "passed" /\ pack = Passed2(r)
       /\ \A t \in Landed : Shrinks(n, m, r, s1, s2, k, s1, t, k)
    \/ /\ n = "rc_01" /\ m = "rs_01" /\ s1 = "back" /\ pack = Back1(r)
       /\ \A t \in Landed : Shrinks(n, m, r, s1, s2, k, t, s2, k)
    \/ /\ n = "rc_02" /\ m = "rs_02" /\ s2 = "back" /\ pack = Back2(r)
       /\ \A t \in Landed : Shrinks(n, m, r, s1, s2, k, s1, t, k)
    \/ /\ n = "rs_01" /\ m = "rs_02" /\ k = "half" /\ pack = Half(r)
       /\ \A t \in LandedKey : Shrinks(n, m, r, s1, s2, k, s1, s2, t)
    \/ /\ n = "rs_02" /\ m = "rc_03" /\ k = "sum" /\ pack = Sum(r)
       /\ \A t \in LandedKey : Shrinks(n, m, r, s1, s2, k, s1, s2, t)
<1> DEFINE pack == Head(Under(n, m, r, s1, s2, k))
<1>1. ASSUME n = "rc_03", m = "rs_01", s1 = "sent"
      PROVE  /\ pack = Sent1(r)
             /\ \A t \in Landed : Shrinks(n, m, r, s1, s2, k, t, s2, k)
  BY <1>1 DEF Landed, Shrinks, Elsewhere, Under, Only
<1>2. ASSUME n = "rc_03", m = "rs_01", s1 # "sent" /\ k = "sent"
      PROVE  /\ pack = Key(r)
             /\ \A t \in LandedKey : Shrinks(n, m, r, s1, s2, k, s1, s2, t)
  BY <1>2 DEF LandedKey, Shrinks, Elsewhere, Under, Only
<1>3. ASSUME n = "rc_03", m = "rs_02", s2 = "sent"
      PROVE  /\ pack = Sent2(r)
             /\ \A t \in Landed : Shrinks(n, m, r, s1, s2, k, s1, t, k)
  BY <1>3 DEF Landed, Shrinks, Elsewhere, Under, Only
<1>4. ASSUME n = "rs_01", m = "rc_01", s1 = "passed"
      PROVE  /\ pack = Passed1(r)
             /\ \A t \in Landed : Shrinks(n, m, r, s1, s2, k, t, s2, k)
  BY <1>4 DEF Landed, Shrinks, Elsewhere, Under, Only
<1>5. ASSUME n = "rs_02", m = "rc_02", s2 = "passed"
      PROVE  /\ pack = Passed2(r)
             /\ \A t \in Landed : Shrinks(n, m, r, s1, s2, k, s1, t, k)
  BY <1>5 DEF Landed, Shrinks, Elsewhere, Under, Only
<1>6. ASSUME n = "rc_01", m = "rs_01", s1 = "back"
      PROVE  /\ pack = Back1(r)
             /\ \A t \in Landed : Shrinks(n, m, r, s1, s2, k, t, s2, k)
  BY <1>6 DEF Landed, Shrinks, Elsewhere, Under, Only
<1>7. ASSUME n = "rc_02", m = "rs_02", s2 = "back"
      PROVE  /\ pack = Back2(r)
             /\ \A t \in Landed : Shrinks(n, m, r, s1, s2, k, s1, t, k)
  BY <1>7 DEF Landed, Shrinks, Elsewhere, Under, Only
<1>8. ASSUME n = "rs_01", m = "rs_02", k = "half"
      PROVE  /\ pack = Half(r)
             /\ \A t \in LandedKey : Shrinks(n, m, r, s1, s2, k, s1, s2, t)
  BY <1>8 DEF LandedKey, Shrinks, Elsewhere, Under, Only
<1>9. ASSUME n = "rs_02", m = "rc_03", k = "sum"
      PROVE  /\ pack = Sum(r)
             /\ \A t \in LandedKey : Shrinks(n, m, r, s1, s2, k, s1, s2, t)
  BY <1>9 DEF LandedKey, Shrinks, Elsewhere, Under, Only
<1> QED
  BY <1>1, <1>2, <1>3, <1>4, <1>5, <1>6, <1>7, <1>8, <1>9 DEF Under, Only, Node, Client, Server

\* What travelled in a lost package is lost for good, and the round with it.
LEMMA LosePackageKeeps ==
  ASSUME Progress, NEW s1 \in ShareStage, NEW s2 \in ShareStage, NEW k \in KeyStage,
         At(s1, s2, k), NEW n \in Node, NEW m \in Node, LosePackage(n, m)
  PROVE  IInv'
<1> DEFINE r == Round
<1>1. /\ channel = Channels(r, s1, s2, k) /\ channel[n][m] = Under(n, m, r, s1, s2, k)
      /\ Under(n, m, r, s1, s2, k) # << >>
      /\ Take(n, m)
      /\ UNCHANGED <<pc, agg, round, trans, q_recv>> /\ faults' \in 0 .. MaxFaults
  BY RouterAssumption DEF At, Take, Channels, LosePackage, Fault, Progress
<1>2. ASSUME NEW t1 \in ShareStage, NEW t2 \in ShareStage, NEW l \in KeyStage,
             Shrinks(n, m, r, s1, s2, k, t1, t2, l),
             Transactions(r, t1, t2, l) = Transactions(r, s1, s2, k),
             Queues(r, t1, t2, l) = Queues(r, s1, s2, k),
             [c \in Client |-> Counts(c, r, t1, t2)] = [c \in Client |-> Counts(c, r, s1, s2)],
             Causes(t1, t2, l)
      PROVE  IInv'
  <2>1. channel' = Channels(r, t1, t2, l)
    <3>1. /\ channel = Channels(r, s1, s2, k)
          /\ Take(n, m)
          /\ Shrinks(n, m, r, s1, s2, k, t1, t2, l)
      BY <1>1, <1>2
    <3> HIDE DEF r
    <3> QED BY <3>1, Taking
  <2>2. trans' = Transactions(r, t1, t2, l)
    BY <1>1, <1>2 DEF At
  <2>3. q_recv' = Queues(r, t1, t2, l)
    BY <1>1, <1>2 DEF At
  <2>4. round' = [c \in Client |-> Counts(c, r, t1, t2)]
    BY <1>1, <1>2 DEF At
  <2>5. UNCHANGED <<pc, agg>> /\ faults' \in 0 .. MaxFaults /\ Causes(t1, t2, l)
    BY <1>1, <1>2
  <2> QED BY <2>1, <2>2, <2>3, <2>4, <2>5, Settles
<1>3. ASSUME s1 \in {"sent", "passed"},
             Shrinks(n, m, r, s1, s2, k, "lost", s2, k)
      PROVE  IInv'
  <2>1. /\ Transactions(r, "lost", s2, k) = Transactions(r, s1, s2, k)
        /\ Queues(r, "lost", s2, k) = Queues(r, s1, s2, k)
        /\ [c \in Client |-> Counts(c, r, "lost", s2)] = [c \in Client |-> Counts(c, r, s1, s2)]
    BY <1>3 DEF Transactions, Queues, Gathered, Waiting, Counts, Open, Joint, Only, Returned
  <2>2. Causes("lost", s2, k)
    BY <1>3 DEF At, Causes
  <2> QED BY <1>2, <1>3, <2>1, <2>2 DEF ShareStage, KeyStage
<1>4. ASSUME s1 = "back",
             Shrinks(n, m, r, s1, s2, k, "gone", s2, k)
      PROVE  IInv'
  <2>1. /\ Transactions(r, "gone", s2, k) = Transactions(r, s1, s2, k)
        /\ Queues(r, "gone", s2, k) = Queues(r, s1, s2, k)
        /\ [c \in Client |-> Counts(c, r, "gone", s2)] = [c \in Client |-> Counts(c, r, s1, s2)]
    BY <1>4 DEF Transactions, Queues, Gathered, Waiting, Counts, Open, Joint, Only, Returned
  <2>2. Causes("gone", s2, k)
    BY <1>4 DEF At, Causes
  <2> QED BY <1>2, <1>4, <2>1, <2>2 DEF ShareStage, KeyStage
<1>5. ASSUME s2 \in {"sent", "passed"},
             Shrinks(n, m, r, s1, s2, k, s1, "lost", k)
      PROVE  IInv'
  <2>1. /\ Transactions(r, s1, "lost", k) = Transactions(r, s1, s2, k)
        /\ Queues(r, s1, "lost", k) = Queues(r, s1, s2, k)
        /\ [c \in Client |-> Counts(c, r, s1, "lost")] = [c \in Client |-> Counts(c, r, s1, s2)]
    BY <1>5 DEF Transactions, Queues, Gathered, Waiting, Counts, Open, Joint, Only, Returned
  <2>2. Causes(s1, "lost", k)
    BY <1>5 DEF At, Causes
  <2> QED BY <1>2, <1>5, <2>1, <2>2 DEF ShareStage, KeyStage
<1>6. ASSUME s2 = "back",
             Shrinks(n, m, r, s1, s2, k, s1, "gone", k)
      PROVE  IInv'
  <2>1. /\ Transactions(r, s1, "gone", k) = Transactions(r, s1, s2, k)
        /\ Queues(r, s1, "gone", k) = Queues(r, s1, s2, k)
        /\ [c \in Client |-> Counts(c, r, s1, "gone")] = [c \in Client |-> Counts(c, r, s1, s2)]
    BY <1>6 DEF Transactions, Queues, Gathered, Waiting, Counts, Open, Joint, Only, Returned
  <2>2. Causes(s1, "gone", k)
    BY <1>6 DEF At, Causes
  <2> QED BY <1>2, <1>6, <2>1, <2>2 DEF ShareStage, KeyStage
<1>7. ASSUME k \in {"sent", "half", "sum"},
             Shrinks(n, m, r, s1, s2, k, s1, s2, "lost")
      PROVE  IInv'
  <2>1. /\ Transactions(r, s1, s2, "lost") = Transactions(r, s1, s2, k)
        /\ Queues(r, s1, s2, "lost") = Queues(r, s1, s2, k)
        /\ [c \in Client |-> Counts(c, r, s1, s2)] = [c \in Client |-> Counts(c, r, s1, s2)]
    BY <1>7 DEF Transactions, Queues, Gathered, Waiting, Counts, Open, Joint, Only, Returned
  <2>2. Causes(s1, s2, "lost")
    BY <1>7 DEF At, Causes
  <2> QED BY <1>2, <1>7, <2>1, <2>2 DEF ShareStage, KeyStage
<1>8. "lost" \in Landed /\ "gone" \in Landed /\ "lost" \in LandedKey
  BY DEF Landed, LandedKey, ShareStage, KeyStage
<1> HIDE DEF r
<1>9. \/ s1 \in {"sent", "passed"} /\ Shrinks(n, m, r, s1, s2, k, "lost", s2, k)
      \/ s1 = "back" /\ Shrinks(n, m, r, s1, s2, k, "gone", s2, k)
      \/ s2 \in {"sent", "passed"} /\ Shrinks(n, m, r, s1, s2, k, s1, "lost", k)
      \/ s2 = "back" /\ Shrinks(n, m, r, s1, s2, k, s1, "gone", k)
      \/ k \in {"sent", "half", "sum"} /\ Shrinks(n, m, r, s1, s2, k, s1, s2, "lost")
  <2> HIDE <1>3, <1>4, <1>5, <1>6, <1>7
  <2> QED BY <1>1, <1>8, Arrivals
<1> QED BY <1>3, <1>4, <1>5, <1>6, <1>7, <1>9

\* The transactions of a node that collects the package.
LEMMA Collected ==
  ASSUME NEW r \in Nat, NEW s1, NEW s2, NEW k
  PROVE  /\ s1 = "sent" => Collect(Gathered("rs_01", r, s1, s2, k), Sent1(r)) = Gathered("rs_01", r, "atServer", s2, k)
         /\ k = "sent" => Collect(Gathered("rs_01", r, s1, s2, k), Key(r)) = Gathered("rs_01", r, s1, s2, "atFirst")
         /\ s2 = "sent" => Collect(Gathered("rs_02", r, s1, s2, k), Sent2(r)) = Gathered("rs_02", r, s1, "atServer", k)
         /\ s1 = "passed" => Collect(Gathered("rc_01", r, s1, s2, k), Passed1(r)) = Gathered("rc_01", r, "atClient", s2, k)
         /\ s2 = "passed" => Collect(Gathered("rc_02", r, s1, s2, k), Passed2(r)) = Gathered("rc_02", r, s1, "atClient", k)
         /\ s1 = "back" => Collect(Gathered("rs_01", r, s1, s2, k), Back1(r)) = Gathered("rs_01", r, "joined", s2, k)
         /\ s2 = "back" => Collect(Gathered("rs_02", r, s1, s2, k), Back2(r)) = Gathered("rs_02", r, s1, "joined", k)
         /\ k = "half" => Collect(Gathered("rs_02", r, s1, s2, k), Half(r)) = Gathered("rs_02", r, s1, s2, "atSecond")
         /\ k = "sum" => Collect(Gathered("rc_03", r, s1, s2, k), Sum(r)) = Gathered("rc_03", r, s1, s2, "arrived")
<1>1. ASSUME s1 = "sent"
      PROVE  Collect(Gathered("rs_01", r, s1, s2, k), Sent1(r)) = Gathered("rs_01", r, "atServer", s2, k)
  <2>1. \A t \in Gathered("rs_01", r, s1, s2, k) : t.uid # Sent1(r).uid
    BY <1>1, Labels DEF Gathered, Open, Joint, Single
  <2>2. Gathered("rs_01", r, "atServer", s2, k) = Gathered("rs_01", r, s1, s2, k) \cup {Single(Sent1(r))}
    BY <1>1 DEF Gathered, Open, Joint
  <2> QED BY <2>1, <2>2, Opens
<1>2. ASSUME k = "sent"
      PROVE  Collect(Gathered("rs_01", r, s1, s2, k), Key(r)) = Gathered("rs_01", r, s1, s2, "atFirst")
  <2>1. CASE s1 = "joined"
    <3> DEFINE T == Open(s1 = "atServer", Sent1(r))
    <3>1. /\ Gathered("rs_01", r, s1, s2, k) = T \cup {Single(Back1(r))}
          /\ Gathered("rs_01", r, s1, s2, "atFirst") = T \cup {Pair(Back1(r), Key(r))}
      BY <1>2, <2>1 DEF Gathered, Open, Joint
    <3>2. Key(r).uid = Back1(r).uid /\ Key(r).n_batches = Back1(r).n_batches
      BY Labels
    <3>3. \A t \in T : t.uid # Key(r).uid
      BY Labels DEF Open, Single
    <3> HIDE DEF T
    <3>4. Collect(T \cup {Single(Back1(r))}, Key(r)) = T \cup {Pair(Back1(r), Key(r))}
      BY <3>2, <3>3, Joins
    <3>5. Pair(Back1(r), Key(r)) = Pair(Key(r), Back1(r))
      BY <3>2, PairEither
    <3> QED BY <3>1, <3>4, <3>5
  <2>2. CASE s1 # "joined"
    <3>1. \A t \in Gathered("rs_01", r, s1, s2, k) : t.uid # Key(r).uid
      BY <1>2, <2>2, Labels DEF Gathered, Open, Joint, Single
    <3>2. Gathered("rs_01", r, s1, s2, "atFirst") = Gathered("rs_01", r, s1, s2, k) \cup {Single(Key(r))}
      BY <1>2, <2>2 DEF Gathered, Open, Joint
    <3> QED BY <3>1, <3>2, Opens
  <2> QED BY <2>1, <2>2
<1>3. ASSUME s2 = "sent"
      PROVE  Collect(Gathered("rs_02", r, s1, s2, k), Sent2(r)) = Gathered("rs_02", r, s1, "atServer", k)
  <2>1. \A t \in Gathered("rs_02", r, s1, s2, k) : t.uid # Sent2(r).uid
    BY <1>3, Labels DEF Gathered, Open, Joint, Single
  <2>2. Gathered("rs_02", r, s1, "atServer", k) = Gathered("rs_02", r, s1, s2, k) \cup {Single(Sent2(r))}
    BY <1>3 DEF Gathered, Open, Joint
  <2> QED BY <2>1, <2>2, Opens
<1>4. ASSUME s1 = "passed"
      PROVE  Collect(Gathered("rc_01", r, s1, s2, k), Passed1(r)) = Gathered("rc_01", r, "atClient", s2, k)
  <2>1. \A t \in Gathered("rc_01", r, s1, s2, k) : t.uid # Passed1(r).uid
    BY <1>4, Labels DEF Gathered, Open, Joint, Single
  <2>2. Gathered("rc_01", r, "atClient", s2, k) = Gathered("rc_01", r, s1, s2, k) \cup {Single(Passed1(r))}
    BY <1>4 DEF Gathered, Open, Joint
  <2> QED BY <2>1, <2>2, Opens
<1>5. ASSUME s2 = "passed"
      PROVE  Collect(Gathered("rc_02", r, s1, s2, k), Passed2(r)) = Gathered("rc_02", r, s1, "atClient", k)
  <2>1. \A t \in Gathered("rc_02", r, s1, s2, k) : t.uid # Passed2(r).uid
    BY <1>5, Labels DEF Gathered, Open, Joint, Single
  <2>2. Gathered("rc_02", r, s1, "atClient", k) = Gathered("rc_02", r, s1, s2, k) \cup {Single(Passed2(r))}
    BY <1>5 DEF Gathered, Open, Joint
  <2> QED BY <2>1, <2>2, Opens
<1>6. ASSUME s1 = "back"
      PROVE  Collect(Gathered("rs_01", r, s1, s2, k), Back1(r)) = Gathered("rs_01", r, "joined", s2, k)
  <2>1. CASE k = "atFirst"
    <3> DEFINE T == Open(s1 = "atServer", Sent1(r))
    <3>1. /\ Gathered("rs_01", r, s1, s2, k) = T \cup {Single(Key(r))}
          /\ Gathered("rs_01", r, "joined", s2, k) = T \cup {Pair(Back1(r), Key(r))}
      BY <1>6, <2>1 DEF Gathered, Open, Joint
    <3>2. Back1(r).uid = Key(r).uid /\ Back1(r).n_batches = Key(r).n_batches
      BY Labels
    <3>3. \A t \in T : t.uid # Back1(r).uid
      BY Labels DEF Open, Single
    <3> HIDE DEF T
    <3>4. Collect(T \cup {Single(Key(r))}, Back1(r)) = T \cup {Pair(Key(r), Back1(r))}
      BY <3>2, <3>3, Joins
    <3>5. Pair(Key(r), Back1(r)) = Pair(Back1(r), Key(r))
      BY <3>2, PairEither
    <3> QED BY <3>1, <3>4, <3>5
  <2>2. CASE k # "atFirst"
    <3>1. \A t \in Gathered("rs_01", r, s1, s2, k) : t.uid # Back1(r).uid
      BY <1>6, <2>2, Labels DEF Gathered, Open, Joint, Single
    <3>2. Gathered("rs_01", r, "joined", s2, k) = Gathered("rs_01", r, s1, s2, k) \cup {Single(Back1(r))}
      BY <1>6, <2>2 DEF Gathered, Open, Joint
    <3> QED BY <3>1, <3>2, Opens
  <2> QED BY <2>1, <2>2
<1>7. ASSUME s2 = "back"
      PROVE  Collect(Gathered("rs_02", r, s1, s2, k), Back2(r)) = Gathered("rs_02", r, s1, "joined", k)
  <2>1. CASE k = "atSecond"
    <3> DEFINE T == Open(s2 = "atServer", Sent2(r))
    <3>1. /\ Gathered("rs_02", r, s1, s2, k) = T \cup {Single(Half(r))}
          /\ Gathered("rs_02", r, s1, "joined", k) = T \cup {Pair(Back2(r), Half(r))}
      BY <1>7, <2>1 DEF Gathered, Open, Joint
    <3>2. Back2(r).uid = Half(r).uid /\ Back2(r).n_batches = Half(r).n_batches
      BY Labels
    <3>3. \A t \in T : t.uid # Back2(r).uid
      BY Labels DEF Open, Single
    <3> HIDE DEF T
    <3>4. Collect(T \cup {Single(Half(r))}, Back2(r)) = T \cup {Pair(Half(r), Back2(r))}
      BY <3>2, <3>3, Joins
    <3>5. Pair(Half(r), Back2(r)) = Pair(Back2(r), Half(r))
      BY <3>2, PairEither
    <3> QED BY <3>1, <3>4, <3>5
  <2>2. CASE k # "atSecond"
    <3>1. \A t \in Gathered("rs_02", r, s1, s2, k) : t.uid # Back2(r).uid
      BY <1>7, <2>2, Labels DEF Gathered, Open, Joint, Single
    <3>2. Gathered("rs_02", r, s1, "joined", k) = Gathered("rs_02", r, s1, s2, k) \cup {Single(Back2(r))}
      BY <1>7, <2>2 DEF Gathered, Open, Joint
    <3> QED BY <3>1, <3>2, Opens
  <2> QED BY <2>1, <2>2
<1>8. ASSUME k = "half"
      PROVE  Collect(Gathered("rs_02", r, s1, s2, k), Half(r)) = Gathered("rs_02", r, s1, s2, "atSecond")
  <2>1. CASE s2 = "joined"
    <3> DEFINE T == Open(s2 = "atServer", Sent2(r))
    <3>1. /\ Gathered("rs_02", r, s1, s2, k) = T \cup {Single(Back2(r))}
          /\ Gathered("rs_02", r, s1, s2, "atSecond") = T \cup {Pair(Back2(r), Half(r))}
      BY <1>8, <2>1 DEF Gathered, Open, Joint
    <3>2. Half(r).uid = Back2(r).uid /\ Half(r).n_batches = Back2(r).n_batches
      BY Labels
    <3>3. \A t \in T : t.uid # Half(r).uid
      BY Labels DEF Open, Single
    <3> HIDE DEF T
    <3>4. Collect(T \cup {Single(Back2(r))}, Half(r)) = T \cup {Pair(Back2(r), Half(r))}
      BY <3>2, <3>3, Joins
    <3>5. Pair(Back2(r), Half(r)) = Pair(Half(r), Back2(r))
      BY <3>2, PairEither
    <3> QED BY <3>1, <3>4, <3>5
  <2>2. CASE s2 # "joined"
    <3>1. \A t \in Gathered("rs_02", r, s1, s2, k) : t.uid # Half(r).uid
      BY <1>8, <2>2, Labels DEF Gathered, Open, Joint, Single
    <3>2. Gathered("rs_02", r, s1, s2, "atSecond") = Gathered("rs_02", r, s1, s2, k) \cup {Single(Half(r))}
      BY <1>8, <2>2 DEF Gathered, Open, Joint
    <3> QED BY <3>1, <3>2, Opens
  <2> QED BY <2>1, <2>2
<1>9. ASSUME k = "sum"
      PROVE  Collect(Gathered("rc_03", r, s1, s2, k), Sum(r)) = Gathered("rc_03", r, s1, s2, "arrived")
  <2>1. \A t \in Gathered("rc_03", r, s1, s2, k) : t.uid # Sum(r).uid
    BY <1>9, Labels DEF Gathered, Open, Joint, Single
  <2>2. Gathered("rc_03", r, s1, s2, "arrived") = Gathered("rc_03", r, s1, s2, k) \cup {Single(Sum(r))}
    BY <1>9 DEF Gathered, Open, Joint
  <2> QED BY <2>1, <2>2, Opens
<1> QED BY <1>1, <1>2, <1>3, <1>4, <1>5, <1>6, <1>7, <1>8, <1>9

\* A package arrives at a node, and opens a transaction or joins one.
LEMMA ReceiveKeeps ==
  ASSUME Progress, NEW s1 \in ShareStage, NEW s2 \in ShareStage, NEW k \in KeyStage,
         At(s1, s2, k), NEW n \in Node, NEW m \in Node, Receive(n, m)
  PROVE  IInv'
<1> DEFINE r == Round
           pack == Head(Under(n, m, r, s1, s2, k))
<1>1. /\ channel = Channels(r, s1, s2, k) /\ channel[n][m] = Under(n, m, r, s1, s2, k)
      /\ Under(n, m, r, s1, s2, k) # << >> /\ Take(n, m)
      /\ UNCHANGED <<pc, agg, round, q_recv>> /\ faults' \in 0 .. MaxFaults /\ r \in Nat
  BY RouterAssumption DEF At, Channels, Take, Receive, Progress
<1>2. trans' = Set(trans, m, Collect(Gathered(m, r, s1, s2, k), pack))
  <2>1. trans' = Set(trans, m, Collect(trans[m], Head(channel[n][m])))
    BY DEF Receive, Set, Collect
  <2>2. trans[m] = Gathered(m, r, s1, s2, k)
    BY DEF At, Transactions
  <2> QED BY <1>1, <2>1, <2>2
<1>3. ASSUME NEW t1 \in ShareStage, NEW t2 \in ShareStage, NEW l \in KeyStage,
             Shrinks(n, m, r, s1, s2, k, t1, t2, l),
             Collect(Gathered(m, r, s1, s2, k), pack) = Gathered(m, r, t1, t2, l),
             \A d \in Node \ {m} : Gathered(d, r, t1, t2, l) = Gathered(d, r, s1, s2, k),
             Queues(r, t1, t2, l) = Queues(r, s1, s2, k),
             [c \in Client |-> Counts(c, r, t1, t2)] = [c \in Client |-> Counts(c, r, s1, s2)],
             Causes(t1, t2, l)
      PROVE  IInv'
  <2>1. channel' = Channels(r, t1, t2, l)
    <3>1. /\ channel = Channels(r, s1, s2, k) /\ Take(n, m)
          /\ Shrinks(n, m, r, s1, s2, k, t1, t2, l)
      BY <1>1, <1>3
    <3> HIDE DEF r
    <3> QED BY <3>1, Taking
  <2>2. trans' = Transactions(r, t1, t2, l)
    <3>1. trans' = [d \in Node |-> IF d = m THEN Gathered(m, r, t1, t2, l)
                                            ELSE Gathered(d, r, s1, s2, k)]
      BY <1>2, <1>3 DEF At, Set, Transactions
    <3> QED BY <1>3, <3>1 DEF Transactions
  <2>3. q_recv' = Queues(r, t1, t2, l)
    BY <1>1, <1>3 DEF At
  <2>4. round' = [c \in Client |-> Counts(c, r, t1, t2)]
    BY <1>1, <1>3 DEF At
  <2>5. UNCHANGED <<pc, agg>> /\ faults' \in 0 .. MaxFaults /\ Causes(t1, t2, l)
    BY <1>1, <1>3
  <2> QED BY <2>1, <2>2, <2>3, <2>4, <2>5, Settles
<1>4. ASSUME m = "rs_01", s1 = "sent", pack = Sent1(r),
             Shrinks(n, m, r, s1, s2, k, "atServer", s2, k)
      PROVE  IInv'
  <2>1. Collect(Gathered(m, r, s1, s2, k), pack) = Gathered(m, r, "atServer", s2, k)
    BY <1>1, <1>4, Collected
  <2>2. \A d \in Node \ {m} : Gathered(d, r, "atServer", s2, k) = Gathered(d, r, s1, s2, k)
    BY <1>4 DEF Gathered, Open, Joint, Node, Client, Server
  <2>3. /\ Queues(r, "atServer", s2, k) = Queues(r, s1, s2, k)
        /\ [c \in Client |-> Counts(c, r, "atServer", s2)] = [c \in Client |-> Counts(c, r, s1, s2)]
    BY <1>4 DEF Queues, Waiting, Counts, Only, Returned
  <2>4. Causes("atServer", s2, k)
    BY <1>4 DEF At, Causes
  <2> QED BY <1>3, <1>4, <2>1, <2>2, <2>3, <2>4 DEF ShareStage, KeyStage
<1>5. ASSUME m = "rs_01", k = "sent", pack = Key(r),
             Shrinks(n, m, r, s1, s2, k, s1, s2, "atFirst")
      PROVE  IInv'
  <2>1. Collect(Gathered(m, r, s1, s2, k), pack) = Gathered(m, r, s1, s2, "atFirst")
    BY <1>1, <1>5, Collected
  <2>2. \A d \in Node \ {m} : Gathered(d, r, s1, s2, "atFirst") = Gathered(d, r, s1, s2, k)
    BY <1>5 DEF Gathered, Open, Joint, Node, Client, Server
  <2>3. /\ Queues(r, s1, s2, "atFirst") = Queues(r, s1, s2, k)
        /\ [c \in Client |-> Counts(c, r, s1, s2)] = [c \in Client |-> Counts(c, r, s1, s2)]
    BY <1>5 DEF Queues, Waiting, Counts, Only, Returned
  <2>4. Causes(s1, s2, "atFirst")
    BY <1>5 DEF At, Causes
  <2> QED BY <1>3, <1>5, <2>1, <2>2, <2>3, <2>4 DEF ShareStage, KeyStage
<1>6. ASSUME m = "rs_02", s2 = "sent", pack = Sent2(r),
             Shrinks(n, m, r, s1, s2, k, s1, "atServer", k)
      PROVE  IInv'
  <2>1. Collect(Gathered(m, r, s1, s2, k), pack) = Gathered(m, r, s1, "atServer", k)
    BY <1>1, <1>6, Collected
  <2>2. \A d \in Node \ {m} : Gathered(d, r, s1, "atServer", k) = Gathered(d, r, s1, s2, k)
    BY <1>6 DEF Gathered, Open, Joint, Node, Client, Server
  <2>3. /\ Queues(r, s1, "atServer", k) = Queues(r, s1, s2, k)
        /\ [c \in Client |-> Counts(c, r, s1, "atServer")] = [c \in Client |-> Counts(c, r, s1, s2)]
    BY <1>6 DEF Queues, Waiting, Counts, Only, Returned
  <2>4. Causes(s1, "atServer", k)
    BY <1>6 DEF At, Causes
  <2> QED BY <1>3, <1>6, <2>1, <2>2, <2>3, <2>4 DEF ShareStage, KeyStage
<1>7. ASSUME m = "rc_01", s1 = "passed", pack = Passed1(r),
             Shrinks(n, m, r, s1, s2, k, "atClient", s2, k)
      PROVE  IInv'
  <2>1. Collect(Gathered(m, r, s1, s2, k), pack) = Gathered(m, r, "atClient", s2, k)
    BY <1>1, <1>7, Collected
  <2>2. \A d \in Node \ {m} : Gathered(d, r, "atClient", s2, k) = Gathered(d, r, s1, s2, k)
    BY <1>7 DEF Gathered, Open, Joint, Node, Client, Server
  <2>3. /\ Queues(r, "atClient", s2, k) = Queues(r, s1, s2, k)
        /\ [c \in Client |-> Counts(c, r, "atClient", s2)] = [c \in Client |-> Counts(c, r, s1, s2)]
    BY <1>7 DEF Queues, Waiting, Counts, Only, Returned
  <2>4. Causes("atClient", s2, k)
    BY <1>7 DEF At, Causes
  <2> QED BY <1>3, <1>7, <2>1, <2>2, <2>3, <2>4 DEF ShareStage, KeyStage
<1>8. ASSUME m = "rc_02", s2 = "passed", pack = Passed2(r),
             Shrinks(n, m, r, s1, s2, k, s1, "atClient", k)
      PROVE  IInv'
  <2>1. Collect(Gathered(m, r, s1, s2, k), pack) = Gathered(m, r, s1, "atClient", k)
    BY <1>1, <1>8, Collected
  <2>2. \A d \in Node \ {m} : Gathered(d, r, s1, "atClient", k) = Gathered(d, r, s1, s2, k)
    BY <1>8 DEF Gathered, Open, Joint, Node, Client, Server
  <2>3. /\ Queues(r, s1, "atClient", k) = Queues(r, s1, s2, k)
        /\ [c \in Client |-> Counts(c, r, s1, "atClient")] = [c \in Client |-> Counts(c, r, s1, s2)]
    BY <1>8 DEF Queues, Waiting, Counts, Only, Returned
  <2>4. Causes(s1, "atClient", k)
    BY <1>8 DEF At, Causes
  <2> QED BY <1>3, <1>8, <2>1, <2>2, <2>3, <2>4 DEF ShareStage, KeyStage
<1>9. ASSUME m = "rs_01", s1 = "back", pack = Back1(r),
             Shrinks(n, m, r, s1, s2, k, "joined", s2, k)
      PROVE  IInv'
  <2>1. Collect(Gathered(m, r, s1, s2, k), pack) = Gathered(m, r, "joined", s2, k)
    BY <1>1, <1>9, Collected
  <2>2. \A d \in Node \ {m} : Gathered(d, r, "joined", s2, k) = Gathered(d, r, s1, s2, k)
    BY <1>9 DEF Gathered, Open, Joint, Node, Client, Server
  <2>3. /\ Queues(r, "joined", s2, k) = Queues(r, s1, s2, k)
        /\ [c \in Client |-> Counts(c, r, "joined", s2)] = [c \in Client |-> Counts(c, r, s1, s2)]
    BY <1>9 DEF Queues, Waiting, Counts, Only, Returned
  <2>4. Causes("joined", s2, k)
    BY <1>9 DEF At, Causes
  <2> QED BY <1>3, <1>9, <2>1, <2>2, <2>3, <2>4 DEF ShareStage, KeyStage
<1>10. ASSUME m = "rs_02", s2 = "back", pack = Back2(r),
             Shrinks(n, m, r, s1, s2, k, s1, "joined", k)
      PROVE  IInv'
  <2>1. Collect(Gathered(m, r, s1, s2, k), pack) = Gathered(m, r, s1, "joined", k)
    BY <1>1, <1>10, Collected
  <2>2. \A d \in Node \ {m} : Gathered(d, r, s1, "joined", k) = Gathered(d, r, s1, s2, k)
    BY <1>10 DEF Gathered, Open, Joint, Node, Client, Server
  <2>3. /\ Queues(r, s1, "joined", k) = Queues(r, s1, s2, k)
        /\ [c \in Client |-> Counts(c, r, s1, "joined")] = [c \in Client |-> Counts(c, r, s1, s2)]
    BY <1>10 DEF Queues, Waiting, Counts, Only, Returned
  <2>4. Causes(s1, "joined", k)
    BY <1>10 DEF At, Causes
  <2> QED BY <1>3, <1>10, <2>1, <2>2, <2>3, <2>4 DEF ShareStage, KeyStage
<1>11. ASSUME m = "rs_02", k = "half", pack = Half(r),
             Shrinks(n, m, r, s1, s2, k, s1, s2, "atSecond")
      PROVE  IInv'
  <2>1. Collect(Gathered(m, r, s1, s2, k), pack) = Gathered(m, r, s1, s2, "atSecond")
    BY <1>1, <1>11, Collected
  <2>2. \A d \in Node \ {m} : Gathered(d, r, s1, s2, "atSecond") = Gathered(d, r, s1, s2, k)
    BY <1>11 DEF Gathered, Open, Joint, Node, Client, Server
  <2>3. /\ Queues(r, s1, s2, "atSecond") = Queues(r, s1, s2, k)
        /\ [c \in Client |-> Counts(c, r, s1, s2)] = [c \in Client |-> Counts(c, r, s1, s2)]
    BY <1>11 DEF Queues, Waiting, Counts, Only, Returned
  <2>4. Causes(s1, s2, "atSecond")
    BY <1>11 DEF At, Causes
  <2> QED BY <1>3, <1>11, <2>1, <2>2, <2>3, <2>4 DEF ShareStage, KeyStage
<1>12. ASSUME m = "rc_03", k = "sum", pack = Sum(r),
             Shrinks(n, m, r, s1, s2, k, s1, s2, "arrived")
      PROVE  IInv'
  <2>1. Collect(Gathered(m, r, s1, s2, k), pack) = Gathered(m, r, s1, s2, "arrived")
    BY <1>1, <1>12, Collected
  <2>2. \A d \in Node \ {m} : Gathered(d, r, s1, s2, "arrived") = Gathered(d, r, s1, s2, k)
    BY <1>12 DEF Gathered, Open, Joint, Node, Client, Server
  <2>3. /\ Queues(r, s1, s2, "arrived") = Queues(r, s1, s2, k)
        /\ [c \in Client |-> Counts(c, r, s1, s2)] = [c \in Client |-> Counts(c, r, s1, s2)]
    BY <1>12 DEF Queues, Waiting, Counts, Only, Returned
  <2>4. Causes(s1, s2, "arrived")
    BY <1>12 DEF At, Causes
  <2> QED BY <1>3, <1>12, <2>1, <2>2, <2>3, <2>4 DEF ShareStage, KeyStage
<1>13. /\ "atServer" \in Landed /\ "atClient" \in Landed /\ "joined" \in Landed
       /\ "atFirst" \in LandedKey /\ "atSecond" \in LandedKey /\ "arrived" \in LandedKey
  BY DEF Landed, LandedKey, ShareStage, KeyStage
<1>14. \/ m = "rs_01" /\ s1 = "sent" /\ pack = Sent1(r) /\ Shrinks(n, m, r, s1, s2, k, "atServer", s2, k)
       \/ m = "rs_01" /\ k = "sent" /\ pack = Key(r) /\ Shrinks(n, m, r, s1, s2, k, s1, s2, "atFirst")
       \/ m = "rs_02" /\ s2 = "sent" /\ pack = Sent2(r) /\ Shrinks(n, m, r, s1, s2, k, s1, "atServer", k)
       \/ m = "rc_01" /\ s1 = "passed" /\ pack = Passed1(r) /\ Shrinks(n, m, r, s1, s2, k, "atClient", s2, k)
       \/ m = "rc_02" /\ s2 = "passed" /\ pack = Passed2(r) /\ Shrinks(n, m, r, s1, s2, k, s1, "atClient", k)
       \/ m = "rs_01" /\ s1 = "back" /\ pack = Back1(r) /\ Shrinks(n, m, r, s1, s2, k, "joined", s2, k)
       \/ m = "rs_02" /\ s2 = "back" /\ pack = Back2(r) /\ Shrinks(n, m, r, s1, s2, k, s1, "joined", k)
       \/ m = "rs_02" /\ k = "half" /\ pack = Half(r) /\ Shrinks(n, m, r, s1, s2, k, s1, s2, "atSecond")
       \/ m = "rc_03" /\ k = "sum" /\ pack = Sum(r) /\ Shrinks(n, m, r, s1, s2, k, s1, s2, "arrived")
  BY <1>1, <1>13, Arrivals
<1> QED BY <1>4, <1>5, <1>6, <1>7, <1>8, <1>9, <1>10, <1>11, <1>12, <1>14

\* A share and a key in one transaction become one package.
LEMMA DispatchesPair ==
  ASSUME NEW s, NEW share, NEW key,
         share.process = "ss2he", share.encryption = "ss",
         key.process = "ss2he", key.encryption = "he"
  PROVE  Dispatched(s, Pair(share, key))
           = {IF key.source_id \in Client
              THEN Like(key, s, router_table[s].rs[1], 2, share.data)
              ELSE Like(key, s, router_table[s].rc[2], 1, share.data \cup key.data)}
<1> DEFINE packs == {share, key}
           G(p, q) == IF p.source_id \in Client
                      THEN Like(p, s, router_table[s].rs[1], 2, q.data)
                      ELSE Like(p, s, router_table[s].rc[2], 1, q.data \cup p.data)
           A == {Like(p, s, router_table[s].rc[1], p.n_batches, p.data) :
                   p \in {q \in packs : q.process = "he2ss"}}
           B == {G(p, q) :
                   p \in {q \in packs : q.process = "ss2he" /\ q.encryption = "he"},
                   q \in {q \in packs : q.process = "ss2he" /\ q.encryption = "ss"}}
<1>1. Dispatched(s, Pair(share, key)) = A \cup B
  <2>1. Pair(share, key).packs = packs
    BY DEF Pair
  <2> QED BY <2>1 DEF Dispatched
<1>2. \A q \in packs : q.process # "he2ss"
  OBVIOUS
<1>3. \A p, q \in packs : (/\ p.process = "ss2he" /\ p.encryption = "he"
                           /\ q.process = "ss2he" /\ q.encryption = "ss")
                             <=> (p = key /\ q = share)
  OBVIOUS
<1>4. share \in packs /\ key \in packs
  OBVIOUS
<1> HIDE DEF packs, G
<1>5. A = {}
  BY <1>2
<1>6. \A x : x \in B <=> \E p, q \in packs : /\ p.process = "ss2he" /\ p.encryption = "he"
                                             /\ q.process = "ss2he" /\ q.encryption = "ss"
                                             /\ x = G(p, q)
  OBVIOUS
<1>7. B = {G(key, share)}
  <2> HIDE DEF B
  <2>1. \A x : x \in B <=> x = G(key, share)
    BY <1>3, <1>4, <1>6
  <2> QED BY <2>1
<1>8. Dispatched(s, Pair(share, key)) = {G(key, share)}
  <2> HIDE DEF A, B
  <2> QED BY <1>1, <1>5, <1>7
<1> QED BY <1>8 DEF G

\* What becomes of the complete transactions of a server.
LEMMA Dispatching ==
  ASSUME NEW r \in Nat
  PROVE  /\ Dispatched("rs_01", Single(Sent1(r))) = {Passed1(r)}
         /\ Dispatched("rs_02", Single(Sent2(r))) = {Passed2(r)}
         /\ Dispatched("rs_01", Pair(Back1(r), Key(r))) = {Half(r)}
         /\ Dispatched("rs_02", Pair(Back2(r), Half(r))) = {Sum(r)}
<1>1. /\ router_table["rs_01"].rs[1] = "rs_02" /\ router_table["rs_01"].rc[1] = "rc_01"
      /\ router_table["rs_02"].rc[1] = "rc_02" /\ router_table["rs_02"].rc[2] = "rc_03"
  BY DEF router_table
<1>2. /\ Sent1(r).process = "he2ss" /\ Sent1(r).n_batches = 1
      /\ Sent2(r).process = "he2ss" /\ Sent2(r).n_batches = 1
      /\ Back1(r).process = "ss2he" /\ Back1(r).encryption = "ss"
      /\ Back2(r).process = "ss2he" /\ Back2(r).encryption = "ss"
      /\ Key(r).process = "ss2he" /\ Key(r).encryption = "he" /\ Key(r).source_id \in Client
      /\ Half(r).process = "ss2he" /\ Half(r).encryption = "he" /\ Half(r).source_id \notin Client
  BY DEF Sent1, Sent2, Back1, Back2, Key, Half, Pack, Client
<1>3. /\ Single(Sent1(r)).packs = {Sent1(r)} /\ Single(Sent2(r)).packs = {Sent2(r)}
      /\ Pair(Back1(r), Key(r)).packs = {Back1(r), Key(r)}
      /\ Pair(Back2(r), Half(r)).packs = {Back2(r), Half(r)}
  BY DEF Single, Pair
<1>4. Dispatched("rs_01", Single(Sent1(r))) = {Passed1(r)}
  <2>1. Dispatched("rs_01", Single(Sent1(r)))
          = {Like(Sent1(r), "rs_01", "rc_01", 1, Sent1(r).data)}
    BY <1>1, <1>2, <1>3 DEF Dispatched
  <2> QED BY <2>1, Passing
<1>5. Dispatched("rs_02", Single(Sent2(r))) = {Passed2(r)}
  <2>1. Dispatched("rs_02", Single(Sent2(r)))
          = {Like(Sent2(r), "rs_02", "rc_02", 1, Sent2(r).data)}
    BY <1>1, <1>2, <1>3 DEF Dispatched
  <2> QED BY <2>1, Passing
<1>6. Dispatched("rs_01", Pair(Back1(r), Key(r))) = {Half(r)}
  <2>1. Dispatched("rs_01", Pair(Back1(r), Key(r)))
          = {Like(Key(r), "rs_01", "rs_02", 2, Back1(r).data)}
    BY <1>1, <1>2, DispatchesPair
  <2> QED BY <2>1, Passing
<1>7. Dispatched("rs_02", Pair(Back2(r), Half(r))) = {Sum(r)}
  <2>1. Dispatched("rs_02", Pair(Back2(r), Half(r)))
          = {Like(Half(r), "rs_02", "rc_03", 1, Back2(r).data \cup Half(r).data)}
    BY <1>1, <1>2, DispatchesPair
  <2> QED BY <2>1, Passing
<1> QED BY <1>4, <1>5, <1>6, <1>7

\* The transactions of a node: which of them are complete, and what is left
\* of its transactions without one of them.
LEMMA Held ==
  ASSUME NEW r \in Nat, NEW s1, NEW s2, NEW k, NEW n \in Node,
         NEW t \in Gathered(n, r, s1, s2, k)
  PROVE  \/ /\ n = "rs_01" /\ s1 = "atServer" /\ t = Single(Sent1(r)) /\ Complete(t)
            /\ Gathered(n, r, s1, s2, k) \ {t} = Gathered(n, r, "passed", s2, k)
         \/ /\ n = "rs_01" /\ s1 = "joined" /\ k = "atFirst" /\ t = Pair(Back1(r), Key(r)) /\ Complete(t)
            /\ Gathered(n, r, s1, s2, k) \ {t} = Gathered(n, r, "gone", s2, "half")
         \/ /\ n = "rs_01" /\ s1 = "joined" /\ k # "atFirst" /\ t = Single(Back1(r)) /\ ~ Complete(t)
            /\ Gathered(n, r, s1, s2, k) \ {t} = Gathered(n, r, "gone", s2, k)
         \/ /\ n = "rs_01" /\ s1 # "joined" /\ k = "atFirst" /\ t = Single(Key(r)) /\ ~ Complete(t)
            /\ Gathered(n, r, s1, s2, k) \ {t} = Gathered(n, r, s1, s2, "lost")
         \/ /\ n = "rs_02" /\ s2 = "atServer" /\ t = Single(Sent2(r)) /\ Complete(t)
            /\ Gathered(n, r, s1, s2, k) \ {t} = Gathered(n, r, s1, "passed", k)
         \/ /\ n = "rs_02" /\ s2 = "joined" /\ k = "atSecond" /\ t = Pair(Back2(r), Half(r)) /\ Complete(t)
            /\ Gathered(n, r, s1, s2, k) \ {t} = Gathered(n, r, s1, "gone", "sum")
         \/ /\ n = "rs_02" /\ s2 = "joined" /\ k # "atSecond" /\ t = Single(Back2(r)) /\ ~ Complete(t)
            /\ Gathered(n, r, s1, s2, k) \ {t} = Gathered(n, r, s1, "gone", k)
         \/ /\ n = "rs_02" /\ s2 # "joined" /\ k = "atSecond" /\ t = Single(Half(r)) /\ ~ Complete(t)
            /\ Gathered(n, r, s1, s2, k) \ {t} = Gathered(n, r, s1, s2, "lost")
         \/ /\ n = "rc_01" /\ s1 = "atClient" /\ t = Single(Passed1(r)) /\ Complete(t)
            /\ Gathered(n, r, s1, s2, k) \ {t} = Gathered(n, r, "taken", s2, k)
         \/ /\ n = "rc_02" /\ s2 = "atClient" /\ t = Single(Passed2(r)) /\ Complete(t)
            /\ Gathered(n, r, s1, s2, k) \ {t} = Gathered(n, r, s1, "taken", k)
         \/ /\ n = "rc_03" /\ k = "arrived" /\ t = Single(Sum(r)) /\ Complete(t)
            /\ Gathered(n, r, s1, s2, k) \ {t} = Gathered(n, r, s1, s2, "answer")
<1>1. /\ Complete(Single(Sent1(r))) /\ Complete(Single(Sent2(r)))
      /\ Complete(Single(Passed1(r))) /\ Complete(Single(Passed2(r)))
      /\ Complete(Single(Sum(r)))
      /\ Complete(Pair(Back1(r), Key(r))) /\ Complete(Pair(Back2(r), Half(r)))
      /\ ~ Complete(Single(Back1(r))) /\ ~ Complete(Single(Back2(r)))
      /\ ~ Complete(Single(Key(r))) /\ ~ Complete(Single(Half(r)))
  BY Completes, CompletesPair, Labels
<1>2. /\ Single(Sent1(r)).uid # Single(Back1(r)).uid /\ Single(Sent1(r)).uid # Single(Key(r)).uid
      /\ Single(Sent2(r)).uid # Single(Back2(r)).uid /\ Single(Sent2(r)).uid # Single(Half(r)).uid
  BY Labels DEF Single
<1>3. CASE n = "rs_01"
  <2>1. Gathered(n, r, s1, s2, k) = Open(s1 = "atServer", Sent1(r))
                        \cup Joint(s1 = "joined", Back1(r), k = "atFirst", Key(r))
    BY <1>3 DEF Gathered
  <2>2. \A u1, u2, l : Gathered(n, r, u1, u2, l) = Open(u1 = "atServer", Sent1(r))
                        \cup Joint(u1 = "joined", Back1(r), l = "atFirst", Key(r))
    BY <1>3 DEF Gathered
  <2> QED BY <1>1, <1>2, <1>3, <2>1, <2>2 DEF Open, Joint
<1>4. CASE n = "rs_02"
  <2>1. Gathered(n, r, s1, s2, k) = Open(s2 = "atServer", Sent2(r))
                        \cup Joint(s2 = "joined", Back2(r), k = "atSecond", Half(r))
    BY <1>4 DEF Gathered
  <2>2. \A u1, u2, l : Gathered(n, r, u1, u2, l) = Open(u2 = "atServer", Sent2(r))
                        \cup Joint(u2 = "joined", Back2(r), l = "atSecond", Half(r))
    BY <1>4 DEF Gathered
  <2> QED BY <1>1, <1>2, <1>4, <2>1, <2>2 DEF Open, Joint
<1>5. CASE n \in Client
  BY <1>1, <1>5 DEF Gathered, Open, Client
<1> QED BY <1>3, <1>4, <1>5 DEF Node, Server

\* What an incomplete transaction held is lost for good, like a lost package.
LEMMA DropTransactionKeeps ==
  ASSUME Progress, NEW s1 \in ShareStage, NEW s2 \in ShareStage, NEW k \in KeyStage,
         At(s1, s2, k), NEW n \in Node, DropTransaction(n)
  PROVE  IInv'
<1> DEFINE r == Round
<1>1. /\ trans[n] = Gathered(n, r, s1, s2, k) /\ trans = Transactions(r, s1, s2, k)
      /\ UNCHANGED <<pc, agg, round, channel, q_recv>> /\ faults' \in 0 .. MaxFaults /\ r \in Nat
  BY RouterAssumption DEF At, Transactions, DropTransaction, Fault, Progress
<1>2. PICK t \in Gathered(n, r, s1, s2, k) :
        ~ Complete(t) /\ trans' = Set(trans, n, trans[n] \ {t})
  BY <1>1 DEF DropTransaction, Set
<1>3. ASSUME NEW t1 \in ShareStage, NEW t2 \in ShareStage, NEW l \in KeyStage,
             Gathered(n, r, s1, s2, k) \ {t} = Gathered(n, r, t1, t2, l),
             \A d \in Node \ {n} : Gathered(d, r, t1, t2, l) = Gathered(d, r, s1, s2, k),
             Channels(r, t1, t2, l) = Channels(r, s1, s2, k),
             Queues(r, t1, t2, l) = Queues(r, s1, s2, k),
             [c \in Client |-> Counts(c, r, t1, t2)] = [c \in Client |-> Counts(c, r, s1, s2)],
             Causes(t1, t2, l)
      PROVE  IInv'
  <2>1. channel' = Channels(r, t1, t2, l)
    BY <1>1, <1>3 DEF At
  <2>2. trans' = Transactions(r, t1, t2, l)
    <3>1. trans' = [d \in Node |-> IF d = n THEN Gathered(n, r, t1, t2, l)
                                            ELSE Gathered(d, r, s1, s2, k)]
      BY <1>1, <1>2, <1>3 DEF Set, Transactions
    <3> QED BY <1>3, <3>1 DEF Transactions
  <2>3. q_recv' = Queues(r, t1, t2, l)
    BY <1>1, <1>3 DEF At
  <2>4. round' = [c \in Client |-> Counts(c, r, t1, t2)]
    BY <1>1, <1>3 DEF At
  <2>5. UNCHANGED <<pc, agg>> /\ faults' \in 0 .. MaxFaults /\ Causes(t1, t2, l)
    BY <1>1, <1>3
  <2> QED BY <2>1, <2>2, <2>3, <2>4, <2>5, Settles
<1>4. ASSUME n = "rs_01", s1 = "joined" /\ k # "atFirst",
             Gathered(n, r, s1, s2, k) \ {t} = Gathered(n, r, "gone", s2, k)
      PROVE  IInv'
  <2>1. \A d \in Node \ {n} : Gathered(d, r, "gone", s2, k) = Gathered(d, r, s1, s2, k)
    BY <1>4 DEF Gathered, Open, Joint, Node, Client, Server
  <2>2. Channels(r, "gone", s2, k) = Channels(r, s1, s2, k)
    BY <1>4 DEF Channels, Under, Only
  <2>3. /\ Queues(r, "gone", s2, k) = Queues(r, s1, s2, k)
        /\ [c \in Client |-> Counts(c, r, "gone", s2)] = [c \in Client |-> Counts(c, r, s1, s2)]
    BY <1>4 DEF Queues, Waiting, Counts, Only, Returned
  <2>4. Causes("gone", s2, k)
    BY <1>4 DEF At, Causes
  <2> QED BY <1>3, <1>4, <2>1, <2>2, <2>3, <2>4 DEF ShareStage, KeyStage
<1>5. ASSUME n = "rs_01", s1 # "joined" /\ k = "atFirst",
             Gathered(n, r, s1, s2, k) \ {t} = Gathered(n, r, s1, s2, "lost")
      PROVE  IInv'
  <2>1. \A d \in Node \ {n} : Gathered(d, r, s1, s2, "lost") = Gathered(d, r, s1, s2, k)
    BY <1>5 DEF Gathered, Open, Joint, Node, Client, Server
  <2>2. Channels(r, s1, s2, "lost") = Channels(r, s1, s2, k)
    BY <1>5 DEF Channels, Under, Only
  <2>3. /\ Queues(r, s1, s2, "lost") = Queues(r, s1, s2, k)
        /\ [c \in Client |-> Counts(c, r, s1, s2)] = [c \in Client |-> Counts(c, r, s1, s2)]
    BY <1>5 DEF Queues, Waiting, Counts, Only, Returned
  <2>4. Causes(s1, s2, "lost")
    BY <1>5 DEF At, Causes
  <2> QED BY <1>3, <1>5, <2>1, <2>2, <2>3, <2>4 DEF ShareStage, KeyStage
<1>6. ASSUME n = "rs_02", s2 = "joined" /\ k # "atSecond",
             Gathered(n, r, s1, s2, k) \ {t} = Gathered(n, r, s1, "gone", k)
      PROVE  IInv'
  <2>1. \A d \in Node \ {n} : Gathered(d, r, s1, "gone", k) = Gathered(d, r, s1, s2, k)
    BY <1>6 DEF Gathered, Open, Joint, Node, Client, Server
  <2>2. Channels(r, s1, "gone", k) = Channels(r, s1, s2, k)
    BY <1>6 DEF Channels, Under, Only
  <2>3. /\ Queues(r, s1, "gone", k) = Queues(r, s1, s2, k)
        /\ [c \in Client |-> Counts(c, r, s1, "gone")] = [c \in Client |-> Counts(c, r, s1, s2)]
    BY <1>6 DEF Queues, Waiting, Counts, Only, Returned
  <2>4. Causes(s1, "gone", k)
    BY <1>6 DEF At, Causes
  <2> QED BY <1>3, <1>6, <2>1, <2>2, <2>3, <2>4 DEF ShareStage, KeyStage
<1>7. ASSUME n = "rs_02", s2 # "joined" /\ k = "atSecond",
             Gathered(n, r, s1, s2, k) \ {t} = Gathered(n, r, s1, s2, "lost")
      PROVE  IInv'
  <2>1. \A d \in Node \ {n} : Gathered(d, r, s1, s2, "lost") = Gathered(d, r, s1, s2, k)
    BY <1>7 DEF Gathered, Open, Joint, Node, Client, Server
  <2>2. Channels(r, s1, s2, "lost") = Channels(r, s1, s2, k)
    BY <1>7 DEF Channels, Under, Only
  <2>3. /\ Queues(r, s1, s2, "lost") = Queues(r, s1, s2, k)
        /\ [c \in Client |-> Counts(c, r, s1, s2)] = [c \in Client |-> Counts(c, r, s1, s2)]
    BY <1>7 DEF Queues, Waiting, Counts, Only, Returned
  <2>4. Causes(s1, s2, "lost")
    BY <1>7 DEF At, Causes
  <2> QED BY <1>3, <1>7, <2>1, <2>2, <2>3, <2>4 DEF ShareStage, KeyStage
<1>8. \/ n = "rs_01" /\ s1 = "joined" /\ k # "atFirst" /\ Gathered(n, r, s1, s2, k) \ {t} = Gathered(n, r, "gone", s2, k)
      \/ n = "rs_01" /\ s1 # "joined" /\ k = "atFirst" /\ Gathered(n, r, s1, s2, k) \ {t} = Gathered(n, r, s1, s2, "lost")
      \/ n = "rs_02" /\ s2 = "joined" /\ k # "atSecond" /\ Gathered(n, r, s1, s2, k) \ {t} = Gathered(n, r, s1, "gone", k)
      \/ n = "rs_02" /\ s2 # "joined" /\ k = "atSecond" /\ Gathered(n, r, s1, s2, k) \ {t} = Gathered(n, r, s1, s2, "lost")
  BY <1>1, <1>2, Held
<1> QED BY <1>4, <1>5, <1>6, <1>7, <1>8

\* A complete transaction becomes a package further on, or one for the program.
LEMMA DispatchKeeps ==
  ASSUME Progress, NEW s1 \in ShareStage, NEW s2 \in ShareStage, NEW k \in KeyStage,
         At(s1, s2, k), NEW n \in Node, Dispatch(n)
  PROVE  IInv'
<1> DEFINE r == Round
<1>1. /\ trans[n] = Gathered(n, r, s1, s2, k) /\ trans = Transactions(r, s1, s2, k)
      /\ UNCHANGED <<pc, agg, round>> /\ faults' \in 0 .. MaxFaults /\ r \in Nat
  BY RouterAssumption DEF At, Transactions, Dispatch, Progress
<1>2. PICK t \in Gathered(n, r, s1, s2, k) :
        /\ Complete(t) /\ trans' = Set(trans, n, trans[n] \ {t})
        /\ n \in Client =>
             /\ \E pack \in t.packs : q_recv' = Set(q_recv, n, Append(q_recv[n], pack))
             /\ UNCHANGED channel
        /\ n \notin Client =>
             /\ \/ \E pack \in Dispatched(n, t) : Send(pack)
                \/ Dispatched(n, t) = {}
             /\ UNCHANGED q_recv
  BY <1>1 DEF Dispatch, Set
<1>3. ASSUME NEW t1 \in ShareStage, NEW t2 \in ShareStage, NEW l \in KeyStage,
             Gathered(n, r, s1, s2, k) \ {t} = Gathered(n, r, t1, t2, l),
             \A d \in Node \ {n} : Gathered(d, r, t1, t2, l) = Gathered(d, r, s1, s2, k),
             channel' = Channels(r, t1, t2, l),
             q_recv' = Queues(r, t1, t2, l),
             [c \in Client |-> Counts(c, r, t1, t2)] = [c \in Client |-> Counts(c, r, s1, s2)],
             Causes(t1, t2, l)
      PROVE  IInv'
  <2>1. trans' = Transactions(r, t1, t2, l)
    <3>1. trans' = [d \in Node |-> IF d = n THEN Gathered(n, r, t1, t2, l)
                                            ELSE Gathered(d, r, s1, s2, k)]
      BY <1>1, <1>2, <1>3 DEF Set, Transactions
    <3> QED BY <1>3, <3>1 DEF Transactions
  <2>2. round' = [c \in Client |-> Counts(c, r, t1, t2)]
    BY <1>1, <1>3 DEF At
  <2>3. UNCHANGED <<pc, agg>> /\ faults' \in 0 .. MaxFaults /\ Causes(t1, t2, l)
        /\ channel' = Channels(r, t1, t2, l) /\ q_recv' = Queues(r, t1, t2, l)
    BY <1>1, <1>3
  <2> QED BY <2>1, <2>2, <2>3, Settles
<1>4. ASSUME n = "rs_01", s1 = "atServer", t = Single(Sent1(r)),
             Gathered(n, r, s1, s2, k) \ {t} = Gathered(n, r, "passed", s2, k)
      PROVE  IInv'
  <2>1. \A d \in Node \ {n} : Gathered(d, r, "passed", s2, k) = Gathered(d, r, s1, s2, k)
    BY <1>4 DEF Gathered, Open, Joint, Node, Client, Server
  <2>2. [c \in Client |-> Counts(c, r, "passed", s2)] = [c \in Client |-> Counts(c, r, s1, s2)]
    BY <1>4 DEF Counts, Returned
  <2>3. Causes("passed", s2, k)
    BY <1>4 DEF At, Causes
  <2>4. channel' = Channels(r, "passed", s2, k)
    <3>1. Dispatched(n, t) = {Passed1(r)} /\ n \notin Client
      BY <1>1, <1>4, Dispatching DEF Client
    <3>2. channel = Channels(r, s1, s2, k) /\ Send(Passed1(r))
      BY <1>2, <3>1 DEF At
    <3>3. Passed1(r).source_id = "rs_01" /\ Passed1(r).target_id = "rc_01"
      BY DEF Passed1, Pack
    <3>4. "rs_01" \in Node /\ "rc_01" \in Node
      BY DEF Node, Client, Server
    <3>5. Grows("rs_01", "rc_01", Passed1(r), r, s1, s2, k, "passed", s2, k)
      BY <1>4 DEF At, Causes, Grows, Elsewhere, Under, Only
    <3>6. Grows(Passed1(r).source_id, Passed1(r).target_id, Passed1(r), r, s1, s2, k, "passed", s2, k)
      BY <3>3, <3>5
    <3> HIDE DEF r
    <3> QED BY <3>2, <3>3, <3>4, <3>6, Sending
  <2>5. q_recv' = Queues(r, "passed", s2, k)
    BY <1>2, <1>4 DEF At, Queues, Waiting, Only, Client
  <2> QED BY <1>3, <1>4, <2>1, <2>2, <2>3, <2>4, <2>5 DEF ShareStage, KeyStage
<1>5. ASSUME n = "rs_01", s1 = "joined" /\ k = "atFirst", t = Pair(Back1(r), Key(r)),
             Gathered(n, r, s1, s2, k) \ {t} = Gathered(n, r, "gone", s2, "half")
      PROVE  IInv'
  <2>1. \A d \in Node \ {n} : Gathered(d, r, "gone", s2, "half") = Gathered(d, r, s1, s2, k)
    BY <1>5 DEF Gathered, Open, Joint, Node, Client, Server
  <2>2. [c \in Client |-> Counts(c, r, "gone", s2)] = [c \in Client |-> Counts(c, r, s1, s2)]
    BY <1>5 DEF Counts, Returned
  <2>3. Causes("gone", s2, "half")
    BY <1>5 DEF At, Causes
  <2>4. channel' = Channels(r, "gone", s2, "half")
    <3>1. Dispatched(n, t) = {Half(r)} /\ n \notin Client
      BY <1>1, <1>5, Dispatching DEF Client
    <3>2. channel = Channels(r, s1, s2, k) /\ Send(Half(r))
      BY <1>2, <3>1 DEF At
    <3>3. Half(r).source_id = "rs_01" /\ Half(r).target_id = "rs_02"
      BY DEF Half, Pack
    <3>4. "rs_01" \in Node /\ "rs_02" \in Node
      BY DEF Node, Client, Server
    <3>5. Grows("rs_01", "rs_02", Half(r), r, s1, s2, k, "gone", s2, "half")
      BY <1>5 DEF At, Causes, Grows, Elsewhere, Under, Only
    <3>6. Grows(Half(r).source_id, Half(r).target_id, Half(r), r, s1, s2, k, "gone", s2, "half")
      BY <3>3, <3>5
    <3> HIDE DEF r
    <3> QED BY <3>2, <3>3, <3>4, <3>6, Sending
  <2>5. q_recv' = Queues(r, "gone", s2, "half")
    BY <1>2, <1>5 DEF At, Queues, Waiting, Only, Client
  <2> QED BY <1>3, <1>5, <2>1, <2>2, <2>3, <2>4, <2>5 DEF ShareStage, KeyStage
<1>6. ASSUME n = "rs_02", s2 = "atServer", t = Single(Sent2(r)),
             Gathered(n, r, s1, s2, k) \ {t} = Gathered(n, r, s1, "passed", k)
      PROVE  IInv'
  <2>1. \A d \in Node \ {n} : Gathered(d, r, s1, "passed", k) = Gathered(d, r, s1, s2, k)
    BY <1>6 DEF Gathered, Open, Joint, Node, Client, Server
  <2>2. [c \in Client |-> Counts(c, r, s1, "passed")] = [c \in Client |-> Counts(c, r, s1, s2)]
    BY <1>6 DEF Counts, Returned
  <2>3. Causes(s1, "passed", k)
    BY <1>6 DEF At, Causes
  <2>4. channel' = Channels(r, s1, "passed", k)
    <3>1. Dispatched(n, t) = {Passed2(r)} /\ n \notin Client
      BY <1>1, <1>6, Dispatching DEF Client
    <3>2. channel = Channels(r, s1, s2, k) /\ Send(Passed2(r))
      BY <1>2, <3>1 DEF At
    <3>3. Passed2(r).source_id = "rs_02" /\ Passed2(r).target_id = "rc_02"
      BY DEF Passed2, Pack
    <3>4. "rs_02" \in Node /\ "rc_02" \in Node
      BY DEF Node, Client, Server
    <3>5. Grows("rs_02", "rc_02", Passed2(r), r, s1, s2, k, s1, "passed", k)
      BY <1>6 DEF At, Causes, Grows, Elsewhere, Under, Only
    <3>6. Grows(Passed2(r).source_id, Passed2(r).target_id, Passed2(r), r, s1, s2, k, s1, "passed", k)
      BY <3>3, <3>5
    <3> HIDE DEF r
    <3> QED BY <3>2, <3>3, <3>4, <3>6, Sending
  <2>5. q_recv' = Queues(r, s1, "passed", k)
    BY <1>2, <1>6 DEF At, Queues, Waiting, Only, Client
  <2> QED BY <1>3, <1>6, <2>1, <2>2, <2>3, <2>4, <2>5 DEF ShareStage, KeyStage
<1>7. ASSUME n = "rs_02", s2 = "joined" /\ k = "atSecond", t = Pair(Back2(r), Half(r)),
             Gathered(n, r, s1, s2, k) \ {t} = Gathered(n, r, s1, "gone", "sum")
      PROVE  IInv'
  <2>1. \A d \in Node \ {n} : Gathered(d, r, s1, "gone", "sum") = Gathered(d, r, s1, s2, k)
    BY <1>7 DEF Gathered, Open, Joint, Node, Client, Server
  <2>2. [c \in Client |-> Counts(c, r, s1, "gone")] = [c \in Client |-> Counts(c, r, s1, s2)]
    BY <1>7 DEF Counts, Returned
  <2>3. Causes(s1, "gone", "sum")
    BY <1>7 DEF At, Causes
  <2>4. channel' = Channels(r, s1, "gone", "sum")
    <3>1. Dispatched(n, t) = {Sum(r)} /\ n \notin Client
      BY <1>1, <1>7, Dispatching DEF Client
    <3>2. channel = Channels(r, s1, s2, k) /\ Send(Sum(r))
      BY <1>2, <3>1 DEF At
    <3>3. Sum(r).source_id = "rs_02" /\ Sum(r).target_id = "rc_03"
      BY DEF Sum, Pack
    <3>4. "rs_02" \in Node /\ "rc_03" \in Node
      BY DEF Node, Client, Server
    <3>5. Grows("rs_02", "rc_03", Sum(r), r, s1, s2, k, s1, "gone", "sum")
      BY <1>7 DEF At, Causes, Grows, Elsewhere, Under, Only
    <3>6. Grows(Sum(r).source_id, Sum(r).target_id, Sum(r), r, s1, s2, k, s1, "gone", "sum")
      BY <3>3, <3>5
    <3> HIDE DEF r
    <3> QED BY <3>2, <3>3, <3>4, <3>6, Sending
  <2>5. q_recv' = Queues(r, s1, "gone", "sum")
    BY <1>2, <1>7 DEF At, Queues, Waiting, Only, Client
  <2> QED BY <1>3, <1>7, <2>1, <2>2, <2>3, <2>4, <2>5 DEF ShareStage, KeyStage
<1>8. ASSUME n = "rc_01", s1 = "atClient", t = Single(Passed1(r)),
             Gathered(n, r, s1, s2, k) \ {t} = Gathered(n, r, "taken", s2, k)
      PROVE  IInv'
  <2>1. \A d \in Node \ {n} : Gathered(d, r, "taken", s2, k) = Gathered(d, r, s1, s2, k)
    BY <1>8 DEF Gathered, Open, Joint, Node, Client, Server
  <2>2. [c \in Client |-> Counts(c, r, "taken", s2)] = [c \in Client |-> Counts(c, r, s1, s2)]
    BY <1>8 DEF Counts, Returned
  <2>3. Causes("taken", s2, k)
    BY <1>8 DEF At, Causes
  <2>4. channel' = Channels(r, "taken", s2, k)
    BY <1>2, <1>8 DEF At, Client, Channels, Under, Only
  <2>5. q_recv' = Queues(r, "taken", s2, k)
    <3>1. n \in Client /\ t.packs = {Passed1(r)}
      BY <1>8 DEF Client, Single
    <3>2. q_recv[n] = << >>
      BY <1>8, <3>1 DEF At, Queues, Waiting, Only
    <3>3. q_recv' = Set(q_recv, n, <<Passed1(r)>>)
      BY <1>2, <3>1, <3>2
    <3> QED BY <1>8, <3>3 DEF At, Queues, Waiting, Only, Set, Client
  <2> QED BY <1>3, <1>8, <2>1, <2>2, <2>3, <2>4, <2>5 DEF ShareStage, KeyStage
<1>9. ASSUME n = "rc_02", s2 = "atClient", t = Single(Passed2(r)),
             Gathered(n, r, s1, s2, k) \ {t} = Gathered(n, r, s1, "taken", k)
      PROVE  IInv'
  <2>1. \A d \in Node \ {n} : Gathered(d, r, s1, "taken", k) = Gathered(d, r, s1, s2, k)
    BY <1>9 DEF Gathered, Open, Joint, Node, Client, Server
  <2>2. [c \in Client |-> Counts(c, r, s1, "taken")] = [c \in Client |-> Counts(c, r, s1, s2)]
    BY <1>9 DEF Counts, Returned
  <2>3. Causes(s1, "taken", k)
    BY <1>9 DEF At, Causes
  <2>4. channel' = Channels(r, s1, "taken", k)
    BY <1>2, <1>9 DEF At, Client, Channels, Under, Only
  <2>5. q_recv' = Queues(r, s1, "taken", k)
    <3>1. n \in Client /\ t.packs = {Passed2(r)}
      BY <1>9 DEF Client, Single
    <3>2. q_recv[n] = << >>
      BY <1>9, <3>1 DEF At, Queues, Waiting, Only
    <3>3. q_recv' = Set(q_recv, n, <<Passed2(r)>>)
      BY <1>2, <3>1, <3>2
    <3> QED BY <1>9, <3>3 DEF At, Queues, Waiting, Only, Set, Client
  <2> QED BY <1>3, <1>9, <2>1, <2>2, <2>3, <2>4, <2>5 DEF ShareStage, KeyStage
<1>10. ASSUME n = "rc_03", k = "arrived", t = Single(Sum(r)),
             Gathered(n, r, s1, s2, k) \ {t} = Gathered(n, r, s1, s2, "answer")
      PROVE  IInv'
  <2>1. \A d \in Node \ {n} : Gathered(d, r, s1, s2, "answer") = Gathered(d, r, s1, s2, k)
    BY <1>10 DEF Gathered, Open, Joint, Node, Client, Server
  <2>2. [c \in Client |-> Counts(c, r, s1, s2)] = [c \in Client |-> Counts(c, r, s1, s2)]
    BY <1>10 DEF Counts, Returned
  <2>3. Causes(s1, s2, "answer")
    BY <1>10 DEF At, Causes
  <2>4. channel' = Channels(r, s1, s2, "answer")
    BY <1>2, <1>10 DEF At, Client, Channels, Under, Only
  <2>5. q_recv' = Queues(r, s1, s2, "answer")
    <3>1. n \in Client /\ t.packs = {Sum(r)}
      BY <1>10 DEF Client, Single
    <3>2. q_recv[n] = << >>
      BY <1>10, <3>1 DEF At, Queues, Waiting, Only
    <3>3. q_recv' = Set(q_recv, n, <<Sum(r)>>)
      BY <1>2, <3>1, <3>2
    <3> QED BY <1>10, <3>3 DEF At, Queues, Waiting, Only, Set, Client
  <2> QED BY <1>3, <1>10, <2>1, <2>2, <2>3, <2>4, <2>5 DEF ShareStage, KeyStage
<1>11. \/ /\ n = "rs_01" /\ s1 = "atServer" /\ t = Single(Sent1(r))
          /\ Gathered(n, r, s1, s2, k) \ {t} = Gathered(n, r, "passed", s2, k)
       \/ /\ n = "rs_01" /\ s1 = "joined" /\ k = "atFirst" /\ t = Pair(Back1(r), Key(r))
          /\ Gathered(n, r, s1, s2, k) \ {t} = Gathered(n, r, "gone", s2, "half")
       \/ /\ n = "rs_02" /\ s2 = "atServer" /\ t = Single(Sent2(r))
          /\ Gathered(n, r, s1, s2, k) \ {t} = Gathered(n, r, s1, "passed", k)
       \/ /\ n = "rs_02" /\ s2 = "joined" /\ k = "atSecond" /\ t = Pair(Back2(r), Half(r))
          /\ Gathered(n, r, s1, s2, k) \ {t} = Gathered(n, r, s1, "gone", "sum")
       \/ /\ n = "rc_01" /\ s1 = "atClient" /\ t = Single(Passed1(r))
          /\ Gathered(n, r, s1, s2, k) \ {t} = Gathered(n, r, "taken", s2, k)
       \/ /\ n = "rc_02" /\ s2 = "atClient" /\ t = Single(Passed2(r))
          /\ Gathered(n, r, s1, s2, k) \ {t} = Gathered(n, r, s1, "taken", k)
       \/ /\ n = "rc_03" /\ k = "arrived" /\ t = Single(Sum(r))
          /\ Gathered(n, r, s1, s2, k) \ {t} = Gathered(n, r, s1, s2, "answer")
  BY <1>1, <1>2, Held
<1> QED BY <1>4, <1>5, <1>6, <1>7, <1>8, <1>9, <1>10, <1>11

\* The invariant holds through every step.
LEMMA IInvIsInductive == IInv /\ [Next]_vars => IInv'
<1> SUFFICES ASSUME Progress, [Next]_vars,
                    NEW s1 \in ShareStage, NEW s2 \in ShareStage, NEW k \in KeyStage,
                    At(s1, s2, k)
             PROVE  IInv'
  BY DEF IInv
<1>1. CASE ArbiterSends
  BY <1>1, ArbiterSendsKeeps
<1>2. CASE ArbiterReceives
  BY <1>2, ArbiterReceivesKeeps
<1>3. ASSUME NEW c \in Client, ReturnShare(c)
      PROVE  IInv'
  BY <1>3, ReturnShareKeeps
<1>4. ASSUME NEW n \in Node, NEW m \in Node, Receive(n, m)
      PROVE  IInv'
  BY <1>4, ReceiveKeeps
<1>5. ASSUME NEW n \in Node, Dispatch(n)
      PROVE  IInv'
  BY <1>5, DispatchKeeps
<1>6. ASSUME NEW n \in Node, DropTransaction(n)
      PROVE  IInv'
  BY <1>6, DropTransactionKeeps
<1>7. ASSUME NEW n \in Node, NEW m \in Node, LosePackage(n, m)
      PROVE  IInv'
  BY <1>7, LosePackageKeeps
<1>8. CASE UNCHANGED vars
  BY <1>8 DEF vars, IInv, Progress, At, Causes, Round
<1> QED BY <1>1, <1>2, <1>3, <1>4, <1>5, <1>6, <1>7, <1>8 DEF Next, Step

\* In every reachable state everything there is belongs to the round of the arbiter,
\* and is where the stages of the two shares and of the key say.
THEOREM InductiveInvariant == Spec => []IInv
<1> QED BY InitHolds, IInvIsInductive, PTL DEF Spec

-----------------------------------------------------------------------------
(* What the invariant says of the packages.                                *)

Family(r) == {Sent1(r), Sent2(r), Passed1(r), Passed2(r), Back1(r), Back2(r),
              Key(r), Half(r), Sum(r)}

\* Every package there is belongs to the arbiter's round, and that is no later
\* than the last one.
LEMMA PacksOfTheRound ==
  ASSUME IInv, NEW p \in Packs
  PROVE  Round \in 0 .. NumRounds - 1 /\ p \in Family(Round)
<1> DEFINE r == Round
<1>1. PICK s1 \in ShareStage, s2 \in ShareStage, k \in KeyStage : At(s1, s2, k)
  BY DEF IInv
<1>2. Progress /\ NumRounds \in Nat
  BY RouterAssumption DEF IInv
<1>3. ASSUME NEW n \in Node, NEW m \in Node, NEW i \in DOMAIN channel[n][m], p = channel[n][m][i]
      PROVE  p \in Family(r) /\ ~ (s1 = "kept" /\ s2 = "kept" /\ k = "kept")
  <2>1. channel[n][m] = Under(n, m, r, s1, s2, k)
    BY <1>1 DEF At, Channels
  <2> QED BY <1>3, <2>1 DEF Under, Only, Family
<1>4. ASSUME NEW n \in Node, NEW t \in trans[n], p \in t.packs
      PROVE  p \in Family(r) /\ ~ (s1 = "kept" /\ s2 = "kept" /\ k = "kept")
  <2>1. trans[n] = Gathered(n, r, s1, s2, k)
    BY <1>1 DEF At, Transactions
  <2>2. \A a, b : Single(a).packs = {a} /\ Pair(a, b).packs = {a, b}
    BY DEF Single, Pair
  <2> QED BY <1>4, <2>1, <2>2 DEF Gathered, Open, Joint, Family
<1>5. ASSUME NEW c \in Client, NEW i \in DOMAIN q_recv[c], p = q_recv[c][i]
      PROVE  p \in Family(r) /\ ~ (s1 = "kept" /\ s2 = "kept" /\ k = "kept")
  <2>1. q_recv[c] = Waiting(c, r, s1, s2, k)
    BY <1>1 DEF At, Queues
  <2> QED BY <1>5, <2>1 DEF Waiting, Only, Family
<1>6. p \in Family(r) /\ ~ (s1 = "kept" /\ s2 = "kept" /\ k = "kept")
  BY <1>3, <1>4, <1>5 DEF Packs
<1>7. pc # "done"
  BY <1>1, <1>6 DEF At, Causes
<1> QED BY <1>2, <1>6, <1>7 DEF Progress

\* Every variable has its type in every reachable state.
THEOREM TypeCorrect == Spec => []TypeOK
<1>1. IInv => TypeOK
  <2> SUFFICES ASSUME IInv PROVE TypeOK
    OBVIOUS
  <2> DEFINE r == Round
  <2>1. round \in [Client -> 0 .. NumRounds]
    <3>1. PICK s1 \in ShareStage, s2 \in ShareStage, k \in KeyStage : At(s1, s2, k)
      BY DEF IInv
    <3>2. r \in 0 .. NumRounds /\ NumRounds \in Nat /\ (pc = "done" <=> r = NumRounds)
      BY RouterAssumption DEF IInv, Progress
    <3>3. Returned(s1) \/ Returned(s2) => r + 1 \in 0 .. NumRounds
      BY <3>1, <3>2 DEF Returned, At, Causes
    <3>4. \A c \in Client : Counts(c, r, s1, s2) \in 0 .. NumRounds
      BY <3>2, <3>3 DEF Counts
    <3> QED BY <3>1, <3>4 DEF At
  <2>2. ASSUME NEW p \in Packs
        PROVE  /\ p.source_id \in Node /\ p.target_id \in Node
               /\ p.uid.hops \in 0 .. 2 /\ p.uid.round \in 0 .. NumRounds - 1
               /\ p.n_batches \in {1, 2}
               /\ p.data \subseteq UNION {Shares(n) : n \in 0 .. NumRounds - 1}
    <3>1. r \in 0 .. NumRounds - 1 /\ p \in Family(r)
      BY PacksOfTheRound
    <3>2. \A h, tag : Uid(h, r, tag).hops = h /\ Uid(h, r, tag).round = r
      BY DEF Uid
    <3>3. \A w \in Share : W(r, w) \subseteq Shares(r)
      BY DEF W, Shares
    <3> QED BY <3>1, <3>2, <3>3 DEF Family, Sent1, Sent2, Passed1, Passed2, Back1, Back2,
                                Key, Half, Sum, Pack, Node, Client, Server, Share
  <2> QED BY <2>1, <2>2 DEF TypeOK, IInv, Progress
<1> QED BY <1>1, InductiveInvariant, PTL

\* Whatever is lost or late, a package carries shares of the round it is
\* labelled with.
THEOREM LabelsStayTrue == Spec => []LabelsAreTrue
<1>1. IInv => LabelsAreTrue
  <2> SUFFICES ASSUME IInv, NEW p \in Packs PROVE p.data \subseteq Shares(p.uid.round)
    BY DEF LabelsAreTrue
  <2> DEFINE r == Round
  <2>1. p \in Family(r)
    BY PacksOfTheRound
  <2>2. \A h, tag : Uid(h, r, tag).round = r
    BY DEF Uid
  <2>3. \A w \in Share : W(r, w) \subseteq Shares(r)
    BY DEF W, Shares
  <2> QED BY <2>1, <2>2, <2>3 DEF Family, Sent1, Sent2, Passed1, Passed2, Back1, Back2,
                                  Key, Half, Sum, Pack, Share
<1> QED BY <1>1, InductiveInvariant, PTL

\* Whatever is lost or late, an aggregate is made of both shares of its round.
THEOREM AggregatesAreOfTheRound == Spec => []AggregateOfTheRound
<1>1. IInv => AggregateOfTheRound
  BY DEF IInv, Progress, AggregateOfTheRound
<1> QED BY <1>1, InductiveInvariant, PTL
=============================================================================
