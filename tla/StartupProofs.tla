----------------------------- MODULE StartupProofs -----------------------------
(***************************************************************************)
(* Safety of Startup for any number of processes, any flags and            *)
(* environments, any addresses, any process killed and any connection      *)
(* given up at any time.                                                   *)
(***************************************************************************)
EXTENDS Startup, FiniteSetTheorems, TLAPS

-----------------------------------------------------------------------------
(* The inductive invariant.                                                *)

Live(p) == pc[p] \in {"linking", "linked", "ready"}

Listens(p, node) == server[p] = {[kind |-> Link(p).kind, node |-> node]}

\* What a process has of a link, phase by phase.
Shape(p) ==
  /\ link[p] = {} \/ \E l : link[p] = {l} /\ LinkRank(l)
  /\ pc[p] = "init" => link[p] = {} /\ heard[p] = {}
  /\ link[p] = {} => told[p] = {}
  /\ link[p] # {} => told[p] \subseteq Peers(p)
  /\ ~ Live(p) => server[p] = {}
  /\ Live(p) => link[p] # {} /\ \E node : Listens(p, node)
  /\ OnLink(p) => Peers(p) \subseteq told[p] \cap heard[p]

Typed ==
  /\ pc \in [Process -> Phase]
  /\ settings \in Settings
  /\ DOMAIN link = Process /\ DOMAIN server = Process
  /\ DOMAIN told = Process /\ DOMAIN heard = Process
  /\ faults \in 0 .. MaxFaults
  /\ \A p \in Process : Shape(p)

\* No two processes listen at one address.
Exclusive ==
  \A p, q \in Process : p # q =>
    \A v \in server[p], w \in server[q] : v.node # w.node

\* Somebody made the link of the given kind and rank, and has p's address on it.
KnownBy(p, kind, rank) ==
  \E q \in Process : /\ link[q] # {}
                     /\ Link(q).kind = kind /\ Link(q).rank = rank
                     /\ \E i \in Peers(q) : Serves(p, q, i)

\* Who was heard of is, or was, there.
HeardIsTrue ==
  \A p \in Process : Live(p) => \A rank \in heard[p] : KnownBy(p, Link(p).kind, rank)

\* p has reached a process at the address of q.
Reached(p, q) ==
  \E rank \in told[p] : \E v \in server[q] : Link(p).nodes[rank] = v.node

\* Of two processes with different kinds of link, not both have been reached by
\* the other, or by others at each other's address: what reached the address of
\* the later one did so before that one was there.
NoCrossing ==
  \A p, q \in Process : Live(p) /\ Live(q) /\ Link(p).kind # Link(q).kind =>
    ~ (Reached(p, q) /\ Reached(q, p))

IInv == Typed /\ Exclusive /\ HeardIsTrue /\ NoCrossing

-----------------------------------------------------------------------------
(* The link a process makes.                                               *)

\* A link that is the only one made is the process's link.
LEMMA OnlyLink == ASSUME NEW p, NEW l, link[p] = {l} PROVE Link(p) = l
  BY DEF Link

\* The same, of the next state.
LEMMA OnlyLinkNext == ASSUME NEW p, NEW l, link'[p] = {l} PROVE Link(p)' = l
  BY DEF Link

\* The black-box link is the one of the environment, and served at a free
\* transport.
LEMMA BlackBoxShape ==
  ASSUME NEW p \in Process, settings \in Settings,
         NEW m \in CreateLinkContextForBlackBox(settings[p])
  PROVE  LinkRank(m.link) /\ Free(m.server.node)
         /\ m.server = [kind |-> m.link.kind, node |-> m.server.node]
<1>1. PICK l \in BlackBoxLink(settings[p]), t \in settings[p].transport :
        Free(t) /\ m = [link |-> l, server |-> [kind |-> "black", node |-> t]]
  BY DEF CreateLinkContextForBlackBox
<1>2. PICK n \in settings[p].nodes :
        l = [kind |-> "black", ids |-> n.ids, nodes |-> n.nodes, rank |-> n.rank]
  BY DEF BlackBoxLink
<1>3. n.rank \in DOMAIN n.nodes
  BY StartupAssumption
<1> QED
  BY <1>1, <1>2, <1>3 DEF LinkRank

\* The white-box link is one of the addresses of the flag, and served there.
LEMMA WhiteBoxShape ==
  ASSUME NEW p \in Process, NEW m \in CreateLinkContextForWhiteBox(settings[p])
  PROVE  LinkRank(m.link) /\ Free(m.server.node)
         /\ m.server = [kind |-> m.link.kind, node |-> m.server.node]
<1> DEFINE s     == settings[p]
           hosts == StrSplit(s.flags.parties)
           ranks == 0 .. Len(hosts) - 1
           Made  == [kind |-> "white", ids |-> [i \in ranks |-> PartyName(i)],
                     nodes |-> [i \in ranks |-> hosts[i + 1]], rank |-> s.flags.rank]
<1>1. PICK l \in WhiteBoxLink(s) :
        /\ Free(l.nodes[l.rank])
        /\ m = [link |-> l, server |-> [kind |-> "white", node |-> l.nodes[l.rank]]]
  BY DEF CreateLinkContextForWhiteBox
<1>2. s.flags.rank \in ranks /\ l = Made
  BY DEF WhiteBoxLink
<1>3. l.kind = "white" /\ LinkRank(l)
  BY <1>2 DEF LinkRank
<1> QED
  BY <1>1, <1>3

\* Either way a process makes a link with a rank of its own, and listens at an
\* address that was free.
LEMMA MakeLinkShape ==
  ASSUME NEW p \in Process, settings \in Settings, NEW m \in MakeLink(settings[p])
  PROVE  LinkRank(m.link) /\ Free(m.server.node)
         /\ m.server = [kind |-> m.link.kind, node |-> m.server.node]
  BY BlackBoxShape, WhiteBoxShape DEF MakeLink

-----------------------------------------------------------------------------
(* The steps.                                                              *)

\* Processes start with nothing.
LEMMA InitIInv == Init => IInv
  BY StartupAssumption
  DEF Init, IInv, Typed, Shape, Phase, Ended, Live, OnLink, Exclusive, HeardIsTrue, NoCrossing

\* Of a step that leaves every link alone: so do its accessors.
LEMMA SameLink == ASSUME UNCHANGED link, NEW p
                  PROVE  Link(p)' = Link(p) /\ Peers(p)' = Peers(p)
  BY DEF Link, Peers

\* A process that ends frees its address and leaves the rest as it was.
LEMMA EndKeepsIInv ==
  ASSUME IInv, NEW p \in Process, NEW phase \in Ended, End(p, phase),
         UNCHANGED <<settings, link, told, heard>>, faults' \in 0 .. MaxFaults
  PROVE  IInv'
<1>1. \A q \in Process : /\ pc'[q] = IF q = p THEN phase ELSE pc[q]
                         /\ server'[q] = IF q = p THEN {} ELSE server[q]
  BY DEF IInv, Typed, End
<1>2. Typed'
  <2>1. pc' \in [Process -> Phase] /\ DOMAIN server' = Process
    BY DEF IInv, Typed, End, Phase
  <2>2. ASSUME NEW q \in Process PROVE Shape(q)'
    BY <1>1, <2>2, SameLink DEF IInv, Typed, Shape, Live, Listens, OnLink, Ended
  <2> QED
    BY <2>1, <2>2 DEF IInv, Typed
<1>3. Exclusive'
  BY <1>1 DEF IInv, Exclusive
<1>4. HeardIsTrue'
  BY <1>1, SameLink DEF IInv, HeardIsTrue, KnownBy, Serves, Live, Ended
<1>5. NoCrossing'
  BY <1>1, SameLink DEF IInv, NoCrossing, Reached, Live, Ended
<1> QED
  BY <1>2, <1>3, <1>4, <1>5 DEF IInv

\* A process that has made a link listens at an address nobody else had, and
\* has not reached anybody.
LEMMA StartKeepsIInv ==
  ASSUME IInv, NEW p \in Process, NEW m \in MakeLink(settings[p]), pc[p] = "init",
         link' = [link EXCEPT ![p] = {m.link}],
         server' = [server EXCEPT ![p] = {m.server}],
         pc' = [pc EXCEPT ![p] = "linking"],
         UNCHANGED <<settings, told, heard, faults>>
  PROVE  IInv'
<1>1. \A q \in Process : /\ pc'[q] = IF q = p THEN "linking" ELSE pc[q]
                         /\ link'[q] = IF q = p THEN {m.link} ELSE link[q]
                         /\ server'[q] = IF q = p THEN {m.server} ELSE server[q]
  BY DEF IInv, Typed
<1>2. \A q \in Process : q # p => Link(q)' = Link(q) /\ Peers(q)' = Peers(q)
  BY <1>1 DEF Link, Peers
<1>3. Link(p)' = m.link
  BY <1>1, OnlyLinkNext
<1>4. /\ LinkRank(m.link) /\ Free(m.server.node)
      /\ m.server = [kind |-> m.link.kind, node |-> m.server.node]
  BY MakeLinkShape DEF IInv, Typed
<1>5. link[p] = {} /\ told[p] = {} /\ heard[p] = {}
  BY DEF IInv, Typed, Shape
<1>6. Typed'
  <2>1. pc' \in [Process -> Phase] /\ DOMAIN link' = Process /\ DOMAIN server' = Process
    BY DEF IInv, Typed, Phase
  <2>2. Shape(p)'
    BY <1>1, <1>3, <1>4, <1>5 DEF Shape, Live, Listens, OnLink
  <2>3. ASSUME NEW q \in Process, q # p PROVE Shape(q)'
    BY <1>1, <1>2, <2>3 DEF IInv, Typed, Shape, Live, Listens, OnLink
  <2> QED
    BY <2>1, <2>2, <2>3 DEF IInv, Typed
<1>7. Exclusive'
  BY <1>1, <1>4 DEF IInv, Exclusive, Free
<1>8. HeardIsTrue'
  <2> SUFFICES ASSUME NEW q \in Process, Live(q)', NEW rank \in heard'[q]
               PROVE  KnownBy(q, Link(q).kind, rank)'
    BY DEF HeardIsTrue
  <2>1. q # p /\ Live(q)
    BY <1>1, <1>5 DEF Live
  <2>2. PICK r \in Process : /\ link[r] # {}
                             /\ Link(r).kind = Link(q).kind /\ Link(r).rank = rank
                             /\ \E i \in Peers(r) : Serves(q, r, i)
    BY <2>1 DEF IInv, HeardIsTrue, KnownBy
  <2>3. r # p
    BY <1>5, <2>2
  <2> QED
    BY <1>1, <1>2, <2>1, <2>2, <2>3 DEF KnownBy, Serves
<1>9. NoCrossing'
  <2> SUFFICES ASSUME NEW q \in Process, NEW r \in Process, Live(q)', Live(r)',
                      Link(q)'.kind # Link(r)'.kind, Reached(q, r)', Reached(r, q)'
               PROVE  FALSE
    BY DEF NoCrossing
  <2>1. q # p /\ r # p
    BY <1>5 DEF Reached
  <2> QED
    BY <1>1, <1>2, <2>1 DEF IInv, NoCrossing, Reached, Live
<1> QED
  BY <1>6, <1>7, <1>8, <1>9 DEF IInv

\* A process that is reached knows the one that reached it, and an address
\* that is reached is that of a link of the same kind.
LEMMA HelloKeepsIInv ==
  ASSUME IInv, NEW p \in Process, NEW q \in Process, Hello(p, q)
  PROVE  IInv'
<1>1. PICK k \in Peers(p) \ told[p] :
        /\ Serves(q, p, k)
        /\ told' = [told EXCEPT ![p] = @ \cup {k}]
        /\ heard' = [heard EXCEPT ![q] = @ \cup {Link(p).rank}]
  BY DEF Hello
<1>2. /\ pc[p] = "linking"
      /\ UNCHANGED <<pc, settings, link, server, faults>>
  BY DEF Hello
<1>3. \A r \in Process :
        /\ told'[r] = IF r = p THEN told[p] \cup {k} ELSE told[r]
        /\ heard'[r] = IF r = q THEN heard[q] \cup {Link(p).rank} ELSE heard[r]
  BY <1>1 DEF IInv, Typed
<1>4. \A r \in Process : Link(r)' = Link(r) /\ Peers(r)' = Peers(r)
  BY <1>2, SameLink
<1>5. Live(p) /\ link[p] # {}
  BY <1>2 DEF IInv, Typed, Shape, Live
<1>6. Live(q) /\ Link(q).kind = Link(p).kind
  <2>1. Live(q)
    BY <1>1 DEF IInv, Typed, Shape, Serves
  <2>2. PICK node : server[q] = {[kind |-> Link(q).kind, node |-> node]}
    BY <2>1 DEF IInv, Typed, Shape, Listens
  <2> QED
    BY <1>1, <2>1, <2>2 DEF Serves
<1>7. Typed'
  <2>1. DOMAIN told' = Process /\ DOMAIN heard' = Process
    BY <1>1 DEF IInv, Typed
  <2>2. ASSUME NEW r \in Process PROVE Shape(r)'
    <3>1. Shape(r)
      BY DEF IInv, Typed
    <3> QED
      BY <1>1, <1>2, <1>3, <1>4, <1>5, <1>6, <3>1
      DEF Shape, Live, Listens, OnLink
  <2> QED
    BY <1>2, <2>1, <2>2 DEF IInv, Typed
<1>8. Exclusive'
  BY <1>2 DEF IInv, Exclusive
<1>9. HeardIsTrue'
  <2> SUFFICES ASSUME NEW r \in Process, Live(r)', NEW rank \in heard'[r]
               PROVE  KnownBy(r, Link(r).kind, rank)'
    BY DEF HeardIsTrue
  <2>1. CASE rank \in heard[r]
    BY <1>2, <1>4, <2>1 DEF IInv, HeardIsTrue, KnownBy, Serves, Live
  <2>2. CASE r = q /\ rank = Link(p).rank
    BY <1>1, <1>2, <1>4, <1>5, <1>6, <2>2 DEF KnownBy, Serves
  <2> QED
    BY <1>3, <2>1, <2>2
<1>10. NoCrossing'
  <2> SUFFICES ASSUME NEW r \in Process, NEW t \in Process, Live(r), Live(t),
                      Link(r).kind # Link(t).kind, Reached(r, t)', Reached(t, r)'
               PROVE  FALSE
    BY <1>2, <1>4 DEF NoCrossing, Live
  <2>1. ASSUME NEW a \in Process, NEW b \in Process, Live(a), Live(b),
               Link(a).kind # Link(b).kind, Reached(a, b)'
        PROVE  Reached(a, b)
    <3>1. PICK i \in told'[a], v \in server[b] : Link(a).nodes[i] = v.node
      BY <1>2, <1>4, <2>1 DEF Reached
    <3>2. CASE i \in told[a]
      BY <3>1, <3>2 DEF Reached
    <3>3. CASE a = p /\ i = k
      <4>1. [kind |-> Link(p).kind, node |-> Link(p).nodes[k]] \in server[q]
        BY <1>1 DEF Serves
      <4>2. b = q
        BY <3>1, <3>3, <4>1 DEF IInv, Exclusive
      <4> QED
        BY <1>6, <2>1, <3>3, <4>2
    <3> QED
      BY <1>3, <3>1, <3>2, <3>3
  <2> QED
    BY <2>1 DEF IInv, NoCrossing
<1> QED
  BY <1>7, <1>8, <1>9, <1>10 DEF IInv

\* A process may go on without touching its address or its links.
LEMMA AdvanceKeepsIInv ==
  ASSUME IInv, NEW p \in Process, Live(p), NEW phase \in {"linked", "ready"},
         Peers(p) \subseteq told[p] \cap heard[p],
         pc' = [pc EXCEPT ![p] = phase],
         UNCHANGED <<settings, link, server, told, heard, faults>>
  PROVE  IInv'
<1>1. \A q \in Process : pc'[q] = IF q = p THEN phase ELSE pc[q]
  BY DEF IInv, Typed
<1>2. \A q \in Process : Live(q)' <=> Live(q)
  BY <1>1 DEF Live
<1>3. Typed'
  <2>1. pc' \in [Process -> Phase]
    BY DEF IInv, Typed, Phase
  <2>2. ASSUME NEW q \in Process PROVE Shape(q)'
    <3>1. Shape(q)
      BY DEF IInv, Typed
    <3>2. OnLink(q)' => Peers(q) \subseteq told[q] \cap heard[q]
      BY <1>1, <3>1 DEF Shape, OnLink
    <3>3. pc'[q] = "init" => pc[q] = "init"
      BY <1>1
    <3> QED
      BY <1>2, <3>1, <3>2, <3>3, SameLink DEF Shape, Listens
  <2> QED
    BY <2>1, <2>2 DEF IInv, Typed
<1>4. Exclusive'
  BY DEF IInv, Exclusive
<1>5. HeardIsTrue'
  BY <1>2, SameLink DEF IInv, HeardIsTrue, KnownBy, Serves
<1>6. NoCrossing'
  BY <1>2, SameLink DEF IInv, NoCrossing, Reached
<1> QED
  BY <1>3, <1>4, <1>5, <1>6 DEF IInv

\* A step of a process.
LEMMA StepKeepsIInv == ASSUME IInv, NEW p \in Process, Step(p) \/ Kill(p) PROVE IInv'
<1>1. CASE StartLink(p)
  <2>1. CASE \E m \in MakeLink(settings[p]) :
               /\ link' = [link EXCEPT ![p] = {m.link}]
               /\ server' = [server EXCEPT ![p] = {m.server}]
               /\ pc' = [pc EXCEPT ![p] = "linking"]
    BY <1>1, <2>1, StartKeepsIInv DEF StartLink
  <2>2. CASE End(p, "exit1") /\ UNCHANGED link
    BY <1>1, <2>2, EndKeepsIInv DEF StartLink, Ended, IInv, Typed
  <2> QED
    BY <1>1, <2>1, <2>2 DEF StartLink
<1>2. CASE \E q \in Process : Hello(p, q)
  BY <1>2, HelloKeepsIInv
<1>3. CASE ConnectToMesh(p)
  BY <1>3, AdvanceKeepsIInv DEF ConnectToMesh, Incomplete, Live
<1>4. CASE MeshFailure(p)
  <2>1. faults' \in 0 .. MaxFaults
    BY <1>4, StartupAssumption DEF MeshFailure, IInv, Typed
  <2> QED
    BY <1>4, <2>1, EndKeepsIInv DEF MeshFailure, Ended
<1>5. CASE CreateHandler(p)
  <2>1. CASE End(p, "exit1")
    BY <1>5, <2>1, EndKeepsIInv DEF CreateHandler, Ended, IInv, Typed
  <2>2. CASE pc' = [pc EXCEPT ![p] = "ready"] /\ UNCHANGED server
    <3>1. Peers(p) \subseteq told[p] \cap heard[p] /\ Live(p)
      BY <1>5 DEF CreateHandler, IInv, Typed, Shape, OnLink, Live
    <3> QED
      BY <1>5, <2>2, <3>1, AdvanceKeepsIInv DEF CreateHandler
  <2> QED
    BY <1>5, <2>1, <2>2 DEF CreateHandler
<1>6. CASE Kill(p)
  <2>1. faults' \in 0 .. MaxFaults
    BY <1>6, StartupAssumption DEF Kill, IInv, Typed
  <2> QED
    BY <1>6, <2>1, EndKeepsIInv DEF Kill, Ended
<1> QED
  BY <1>1, <1>2, <1>3, <1>4, <1>5, <1>6 DEF Step

\* A step that changes nothing.
LEMMA StutterKeepsIInv == ASSUME IInv, UNCHANGED vars PROVE IInv'
<1>1. \A q \in Process : (Live(q)' <=> Live(q)) /\ (Shape(q)' <=> Shape(q))
  BY SameLink DEF vars, Live, Shape, Listens, OnLink
<1>2. Typed' /\ Exclusive'
  BY <1>1 DEF IInv, Typed, Exclusive, vars
<1>3. HeardIsTrue' /\ NoCrossing'
  BY <1>1, SameLink DEF IInv, HeardIsTrue, NoCrossing, KnownBy, Serves, Reached, vars
<1> QED
  BY <1>2, <1>3 DEF IInv

\* The inductive invariant is kept by every step.
LEMMA NextKeepsIInv == IInv /\ [Next]_vars => IInv'
  BY StepKeepsIInv, StutterKeepsIInv DEF Next, Done

\* The inductive invariant holds in every reachable state.
LEMMA Invariance == Spec => []IInv
  BY InitIInv, NextKeepsIInv, PTL DEF Spec

-----------------------------------------------------------------------------
(* What follows from the invariant.                                        *)

\* Type correctness is part of the invariant.
LEMMA IInvTypeOK == IInv => TypeOK
<1> SUFFICES ASSUME IInv PROVE TypeOK
  OBVIOUS
<1>1. DOMAIN settings = Process
  BY StartupAssumption DEF IInv, Typed
<1>2. ASSUME NEW p \in Process
      PROVE  /\ IsFiniteSet(link[p]) /\ Cardinality(link[p]) <= 1
             /\ \A l \in link[p] : LinkRank(l)
  <2>1. link[p] = {} \/ \E l : link[p] = {l} /\ LinkRank(l)
    BY DEF IInv, Typed, Shape
  <2>2. CASE link[p] = {}
    BY <2>2, FS_EmptySet
  <2>3. CASE \E l : link[p] = {l} /\ LinkRank(l)
    <3>1. PICK l : link[p] = {l} /\ LinkRank(l)
      BY <2>3
    <3>2. IsFiniteSet(link[p]) /\ Cardinality(link[p]) = 1
      BY <3>1, FS_Singleton
    <3> QED
      BY <3>1, <3>2
  <2> QED
    BY <2>1, <2>2, <2>3
<1>3. ASSUME NEW p \in Process
      PROVE  IF pc[p] \in {"init"} \cup Ended THEN server[p] = {}
             ELSE link[p] # {} /\ \E n \in {v.node : v \in server[p]} :
                    server[p] = {[kind |-> Link(p).kind, node |-> n]}
  <2>1. Shape(p) /\ pc[p] \in Phase
    BY DEF IInv, Typed
  <2>2. CASE ~ Live(p)
    BY <2>1, <2>2 DEF Shape, Live, Phase, Ended
  <2>3. CASE Live(p)
    <3>1. PICK n : server[p] = {[kind |-> Link(p).kind, node |-> n]}
      BY <2>1, <2>3 DEF Shape, Listens
    <3> QED
      BY <2>1, <2>3, <3>1 DEF Shape, Live, Ended
  <2> QED
    BY <2>2, <2>3
<1> QED
  BY <1>1, <1>2, <1>3 DEF IInv, Typed, TypeOK, Shape

\* Of a process that is connected, everybody was there and has its address.
LEMMA IInvLinkIsShared == IInv => LinkIsShared
  BY DEF IInv, Typed, Shape, HeardIsTrue, KnownBy, LinkIsShared, OnLink, Live

\* On one mesh a connected process listens at the address of its own rank: it
\* was heard of at its address by every other rank.
LEMMA OwnAddress ==
  ASSUME IInv, OneMesh, NEW p \in Process, OnLink(p)
  PROVE  /\ Link(p).rank \in DOMAIN Link(p).nodes
         /\ server[p] = {[kind |-> Link(p).kind, node |-> Link(p).nodes[Link(p).rank]]}
<1> DEFINE N == Link(p).nodes
<1>1. Shape(p) /\ Live(p)
  BY DEF IInv, Typed, OnLink, Live
<1>2. PICK node : server[p] = {[kind |-> Link(p).kind, node |-> node]}
  BY <1>1 DEF Shape, Listens
<1>3. LinkRank(Link(p)) /\ link[p] # {}
  BY <1>1, OnlyLink DEF Shape
<1>4. \A i, j \in DOMAIN N : N[i] = N[j] => i = j
  BY <1>3 DEF OneMesh
<1>5. ASSUME NEW k \in Peers(p) PROVE \E i \in DOMAIN N : i # k /\ N[i] = node
  <2>1. PICK q \in Process : /\ link[q] # {} /\ Link(q).rank = k
                             /\ \E i \in Peers(q) : Serves(p, q, i)
    BY <1>5, IInvLinkIsShared DEF LinkIsShared
  <2>2. Link(q).nodes = N
    BY <1>3, <2>1 DEF OneMesh
  <2> QED
    BY <1>2, <2>1, <2>2 DEF Serves, Peers
<1>6. PICK k : k \in Peers(p)
  BY <1>3 DEF OneMesh
<1>7. PICK i \in DOMAIN N : N[i] = node
  BY <1>5, <1>6
<1>8. i \notin Peers(p)
  BY <1>4, <1>5, <1>7
<1>9. i = Link(p).rank
  BY <1>7, <1>8 DEF Peers
<1> QED
  BY <1>2, <1>7, <1>9

\* Two processes at the address of one rank would listen together, and two on
\* different kinds of link would have reached each other.
LEMMA IInvOneProcessPerRank == IInv => OneProcessPerRank
<1> SUFFICES ASSUME IInv, OneMesh, NEW p \in Process, NEW q \in Process, p # q,
                    OnLink(p), OnLink(q)
             PROVE  Link(p).rank # Link(q).rank /\ Link(p).kind = Link(q).kind
  BY DEF OneProcessPerRank
<1>1. Live(p) /\ Live(q) /\ link[p] # {} /\ link[q] # {}
  BY DEF IInv, Typed, Shape, OnLink, Live
<1>2. Link(p).nodes = Link(q).nodes
  BY <1>1 DEF OneMesh
<1>3. Link(p).rank # Link(q).rank
  <2>1. [kind |-> Link(p).kind, node |-> Link(p).nodes[Link(p).rank]] \in server[p]
    BY OwnAddress
  <2>2. [kind |-> Link(q).kind, node |-> Link(q).nodes[Link(q).rank]] \in server[q]
    BY OwnAddress
  <2>3. Link(p).nodes[Link(p).rank] # Link(q).nodes[Link(q).rank]
    BY <2>1, <2>2 DEF IInv, Exclusive
  <2> QED
    BY <1>2, <2>3
<1>4. ASSUME NEW a \in Process, NEW b \in Process, OnLink(a), OnLink(b),
             Link(a).nodes = Link(b).nodes, Link(a).rank # Link(b).rank
      PROVE  Reached(a, b)
  <2>1. Link(b).rank \in Peers(a)
    BY <1>4, OwnAddress DEF Peers
  <2>2. Link(b).rank \in told[a]
    BY <1>4, <2>1 DEF IInv, Typed, Shape
  <2>3. server[b] = {[kind |-> Link(b).kind, node |-> Link(b).nodes[Link(b).rank]]}
    BY <1>4, OwnAddress
  <2> QED
    BY <1>4, <2>2, <2>3 DEF Reached
<1>5. Reached(p, q) /\ Reached(q, p)
  BY <1>2, <1>3, <1>4
<1> QED
  BY <1>1, <1>3, <1>5 DEF IInv, NoCrossing

-----------------------------------------------------------------------------
(* The theorems.                                                           *)

(* Every variable keeps its type: MakeLink never makes a link whose own    *)
(* rank is none of its addresses, and nobody listens without a link.       *)
THEOREM TypeCorrectness == Spec => []TypeOK
  BY Invariance, IInvTypeOK, PTL

(* ConnectToMesh returns only to a process that every other rank of its    *)
(* link, made the same way, has found.                                     *)
THEOREM SharedLinks == Spec => []LinkIsShared
  BY Invariance, IInvLinkIsShared, PTL

(* When the operators mean one mesh, no two processes get past             *)
(* ConnectToMesh with the same rank, or with different kinds of link.      *)
THEOREM OnePerRank == Spec => []OneProcessPerRank
  BY Invariance, IInvOneProcessPerRank, PTL
=============================================================================
