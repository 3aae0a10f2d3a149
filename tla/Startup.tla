-------------------------------- MODULE Startup --------------------------------
(***************************************************************************)
(* The processes of one job from main to a handler (ic_main.cc,            *)
(* context.cc, util.cc MakeLink, party.cc), each with flags and an         *)
(* environment of its own.  A process takes the black-box link if its      *)
(* environment describes one, and otherwise, without telling anybody, the  *)
(* white-box link of its flags.  Nothing but ConnectToMesh, which has to   *)
(* reach and to hear every other rank of the link, finds out whether the   *)
(* processes mean the same link.                                           *)
(***************************************************************************)
EXTENDS Config, FiniteSets

CONSTANTS
  Process,    \* the processes started for the job
  Settings,   \* the flags and environments each of them may be started with
  MaxFaults   \* bound: processes killed and connections given up too early

ASSUME StartupAssumption ==
  /\ Settings \subseteq [Process -> UNION {Range(d) : d \in Settings}]
  /\ \A d \in Settings : \A p \in Process : \A n \in d[p].nodes :
       n.rank \in DOMAIN n.nodes
  /\ MaxFaults \in Nat

VARIABLES
  pc,        \* where each process is
  settings,  \* flags and environment of each process
  link,      \* the link a process has made, if it has got that far
  server,    \* the address each process receives messages at, and for which
             \* kind of link
  told,      \* the ranks of its link each process has reached
  heard,     \* the ranks each process has been reached by
  faults      \* processes killed and connections given up too early, so far

vars == <<pc, settings, link, server, told, heard, faults>>

Ended == {"exit1", "killed"}
Phase == {"init", "linking", "linked", "ready"} \cup Ended

\* The link of a process that has one, and its peers' ranks.
Link(p)  == CHOOSE l \in link[p] : TRUE
Peers(p) == DOMAIN Link(p).nodes \ {Link(p).rank}

-----------------------------------------------------------------------------
Init ==
  /\ pc = [p \in Process |-> "init"]
  /\ settings \in Settings
  /\ link = [p \in Process |-> {}]
  /\ server = [p \in Process |-> {}]
  /\ told = [p \in Process |-> {}]
  /\ heard = [p \in Process |-> {}]
  /\ faults = 0

\* An address that no process listens at.
Free(address) == \A q \in Process : \A v \in server[q] : v.node # address

\* A process that ends takes its server along.
End(p, phase) ==
  /\ pc' = [pc EXCEPT ![p] = phase]
  /\ server' = [server EXCEPT ![p] = {}]

\* The black-box link: config.* is complete, and the transport that messages
\* come in through is there, started by the process itself (start_transport) or
\* by the platform.  A transport serves one process.
CreateLinkContextForBlackBox(s) ==
  {[link |-> l, server |-> [kind |-> "black", node |-> t]] :
     l \in BlackBoxLink(s), t \in {u \in s.transport : Free(u)}}

\* The white-box link listens at the address of its own rank.
CreateLinkContextForWhiteBox(s) ==
  {[link |-> l, server |-> [kind |-> "white", node |-> l.nodes[l.rank]]] :
     l \in {k \in WhiteBoxLink(s) : Free(k.nodes[k.rank])}}

\* Mutant: a process whose environment does not describe a link gives up, as
\* does one whose command line does not.
MakeLink_NoFallback(s) == CreateLinkContextForBlackBox(s)

\* Mutant: the link of the flags is made over the transport.
MakeLink_OverTransport(s) ==
  IF CreateLinkContextForBlackBox(s) # {} THEN CreateLinkContextForBlackBox(s)
  ELSE {[link |-> l, server |-> [kind |-> "black", node |-> l.nodes[l.rank]]] :
          l \in {k \in WhiteBoxLink(s) : Free(k.nodes[k.rank])}}

\* Every exception of the black-box link is caught.
MakeLink(s) ==
  IF CreateLinkContextForBlackBox(s) # {} THEN CreateLinkContextForBlackBox(s)
  ELSE CreateLinkContextForWhiteBox(s)

(* CreateIcContext up to ConnectToMesh.                                    *)
StartLink(p) ==
  /\ pc[p] = "init"
  /\ \/ \E ic \in IcContextOf(settings[p]), m \in MakeLink(settings[p]) :
          /\ link' = [link EXCEPT ![p] = {m.link}]
          /\ server' = [server EXCEPT ![p] = {m.server}]
          /\ pc' = [pc EXCEPT ![p] = "linking"]
     \/ /\ IcContextOf(settings[p]) = {} \/ MakeLink(settings[p]) = {}
        /\ End(p, "exit1")
        /\ UNCHANGED link
  /\ UNCHANGED <<settings, told, heard, faults>>

\* q can be reached by p as the given rank of p's link.
Serves(q, p, rank) ==
  [kind |-> Link(p).kind, node |-> Link(p).nodes[rank]] \in server[q]

(* ConnectToMesh: p reaches a process and gives it its own rank.           *)
Hello(p, q) ==
  /\ pc[p] = "linking"
  /\ \E rank \in Peers(p) \ told[p] :
       /\ Serves(q, p, rank)
       /\ told' = [told EXCEPT ![p] = @ \cup {rank}]
       /\ heard' = [heard EXCEPT ![q] = @ \cup {Link(p).rank}]
  /\ UNCHANGED <<pc, settings, link, server, faults>>

\* Some rank has not been reached by p, or not been heard of.
Incomplete(p) == ~ (Peers(p) \subseteq told[p] \cap heard[p])

\* Mutant: MakeLink returns the link without connecting it.
ConnectToMesh_Skipped(p) ==
  /\ pc[p] = "linking"
  /\ pc' = [pc EXCEPT ![p] = "linked"]
  /\ UNCHANGED <<settings, link, server, told, heard, faults>>

\* ConnectToMesh returns.
ConnectToMesh(p) ==
  /\ pc[p] = "linking"
  /\ ~ Incomplete(p)
  /\ pc' = [pc EXCEPT ![p] = "linked"]
  /\ UNCHANGED <<settings, link, server, told, heard, faults>>

\* Some process will still reach another one.
HelloPending ==
  \E p, q \in Process :
    \/ pc[p] = "init"
    \/ pc[p] = "linking" /\ \E rank \in Peers(p) \ told[p] : Serves(q, p, rank)

\* Mutant: the exception is caught and the mesh waited for again.
MeshFailure_Again(p) ==
  /\ pc[p] = "linking"
  /\ Incomplete(p)
  /\ UNCHANGED vars

\* ConnectToMesh throws: some rank was not reached, or not heard of, in time.
\* It is a fault to give up while somebody will still reach another process.
MeshFailure(p) ==
  /\ pc[p] = "linking"
  /\ Incomplete(p)
  /\ faults' = IF HelloPending THEN faults + 1 ELSE faults
  /\ faults' <= MaxFaults
  /\ End(p, "exit1")
  /\ UNCHANGED <<settings, link, told, heard>>

(* Party::Run: the handler is created, or something throws.                *)
CreateHandler(p) ==
  /\ pc[p] = "linked"
  /\ \E ic \in IcContextOf(settings[p]) :
       IF CreateContext(settings[p], ic, Link(p)) # {}
       THEN pc' = [pc EXCEPT ![p] = "ready"] /\ UNCHANGED server
       ELSE End(p, "exit1")
  /\ UNCHANGED <<settings, link, told, heard, faults>>

Kill(p) ==
  /\ faults < MaxFaults
  /\ pc[p] \notin Ended
  /\ faults' = faults + 1
  /\ End(p, "killed")
  /\ UNCHANGED <<settings, link, told, heard>>

-----------------------------------------------------------------------------
Step(p) ==
  \/ StartLink(p)
  \/ \E q \in Process : Hello(p, q)
  \/ ConnectToMesh(p)
  \/ MeshFailure(p)
  \/ CreateHandler(p)

Started == \A p \in Process : pc[p] \in Ended \cup {"ready"}

\* Every process has a handler or has ended.
Done == Started /\ UNCHANGED vars

Next == (\E p \in Process : Step(p) \/ Kill(p)) \/ Done

Spec == Init /\ [][Next]_vars

(* Every process that can take a step eventually does; ConnectToMesh has a *)
(* timeout.  A fault never has to happen.                                  *)
FairSpec == Spec /\ \A p \in Process : WF_vars(Step(p))

-----------------------------------------------------------------------------
(* Properties.                                                             *)

OnLink(p) == pc[p] \in {"linked", "ready"}

\* Links as they come: a rank is one of the addresses.
LinkRank(l) == l.rank \in DOMAIN l.nodes

(* Every variable has its type; in particular a link's own rank is one of  *)
(* its addresses, whatever the flag says, and nobody but a process that    *)
(* has a link listens.                                                     *)
TypeOK ==
  /\ pc \in [Process -> Phase]
  /\ DOMAIN settings = Process
  /\ DOMAIN link = Process
  /\ \A p \in Process :
       /\ IsFiniteSet(link[p]) /\ Cardinality(link[p]) <= 1
       /\ \A l \in link[p] : LinkRank(l)
       /\ IF pc[p] \in {"init"} \cup Ended THEN server[p] = {}
          ELSE link[p] # {} /\ \E n \in {v.node : v \in server[p]} :
                 server[p] = {[kind |-> Link(p).kind, node |-> n]}
       /\ told[p] # {} => link[p] # {} /\ told[p] \subseteq Peers(p)
  /\ faults \in 0 .. MaxFaults

\* The operators mean one mesh: the same addresses, a different one for each of
\* several ranks.
OneMesh ==
  \A p, q \in Process : link[p] # {} /\ link[q] # {} =>
    /\ Link(p).nodes = Link(q).nodes
    /\ Peers(p) # {}
    /\ \A i, j \in DOMAIN Link(p).nodes : Link(p).nodes[i] = Link(p).nodes[j] => i = j

(* When the operators mean one mesh, two processes that are connected to   *)
(* it have different ranks, so that only one of them is the passive party, *)
(* and use the same kind of link, even if they were started with the same  *)
(* rank or role, or if one of them fell back to its flags (MakeLink).      *)
OneProcessPerRank ==
  OneMesh => \A p, q \in Process : p # q /\ OnLink(p) /\ OnLink(q) =>
    /\ Link(p).rank # Link(q).rank
    /\ Link(p).kind = Link(q).kind

(* A process gets a link only if for every other rank of it there has been *)
(* a process that made the same kind of link, with that rank, and has this *)
(* process's address on it.  A process that silently fell back to its      *)
(* flags is not connected to those that did not.                           *)
LinkIsShared ==
  \A p \in Process : OnLink(p) => \A rank \in Peers(p) :
    \E q \in Process : /\ link[q] # {}
                       /\ Link(q).kind = Link(p).kind /\ Link(q).rank = rank
                       /\ \E i \in Peers(q) : Serves(p, q, i)

(* Every process gets a handler or ends, whatever it and the others were   *)
(* started with.                                                           *)
EveryProcessStarts == <>Started

\* The link a process makes when nobody is in its way.
IntendedLink(s) == IF s.transport = {} THEN WhiteBoxLink(s) ELSE BlackBoxLink(s)

\* Every process was given usable parameters, and they fit together.
UsableSettings ==
  LET Intended(p) == CHOOSE l \in IntendedLink(settings[p]) : TRUE
      nodes(p)    == Intended(p).nodes
  IN  \A p \in Process :
        /\ IntendedLink(settings[p]) # {}
        /\ Intended(p).kind = "black" => nodes(p)[Intended(p).rank] \in settings[p].transport
        /\ \A i, j \in DOMAIN nodes(p) : nodes(p)[i] = nodes(p)[j] => i = j
        /\ \A q \in Process : /\ IntendedLink(settings[q]) # {}
                              /\ nodes(q) = nodes(p)
                              /\ Intended(q).kind = Intended(p).kind
                              /\ Intended(q).rank = Intended(p).rank => q = p
        /\ DOMAIN nodes(p) = {Intended(q).rank : q \in Process}
        /\ \E ic \in IcContextOf(settings[p]) :
             CreateContext(settings[p], ic, Intended(p)) # {}

(* Processes that were given usable parameters, all of them in the         *)
(* environment or all of them on the command line, all get a handler if    *)
(* none of them is killed or gives up too early.                           *)
UsableSettingsStart ==
  UsableSettings /\ [](faults = 0) => <>(\A p \in Process : pc[p] = "ready")
=============================================================================
