------------------------------ MODULE Handshake ------------------------------
(***************************************************************************)
(* One job of ic_main on WorldSize parties: main (ic_main.cc), Party::Run  *)
(* (party.cc) and the handshake skeleton AlgoV2Handler (handler.cc), whose *)
(* virtual functions are dispatched on the algorithm of the party's        *)
(* context.  Rank 0 is the passive party, the others are active.           *)
(*                                                                         *)
(* A rank in Foreign runs another platform's program: all that is known of *)
(* it is the requests it may send (Proposals) and that it follows the      *)
(* message order.  The link is the yacl one: Send blocks until the peer    *)
(* has the message, SendAsync queues it, Recv blocks until the message is  *)
(* there or a timeout throws, ConnectToMesh waits for every peer.          *)
(***************************************************************************)
EXTENDS EcdhPsi, SsLr

CONSTANTS
  Foreign,      \* ranks of other platforms' parties
  Proposals,    \* the requests a foreign rank may send
  Deployments,  \* the contexts flags and environment may give the native ranks
  MaxCrashes,   \* bound: how many processes may be killed
  Timely        \* TRUE: a Recv times out only when nothing can arrive

Native  == Rank \ Foreign
Context == PsiContext \cup LrContext

Request ==
  [version : Nat, requester_rank : Int,
   lr : SUBSET LrProposal, sigmoid : SUBSET SigmoidProposal,
   ss : SUBSET SsProposal, ecc : SUBSET EccProposal,
   psi_io : SUBSET PsiIoProposal, lr_io : SUBSET LrIoProposal]

ASSUME HandshakeAssumption ==
  /\ Foreign \subseteq Active
  /\ \A r \in Foreign : Proposals[r] \subseteq Request
  /\ \A d \in Deployments :
       /\ d \in [Native -> Context]
       /\ \A r \in Native :
            d[r].algo = "SS_LR" => d[r].label_rank \in         \* GetLabelRank
              IF d[r].disable_handshake THEN Rank ELSE {-1, r}
  /\ MaxCrashes \in Nat
  /\ Timely \in BOOLEAN

VARIABLES
  pc,         \* where each process is
  ctx,        \* the handler's context at each native rank
  mesh,       \* ranks whose link server has come up
  inbox,      \* the request delivered to rank 0 by each rank, not yet received
  requests,   \* RecvHandshakeRequests' vector at rank 0
  response,   \* the response rank 0 has built
  outbox,     \* ranks the response is queued for by SendAsync
  arrived,    \* ranks the response has reached but not yet been received at
  entered,    \* ranks that have called RunAlgo
  result,     \* ranks whose RunAlgo produced its output
  crashes     \* processes killed so far

vars == <<pc, ctx, mesh, inbox, requests, response, outbox, arrived, entered,
          result, crashes>>

Exited == {"exit0", "exit1", "crashed"}
Phase  == {"init", "linking", "linked", "collect", "propose", "await", "run",
           "finish"} \cup Exited

\* Where a process will neither propose nor collect proposals any more.
PastHandshake == {"run", "finish"} \cup Exited

\* r was started with -disable_handshake.
Skips(r) == r \in Native /\ ctx[r].disable_handshake

-----------------------------------------------------------------------------
(* The virtual functions of AlgoV2Handler.                                 *)

IsPsi(c) == c.algo = "ECDH_PSI"

\* Handler construction and PrepareDataset do not throw.
Prepares(c, r) ==
  /\ HandlerExists(c)
  /\ IF IsPsi(c) THEN PsiPrepares(c) ELSE LrHandlerCreated(c) /\ LrPrepares(c, r)

Prepared(c, r)     == IF IsPsi(c) THEN c ELSE LrPrepared(c, r)
CanPropose(c)      == IF IsPsi(c) THEN TRUE ELSE LrCanPropose(c)
BuildRequest(c, r) == IF IsPsi(c) THEN PsiBuildRequest(c, r) ELSE LrBuildRequest(c, r)
Negotiate(c, rs)   == IF IsPsi(c) THEN PsiNegotiate(c, rs) ELSE LrNegotiate(c, rs)
Negotiated(c, rs)  == IF IsPsi(c) THEN PsiNegotiated(c, rs) ELSE LrNegotiated(c, rs)
Runnable(c, r)     == IF IsPsi(c) THEN PsiRunnable ELSE LrRunnable(c, r)

MayFail(c)         == IF IsPsi(c) THEN FALSE ELSE LrMayFail(c)

\* What two parties must have in common to run the algorithm with each other:
\* what the handshake settles, and where the triples come from.
Terms(c)   == IF IsPsi(c) THEN PsiTerms(c) ELSE LrTerms(c)
Fits(c, d) == /\ Terms(c) = Terms(d)
              /\ IsPsi(c) \/ LrBeaver(c) = LrBeaver(d)

BuildResponse(c) ==
  [code |-> "OK", algo |-> c.algo,
   result |-> {IF IsPsi(c) THEN PsiBuildResponse(c) ELSE LrBuildResponse(c)}]

Response ==
  [code : {"OK"}, algo : {"ECDH_PSI"}, result : SUBSET PsiResult]
    \cup [code : {"OK"}, algo : {"SS_LR"}, result : SUBSET LrResult]
    \cup [code : (ErrorCode \ {"OK"}) \cup {"NONE"}, algo : {"NONE"}, result : {{}}]

Refusal(code) == [code |-> code, algo |-> "NONE", result |-> {}]
NoResponse    == Refusal("NONE")

Accepts(c, r, rsp) ==
  /\ rsp.algo = c.algo
  /\ \E x \in rsp.result : IF IsPsi(c) THEN PsiAccepts(c, x) ELSE LrAccepts(c, r, x)

Processed(c, r, rsp) ==
  LET x == CHOOSE x \in rsp.result : TRUE
  IN  IF IsPsi(c) THEN PsiProcessed(c, x) ELSE LrProcessed(c, r, x)

\* PassiveHandshake: the error code of the response, or "THROW".
Verdict(c, rs) ==
  IF AlignHandshakeVersion(rs) # c.version
  THEN "HANDSHAKE_REFUSED"
  ELSE Negotiate(c, rs)

\* The negotiation over rs writes outside of the vector of the widths.
WritesOutside(c, rs) ==
  ~ IsPsi(c) /\ AlignHandshakeVersion(rs) = c.version /\ LrWritesOutside(c, rs)

-----------------------------------------------------------------------------
Init ==
  /\ pc = [r \in Rank |-> IF r \in Native THEN "init" ELSE "linking"]
  /\ ctx \in Deployments
  /\ mesh = Foreign
  /\ inbox = [r \in Rank |-> {}]
  /\ requests = << >>
  /\ response = NoResponse
  /\ outbox = {}
  /\ arrived = {}
  /\ entered = {}
  /\ result = {}
  /\ crashes = 0

Goto(r, phase) == pc' = [pc EXCEPT ![r] = phase]

\* A process that ends without WaitLinkTaskFinish takes its queued sends along.
Exit(r, phase) ==
  /\ Goto(r, phase)
  /\ outbox' = IF r = Passive THEN {} ELSE outbox

\* An exception reaches main: it is logged and main returns -1.
Throw(r) == Exit(r, "exit1")

(* CreateIcContext up to MakeLink, which starts the link's server.         *)
CreateIcContext(r) ==
  /\ pc[r] = "init"
  /\ IF FlagsSupported(ctx[r])
     THEN /\ Goto(r, "linking")
          /\ mesh' = mesh \cup {r}
          /\ UNCHANGED outbox
     ELSE /\ Throw(r)
          /\ UNCHANGED mesh
  /\ UNCHANGED <<ctx, inbox, requests, response, arrived, entered, result, crashes>>

(* ConnectToMesh returns when every peer has answered ...                  *)
ConnectToMesh(r) ==
  /\ pc[r] = "linking"
  /\ mesh = Rank
  /\ Goto(r, "linked")
  /\ UNCHANGED <<ctx, mesh, inbox, requests, response, outbox, arrived,
                 entered, result, crashes>>

(* ... and throws when one does not answer.                                *)
MeshFailure(r) ==
  /\ pc[r] = "linking"
  /\ \E q \in Rank \ mesh : ~ Timely \/ pc[q] \in Exited
  /\ Throw(r)
  /\ mesh' = mesh \ {r}
  /\ UNCHANGED <<ctx, inbox, requests, response, arrived, entered, result, crashes>>

(* Party::Run up to the first use of the link: the handler is made and     *)
(* prepares its data set, or something throws.  With -disable_handshake    *)
(* the algorithm follows at once.                                          *)
PrepareDataset(r) ==
  /\ pc[r] = "linked"
  /\ IF Prepares(ctx[r], r)
     THEN /\ ctx' = [ctx EXCEPT ![r] = Prepared(@, r)]
          /\ IF Skips(r)
             THEN Goto(r, "run") /\ entered' = entered \cup {r}
             ELSE /\ Goto(r, IF r = Passive THEN "collect" ELSE "propose")
                  /\ UNCHANGED entered
          /\ UNCHANGED outbox
     ELSE /\ Throw(r)
          /\ UNCHANGED <<ctx, entered>>
  /\ UNCHANGED <<mesh, inbox, requests, response, arrived, result, crashes>>

-----------------------------------------------------------------------------
(* The active party.                                                       *)

\* BuildHandshakeRequest and the blocking Send to rank 0.
SendHandshakeRequest(r) ==
  /\ pc[r] = "propose"
  /\ IF CanPropose(ctx[r]) /\ pc[Passive] \notin Exited
     THEN /\ inbox' = [inbox EXCEPT ![r] = {BuildRequest(ctx[r], r)}]
          /\ Goto(r, "await")
          /\ UNCHANGED outbox
     ELSE /\ Throw(r)
          /\ UNCHANGED inbox
  /\ UNCHANGED <<ctx, mesh, requests, response, arrived, entered, result, crashes>>

\* RecvHandshakeResponse and ProcessHandshakeResponse.
RecvHandshakeResponse(r) ==
  /\ pc[r] = "await"
  /\ r \in arrived
  /\ arrived' = arrived \ {r}
  /\ IF response.code # "OK"
     THEN /\ Goto(r, "finish")
          /\ UNCHANGED <<ctx, outbox, entered>>
     ELSE IF Accepts(ctx[r], r, response)
     THEN /\ Goto(r, "run")
          /\ entered' = entered \cup {r}
          /\ ctx' = [ctx EXCEPT ![r] = Processed(@, r, response)]
          /\ UNCHANGED outbox
     ELSE /\ Throw(r)
          /\ UNCHANGED <<ctx, entered>>
  /\ UNCHANGED <<mesh, inbox, requests, response, result, crashes>>

-----------------------------------------------------------------------------
(* The passive party.                                                      *)

\* Mutant: the loop starts one rank too late.
NextRequester_SkipsFirst == Len(requests) + 2

NextRequester == Len(requests) + 1

\* One iteration of RecvHandshakeRequests, with ParseHandshakeRequest.
RecvHandshakeRequest(r) ==
  /\ r = Passive
  /\ pc[r] = "collect"
  /\ NextRequester \in Active
  /\ \E m \in inbox[NextRequester] :
       /\ inbox' = [inbox EXCEPT ![NextRequester] = {}]
       /\ IF m.version >= 2
          THEN /\ requests' = Append(requests, m)
               /\ UNCHANGED <<pc, outbox>>
          ELSE /\ Throw(r)
               /\ UNCHANGED requests
  /\ UNCHANGED <<ctx, mesh, response, arrived, entered, result, crashes>>

\* Mutant: SendHandshakeResponse leaves out the last rank.
PassiveHandshake_SkipsLast(r) ==
  /\ r = Passive
  /\ pc[r] = "collect"
  /\ NextRequester \notin Active
  /\ LET verdict == Verdict(ctx[r], requests)
     IN  \/ /\ verdict = "OK"
            /\ ctx' = [ctx EXCEPT ![r] = Negotiated(@, requests)]
            /\ response' = BuildResponse(ctx'[r])
            /\ outbox' = Active \ {WorldSize - 1}
            /\ Goto(r, "run")
            /\ entered' = entered \cup {r}
         \/ /\ verdict \notin {"OK", "THROW"}
            /\ response' = Refusal(verdict)
            /\ outbox' = Active \ {WorldSize - 1}
            /\ Goto(r, "finish")
            /\ UNCHANGED <<ctx, entered>>
         \/ /\ verdict = "THROW"
            /\ Throw(r)
            /\ UNCHANGED <<ctx, response, entered>>
  /\ UNCHANGED <<mesh, inbox, requests, arrived, result, crashes>>

\* The rest of PassiveHandshake: agree on the version, negotiate, and queue the
\* same response for every other rank.
PassiveHandshake(r) ==
  /\ r = Passive
  /\ pc[r] = "collect"
  /\ NextRequester \notin Active
  /\ LET verdict == Verdict(ctx[r], requests)
     IN  \/ /\ verdict = "OK"
            /\ ctx' = [ctx EXCEPT ![r] = Negotiated(@, requests)]
            /\ response' = BuildResponse(ctx'[r])
            /\ outbox' = Active
            /\ Goto(r, "run")
            /\ entered' = entered \cup {r}
         \/ /\ verdict \notin {"OK", "THROW"}
            /\ response' = Refusal(verdict)
            /\ outbox' = Active
            /\ Goto(r, "finish")
            /\ UNCHANGED <<ctx, entered>>
         \/ /\ verdict = "THROW"
            /\ Throw(r)
            /\ UNCHANGED <<ctx, response, entered>>
  /\ UNCHANGED <<mesh, inbox, requests, arrived, result, crashes>>

\* The link delivers a queued response; a peer that is gone does not get it.
DeliverResponse(r) ==
  /\ r \in outbox
  /\ outbox' = outbox \ {r}
  /\ arrived' = IF pc[r] \in Exited THEN arrived ELSE arrived \cup {r}
  /\ UNCHANGED <<pc, ctx, mesh, inbox, requests, response, entered, result, crashes>>

-----------------------------------------------------------------------------
(* RunAlgo needs every other party to take part.  A party may be gone again *)
(* by the time another one is done: its last messages are on their way.    *)

\* Mutant: does not need the others.
AlgoDone_Alone(r) ==
  /\ pc[r] = "run"
  /\ result' = result \cup {r}
  /\ Goto(r, "finish")
  /\ UNCHANGED <<ctx, mesh, inbox, requests, response, outbox, arrived, entered, crashes>>

AlgoDone(r) ==
  /\ pc[r] = "run"
  /\ r \in Native => Runnable(ctx[r], r)
  /\ entered = Rank
  /\ result' = result \cup {r}
  /\ Goto(r, "finish")
  /\ UNCHANGED <<ctx, mesh, inbox, requests, response, outbox, arrived, entered, crashes>>

\* RunAlgo of the PSI handler catches what RunPsi throws, LR's does not (and a
\* batch size of 0 ends LR's process by a division, not by an exception).  What
\* parties that do not compute the same thing make of each other's messages is
\* the libraries' affair: either may throw.
AlgoFails(r) ==
  /\ pc[r] = "run"
  /\ \/ r \in Native /\ (~ Runnable(ctx[r], r) \/ MayFail(ctx[r]))
     \/ r \in Native /\ \E q \in entered \cap Native : ~ Fits(ctx[r], ctx[q])
     \/ \E q \in Rank \ result : pc[q] \in Exited \cup {"finish"}
     \/ ~ Timely
  /\ IF r \in Native /\ IsPsi(ctx[r])
     THEN Goto(r, "finish") /\ UNCHANGED outbox
     ELSE Throw(r)
  /\ UNCHANGED <<ctx, mesh, inbox, requests, response, arrived, entered, result, crashes>>

\* Mutant: main returns without flushing the queued sends.
WaitLinkTaskFinish_NoFlush(r) ==
  /\ pc[r] = "finish"
  /\ Exit(r, "exit0")
  /\ UNCHANGED <<ctx, mesh, inbox, requests, response, arrived, entered, result, crashes>>

\* main after Party::Run: the queued sends are flushed, then main returns 0.
WaitLinkTaskFinish(r) ==
  /\ pc[r] = "finish"
  /\ r = Passive => outbox = {}
  /\ Goto(r, "exit0")
  /\ UNCHANGED <<ctx, mesh, inbox, requests, response, outbox, arrived,
                 entered, result, crashes>>

-----------------------------------------------------------------------------
(* Failures.                                                               *)

\* Nothing is there for the blocked Recv of r, nor can anything still come.  A
\* peer that skips the handshake may send a message of its algorithm instead,
\* in which case the Recv returns and the message is not accepted: both throw.
Starved(r) ==
  \/ /\ r = Passive /\ pc[r] = "collect" /\ NextRequester \in Active
     /\ inbox[NextRequester] = {}
     /\ ~ Timely \/ pc[NextRequester] \in PastHandshake
  \/ /\ pc[r] = "await" /\ r \notin arrived
     /\ ~ Timely \/ (pc[Passive] \in PastHandshake /\ r \notin outbox)

\* Mutant: the exception is caught and the message waited for again.
RecvTimeout_Again(r) == Starved(r) /\ UNCHANGED vars

RecvTimeout(r) ==
  /\ Starved(r)
  /\ Throw(r)
  /\ UNCHANGED <<ctx, mesh, inbox, requests, response, arrived, entered, result, crashes>>

\* The passive party's negotiation has written, or is about to write, outside of
\* its vector (a context that was refused is as it was before).
MemoryDamaged(r) ==
  /\ r = Passive
  /\ NextRequester \notin Active
  /\ IF response.code = "OK"
     THEN ~ IsPsi(ctx[r]) /\ \E i \in DOMAIN requests : requests[i].requester_rank < 0
     ELSE WritesOutside(ctx[r], requests)

\* A process is killed, or dies of its damaged memory.  One that has not finished
\* ConnectToMesh is no longer there to answer its peers.
Crash(r) ==
  /\ pc[r] \notin Exited
  /\ \/ crashes < MaxCrashes /\ crashes' = crashes + 1
     \/ MemoryDamaged(r) /\ UNCHANGED crashes
  /\ Exit(r, "crashed")
  /\ mesh' = IF pc[r] = "linking" THEN mesh \ {r} ELSE mesh
  /\ UNCHANGED <<ctx, inbox, requests, response, arrived, entered, result>>

-----------------------------------------------------------------------------
(* A party of another platform.                                            *)

ForeignRequest(r) ==
  /\ pc[r] = "linked"
  /\ pc[Passive] \notin Exited
  /\ \E m \in Proposals[r] : inbox' = [inbox EXCEPT ![r] = {m}]
  /\ Goto(r, "await")
  /\ UNCHANGED <<ctx, mesh, requests, response, outbox, arrived, entered, result, crashes>>

ForeignResponse(r) ==
  /\ pc[r] = "await"
  /\ r \in arrived
  /\ arrived' = arrived \ {r}
  /\ Goto(r, IF response.code = "OK" THEN "run" ELSE "finish")
  /\ entered' = IF response.code = "OK" THEN entered \cup {r} ELSE entered
  /\ UNCHANGED <<ctx, mesh, inbox, requests, response, outbox, result, crashes>>

ForeignGivesUp(r) ==
  /\ pc[r] \notin Exited
  /\ Goto(r, "exit1")
  /\ mesh' = IF pc[r] = "linking" THEN mesh \ {r} ELSE mesh
  /\ UNCHANGED <<ctx, inbox, requests, response, outbox, arrived, entered, result, crashes>>

-----------------------------------------------------------------------------
NativeStep(r) ==
  \/ CreateIcContext(r)
  \/ ConnectToMesh(r)
  \/ MeshFailure(r)
  \/ PrepareDataset(r)
  \/ SendHandshakeRequest(r)
  \/ RecvHandshakeResponse(r)
  \/ RecvHandshakeRequest(r)
  \/ PassiveHandshake(r)
  \/ AlgoDone(r)
  \/ AlgoFails(r)
  \/ WaitLinkTaskFinish(r)
  \/ RecvTimeout(r)

ForeignStep(r) ==
  \/ ConnectToMesh(r)
  \/ ForeignRequest(r)
  \/ ForeignResponse(r)
  \/ AlgoDone(r)
  \/ WaitLinkTaskFinish(r)
  \/ ForeignGivesUp(r)

AllExited == \A r \in Rank : pc[r] \in Exited

\* The job is over; no process is left to take a step.
Done == AllExited /\ UNCHANGED vars

Next ==
  \/ \E r \in Native : NativeStep(r)
  \/ \E r \in Foreign : ForeignStep(r)
  \/ \E r \in Active : DeliverResponse(r)
  \/ \E r \in Native : Crash(r)
  \/ Done

Spec == Init /\ [][Next]_vars

(* Every process that can take a step eventually does, and the link        *)
(* delivers what it was given.  A foreign party is only assumed to take    *)
(* its turn, a crash never has to happen.                                  *)
Fairness ==
  /\ \A r \in Native : WF_vars(NativeStep(r))
  /\ \A r \in Foreign : WF_vars(ForeignStep(r))
  /\ \A r \in Active : WF_vars(DeliverResponse(r))

FairSpec == Spec /\ Fairness

-----------------------------------------------------------------------------
(* Properties.                                                             *)

\* r runs the algorithm, or has run it, or has died over it.
Ran(r) == r \in entered

(* Every variable has its type.                                            *)
TypeOK ==
  /\ pc \in [Rank -> Phase]
  /\ ctx \in [Native -> Context]
  /\ mesh \subseteq Rank
  /\ inbox \in [Rank -> SUBSET Request]
  /\ requests \in Seq(Request)
  /\ response \in Response
  /\ outbox \subseteq Active
  /\ arrived \subseteq Active
  /\ entered \subseteq Rank
  /\ result \subseteq Rank
  /\ crashes \in 0 .. MaxCrashes

(* A party that runs the algorithm after a handshake shares it with        *)
(* nobody who has skipped the handshake, and with every other party that   *)
(* runs it holds the same value of everything the handshake settles,       *)
(* including what an active party never compares with the response         *)
(* (result_to_rank, protocol, last_batch_policy), whoever refused, timed   *)
(* out or died meanwhile.                                                  *)
Agreement ==
  \A p, q \in Native : Ran(p) /\ Ran(q) /\ ~ Skips(p) =>
    ~ Skips(q) /\ Terms(ctx[p]) = Terms(ctx[q])

(* No party that takes part in the handshake starts to compute on its data *)
(* before every party's proposal has been read by the passive party and    *)
(* found acceptable.                                                       *)
NoEarlyRun ==
  \A p \in Native : Ran(p) /\ ~ Skips(p) =>
    /\ response.code = "OK"
    /\ DOMAIN requests = Active
    /\ \A q \in Native : pc[q] \notin {"init", "linking", "linked", "propose"}

(* The parties of an SS-LR job that runs after a handshake agree on        *)
(* exactly one of them as the owner of the label column (ProcessDataset    *)
(* reads it off the last column of the owner's data set and takes zeros at *)
(* the others).                                                            *)
OneLabelOwner ==
  \A p \in Native : Ran(p) /\ ~ Skips(p) /\ ~ IsPsi(ctx[p]) =>
    \E owner \in Rank : \A q \in Native :
      HasLabel(ctx[q], q) <=> q = owner

(* Every party that runs SS-LR after a handshake lays the concatenated     *)
(* data set out by the true widths of all parties' data sets               *)
(* (Concatenate).                                                          *)
FeatureNumsAreTrue ==
  \A p, q \in Native : Ran(p) /\ ~ Skips(p) /\ ~ IsPsi(ctx[p]) =>
    ctx[p].feature_nums[q] = FeatureNum(ctx[q], q)

(* The data set of every party that runs has as many rows as any party     *)
(* that runs SS-LR after a handshake has agreed on: rows belong together   *)
(* by their position only, and no later step compares the files            *)
(* (PrepareDataset takes the number, NegotiateLrIoParams and               *)
(* ProcessHandshakeResponse compare it).                                   *)
RowsMatch ==
  \A p, q \in Native : Ran(p) /\ ~ Skips(p) /\ ~ IsPsi(ctx[p]) /\ Ran(q) =>
    ctx[q].rows = ctx[p].sample_size

\* The settled parameters are among those that request m offers.
OfferedPsi(m, x) ==
  /\ \E e \in m.ecc :
       /\ x.ec_suit \in e.ec_suits
       /\ x.point_octet_format \in e.point_octet_formats
       /\ x.bit_length_after_truncated # -1 => e.support_point_truncation
  /\ \E io \in m.psi_io : io.result_to_rank = x.result_to_rank

OfferedLr(m, x) ==
  /\ \E p \in m.lr :
       /\ x.optimizer \in p.optimizers
       /\ x.last_batch_policy \in p.last_batch_policies
       /\ x.l0_norm # 0 => p.use_l0_norm
       /\ x.l1_norm # 0 => p.use_l1_norm
       /\ x.l2_norm # 0 => p.use_l2_norm
  /\ \E p \in m.sigmoid : x.sigmoid_mode \in p.sigmoid_modes
  /\ \E p \in m.ss :
       /\ x.protocol \in p.supported_protocols
       /\ x.field_type \in p.field_types
       /\ x.shard_serialize_format \in p.shard_serialize_formats
       /\ \E t \in p.trunc_modes : t.method = x.trunc_mode
       /\ x.ttp_server_version \in p.ttp_server_versions
  /\ \E io \in m.lr_io : io.sample_size = x.sample_size

Offered(m, rsp) ==
  \A x \in rsp.result :
    IF rsp.algo = "ECDH_PSI" THEN OfferedPsi(m, x) ELSE OfferedLr(m, x)

(* Whatever the passive party settles on, every requester had offered it:  *)
(* it chooses from the lists of all proposals, and truncates points or     *)
(* keeps a norm only if all requesters can (IntersectParamItems and        *)
(* AlignParamItem over more than one peer).                                *)
ResponseWithinProposals == \A i \in Active : Offered(requests[i], response)

\* A step after a refusal neither leads into RunAlgo nor ends who waits.
HearsRefusal ==
  response.code \notin {"NONE", "OK"} =>
    \A r \in Native : /\ pc'[r] # "run"
                      /\ pc[r] = "await" => pc'[r] # "exit1"

(* Once the passive party has refused, no party ever runs the algorithm,   *)
(* and an active party that is still waiting is told: it never ends by an  *)
(* exception out of its Recv.                                              *)
RefusalIsHeard == [][HearsRefusal]_vars

\* Who rejects a response in this step has not been sent an acceptance.
TakesAcceptance ==
  \A r \in Native \ {Passive} :
    pc[r] = "await" /\ r \in arrived /\ r \notin arrived' /\ pc'[r] = "exit1"
      => response.code # "OK"

(* An active party whose proposal the passive party has accepted does not  *)
(* reject the passive party's response.                                    *)
AcceptedIsMutual == [][TakesAcceptance]_vars

(* Every process ends, however the others were configured, whoever refused *)
(* or was killed.                                                          *)
EveryPartyEnds == <>AllExited

\* What of a context has to be the same at all parties for a job to succeed:
\* the data sets differ, and without -disable_handshake so does what the parties
\* are told about the label.
Shared(c) ==
  IF IsPsi(c) THEN c
  ELSE [c EXCEPT !.columns = 0,
                 !.label_rank = IF c.disable_handshake THEN @ ELSE 0]

\* The operators started every party with the same usable parameters.
SameParameters ==
  \A p \in Native :
    /\ FlagsSupported(ctx[p]) /\ Prepares(ctx[p], p)
    /\ Skips(p) \/ CanPropose(ctx[p])
    /\ \A q \in Native : IsPsi(ctx[p]) = IsPsi(ctx[q]) /\ Shared(ctx[p]) = Shared(ctx[q])
    /\ IF IsPsi(ctx[p]) THEN WorldSize = 2
       ELSE /\ ctx[p].protocol = "SEMI2K"
            /\ ctx[p].batch_size # 0
            /\ Skips(p) \/ ctx[p].trunc_mode = "PROBABILISTIC"
            /\ Skips(p) \/ \E owner \in Native : \A q \in Native :
                 HasLabel(ctx[q], q) <=> q = owner

(* Parties that were started with the same parameters, all of them with or *)
(* all of them without -disable_handshake, get a result.                   *)
SameParametersSucceed == SameParameters => <>(result = Rank)
=============================================================================
