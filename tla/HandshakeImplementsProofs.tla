----------------------- MODULE HandshakeImplementsProofs -----------------------
(***************************************************************************)
(* Handshake implements JobAgreement for any number of parties, any        *)
(* deployment and any failures, and a refusal is heard by every party of   *)
(* a job in which nothing fails.                                           *)
(***************************************************************************)
EXTENDS HandshakeProofs, HandshakeImplements

Over == {"finish"} \cup Exited

-----------------------------------------------------------------------------
(* What the mapping needs beside IInv.                                     *)

\* The passive party decides once, a result comes with the end of RunAlgo, and
\* nobody is in RunAlgo without having entered it.
Stages ==
  /\ pc[Passive] \in {"init", "linking", "linked", "collect", "propose"} =>
       response.code = "NONE"
  /\ \A r \in result : pc[r] \in Over
  /\ \A r \in Native : pc[r] = "run" => Ran(r)
  /\ \A r \in Foreign : Ran(r) => response.code = "OK" /\ pc[r] \in PastHandshake

\* Steps that bring a process nearer to the algorithm, or past it.
LEMMA QuietStages ==
  ASSUME IInv, Stages, NEW r \in Rank, NEW phase \in Phase \ {"run"},
         pc' = [pc EXCEPT ![r] = phase],
         phase \in Over \/ pc[r] \in {"init", "linking", "linked", "propose"},
         UNCHANGED <<response, entered>>,
         result' = result \/ (result' = result \cup {r} /\ phase \in Over)
  PROVE  Stages'
<1>0. /\ pc \in [Rank -> Phase] /\ result \subseteq Rank
      /\ \A q \in Rank : pc'[q] = IF q = r THEN phase ELSE pc[q]
      /\ Passive \in Native /\ Native \subseteq Rank /\ Foreign \subseteq Rank
  BY Ranks DEF IInv, TypeOK
<1>1. pc'[Passive] \in {"init", "linking", "linked", "collect", "propose"} =>
        response.code = "NONE"
  BY <1>0 DEF Stages, Over, Exited
<1>2. \A q \in result' : pc'[q] \in Over
  BY <1>0 DEF Stages, Over, Exited
<1>3. \A q \in Native : pc'[q] = "run" => Ran(q)'
  BY <1>0 DEF Stages, Ran
<1>4. ASSUME NEW q \in Foreign, Ran(q)'
      PROVE  response.code = "OK" /\ pc'[q] \in PastHandshake
  BY <1>0, <1>4 DEF Stages, Ran, Over, Exited, PastHandshake
<1> QED BY <1>1, <1>2, <1>3, <1>4 DEF Stages

\* No step leads back out of a stage.
LEMMA StagesKept == IInv /\ Stages /\ [Next]_vars => Stages'
<1> SUFFICES ASSUME IInv, Stages, [Next]_vars PROVE Stages'
  OBVIOUS
<1>0. /\ pc \in [Rank -> Phase] /\ result \subseteq Rank /\ entered \subseteq Rank
      /\ arrived \subseteq Active /\ ctx \in [Native -> Context]
      /\ Rank = {Passive} \cup Active /\ Passive \notin Active
      /\ Passive \in Native /\ Native \subseteq Rank /\ Foreign \subseteq Rank
      /\ Native \cap Foreign = {}
  BY Ranks DEF IInv, TypeOK, Native
<1> USE DEF Throw, Exit, Goto, Exited, Phase, Over
<1>1. ASSUME NEW r \in Native, NativeStep(r) \/ Crash(r) PROVE Stages'
  <2>1. CASE CreateIcContext(r)
    BY <1>0, <2>1, QuietStages DEF CreateIcContext
  <2>2. CASE ConnectToMesh(r)
    BY <1>0, <2>2, QuietStages DEF ConnectToMesh
  <2>3. CASE MeshFailure(r)
    BY <1>0, <2>3, QuietStages DEF MeshFailure
  <2>4. CASE PrepareDataset(r)
    <3>1. CASE ~ Prepares(ctx[r], r)
      BY <1>0, <2>4, <3>1, QuietStages DEF PrepareDataset
    <3>2. CASE Prepares(ctx[r], r) /\ ~ Skips(r)
      <4>1. \E phase \in {"collect", "propose"} : pc' = [pc EXCEPT ![r] = phase]
        BY <2>4, <3>2 DEF PrepareDataset
      <4> QED BY <1>0, <2>4, <3>2, <4>1, QuietStages DEF PrepareDataset
    <3>3. CASE Prepares(ctx[r], r) /\ Skips(r)
      <4>1. /\ pc[r] = "linked" /\ pc' = [pc EXCEPT ![r] = "run"]
            /\ entered' = entered \cup {r} /\ UNCHANGED <<response, result>>
        BY <2>4, <3>3 DEF PrepareDataset
      <4> QED BY <1>0, <4>1 DEF Stages, Ran, PastHandshake
    <3> QED BY <3>1, <3>2, <3>3
  <2>5. CASE SendHandshakeRequest(r)
    BY <1>0, <2>5, QuietStages DEF SendHandshakeRequest
  <2>6. CASE RecvHandshakeResponse(r)
    <3>1. CASE pc' = [pc EXCEPT ![r] = "run"] /\ entered' = entered \cup {r}
      <4>1. pc[r] = "await" /\ r # Passive /\ UNCHANGED <<response, result>>
        BY <1>0, <2>6 DEF RecvHandshakeResponse
      <4> QED BY <1>0, <3>1, <4>1 DEF Stages, Ran, PastHandshake
    <3>2. CASE \E phase \in Over : pc' = [pc EXCEPT ![r] = phase] /\ UNCHANGED entered
      BY <1>0, <2>6, <3>2, QuietStages DEF RecvHandshakeResponse
    <3> QED BY <2>6, <3>1, <3>2 DEF RecvHandshakeResponse
  <2>7. CASE RecvHandshakeRequest(r)
    <3>1. CASE UNCHANGED pc
      BY <2>7, <3>1 DEF RecvHandshakeRequest, Stages, Ran
    <3>2. CASE pc' = [pc EXCEPT ![r] = "exit1"]
      BY <1>0, <2>7, <3>2, QuietStages DEF RecvHandshakeRequest
    <3> QED BY <2>7, <3>1, <3>2 DEF RecvHandshakeRequest
  <2>8. CASE PassiveHandshake(r)
    <3>1. CASE pc' = [pc EXCEPT ![r] = "run"] /\ entered' = entered \cup {r}
               /\ response' = BuildResponse(ctx'[r])
      <4>1. pc[r] = "collect" /\ r = Passive /\ result' = result
        BY <2>8 DEF PassiveHandshake
      <4>2. response.code = "NONE" /\ \A q \in Foreign : ~ Ran(q)
        BY <4>1 DEF Stages
      <4> QED BY <1>0, <3>1, <4>1, <4>2 DEF Stages, Ran
    <3>2. CASE pc' = [pc EXCEPT ![r] = "finish"] /\ UNCHANGED entered
      <4>1. pc[r] = "collect" /\ r = Passive /\ result' = result
        BY <2>8 DEF PassiveHandshake
      <4>2. response.code = "NONE" /\ \A q \in Foreign : ~ Ran(q)
        BY <4>1 DEF Stages
      <4> QED BY <1>0, <3>2, <4>1, <4>2 DEF Stages, Ran
    <3>3. CASE pc' = [pc EXCEPT ![r] = "exit1"] /\ UNCHANGED <<response, entered>>
      BY <1>0, <2>8, <3>3, QuietStages DEF PassiveHandshake
    <3> QED BY <2>8, <3>1, <3>2, <3>3 DEF PassiveHandshake
  <2>9. CASE AlgoDone(r)
    BY <1>0, <2>9, QuietStages DEF AlgoDone
  <2>10. CASE AlgoFails(r)
    BY <1>0, <2>10, QuietStages DEF AlgoFails
  <2>11. CASE WaitLinkTaskFinish(r)
    BY <1>0, <2>11, QuietStages DEF WaitLinkTaskFinish
  <2>12. CASE RecvTimeout(r)
    BY <1>0, <2>12, QuietStages DEF RecvTimeout
  <2>13. CASE Crash(r)
    BY <1>0, <2>13, QuietStages DEF Crash
  <2> QED BY <1>1, <2>1, <2>2, <2>3, <2>4, <2>5, <2>6, <2>7, <2>8, <2>9, <2>10, <2>11,
             <2>12, <2>13 DEF NativeStep
<1>2. ASSUME NEW r \in Foreign, ForeignStep(r) PROVE Stages'
  <2>1. CASE ConnectToMesh(r)
    BY <1>0, <2>1, QuietStages DEF ConnectToMesh
  <2>2. CASE ForeignRequest(r)
    BY <1>0, <2>2, QuietStages DEF ForeignRequest
  <2>3. CASE ForeignResponse(r)
    <3>1. CASE response.code # "OK"
      BY <1>0, <2>3, <3>1, QuietStages DEF ForeignResponse
    <3>2. CASE response.code = "OK"
      <4>1. /\ pc' = [pc EXCEPT ![r] = "run"] /\ entered' = entered \cup {r}
            /\ pc[r] = "await" /\ UNCHANGED <<response, result>>
        BY <2>3, <3>2 DEF ForeignResponse
      <4> QED BY <1>0, <3>2, <4>1 DEF Stages, Ran, PastHandshake
    <3> QED BY <3>1, <3>2
  <2>4. CASE AlgoDone(r)
    BY <1>0, <2>4, QuietStages DEF AlgoDone
  <2>5. CASE WaitLinkTaskFinish(r)
    BY <1>0, <2>5, QuietStages DEF WaitLinkTaskFinish
  <2>6. CASE ForeignGivesUp(r)
    BY <1>0, <2>6, QuietStages DEF ForeignGivesUp
  <2> QED BY <1>2, <2>1, <2>2, <2>3, <2>4, <2>5, <2>6 DEF ForeignStep
<1>3. ASSUME UNCHANGED <<pc, response, result, entered>> PROVE Stages'
  BY <1>3 DEF Stages, Ran
<1> QED BY <1>1, <1>2, <1>3 DEF Next, Done, DeliverResponse, vars

\* Every party begins before the handshake.
LEMMA InitStages == Init => Stages
BY Ranks DEF Init, NoResponse, Refusal, Stages, Ran

-----------------------------------------------------------------------------
(* The refinement.                                                         *)

\* Nobody's terms are the ones of a party that does not run.
LEMMA TermsAreSomething == \A c : Terms(c) # NoTerms
<1> SUFFICES ASSUME NEW c, Terms(c) = NoTerms PROVE FALSE
  OBVIOUS
<1>1. CASE IsPsi(c)
  <2>1. "suit" \in DOMAIN PsiTerms(c) /\ "suit" \notin DOMAIN NoTerms
    BY DEF PsiTerms, NoTerms
  <2> QED BY <1>1, <2>1 DEF Terms
<1>2. CASE ~ IsPsi(c)
  <2>1. "num_epoch" \in DOMAIN LrTerms(c) /\ "num_epoch" \notin DOMAIN NoTerms
    BY DEF LrTerms, NoTerms
  <2> QED BY <1>2, <2>1 DEF Terms
<1> QED BY <1>1, <1>2

\* A step that leaves the contexts of those who run alone, and in which nobody
\* enters RunAlgo after a handshake, leaves the running terms alone.
LEMMA RunningKept ==
  ASSUME \A q \in Native : Skips(q)' <=> Skips(q),
         \A q \in Rank : Ran(q)' /\ ~ Skips(q) => Ran(q),
         \A q \in Rank : Ran(q) => Ran(q)',
         \A q \in Native : Ran(q) => ctx'[q] = ctx[q],
         (\E q \in Foreign : Ran(q)) => ctx'[Passive] = ctx[Passive]
  PROVE  \A q \in Rank : RunningTerms(q)' = RunningTerms(q)
<1> SUFFICES ASSUME NEW q \in Rank PROVE RunningTerms(q)' = RunningTerms(q)
  OBVIOUS
<1>1. Skips(q)' <=> Skips(q)
  BY DEF Skips
<1>2. CASE Skips(q) \/ ~ Ran(q)
  BY <1>1, <1>2 DEF RunningTerms
<1>3. CASE ~ Skips(q) /\ Ran(q)
  BY <1>1, <1>3 DEF RunningTerms, Native
<1> QED BY <1>2, <1>3

\* A step that moves a process on in the same stage is a stutter.
LEMMA StayIsStutter ==
  ASSUME IInv, Stages, NEW r \in Rank, NEW phase,
         pc' = [pc EXCEPT ![r] = phase],
         phase \in Over <=> pc[r] \in Over,
         \A q \in Rank : RunningTerms(q)' = RunningTerms(q),
         \A q \in Native : Skips(q)' <=> Skips(q),
         response.code = "OK" => ctx'[Passive] = ctx[Passive],
         UNCHANGED <<requests, response, result>>
  PROVE  UNCHANGED Job!vars
<1>1. \A q \in Rank : pc[q] \in Over <=> pc'[q] \in Over
  BY DEF IInv, TypeOK
<1>2. UNCHANGED {q \in Rank \ result : pc[q] \in Exited \cup {"finish"}}
  BY <1>1 DEF Over
<1>3. UNCHANGED {q \in result : ~ Skips(q)}
  BY DEF Skips
<1>4. UNCHANGED [q \in Rank |-> RunningTerms(q)]
  OBVIOUS
<1>5. UNCHANGED (IF response.code = "OK" THEN Terms(ctx[Passive]) ELSE NoTerms)
  OBVIOUS
<1> QED BY <1>2, <1>3, <1>4, <1>5 DEF Job!vars

\* A process that ends, or is through with the job, leaves it unless it has its
\* result.
LEMMA EndIsLeave ==
  ASSUME IInv, Stages, NEW r \in Rank, NEW phase \in Over,
         pc' = [pc EXCEPT ![r] = phase],
         UNCHANGED <<ctx, requests, response, entered, result>>
  PROVE  Job!Leave(r) \/ UNCHANGED Job!vars
<1>0. \A q : (Skips(q)' <=> Skips(q)) /\ (Ran(q)' <=> Ran(q))
  BY DEF Skips, Ran
<1>1. \A q \in Rank : RunningTerms(q)' = RunningTerms(q)
  BY <1>0, RunningKept
<1>2. CASE pc[r] \in Over
  BY <1>0, <1>1, <1>2, StayIsStutter
<1>3. CASE pc[r] \notin Over
  <2>1. r \notin result
    BY <1>3 DEF Stages
  <2>2. \A q \in Rank : pc'[q] \in Over <=> pc[q] \in Over \/ q = r
    BY DEF IInv, TypeOK
  <2>3. {q \in Rank \ result : pc[q] \in Exited \cup {"finish"}}'
          = {q \in Rank \ result : pc[q] \in Exited \cup {"finish"}} \cup {r}
    BY <2>1, <2>2 DEF Over
  <2>4. UNCHANGED {q \in result : ~ Skips(q)}
    BY <1>0
  <2>5. UNCHANGED [q \in Rank |-> RunningTerms(q)]
    BY <1>1
  <2> QED BY <2>1, <2>3, <2>4, <2>5 DEF Job!Leave
<1> QED BY <1>2, <1>3

\* Who gets a handler before the handshake has ended does not run on its terms.
LEMMA PrepareIsStutter ==
  ASSUME IInv, Stages, NEW r \in Native, PrepareDataset(r)
  PROVE  Job!Leave(r) \/ UNCHANGED Job!vars
<1>0. /\ r \in Rank /\ pc[r] = "linked" /\ ~ Ran(r) /\ ctx \in [Native -> Context]
      /\ Passive \in Native
  BY Ranks DEF PrepareDataset, IInv, TypeOK, RunsOnTerms, PastHandshake, Exited
<1>1. CASE ~ Prepares(ctx[r], r)
  BY <1>0, <1>1, EndIsLeave DEF PrepareDataset, Throw, Exit, Goto, Over, Exited
<1>2. CASE Prepares(ctx[r], r)
  <2>1. /\ ctx' = [ctx EXCEPT ![r] = Prepared(ctx[r], r)]
        /\ UNCHANGED <<requests, response, result>>
        /\ entered' = entered \/ (Skips(r) /\ entered' = entered \cup {r})
        /\ \E phase \in {"run", "collect", "propose"} : pc' = [pc EXCEPT ![r] = phase]
    BY <1>2 DEF PrepareDataset, Goto
  <2>2. Prepared(ctx[r], r).disable_handshake = ctx[r].disable_handshake
    BY <1>0, HandlerTypes
  <2>3. \A q : Skips(q)' <=> Skips(q)
    BY <1>0, <2>1, <2>2 DEF Skips
  <2>4. r = Passive => response.code = "NONE"
    BY <1>0 DEF Stages
  <2>5. \A q \in Rank : RunningTerms(q)' = RunningTerms(q)
    <3>1. \A q \in Foreign : Ran(q) => response.code = "OK"
      BY DEF Stages
    <3> QED BY <1>0, <2>1, <2>3, <2>4, <3>1, RunningKept DEF Ran
  <2> QED BY <1>0, <2>1, <2>3, <2>4, <2>5, StayIsStutter DEF Over, Exited
<1> QED BY <1>1, <1>2

\* The passive party hears the offer of the next party.
LEMMA RecvRequestImplements ==
  ASSUME IInv, Stages, NEW r \in Native, RecvHandshakeRequest(r)
  PROVE  \/ \E p \in Rank : Job!Offer(p) \/ Job!Leave(p)
         \/ UNCHANGED Job!vars
<1>0. /\ r = Passive /\ r \in Rank /\ pc[r] = "collect" /\ response.code = "NONE"
      /\ requests \in Seq(Request) /\ NextRequester \in Rank
  BY Ranks DEF RecvHandshakeRequest, Stages, IInv, TypeOK
<1>1. CASE pc' = [pc EXCEPT ![r] = "exit1"] /\ UNCHANGED requests
  BY <1>0, <1>1, EndIsLeave DEF RecvHandshakeRequest, Over, Exited
<1>2. CASE \E m \in Request : requests' = Append(requests, m) /\ UNCHANGED pc
  <2>1. /\ DOMAIN requests' = DOMAIN requests \cup {NextRequester}
        /\ NextRequester \notin DOMAIN requests
    BY <1>0, <1>2 DEF NextRequester
  <2>2. UNCHANGED <<pc, ctx, response, entered, result>>
    BY <1>2 DEF RecvHandshakeRequest
  <2>3. \A q \in Rank : (Skips(q)' <=> Skips(q)) /\ RunningTerms(q)' = RunningTerms(q)
    BY <2>2, RunningKept DEF Skips, Ran
  <2>4. UNCHANGED [q \in Rank |-> RunningTerms(q)]
    BY <2>3
  <2>5. UNCHANGED {q \in result : ~ Skips(q)}
    BY <2>2 DEF Skips
  <2>6. UNCHANGED {q \in Rank \ result : pc[q] \in Exited \cup {"finish"}}
    BY <2>2
  <2>7. Job!Offer(NextRequester)
    BY <1>0, <2>1, <2>2, <2>4, <2>5, <2>6 DEF Job!Offer
  <2> QED BY <1>0, <2>7
<1>3. PICK m \in inbox[NextRequester] :
        IF m.version >= 2
        THEN requests' = Append(requests, m) /\ UNCHANGED <<pc, outbox>>
        ELSE Throw(r) /\ UNCHANGED requests
  BY DEF RecvHandshakeRequest
<1>4. m \in Request
  BY <1>0, <1>3 DEF IInv, TypeOK
<1> QED BY <1>1, <1>2, <1>3, <1>4 DEF Throw, Exit, Goto

\* The passive party decides when it has the requests of all the others.
LEMMA AllHeard ==
  ASSUME IInv, PassiveHandshake(Passive)
  PROVE  DOMAIN requests = Active
<1>1. Len(requests) + 1 \notin Active /\ 1 .. Len(requests) \subseteq Active
  BY DEF PassiveHandshake, NextRequester, IInv, TypeOK, RequestsAreTrue
<1>2. Len(requests) \in Nat /\ DOMAIN requests = 1 .. Len(requests)
  BY DEF IInv, TypeOK
<1>3. Len(requests) <= WorldSize - 1
  <2>1. CASE Len(requests) = 0
    BY <2>1, WorldSizeAssumption
  <2>2. CASE Len(requests) # 0
    <3>1. Len(requests) \in 1 .. Len(requests)
      BY <1>2, <2>2
    <3> QED BY <1>1, <1>2, <3>1, WorldSizeAssumption DEF Active
  <2> QED BY <2>1, <2>2
<1>4. Len(requests) = WorldSize - 1
  BY <1>1, <1>2, <1>3, WorldSizeAssumption DEF Active
<1> QED BY <1>2, <1>4 DEF Active

\* The passive party decides.
LEMMA DecisionImplements ==
  ASSUME IInv, Stages, NEW r \in Native, PassiveHandshake(r)
  PROVE  \/ Job!Agree \/ Job!Refuse \/ Job!Leave(Passive)
         \/ UNCHANGED Job!vars
<1> DEFINE verdict == Verdict(ctx[r], requests)
<1>0. /\ r = Passive /\ r \in Rank /\ pc[r] = "collect" /\ response.code = "NONE"
      /\ requests \in Seq(Request) /\ ctx \in [Native -> Context]
      /\ pc \in [Rank -> Phase] /\ Passive \in Native /\ ~ Skips(Passive)
  BY Ranks DEF PassiveHandshake, Stages, IInv, TypeOK, RequestsAreTrue
<1>1. DOMAIN requests = Active
  BY <1>0, AllHeard
<1>2. Rank \ {Passive} = Active
  BY Ranks
<1>3. \A q \in Rank : ~ Ran(q) \/ Skips(q)
  <2>1. \A q \in Native : Ran(q) /\ ~ Skips(q) => response.code = "OK"
    BY DEF IInv, RunsOnTerms
  <2>2. \A q \in Foreign : Ran(q) => response.code = "OK"
    BY DEF Stages
  <2> QED BY <1>0, <2>1, <2>2 DEF Native
<1>4. Passive \notin result
  BY <1>0 DEF Stages, Over, Exited
<1>5. CASE verdict = "OK"
  <2> DEFINE d == Negotiated(ctx[r], requests)
  <2>1. /\ ctx' = [ctx EXCEPT ![r] = d]
        /\ response' = BuildResponse(ctx'[r])
        /\ pc' = [pc EXCEPT ![r] = "run"]
        /\ entered' = entered \cup {r}
        /\ UNCHANGED <<requests, result>>
    BY <1>5 DEF PassiveHandshake, Goto
  <2>2. d.disable_handshake = ctx[r].disable_handshake
    BY <1>0, <1>5, Negotiating
  <2>3. /\ ctx'[Passive] = d /\ response'.code = "OK"
        /\ \A q : Skips(q)' <=> Skips(q)
    BY <1>0, <2>1, <2>2 DEF Skips, BuildResponse
  <2>4. \A q \in Rank : RunningTerms(q) = NoTerms
    BY <1>3 DEF RunningTerms
  <2>5. \A q \in Rank : RunningTerms(q)' = IF q = Passive THEN Terms(d) ELSE NoTerms
    BY <1>0, <1>3, <2>1, <2>3 DEF RunningTerms, Ran
  <2>6. [q \in Rank |-> RunningTerms(q)]'
          = [[q \in Rank |-> RunningTerms(q)] EXCEPT ![Passive] = Terms(d)]
    BY <2>4, <2>5
  <2>7. Terms(d) # NoTerms
    BY TermsAreSomething
  <2>8. \A q \in Rank : pc'[q] \in Exited \cup {"finish"} <=> pc[q] \in Exited \cup {"finish"}
    BY <1>0, <2>1 DEF Exited
  <2>9. UNCHANGED {q \in Rank \ result : pc[q] \in Exited \cup {"finish"}}
    BY <2>1, <2>8
  <2>10. UNCHANGED {q \in result : ~ Skips(q)}
    BY <2>1, <2>3
  <2>11. Passive \notin {q \in Rank \ result : pc[q] \in Exited \cup {"finish"}}
    BY <1>0 DEF Exited
  <2> HIDE DEF d
  <2>12. Job!Agree
    BY <1>0, <1>1, <1>2, <2>1, <2>3, <2>6, <2>7, <2>9, <2>10, <2>11 DEF Job!Agree
  <2> QED BY <2>12
<1>6. CASE verdict \notin {"OK", "THROW"}
  <2>1. /\ pc' = [pc EXCEPT ![r] = "finish"] /\ response' = Refusal(verdict)
        /\ UNCHANGED <<ctx, entered, requests, result>>
    BY <1>6 DEF PassiveHandshake, Goto
  <2>2. response'.code = verdict /\ verdict \notin {"NONE", "OK"}
    BY <1>0, <1>6, <2>1, VerdictCode DEF Refusal, ErrorCode
  <2>3. \A q \in Rank : (Skips(q)' <=> Skips(q)) /\ RunningTerms(q)' = RunningTerms(q)
    BY <2>1, RunningKept DEF Skips, Ran
  <2>4. UNCHANGED [q \in Rank |-> RunningTerms(q)]
    BY <2>3
  <2>5. UNCHANGED {q \in result : ~ Skips(q)}
    BY <2>1 DEF Skips
  <2>6. \A q \in Rank : pc'[q] \in Exited \cup {"finish"}
                          <=> pc[q] \in Exited \cup {"finish"} \/ q = Passive
    BY <1>0, <2>1
  <2>7. {q \in Rank \ result : pc[q] \in Exited \cup {"finish"}}'
          = {q \in Rank \ result : pc[q] \in Exited \cup {"finish"}} \cup {Passive}
    BY <1>0, <1>4, <2>1, <2>6
  <2> HIDE DEF verdict
  <2>8. Job!Refuse
    BY <1>0, <1>1, <1>2, <2>1, <2>2, <2>4, <2>5, <2>7 DEF Job!Refuse
  <2> QED BY <2>8
<1>7. CASE verdict = "THROW"
  BY <1>0, <1>7, EndIsLeave DEF PassiveHandshake, Throw, Exit, Goto, Over, Exited
<1> QED BY <1>5, <1>6, <1>7

\* An active party takes the response: it starts on the terms, or it leaves.
LEMMA ResponseImplements ==
  ASSUME IInv, IInv', Stages, NEW r \in Rank,
         \/ r \in Native /\ RecvHandshakeResponse(r)
         \/ r \in Foreign /\ ForeignResponse(r)
  PROVE  Job!Start(r) \/ Job!Leave(r) \/ UNCHANGED Job!vars
<1>0. /\ pc[r] = "await" /\ r \in Active /\ r # Passive
      /\ pc \in [Rank -> Phase] /\ ctx \in [Native -> Context] /\ response \in Response
      /\ Passive \in Native /\ Native \subseteq Rank
      /\ UNCHANGED <<requests, response, result>>
  BY Ranks DEF RecvHandshakeResponse, ForeignResponse, IInv, TypeOK
<1>1. ~ Ran(r) /\ ~ Skips(r)
  BY <1>0 DEF IInv, RunsOnTerms, RequestsAreTrue, Stages, PastHandshake, Exited, Native, Skips
<1>2. CASE \E phase \in Over : pc' = [pc EXCEPT ![r] = phase] /\ UNCHANGED <<ctx, entered>>
  BY <1>0, <1>2, EndIsLeave
<1>3. CASE /\ response.code = "OK"
           /\ pc' = [pc EXCEPT ![r] = "run"] /\ entered' = entered \cup {r}
           /\ \/ r \in Native /\ Accepts(ctx[r], r, response)
                 /\ ctx' = [ctx EXCEPT ![r] = Processed(@, r, response)]
              \/ r \in Foreign /\ UNCHANGED ctx
  <2>1. \A q : Skips(q)' <=> Skips(q)
    <3>1. CASE UNCHANGED ctx
      BY <3>1 DEF Skips
    <3>2. CASE r \in Native /\ Accepts(ctx[r], r, response)
               /\ ctx' = [ctx EXCEPT ![r] = Processed(@, r, response)]
      <4>1. Processed(ctx[r], r, response).disable_handshake = ctx[r].disable_handshake
        BY <1>0, <3>2, HandlerTypes
      <4> QED BY <1>0, <3>2, <4>1 DEF Skips
    <3> QED BY <1>3, <3>1, <3>2
  <2>2. ctx'[Passive] = ctx[Passive] /\ \A q \in Native : q # r => ctx'[q] = ctx[q]
    BY <1>0, <1>3
  <2>3. RunningTerms(r) = NoTerms /\ RunningTerms(r)' = Terms(ctx[Passive])
    <3>1. Ran(r)' /\ ~ Skips(r)'
      BY <1>1, <1>3, <2>1 DEF Ran
    <3>2. r \in Native => Terms(ctx'[r]) = Terms(ctx'[Passive])
      BY <3>1 DEF IInv, RunsOnTerms
    <3> QED BY <1>1, <2>2, <3>1, <3>2 DEF RunningTerms
  <2>4. \A q \in Rank : q # r => RunningTerms(q)' = RunningTerms(q)
    BY <1>3, <2>1, <2>2 DEF RunningTerms, Ran, Native
  <2>5. [q \in Rank |-> RunningTerms(q)]'
          = [[q \in Rank |-> RunningTerms(q)] EXCEPT ![r] = Terms(ctx[Passive])]
    BY <2>3, <2>4
  <2>6. \A q \in Rank : pc'[q] \in Exited \cup {"finish"} <=> pc[q] \in Exited \cup {"finish"}
    BY <1>0, <1>3 DEF Exited
  <2>7. UNCHANGED {q \in Rank \ result : pc[q] \in Exited \cup {"finish"}}
    BY <1>0, <2>6
  <2>8. UNCHANGED {q \in result : ~ Skips(q)}
    BY <1>0, <2>1
  <2>9. r \notin {q \in Rank \ result : pc[q] \in Exited \cup {"finish"}}
    BY <1>0 DEF Exited
  <2>10. Job!Start(r)
    BY <1>0, <1>3, <2>2, <2>3, <2>5, <2>7, <2>8, <2>9 DEF Job!Start
  <2> QED BY <2>10
<1> QED BY <1>2, <1>3 DEF RecvHandshakeResponse, ForeignResponse, Throw, Exit, Goto, Over, Exited

\* A job completes at a party only after everybody has started it.
LEMMA DoneImplements ==
  ASSUME IInv, Stages, NEW r \in Rank, AlgoDone(r)
  PROVE  Job!Complete(r) \/ UNCHANGED Job!vars
<1>0. /\ pc[r] = "run" /\ entered = Rank /\ pc' = [pc EXCEPT ![r] = "finish"]
      /\ result' = result \cup {r} /\ UNCHANGED <<ctx, requests, response, entered>>
      /\ pc \in [Rank -> Phase] /\ Passive \in Native /\ Native \subseteq Rank
  BY Ranks DEF AlgoDone, Goto, IInv, TypeOK
<1>1. \A q \in Rank : (Skips(q)' <=> Skips(q)) /\ RunningTerms(q)' = RunningTerms(q)
  BY <1>0, RunningKept DEF Skips, Ran
<1>2. UNCHANGED [q \in Rank |-> RunningTerms(q)]
  BY <1>1
<1>3. UNCHANGED {q \in Rank \ result : pc[q] \in Exited \cup {"finish"}}
  BY <1>0 DEF Exited
<1>4. CASE Skips(r)
  <2>1. UNCHANGED {q \in result : ~ Skips(q)}
    BY <1>0, <1>1, <1>4 DEF Skips
  <2> QED BY <1>0, <1>2, <1>3, <2>1 DEF Job!vars
<1>5. CASE ~ Skips(r)
  <2>1. response.code = "OK"
    BY <1>0, <1>5 DEF Ran, IInv, RunsOnTerms, Stages, Native
  <2>2. \A q \in Rank : ~ Skips(q)
    BY <2>1, Ranks DEF IInv, ResponseIsTrue, RequestsAreTrue, Skips
  <2>3. \A q \in Rank : RunningTerms(q) # NoTerms
    BY <1>0, <2>2, TermsAreSomething DEF RunningTerms, Ran
  <2>4. {q \in result : ~ Skips(q)}' = {q \in result : ~ Skips(q)} \cup {r}
    BY <1>0, <1>1, <1>5, <2>2 DEF Skips
  <2>5. r \notin {q \in Rank \ result : pc[q] \in Exited \cup {"finish"}}
    BY <1>0 DEF Exited
  <2>6. Job!Complete(r)
    BY <1>0, <1>2, <1>3, <2>3, <2>4, <2>5 DEF Job!Complete
  <2> QED BY <2>6
<1> QED BY <1>4, <1>5

\* Every step of the job is one of JobAgreement, or a stutter.
LEMMA StepImplements ==
  IInv /\ IInv' /\ Stages /\ [Next]_vars => [Job!Next]_Job!vars
<1> SUFFICES ASSUME IInv, IInv', Stages, [Next]_vars
             PROVE  Job!Next \/ UNCHANGED Job!vars
  OBVIOUS
<1>0. /\ pc \in [Rank -> Phase] /\ Native \subseteq Rank /\ Foreign \subseteq Rank
      /\ Passive \in Rank
  BY Ranks DEF IInv, TypeOK
<1> DEFINE Implements(r) ==
      \/ Job!Offer(r) \/ Job!Start(r) \/ Job!Complete(r) \/ Job!Leave(r)
      \/ Job!Agree \/ Job!Refuse \/ Job!Leave(Passive)
      \/ UNCHANGED Job!vars
\* A process moves on before the handshake, with nothing else that counts.
<1>m. ASSUME NEW r \in Rank, NEW phase \in {"linking", "linked", "await"},
             pc' = [pc EXCEPT ![r] = phase], pc[r] \notin Over,
             UNCHANGED <<ctx, requests, response, entered, result>>
      PROVE  UNCHANGED Job!vars
  <2>1. \A q \in Rank : (Skips(q)' <=> Skips(q)) /\ RunningTerms(q)' = RunningTerms(q)
    BY <1>m, RunningKept DEF Skips, Ran
  <2> QED BY <1>0, <1>m, <2>1, StayIsStutter DEF Over, Exited
<1> USE DEF Throw, Exit, Goto, Over, Exited
<1>1. ASSUME NEW r \in Native, NativeStep(r) \/ Crash(r) PROVE \E p \in Rank : Implements(p)
  <2>1. CASE CreateIcContext(r)
    BY <1>0, <1>m, <2>1, EndIsLeave DEF CreateIcContext
  <2>2. CASE ConnectToMesh(r)
    BY <1>0, <1>m, <2>2 DEF ConnectToMesh
  <2>3. CASE MeshFailure(r)
    BY <1>0, <2>3, EndIsLeave DEF MeshFailure
  <2>4. CASE PrepareDataset(r)
    BY <1>0, <2>4, PrepareIsStutter
  <2>5. CASE SendHandshakeRequest(r)
    BY <1>0, <1>m, <2>5, EndIsLeave DEF SendHandshakeRequest
  <2>6. CASE RecvHandshakeResponse(r)
    BY <1>0, <2>6, ResponseImplements
  <2>7. CASE RecvHandshakeRequest(r)
    BY <1>0, <2>7, RecvRequestImplements
  <2>8. CASE PassiveHandshake(r)
    BY <1>0, <2>8, DecisionImplements
  <2>9. CASE AlgoDone(r)
    BY <1>0, <2>9, DoneImplements
  <2>10. CASE AlgoFails(r)
    BY <1>0, <2>10, EndIsLeave DEF AlgoFails
  <2>11. CASE WaitLinkTaskFinish(r)
    BY <1>0, <2>11, EndIsLeave DEF WaitLinkTaskFinish
  <2>12. CASE RecvTimeout(r)
    BY <1>0, <2>12, EndIsLeave DEF RecvTimeout
  <2>13. CASE Crash(r)
    BY <1>0, <2>13, EndIsLeave DEF Crash
  <2> QED BY <1>1, <2>1, <2>2, <2>3, <2>4, <2>5, <2>6, <2>7, <2>8, <2>9, <2>10, <2>11,
             <2>12, <2>13 DEF NativeStep
<1>2. ASSUME NEW r \in Foreign, ForeignStep(r) PROVE \E p \in Rank : Implements(p)
  <2>1. CASE ConnectToMesh(r)
    BY <1>0, <1>m, <2>1 DEF ConnectToMesh
  <2>2. CASE ForeignRequest(r)
    BY <1>0, <1>m, <2>2 DEF ForeignRequest
  <2>3. CASE ForeignResponse(r)
    BY <1>0, <2>3, ResponseImplements
  <2>4. CASE AlgoDone(r)
    BY <1>0, <2>4, DoneImplements
  <2>5. CASE WaitLinkTaskFinish(r)
    BY <1>0, <2>5, EndIsLeave DEF WaitLinkTaskFinish
  <2>6. CASE ForeignGivesUp(r)
    BY <1>0, <2>6, EndIsLeave DEF ForeignGivesUp
  <2> QED BY <1>2, <2>1, <2>2, <2>3, <2>4, <2>5, <2>6 DEF ForeignStep
<1>3. ASSUME UNCHANGED <<pc, ctx, requests, response, entered, result>>
      PROVE  UNCHANGED Job!vars
  <2>1. \A q \in Rank : (Skips(q)' <=> Skips(q)) /\ RunningTerms(q)' = RunningTerms(q)
    BY <1>3, RunningKept DEF Skips, Ran
  <2>2. UNCHANGED [q \in Rank |-> RunningTerms(q)]
    BY <2>1
  <2>3. UNCHANGED {q \in result : ~ Skips(q)}
    BY <1>3 DEF Skips
  <2> QED BY <1>3, <2>2, <2>3 DEF Job!vars
<1>4. (\E p \in Rank : Implements(p)) => Job!Next \/ UNCHANGED Job!vars
  BY <1>0 DEF Job!Next
<1> QED BY <1>1, <1>2, <1>3, <1>4 DEF Next, Done, DeliverResponse, vars

\* A job starts where JobAgreement does.
LEMMA InitImplements == Init => Job!Init
<1> SUFFICES ASSUME Init PROVE Job!Init
  OBVIOUS
<1>1. DOMAIN requests = {}
  BY DEF Init
<1>2. response.code = "NONE" /\ entered = {} /\ result = {}
  BY DEF Init, NoResponse, Refusal
<1>3. [q \in Rank |-> RunningTerms(q)] = [q \in Rank |-> NoTerms]
  BY <1>2 DEF RunningTerms, Ran
<1>4. {q \in Rank \ result : pc[q] \in Exited \cup {"finish"}} = {}
  BY DEF Init, Exited
<1>5. {q \in result : ~ Skips(q)} = {}
  BY <1>2
<1> QED BY <1>1, <1>2, <1>3, <1>4, <1>5 DEF Job!Init

-----------------------------------------------------------------------------
(* A refusal, when nothing fails.                                          *)

Refused == response.code \notin {"NONE", "OK"}

\* After a refusal the passive party only waits for its responses to be sent, and
\* the response of everybody who waits for it is on its way.
Heard ==
  Refused => /\ DOMAIN requests = Active
             /\ pc[Passive] \in {"finish", "exit0"}
             /\ \A r \in Native : pc[r] = "await" => r \in outbox \cup arrived

\* No foreign party proposes with a negative rank: the passive party would write
\* a width outside of its vector, and might die of it without a word.
RanksInBounds == \A r \in Foreign : \A m \in Proposals[r] : m.requester_rank \in Nat

\* So no request that was sent or read has one.
RequestsInBounds ==
  /\ \A r \in Active : \A m \in inbox[r] : m.requester_rank \in Nat
  /\ \A i \in DOMAIN requests : requests[i].requester_rank \in Nat

LEMMA RequestsStayInBounds ==
  ASSUME RanksInBounds, IInv, RequestsInBounds, [Next]_vars
  PROVE  RequestsInBounds'
<1>0. /\ inbox \in [Rank -> SUBSET Request] /\ requests \in Seq(Request)
      /\ Active \subseteq Rank /\ Native \subseteq Rank /\ Native \subseteq Nat
      /\ Foreign \subseteq Rank
  BY Ranks DEF IInv, TypeOK, Rank
<1>1. CASE UNCHANGED <<inbox, requests>>
  BY <1>1 DEF RequestsInBounds
<1>2. ASSUME NEW r \in Rank, NEW m, m.requester_rank \in Nat,
             inbox' = [inbox EXCEPT ![r] = {m}], UNCHANGED requests
      PROVE  RequestsInBounds'
  BY <1>0, <1>2 DEF RequestsInBounds
<1>3. ASSUME NEW r \in Native, SendHandshakeRequest(r) PROVE RequestsInBounds'
  <2>1. BuildRequest(ctx[r], r).requester_rank = r
    BY DEF BuildRequest, PsiBuildRequest, LrBuildRequest
  <2>2. r \in Nat /\ r \in Rank
    BY <1>0
  <2> QED BY <1>1, <1>2, <1>3, <2>1, <2>2 DEF SendHandshakeRequest
<1>4. ASSUME NEW r \in Native, RecvHandshakeRequest(r) PROVE RequestsInBounds'
  <2>1. PICK m \in inbox[NextRequester] :
          /\ inbox' = [inbox EXCEPT ![NextRequester] = {}]
          /\ requests' = Append(requests, m) \/ UNCHANGED requests
    BY <1>4 DEF RecvHandshakeRequest
  <2>2. NextRequester \in Active
    BY <1>4 DEF RecvHandshakeRequest
  <2>3. m \in Request /\ m.requester_rank \in Nat
    BY <1>0, <2>2 DEF RequestsInBounds
  <2>4. \A q \in Active : \A k \in inbox'[q] : k.requester_rank \in Nat
    BY <1>0, <2>1 DEF RequestsInBounds
  <2>5. ASSUME requests' = Append(requests, m), NEW i \in DOMAIN requests'
        PROVE  requests'[i].requester_rank \in Nat
    <3>1. /\ DOMAIN requests = 1 .. Len(requests) /\ Len(requests) \in Nat
          /\ DOMAIN requests' = 1 .. (Len(requests) + 1)
      BY <1>0, <2>3, <2>5
    <3>2. CASE i \in DOMAIN requests
      <4>1. requests'[i] = requests[i]
        BY <1>0, <2>3, <2>5, <3>2
      <4> QED BY <3>2, <4>1 DEF RequestsInBounds
    <3>3. CASE i = Len(requests) + 1
      <4>1. requests'[i] = m
        BY <1>0, <2>3, <2>5, <3>3
      <4> QED BY <2>3, <4>1
    <3> QED BY <3>1, <3>2, <3>3
  <2> QED BY <2>1, <2>4, <2>5 DEF RequestsInBounds
<1>5. ASSUME NEW r \in Foreign, ForeignRequest(r) PROVE RequestsInBounds'
  <2>1. PICK m \in Proposals[r] : inbox' = [inbox EXCEPT ![r] = {m}]
    BY <1>5 DEF ForeignRequest
  <2>2. m.requester_rank \in Nat /\ r \in Rank /\ UNCHANGED requests
    BY <1>0, <1>5 DEF RanksInBounds, ForeignRequest
  <2> QED BY <1>2, <2>1, <2>2
<1>6. ASSUME NEW r \in Native, NativeStep(r) PROVE RequestsInBounds'
  BY <1>1, <1>3, <1>4, <1>6 DEF NativeStep, CreateIcContext, ConnectToMesh, MeshFailure,
     PrepareDataset, RecvHandshakeResponse, PassiveHandshake, AlgoDone, AlgoFails,
     WaitLinkTaskFinish, RecvTimeout
<1>7. ASSUME NEW r \in Foreign, ForeignStep(r) PROVE RequestsInBounds'
  BY <1>1, <1>5, <1>7 DEF ForeignStep, ConnectToMesh, ForeignResponse, AlgoDone,
     WaitLinkTaskFinish, ForeignGivesUp
<1> QED BY <1>1, <1>6, <1>7 DEF Next, Done, DeliverResponse, Crash, vars

\* Then nobody is killed who is not killed from outside.
LEMMA NobodyDies ==
  ASSUME MaxCrashes = 0, IInv, RequestsInBounds
  PROVE  \A r : ~ Crash(r)
<1>1. crashes = 0
  BY DEF IInv, TypeOK
<1>2. \A i \in DOMAIN requests : ~ (requests[i].requester_rank < 0)
  BY DEF RequestsInBounds
<1>3. \A r : ~ MemoryDamaged(r)
  BY <1>2 DEF MemoryDamaged, WritesOutside, LrWritesOutside
<1> QED BY <1>1, <1>3 DEF Crash

\* Who waits after a step has waited before it, and has not lost its response.
LEMMA StillHeard ==
  ASSUME IInv, Heard, Refused, UNCHANGED <<requests, response>>,
         pc'[Passive] \in {"finish", "exit0"},
         \A r \in Native : pc'[r] = "await" =>
           pc[r] = "await" /\ (r \in outbox \cup arrived => r \in outbox' \cup arrived')
  PROVE  Heard'
BY DEF Heard, Refused

\* After a refusal nobody is before its proposal or in RunAlgo.
LEMMA RefusedStages ==
  ASSUME IInv, Stages, Heard, Refused, NEW r \in Native
  PROVE  pc[r] \notin {"init", "linking", "linked", "propose", "run"}
<1>1. CASE r = Passive
  BY <1>1 DEF Heard
<1>2. CASE r # Passive
  <2>1. r \in DOMAIN requests /\ ~ Skips(r)
    BY <1>2, Ranks DEF Heard, IInv, RequestsAreTrue
  <2>2. pc[r] \notin {"init", "linking", "linked", "propose"}
    BY <1>2, <2>1 DEF IInv, RequestsAreTrue
  <2>3. pc[r] # "run"
    BY <2>1 DEF Refused, Stages, IInv, RunsOnTerms
  <2> QED BY <2>2, <2>3
<1> QED BY <1>1, <1>2

\* Nobody who waits for a refusal loses it, if no process is killed.
LEMMA HeardKept ==
  ASSUME MaxCrashes = 0, IInv, Stages, RequestsInBounds, Heard, [Next]_vars
  PROVE  Heard'
<1>0. /\ pc \in [Rank -> Phase] /\ crashes = 0 /\ response \in Response
      /\ outbox \subseteq Active /\ arrived \subseteq Active
      /\ Rank = {Passive} \cup Active /\ Passive \notin Active
      /\ Passive \in Native /\ Native \subseteq Rank /\ Foreign \subseteq Rank
      /\ Passive \notin Foreign /\ Foreign \cap Native = {}
  BY Ranks, HandshakeAssumption DEF IInv, TypeOK, Native
<1> USE DEF Throw, Exit, Goto, Exited
<1>1. CASE ~ Refused
  <2>1. CASE UNCHANGED response
    BY <1>1, <2>1 DEF Heard, Refused
  <2>2. CASE ~ UNCHANGED response
    <3>1. PassiveHandshake(Passive)
      <4>1. ASSUME NEW r \in Native, NativeStep(r), ~ UNCHANGED response
            PROVE  PassiveHandshake(Passive)
        BY <4>1 DEF NativeStep, CreateIcContext, ConnectToMesh, MeshFailure, PrepareDataset,
             SendHandshakeRequest, RecvHandshakeResponse, RecvHandshakeRequest,
             PassiveHandshake, AlgoDone, AlgoFails, WaitLinkTaskFinish, RecvTimeout
      <4>2. ASSUME NEW r \in Foreign, ForeignStep(r) PROVE UNCHANGED response
        BY <4>2 DEF ForeignStep, ConnectToMesh, ForeignRequest, ForeignResponse,
             AlgoDone, WaitLinkTaskFinish, ForeignGivesUp
      <4> QED BY <2>2, <4>1, <4>2 DEF Next, Done, DeliverResponse, Crash, vars
    <3>2. CASE response'.code = "OK"
      BY <3>2 DEF Heard, Refused
    <3>3. CASE response'.code # "OK"
      <4>1. DOMAIN requests = Active
        BY <3>1, AllHeard
      <4>2. /\ pc' = [pc EXCEPT ![Passive] = "finish"]
            /\ outbox' = Active /\ UNCHANGED requests
        BY <2>2, <3>1, <3>3 DEF PassiveHandshake, BuildResponse
      <4> QED BY <1>0, <4>1, <4>2 DEF Heard
    <3> QED BY <3>2, <3>3
  <2> QED BY <2>1, <2>2
<1>2. CASE Refused
  <2>0. /\ pc[Passive] \in {"finish", "exit0"} /\ response.code # "OK"
        /\ \A r \in Native : pc[r] \notin {"init", "linking", "linked", "propose", "run"}
    BY <1>2, RefusedStages DEF Heard, Refused
  <2>1. ASSUME NEW r \in Native, NativeStep(r) PROVE Heard'
    <3>1. CASE RecvHandshakeResponse(r)
      BY <1>0, <1>2, <2>0, <3>1, StillHeard DEF RecvHandshakeResponse
    <3>2. CASE WaitLinkTaskFinish(r)
      BY <1>0, <1>2, <2>0, <3>2, StillHeard DEF WaitLinkTaskFinish
    <3>3. CASE RecvTimeout(r)
      <4>1. r # Passive
        BY <2>0, <3>3 DEF RecvTimeout, Starved
      <4> QED BY <1>0, <1>2, <2>0, <3>3, <4>1, StillHeard DEF RecvTimeout
    <3> QED BY <2>0, <2>1, <3>1, <3>2, <3>3
         DEF NativeStep, CreateIcContext, ConnectToMesh, MeshFailure, PrepareDataset,
             SendHandshakeRequest, RecvHandshakeRequest, PassiveHandshake, AlgoDone, AlgoFails
  <2>2. ASSUME NEW r \in Foreign, ForeignStep(r) PROVE Heard'
    <3>1. /\ r # Passive /\ r \notin Native
          /\ \E phase : pc' = [pc EXCEPT ![r] = phase]
          /\ UNCHANGED <<requests, response, outbox>>
          /\ arrived' = arrived \/ arrived' = arrived \ {r}
      BY <1>0, <2>2 DEF ForeignStep, ConnectToMesh, ForeignRequest, ForeignResponse,
           AlgoDone, WaitLinkTaskFinish, ForeignGivesUp
    <3> QED BY <1>0, <1>2, <2>0, <3>1, StillHeard
  <2>3. ASSUME NEW r \in Active, DeliverResponse(r) PROVE Heard'
    BY <1>0, <1>2, <2>0, <2>3, StillHeard DEF DeliverResponse
  <2>4. ASSUME UNCHANGED vars PROVE Heard'
    BY <1>2, <2>0, <2>4, StillHeard DEF vars
  <2>5. \A r : ~ Crash(r)
    BY NobodyDies
  <2> QED BY <2>1, <2>2, <2>3, <2>4, <2>5 DEF Next, Done
<1> QED BY <1>1, <1>2

\* A step after a refusal neither leads into RunAlgo nor takes the refusal for a
\* silence.
LEMMA RefusalStep ==
  ASSUME Timely, MaxCrashes = 0, IInv, Stages, RequestsInBounds, Heard,
         [Next]_vars, Refused, NEW r \in Native
  PROVE  pc'[r] # "run" /\ (pc[r] = "await" => pc'[r] # "exit1")
<1>0. /\ pc \in [Rank -> Phase] /\ crashes = 0 /\ r \in Rank
      /\ Native \subseteq Rank /\ Foreign \subseteq Rank /\ Foreign \cap Native = {}
      /\ Passive \notin Foreign /\ r \in Native
  BY Ranks, HandshakeAssumption DEF IInv, TypeOK, Native
<1>1. /\ pc[Passive] \in {"finish", "exit0"} /\ response.code # "OK"
      /\ \A q \in Native : /\ pc[q] \notin {"init", "linking", "linked", "propose", "run"}
                           /\ pc[q] = "await" => q \in outbox \cup arrived
  BY RefusedStages DEF Heard, Refused
<1> USE DEF Throw, Exit, Goto, Exited
<1>2. ASSUME NEW q \in Native, NativeStep(q)
      PROVE  pc'[r] # "run" /\ (pc[r] = "await" => pc'[r] # "exit1")
  <2>1. CASE RecvHandshakeResponse(q)
    BY <1>0, <1>1, <2>1 DEF RecvHandshakeResponse
  <2>2. CASE WaitLinkTaskFinish(q)
    BY <1>0, <1>1, <2>2 DEF WaitLinkTaskFinish
  <2>3. CASE RecvTimeout(q)
    BY <1>0, <1>1, <2>3 DEF RecvTimeout, Starved
  <2> QED BY <1>1, <1>2, <2>1, <2>2, <2>3
       DEF NativeStep, CreateIcContext, ConnectToMesh, MeshFailure, PrepareDataset,
           SendHandshakeRequest, RecvHandshakeRequest, PassiveHandshake, AlgoDone, AlgoFails
<1>3. ASSUME NEW q \in Foreign, ForeignStep(q) PROVE pc'[r] = pc[r]
  <2>1. \E phase : pc' = [pc EXCEPT ![q] = phase]
    BY <1>3 DEF ForeignStep, ConnectToMesh, ForeignRequest, ForeignResponse,
         AlgoDone, WaitLinkTaskFinish, ForeignGivesUp
  <2> QED BY <1>0, <2>1
<1>4. ASSUME UNCHANGED pc
      PROVE  pc'[r] # "run" /\ (pc[r] = "await" => pc'[r] # "exit1")
  BY <1>1, <1>4
<1>5. \A q : ~ Crash(q)
  BY NobodyDies
<1> QED BY <1>1, <1>2, <1>3, <1>4, <1>5 DEF Next, Done, DeliverResponse, vars


-----------------------------------------------------------------------------
(* The theorems.                                                           *)

\* The stages hold throughout.
LEMMA StagesInvariant == Spec => []Stages
<1> QED BY InitStages, StagesKept, Inductive, PTL DEF Spec

(* The handshake and the algorithm after it keep the promise of            *)
(* JobAgreement, for every number of parties, deployment and failure: the  *)
(* passive party decides once and after every proposal, nobody runs on     *)
(* other terms than those it fixed, and the job completes at a party only  *)
(* after everybody has started it (handler.cc).                            *)
THEOREM HandshakeKeepsPromise == Spec => ImplementsJobAgreement
<1>1. Init => Job!Init
  BY InitImplements
<1>2. IInv /\ IInv' /\ Stages /\ [Next]_vars => [Job!Next]_Job!vars
  BY StepImplements
<1> QED BY <1>1, <1>2, Inductive, StagesInvariant, PTL
        DEF Spec, Job!Spec, ImplementsJobAgreement

(* When no process is killed, nothing that is on its way is given up on    *)
(* and no foreign party has a negative rank, every active party of this    *)
(* program that waits for a response hears a refusal, and nobody runs the  *)
(* algorithm after one, for every number of parties and deployment         *)
(* (SendHandshakeResponse, WaitLinkTaskFinish).                            *)
THEOREM EveryoneHearsRefusal ==
  ASSUME Timely, MaxCrashes = 0, RanksInBounds
  PROVE  Spec => RefusalIsHeard
<1>1. Init => Heard
  BY DEF Init, NoResponse, Refusal, Heard, Refused
<1>2. Init => RequestsInBounds
  BY Ranks DEF Init, RequestsInBounds
<1>3. IInv /\ RequestsInBounds /\ [Next]_vars => RequestsInBounds'
  BY RequestsStayInBounds
<1>4. IInv /\ Stages /\ RequestsInBounds /\ Heard /\ [Next]_vars => Heard'
  BY HeardKept
<1>5. IInv /\ Stages /\ RequestsInBounds /\ Heard /\ [Next]_vars => [HearsRefusal]_vars
  BY RefusalStep DEF Refused, HearsRefusal
<1>6. Spec => [](RequestsInBounds /\ Heard)
  BY <1>1, <1>2, <1>3, <1>4, Inductive, StagesInvariant, PTL DEF Spec
<1> QED BY <1>5, <1>6, Inductive, StagesInvariant, PTL DEF Spec, RefusalIsHeard
=============================================================================
