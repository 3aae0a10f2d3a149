------------------------------ MODULE LrTraining ------------------------------
(***************************************************************************)
(* RunAlgo of the SS-LR handler (algo/lr/lr_handler.cc): every party makes *)
(* a sequence of collective SPU calls over the concatenated data set, each *)
(* of which exchanges messages with every other party.  Nothing but the    *)
(* call order and the shapes, which each party works out by itself, keeps  *)
(* the parties together.                                                   *)
(*                                                                         *)
(* One call stands for all exchanges of RegisterProtocol, of a TrainStep,  *)
(* of inference and of each reveal.  A job gets here through the handshake *)
(* or, with -disable_handshake, straight from the flags and environment.   *)
(***************************************************************************)
EXTENDS SsLr, FiniteSets, Functions

CONSTANTS
  Deployments,  \* the contexts the parties may have when they start RunAlgo
  MaxCrashes,   \* bound: how many processes may be killed
  Timely        \* TRUE: a call times out only when a peer is gone

ASSUME TrainingAssumption ==
  /\ Deployments \subseteq [Rank -> LrContext]
  /\ MaxCrashes \in Nat
  /\ Timely \in BOOLEAN

\* The csv files (ReadDataset): a row of the data set that holds the label has a
\* column, the label's, and who comes out of the handshake has read its file.
ASSUME FilesAssumption ==
  \A d \in Deployments : \A r \in Rank :
    /\ HasLabel(d[r], r)
    /\ d[r].rows > 0 \/ ~ d[r].disable_handshake
    => d[r].columns > 0

VARIABLES
  pc,        \* where each process is
  ctx,       \* each party's LrContext
  at,        \* the last collective call of each party
  posted,    \* how many collective calls each party has made
  trained,   \* how often each row went into a finished TrainStep
  writable,  \* ranks whose output file can be opened
  result,    \* ranks that have written their share of the weights
  crashes    \* processes killed so far

vars == <<pc, ctx, at, posted, trained, writable, result, crashes>>

Gone   == {"exit1", "crashed"}
Exited == Gone \cup {"exit0"}
Phase  == {"begin", "call", "wait", "output", "finish"} \cup Exited

-----------------------------------------------------------------------------
(* Train and TrainStep.                                                    *)

\* Places in RunAlgo; the loop counters count only in "train".
Place(op, epoch, batch) == [op |-> op, epoch |-> epoch, batch |-> batch]
Op == {"none", "register", "train", "score", "labels", "scores"}

\* Mutant: the rows after the last full batch make one more batch.
NumBatch_RoundsUp(c) ==
  IF c.batch_size > 0
  THEN (c.sample_size + c.batch_size - 1) \div c.batch_size ELSE 0

\* sample_size / batch_size as the loop uses it: a negative quotient and what a
\* division by zero may leave are no batches.
NumBatch(c) == IF c.batch_size > 0 THEN c.sample_size \div c.batch_size ELSE 0

\* The first TrainStep, if there is one, and the one after place.
FirstStep(c) == IF c.num_epoch > 0 /\ NumBatch(c) > 0
                THEN Place("train", 0, 0) ELSE Place("score", 0, 0)

\* Mutant: the batches are not counted from 0 again in the next epoch.
NextStep_NoReset(c, place) ==
  IF place.batch + 1 < NumBatch(c)
  THEN Place("train", place.epoch, place.batch + 1)
  ELSE IF place.epoch + 1 < c.num_epoch
  THEN Place("train", place.epoch + 1, place.batch)
  ELSE Place("score", 0, 0)

NextStep(c, place) ==
  IF place.batch + 1 < NumBatch(c)
  THEN Place("train", place.epoch, place.batch + 1)
  ELSE IF place.epoch + 1 < c.num_epoch
  THEN Place("train", place.epoch + 1, 0)
  ELSE Place("score", 0, 0)

\* Mutant: only the owner of the label needs its values in the clear.
AfterScore_OwnerOnly(c, rank) ==
  IF HasLabel(c, rank) THEN Place("labels", 0, 0) ELSE Place("scores", 0, 0)

AfterScore(c, rank) == Place("labels", 0, 0)

\* The call rank makes after the one at place.
Advance(c, rank, place) ==
  CASE place.op = "none"     -> Place("register", 0, 0)
    [] place.op = "register" -> FirstStep(c)
    [] place.op = "train"    -> NextStep(c, place)
    [] place.op = "score"    -> AfterScore(c, rank)
    [] OTHER                 -> Place("scores", 0, 0)

\* The rows of the data set a call works on: rows_beg, rows_end of Train.
RowsBeg(c, place) == IF place.op = "train" THEN place.batch * c.batch_size ELSE 0
RowsEnd(c, place) ==
  IF place.op = "train" THEN RowsBeg(c, place) + c.batch_size ELSE c.sample_size

-----------------------------------------------------------------------------
(* Concatenate: one block of columns per party, by rank.                   *)

Width(feature_nums) == FoldFunction(+, 0, feature_nums)

\* Mutant: a party's own block comes first.
BlockBeg_OwnFirst(c, rank, owner) ==
  IF owner = rank THEN 0
  ELSE FoldFunctionOnSet(+, IF owner < rank THEN c.feature_nums[rank] ELSE 0,
                         c.feature_nums, 0 .. owner - 1)

\* Where rank puts the block of columns that owner's data set fills.
BlockBeg(c, rank, owner) ==
  FoldFunctionOnSet(+, 0, c.feature_nums, 0 .. owner - 1)

\* What a call is to the other parties: the operation and its shapes.
Call(r) ==
  [op |-> at[r].op, beg |-> RowsBeg(ctx[r], at[r]), end |-> RowsEnd(ctx[r], at[r]),
   columns |-> Width(ctx[r].feature_nums), penalty |-> ctx[r].l2_norm]

-----------------------------------------------------------------------------
Init ==
  /\ pc = [r \in Rank |-> "begin"]
  /\ ctx \in Deployments
  /\ at = [r \in Rank |-> Place("none", 0, 0)]
  /\ posted = [r \in Rank |-> 0]
  /\ trained = [r \in Rank |-> [row \in 0 .. ctx[r].rows - 1 |-> 0]]
  /\ writable \in SUBSET Rank
  /\ result = {}
  /\ crashes = 0

Goto(r, phase) == pc' = [pc EXCEPT ![r] = phase]

(* RunAlgo is entered, straight from PrepareDataset when there was no      *)
(* handshake; MakeSpuContext knows two protocols only.                     *)
Begin(r) ==
  /\ pc[r] = "begin"
  /\ IF /\ ctx[r].disable_handshake => LrPrepares(ctx[r], r)
        /\ ctx[r].protocol \in {"SEMI2K", "ABY3"}
     THEN /\ Goto(r, "call")
          /\ ctx' = [ctx EXCEPT ![r].sample_size = ctx[r].rows]
     ELSE /\ Goto(r, "exit1")
          /\ UNCHANGED ctx
  /\ UNCHANGED <<at, posted, trained, writable, result, crashes>>

(* The party's side of the next collective call.                           *)
PostCall(r) ==
  /\ pc[r] = "call"
  /\ at' = [at EXCEPT ![r] = Advance(ctx[r], r, @)]
  /\ posted' = [posted EXCEPT ![r] = @ + 1]
  /\ Goto(r, "wait")
  /\ UNCHANGED <<ctx, trained, writable, result, crashes>>

\* After RegisterProtocol: Concatenate's ENFORCE on the width of the own data
\* set, and Train's division by the batch size, where a zero ends the process on
\* most machines and leaves no batches on the others.
AfterRegister(c, rank) ==
  IF c.feature_nums[rank] # FeatureNum(c, rank) THEN {"exit1"}
  ELSE IF c.batch_size = 0 THEN {"call", "crashed"} ELSE {"call"}

\* Mutant: RunAlgo does not exchange anything with the others.
FinishCall_Alone(r) ==
  /\ pc[r] = "wait"
  /\ trained' = IF at[r].op = "train"
                THEN [trained EXCEPT ![r] = [row \in DOMAIN @ |->
                        IF row \in RowsBeg(ctx[r], at[r]) .. RowsEnd(ctx[r], at[r]) - 1
                        THEN @[row] + 1 ELSE @[row]]]
                ELSE trained
  /\ Goto(r, IF at[r].op = "scores" THEN "output" ELSE "call")
  /\ UNCHANGED <<ctx, at, posted, writable, result, crashes>>

(* Everybody has made the call, so it returns.                             *)
FinishCall(r) ==
  /\ pc[r] = "wait"
  /\ \A q \in Rank : posted[q] >= posted[r]
  /\ trained' = IF at[r].op = "train"
                THEN [trained EXCEPT ![r] = [row \in DOMAIN @ |->
                        IF row \in RowsBeg(ctx[r], at[r]) .. RowsEnd(ctx[r], at[r]) - 1
                        THEN @[row] + 1 ELSE @[row]]]
                ELSE trained
  /\ \/ at[r].op = "register" /\ \E phase \in AfterRegister(ctx[r], r) : Goto(r, phase)
     \/ at[r].op = "scores"   /\ Goto(r, "output")
     \/ at[r].op \notin {"register", "scores"} /\ Goto(r, "call")
  /\ UNCHANGED <<ctx, at, posted, writable, result, crashes>>

\* What may break a call: a peer that is gone, or one that has finished without
\* making it, a timeout, and parties that do not compute the same thing.
CallBreaks(r) ==
  \/ ~ Timely
  \/ LrMayFail(ctx[r])
  \/ \E q \in Rank :
       \/ pc[q] \in Gone
       \/ pc[q] \in Exited /\ posted[q] < posted[r]
       \/ /\ posted[q] >= posted[r]
          /\ \/ LrTerms(ctx[q]) # LrTerms(ctx[r])
             \/ LrBeaver(ctx[q]) # LrBeaver(ctx[r])

\* Mutant: the exception is caught and the call made again.
FailCall_Again(r) == pc[r] = "wait" /\ CallBreaks(r) /\ UNCHANGED vars

(* The call throws, and with it RunAlgo.                                   *)
FailCall(r) ==
  /\ pc[r] = "wait"
  /\ CallBreaks(r)
  /\ Goto(r, "exit1")
  /\ UNCHANGED <<ctx, at, posted, trained, writable, result, crashes>>

\* Mutant: the result of opening the file is not looked at.
ProduceOutput_Unopened(r) ==
  /\ pc[r] = "output"
  /\ Goto(r, "finish")
  /\ result' = result \cup {r}
  /\ UNCHANGED <<ctx, at, posted, trained, writable, crashes>>

ProduceOutput(r) ==
  /\ pc[r] = "output"
  /\ IF r \in writable
     THEN Goto(r, "finish") /\ result' = result \cup {r}
     ELSE Goto(r, "exit1") /\ UNCHANGED result
  /\ UNCHANGED <<ctx, at, posted, trained, writable, crashes>>

WaitLinkTaskFinish(r) ==
  /\ pc[r] = "finish"
  /\ Goto(r, "exit0")
  /\ UNCHANGED <<ctx, at, posted, trained, writable, result, crashes>>

Crash(r) ==
  /\ crashes < MaxCrashes
  /\ pc[r] \notin Exited
  /\ crashes' = crashes + 1
  /\ Goto(r, "crashed")
  /\ UNCHANGED <<ctx, at, posted, trained, writable, result>>

-----------------------------------------------------------------------------
Step(r) ==
  \/ Begin(r)
  \/ PostCall(r)
  \/ FinishCall(r)
  \/ FailCall(r)
  \/ ProduceOutput(r)
  \/ WaitLinkTaskFinish(r)

AllExited == \A r \in Rank : pc[r] \in Exited

\* The job is over; no process is left to take a step.
Done == AllExited /\ UNCHANGED vars

Next == (\E r \in Rank : Step(r) \/ Crash(r)) \/ Done

Spec == Init /\ [][Next]_vars

(* Every process that can take a step eventually does: a call that cannot  *)
(* return any more times out.  A crash never has to happen.                *)
FairSpec == Spec /\ \A r \in Rank : WF_vars(Step(r))

-----------------------------------------------------------------------------
(* Properties.                                                             *)

(* Every variable has its type, and only a party that could open its       *)
(* output file has a result.                                               *)
TypeOK ==
  /\ pc \in [Rank -> Phase]
  /\ ctx \in [Rank -> LrContext]
  /\ at \in [Rank -> [op : Op, epoch : Nat, batch : Nat]]
  /\ posted \in [Rank -> Nat]
  /\ DOMAIN trained = Rank
  /\ \A r \in Rank : trained[r] \in [0 .. ctx[r].rows - 1 -> Nat]
  /\ writable \subseteq Rank
  /\ result \subseteq writable
  /\ crashes \in 0 .. MaxCrashes

(* Parties with the same terms make the same collective calls, in the same *)
(* order and on the same shapes, and no party is ever more than one call   *)
(* ahead of another: Train's loops and TrainStep's branch on the penalty   *)
(* are worked out by each party from its own context.                      *)
Lockstep ==
  \A p, q \in Rank :
    /\ posted[p] <= posted[q] + 1
    /\ LrTerms(ctx[p]) = LrTerms(ctx[q]) /\ posted[p] = posted[q] => Call(p) = Call(q)

(* The slices that Train takes lie within the data set.                    *)
SlicesInBounds ==
  \A r \in Rank : at[r].op = "train" =>
    0 <= RowsBeg(ctx[r], at[r]) /\ RowsEnd(ctx[r], at[r]) <= ctx[r].rows

\* Row is in one of r's full batches; the rows after them are the partial last one.
InFullBatch(r, row) ==
  /\ ctx[r].batch_size > 0
  /\ row < ctx[r].rows - (ctx[r].rows % ctx[r].batch_size)

EpochsOf(r) == IF ctx[r].num_epoch > 0 THEN ctx[r].num_epoch ELSE 0

(* A party that has its share of the weights has trained on every row of   *)
(* its full batches once per epoch, whatever last_batch_policy was agreed  *)
(* on, and under the policy to discard the partial last batch on none of   *)
(* the other rows (Train's two loops and its division).                    *)
TrainedRows ==
  \A r \in result : \A row \in 0 .. ctx[r].rows - 1 :
    /\ InFullBatch(r, row) => trained[r][row] = EpochsOf(r)
    /\ ~ InFullBatch(r, row) /\ ctx[r].last_batch_policy = "DISCARD" =>
         trained[r][row] = 0

(* Under any other last_batch_policy, the "policy to process the partial   *)
(* last batch of each epoch" (README.md:122, lr_context.cc:28), a party    *)
(* with a result has trained on the rows of that batch, too, once per      *)
(* epoch.  Train does not read the policy.                                 *)
PartialBatchIsProcessed ==
  \A r \in result :
    ctx[r].last_batch_policy # "DISCARD" /\ ctx[r].batch_size > 0 =>
      \A row \in 0 .. ctx[r].rows - 1 : trained[r][row] = EpochsOf(r)

\* The columns of r's own data set within its concatenated one.
OwnColumns(r) ==
  BlockBeg(ctx[r], r, r) .. BlockBeg(ctx[r], r, r) + ctx[r].feature_nums[r] - 1

(* When parties with the same terms train, every column of the             *)
(* concatenated data set is the share of exactly one party's own columns   *)
(* (Concatenate fills the others' blocks with zeros).                      *)
ColumnsAddUp ==
  (\A p, q \in Rank : at[p].op = "train" /\ LrTerms(ctx[p]) = LrTerms(ctx[q])) =>
    \A r \in Rank : \A col \in 0 .. Width(ctx[r].feature_nums) - 1 :
      Cardinality({q \in Rank : col \in OwnColumns(q)}) = 1

(* Every process ends, whoever was killed, failed or computes other calls. *)
EveryPartyEnds == <>AllExited

\* The parties have come here through the handshake.
Handshaken == \A r \in Rank : ~ ctx[r].disable_handshake

(* A job that the handshake has agreed on, whose parties use the same      *)
(* dealer of triples and that nothing interferes with, completes at every  *)
(* party.                                                                  *)
AgreedJobCompletes ==
  /\ Handshaken /\ MaxCrashes = 0 /\ Timely /\ writable = Rank
  /\ \A r \in Rank : /\ LrRunnable(ctx[r], r) /\ ~ LrMayFail(ctx[r])
                     /\ LrBeaver(ctx[r]) = LrBeaver(ctx[Passive])
  => <>(result = Rank)

-----------------------------------------------------------------------------
\* The parties that come out of a handshake have the same terms, and the agreed
\* number of rows is that of each party's data set (LrAccepts).
HandshakeAgreed ==
  \A d \in Deployments : (\A r \in Rank : ~ d[r].disable_handshake) =>
    \A p, q \in Rank : /\ LrTerms(d[p]) = LrTerms(d[q])
                       /\ d[p].sample_size = d[p].rows

NoTerms == [algo |-> "NONE"]

Job == INSTANCE JobAgreement WITH
  Party    <- Rank,
  Decider  <- Passive,
  offered  <- Active,
  verdict  <- "agreed",
  terms    <- LrTerms(ctx[Passive]),
  running  <- [r \in Rank |-> IF posted[r] = 0 THEN NoTerms ELSE LrTerms(ctx[r])],
  left     <- {r \in Rank \ result : pc[r] \in Exited},
  complete <- result

(* After the handshake, training goes on as JobAgreement says: parties     *)
(* start on the agreed terms, and nobody has a result before every party   *)
(* has taken part.                                                         *)
ContinuesTheJob == [][Handshaken => Job!Next]_(Job!vars)
=============================================================================
