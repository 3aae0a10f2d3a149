--------------------------- MODULE LrTrainingProofs ---------------------------
(***************************************************************************)
(* Safety of LrTraining for any number of parties, any contexts, agreed on *)
(* or not, any number of crashes and any timeouts.                         *)
(***************************************************************************)
EXTENDS LrTraining, FiniteSetTheorems, WellFoundedInduction, TLAPS

-----------------------------------------------------------------------------
(* The inductive invariant.                                                *)

\* The first two calls are the same whatever the context holds, which may
\* still change before the first one.
FirstCalls ==
  \A r \in Rank :
    /\ pc[r] = "begin" => posted[r] = 0
    /\ pc[r] = "wait" => posted[r] # 0
    /\ posted[r] = 0 => at[r] = Place("none", 0, 0)
    /\ posted[r] = 1 => at[r] = Place("register", 0, 0)

\* Who is about to make a call has seen everybody make the one before; nobody
\* is more than one call ahead.
Together ==
  \A p, q \in Rank :
    /\ pc[p] = "call" => posted[p] <= posted[q]
    /\ posted[p] <= posted[q] + 1

\* With the same terms, the same number of calls leads to the same place, and
\* one call more to the next place.
SamePlaces ==
  \A p, q \in Rank : LrTerms(ctx[p]) = LrTerms(ctx[q]) =>
    /\ posted[p] = posted[q] => at[p] = at[q]
    /\ posted[p] = posted[q] + 1 => at[p] = Advance(ctx[p], p, at[q])

IInv == TypeOK /\ FirstCalls /\ Together /\ SamePlaces

-----------------------------------------------------------------------------
(* The operators.                                                          *)

\* The number of batches is a natural number.
LEMMA BatchCount == ASSUME NEW c \in LrContext PROVE NumBatch(c) \in Nat
<1>1. c.sample_size \in Nat /\ c.batch_size \in Int
  BY DEF LrContext
<1>2. \A n \in Nat, b \in Int : b > 0 => n \div b \in Nat
  OBVIOUS
<1> QED BY <1>1, <1>2 DEF NumBatch

\* The next place is a place.
LEMMA AdvanceTyped ==
  ASSUME NEW c \in LrContext, NEW r \in Rank,
         NEW place \in [op : Op, epoch : Nat, batch : Nat]
  PROVE  Advance(c, r, place) \in [op : Op, epoch : Nat, batch : Nat]
<1>1. FirstStep(c) \in [op : Op, epoch : Nat, batch : Nat]
  BY DEF FirstStep, Place, Op
<1>2. NextStep(c, place) \in [op : Op, epoch : Nat, batch : Nat]
  BY DEF NextStep, Place, Op
<1>3. AfterScore(c, r) \in [op : Op, epoch : Nat, batch : Nat]
  BY DEF AfterScore, Place, Op
<1>4. /\ Place("register", 0, 0) \in [op : Op, epoch : Nat, batch : Nat]
      /\ Place("scores", 0, 0) \in [op : Op, epoch : Nat, batch : Nat]
  BY DEF Place, Op
<1> QED BY <1>1, <1>2, <1>3, <1>4 DEF Advance

\* The terms settle everything the schedule depends on.
LEMMA TermsSettle ==
  ASSUME NEW c, NEW d, LrTerms(c) = LrTerms(d)
  PROVE  /\ c.num_epoch = d.num_epoch /\ c.batch_size = d.batch_size
         /\ c.sample_size = d.sample_size /\ c.l2_norm = d.l2_norm
         /\ c.feature_nums = d.feature_nums
BY DEF LrTerms

\* Parties with the same terms go on alike from the same place.
LEMMA AdvanceAlike ==
  ASSUME NEW c, NEW d, LrTerms(c) = LrTerms(d),
         NEW p \in Rank, NEW q \in Rank, NEW place
  PROVE  Advance(c, p, place) = Advance(d, q, place)
<1>1. NumBatch(c) = NumBatch(d)
  BY TermsSettle DEF NumBatch
<1>2. FirstStep(c) = FirstStep(d) /\ NextStep(c, place) = NextStep(d, place)
  BY <1>1, TermsSettle DEF FirstStep, NextStep
<1> QED BY <1>2 DEF Advance, AfterScore

-----------------------------------------------------------------------------
(* Type correctness.                                                       *)

\* Contexts of the deployments are LrContexts, and no call has been made.
LEMMA InitTyped == Init => TypeOK
<1> SUFFICES ASSUME Init PROVE TypeOK
  OBVIOUS
<1>1. ctx \in [Rank -> LrContext]
  BY TrainingAssumption DEF Init
<1>2. at \in [Rank -> [op : Op, epoch : Nat, batch : Nat]]
  BY DEF Init, Place, Op
<1>3. \A r \in Rank : trained[r] \in [0 .. ctx[r].rows - 1 -> Nat]
  BY DEF Init
<1>4. pc \in [Rank -> Phase] /\ posted \in [Rank -> Nat]
  BY DEF Init, Phase
<1> QED BY <1>1, <1>2, <1>3, <1>4, TrainingAssumption DEF Init, TypeOK

\* A finished TrainStep counts for the rows of its slice.
LEMMA CountTyped ==
  ASSUME TypeOK, NEW r \in Rank, FinishCall(r)
  PROVE  \A q \in Rank : trained'[q] \in [0 .. ctx[q].rows - 1 -> Nat]
<1>1. CASE at[r].op # "train"
  BY <1>1 DEF FinishCall, TypeOK
<1>2. CASE at[r].op = "train"
  <2> DEFINE slice == RowsBeg(ctx[r], at[r]) .. RowsEnd(ctx[r], at[r]) - 1
             new   == [row \in DOMAIN trained[r] |->
                         IF row \in slice THEN trained[r][row] + 1 ELSE trained[r][row]]
  <2>1. trained' = [trained EXCEPT ![r] = new]
    BY <1>2 DEF FinishCall
  <2>2. trained[r] \in [0 .. ctx[r].rows - 1 -> Nat]
    BY DEF TypeOK
  <2>3. new \in [0 .. ctx[r].rows - 1 -> Nat]
    <3>1. DOMAIN trained[r] = 0 .. ctx[r].rows - 1
      BY <2>2
    <3>2. \A row \in 0 .. ctx[r].rows - 1 : new[row] \in Nat
      <4> HIDE DEF slice
      <4> TAKE row \in 0 .. ctx[r].rows - 1
      <4>1. trained[r][row] \in Nat
        BY <2>2
      <4>2. new[row] = IF row \in slice THEN trained[r][row] + 1 ELSE trained[r][row]
        BY <3>1
      <4> QED BY <4>1, <4>2
    <3> QED BY <3>1, <3>2
  <2>4. \A q \in Rank : trained'[q] = IF q = r THEN new ELSE trained[q]
    <3> HIDE DEF new
    <3> QED BY <2>1 DEF TypeOK
  <2> QED BY <2>3, <2>4 DEF TypeOK
<1> QED BY <1>1, <1>2

\* A step of a party keeps the types.
LEMMA StepTyped ==
  ASSUME TypeOK, NEW r \in Rank, Step(r) \/ Crash(r)
  PROVE  TypeOK'
<1>1. CASE Begin(r)
  <2>1. [ctx[r] EXCEPT !.sample_size = ctx[r].rows] \in LrContext
    <3>1. ctx[r] \in LrContext
      BY DEF TypeOK
    <3> QED BY <3>1 DEF LrContext
  <2>2. ctx' \in [Rank -> LrContext] /\ \A q \in Rank : ctx'[q].rows = ctx[q].rows
    <3>1. CASE UNCHANGED ctx
      BY <3>1 DEF TypeOK
    <3>2. CASE ctx' = [ctx EXCEPT ![r].sample_size = ctx[r].rows]
      <4>1. [ctx[r] EXCEPT !.sample_size = ctx[r].rows].rows = ctx[r].rows
        BY DEF TypeOK, LrContext
      <4> QED BY <2>1, <3>2, <4>1 DEF TypeOK
    <3> QED BY <1>1, <3>1, <3>2 DEF Begin
  <2>3. pc' \in [Rank -> Phase]
    BY <1>1 DEF Begin, Goto, TypeOK, Phase, Exited, Gone
  <2> QED BY <1>1, <2>2, <2>3 DEF Begin, TypeOK
<1>2. CASE PostCall(r)
  <2>1. at' \in [Rank -> [op : Op, epoch : Nat, batch : Nat]]
    BY <1>2, AdvanceTyped DEF PostCall, TypeOK
  <2>2. posted' \in [Rank -> Nat]
    BY <1>2 DEF PostCall, TypeOK
  <2>3. pc' \in [Rank -> Phase]
    BY <1>2 DEF PostCall, Goto, TypeOK, Phase
  <2> QED BY <1>2, <2>1, <2>2, <2>3 DEF PostCall, TypeOK
<1>3. CASE FinishCall(r)
  <2>1. \A q \in Rank : trained'[q] \in [0 .. ctx[q].rows - 1 -> Nat]
    BY <1>3, CountTyped
  <2>2. DOMAIN trained' = Rank
    BY <1>3 DEF FinishCall, TypeOK
  <2>3. pc' \in [Rank -> Phase]
    BY <1>3 DEF FinishCall, AfterRegister, Goto, TypeOK, Phase, Exited, Gone
  <2> QED BY <1>3, <2>1, <2>2, <2>3 DEF FinishCall, TypeOK
<1>4. CASE FailCall(r)
  BY <1>4 DEF FailCall, Goto, TypeOK, Phase, Exited, Gone
<1>5. CASE ProduceOutput(r)
  <2>1. pc' \in [Rank -> Phase]
    BY <1>5 DEF ProduceOutput, Goto, TypeOK, Phase, Exited, Gone
  <2>2. result' \subseteq writable
    BY <1>5 DEF ProduceOutput, TypeOK
  <2> QED BY <1>5, <2>1, <2>2 DEF ProduceOutput, TypeOK
<1>6. CASE WaitLinkTaskFinish(r)
  BY <1>6 DEF WaitLinkTaskFinish, Goto, TypeOK, Phase, Exited
<1>7. CASE Crash(r)
  <2>1. pc' \in [Rank -> Phase]
    BY <1>7 DEF Crash, Goto, TypeOK, Phase, Exited, Gone
  <2>2. crashes' \in 0 .. MaxCrashes
    BY <1>7, TrainingAssumption DEF Crash, TypeOK
  <2> QED BY <1>7, <2>1, <2>2 DEF Crash, TypeOK
<1> QED BY <1>1, <1>2, <1>3, <1>4, <1>5, <1>6, <1>7 DEF Step

\* Type correctness is kept by every step and by a stutter.
LEMMA TypeStep == TypeOK /\ [Next]_vars => TypeOK'
<1> SUFFICES ASSUME TypeOK, [Next]_vars PROVE TypeOK'
  OBVIOUS
<1>1. CASE \E r \in Rank : Step(r) \/ Crash(r)
  BY <1>1, StepTyped
<1>2. CASE UNCHANGED vars
  BY <1>2 DEF vars, TypeOK
<1> QED BY <1>1, <1>2 DEF Next, Done

(* Every variable of LrTraining has its type in every reachable state, and *)
(* only parties that could open their output file have a result.           *)
THEOREM TrainingTyped == Spec => []TypeOK
<1>1. Init => TypeOK
  BY InitTyped
<1> QED BY <1>1, TypeStep, PTL DEF Spec

-----------------------------------------------------------------------------
(* The parties stay in step.                                               *)

\* What the invariant needs to know of a step: nothing but a call moves the
\* counters, and only the return of a call everybody has made leads to a call.
LEMMA QuietStep ==
  ASSUME IInv, NEW r \in Rank,
         UNCHANGED <<at, posted, ctx>>,
         \A q \in Rank \ {r} : pc'[q] = pc[q],
         pc'[r] \notin {"begin", "wait"},
         pc'[r] = "call" => \A q \in Rank : posted[r] <= posted[q]
  PROVE  (FirstCalls /\ Together /\ SamePlaces)'
<1>1. FirstCalls'
  BY DEF IInv, FirstCalls
<1>2. Together'
  BY DEF IInv, Together
<1>3. SamePlaces'
  BY DEF IInv, SamePlaces
<1> QED BY <1>1, <1>2, <1>3

\* A party takes over its number of rows before its first call, when its place
\* does not depend on its context yet.
LEMMA BeginInStep ==
  ASSUME IInv, NEW r \in Rank, Begin(r)
  PROVE  (FirstCalls /\ Together /\ SamePlaces)'
<1>1. at' = at /\ posted' = posted
  BY DEF Begin
<1>2. posted \in [Rank -> Nat]
  BY DEF IInv, TypeOK
<1>3. posted[r] = 0
  BY DEF Begin, IInv, FirstCalls
<1>4. \A q \in Rank \ {r} : pc'[q] = pc[q] /\ ctx'[q] = ctx[q]
  BY DEF Begin, Goto, IInv, TypeOK
<1>5. pc'[r] \notin {"begin", "wait"}
  BY DEF Begin, Goto, IInv, TypeOK
<1>6. FirstCalls'
  BY <1>1, <1>4, <1>5 DEF IInv, FirstCalls
<1>7. Together'
  <2> SUFFICES ASSUME NEW p \in Rank, NEW q \in Rank
               PROVE  /\ pc'[p] = "call" => posted[p] <= posted[q]
                      /\ posted[p] <= posted[q] + 1
    BY <1>1 DEF Together
  <2>1. CASE p = r
    BY <2>1, <1>2, <1>3
  <2>2. CASE p # r
    BY <2>2, <1>4 DEF IInv, Together
  <2> QED BY <2>1, <2>2
<1>8. SamePlaces'
  <2> SUFFICES ASSUME NEW p \in Rank, NEW q \in Rank, LrTerms(ctx'[p]) = LrTerms(ctx'[q])
               PROVE  /\ posted[p] = posted[q] => at[p] = at[q]
                      /\ posted[p] = posted[q] + 1 => at[p] = Advance(ctx'[p], p, at[q])
    BY <1>1 DEF SamePlaces
  <2>1. CASE p # r /\ q # r
    BY <2>1, <1>4 DEF IInv, SamePlaces
  <2>2. CASE p = r \/ q = r
    <3>1. posted[p] = posted[q] => at[p] = at[q]
      BY <2>2, <1>3 DEF IInv, FirstCalls
    <3>2. ASSUME posted[p] = posted[q] + 1
          PROVE  at[p] = Advance(ctx'[p], p, at[q])
      <4>1. posted[q] = 0 /\ posted[p] = 1
        BY <3>2, <2>2, <1>2, <1>3
      <4>2. at[q] = Place("none", 0, 0) /\ at[p] = Place("register", 0, 0)
        BY <4>1 DEF IInv, FirstCalls
      <4> QED BY <4>2 DEF Advance, Place
    <3> QED BY <3>1, <3>2
  <2> QED BY <2>1, <2>2
<1> QED BY <1>6, <1>7, <1>8

\* A party makes its next call: it was not ahead of anybody, so it meets those
\* that are one call ahead at their place and leaves the others one behind.
LEMMA PostCallInStep ==
  ASSUME IInv, NEW r \in Rank, PostCall(r)
  PROVE  (FirstCalls /\ Together /\ SamePlaces)'
<1>1. posted \in [Rank -> Nat] /\ DOMAIN at = Rank /\ DOMAIN pc = Rank
  BY DEF IInv, TypeOK
<1>2. /\ posted'[r] = posted[r] + 1
      /\ at'[r] = Advance(ctx[r], r, at[r])
      /\ pc[r] = "call" /\ pc'[r] = "wait"
      /\ ctx' = ctx
  BY <1>1 DEF PostCall, Goto
<1>3. \A q \in Rank \ {r} : posted'[q] = posted[q] /\ at'[q] = at[q] /\ pc'[q] = pc[q]
  BY <1>1 DEF PostCall, Goto
<1>4. \A q \in Rank : posted[q] = posted[r] \/ posted[q] = posted[r] + 1
  <2> TAKE q \in Rank
  <2>1. posted[r] <= posted[q] /\ posted[q] <= posted[r] + 1
    BY <1>2 DEF IInv, Together
  <2> QED BY <2>1, <1>1
<1>5. FirstCalls'
  <2>1. posted[r] = 0 => at'[r] = Place("register", 0, 0)
    BY <1>2 DEF IInv, FirstCalls, Advance, Place
  <2>2. posted'[r] # 0 /\ (posted'[r] = 1 => posted[r] = 0)
    BY <1>1, <1>2
  <2> QED BY <1>2, <1>3, <2>1, <2>2 DEF IInv, FirstCalls
<1>6. Together'
  <2> SUFFICES ASSUME NEW p \in Rank, NEW q \in Rank
               PROVE  /\ pc'[p] = "call" => posted'[p] <= posted'[q]
                      /\ posted'[p] <= posted'[q] + 1
    BY DEF Together
  <2>1. CASE p = r
    BY <2>1, <1>1, <1>2, <1>3, <1>4
  <2>2. CASE p # r
    <3>1. /\ pc'[p] = "call" => posted[p] <= posted[q]
          /\ posted[p] <= posted[q] + 1
      BY <2>2, <1>3 DEF IInv, Together
    <3>2. posted'[p] = posted[p] /\ posted[q] <= posted'[q]
      BY <2>2, <1>1, <1>2, <1>3
    <3>3. posted[p] \in Nat /\ posted[q] \in Nat /\ posted'[q] \in Nat
      BY <1>1, <1>2, <1>3
    <3> QED BY <3>1, <3>2, <3>3
  <2> QED BY <2>1, <2>2
<1>7. SamePlaces'
  <2> SUFFICES ASSUME NEW p \in Rank, NEW q \in Rank, LrTerms(ctx[p]) = LrTerms(ctx[q])
               PROVE  /\ posted'[p] = posted'[q] => at'[p] = at'[q]
                      /\ posted'[p] = posted'[q] + 1 => at'[p] = Advance(ctx[p], p, at'[q])
    BY <1>2 DEF SamePlaces
  <2>1. /\ posted[p] = posted[q] => at[p] = at[q]
        /\ posted[p] = posted[q] + 1 => at[p] = Advance(ctx[p], p, at[q])
        /\ posted[q] = posted[p] + 1 => at[q] = Advance(ctx[q], q, at[p])
    BY DEF IInv, SamePlaces
  <2>2. CASE p = r /\ q # r
    <3>1. CASE posted[q] = posted[r]
      BY <3>1, <2>1, <2>2, <1>1, <1>2, <1>3
    <3>2. CASE posted[q] = posted[r] + 1
      <4>1. at'[p] = at'[q]
        BY <3>2, <2>1, <2>2, <1>2, <1>3, AdvanceAlike
      <4> QED BY <4>1, <3>2, <2>2, <1>1, <1>2, <1>3
    <3> QED BY <3>1, <3>2, <1>4
  <2>3. CASE p # r /\ q = r
    <3>1. CASE posted[p] = posted[r]
      BY <3>1, <2>3, <1>1, <1>2, <1>3
    <3>2. CASE posted[p] = posted[r] + 1
      <4>1. at'[p] = at'[q]
        BY <3>2, <2>1, <2>3, <1>2, <1>3, AdvanceAlike
      <4> QED BY <4>1, <3>2, <2>3, <1>1, <1>2, <1>3
    <3> QED BY <3>1, <3>2, <1>4
  <2>4. CASE p = r /\ q = r
    BY <2>4, <1>1, <1>2
  <2>5. CASE p # r /\ q # r
    BY <2>5, <2>1, <1>3
  <2> QED BY <2>2, <2>3, <2>4, <2>5
<1> QED BY <1>5, <1>6, <1>7

\* The parties stay in step, whatever a party does next.
LEMMA InStep ==
  ASSUME IInv, NEW r \in Rank, Step(r) \/ Crash(r)
  PROVE  (FirstCalls /\ Together /\ SamePlaces)'
<1>1. CASE Begin(r)
  BY <1>1, BeginInStep
<1>2. CASE PostCall(r)
  BY <1>2, PostCallInStep
<1>3. CASE FinishCall(r)
  <2>1. \A q \in Rank : posted[r] <= posted[q]
    <3>1. posted \in [Rank -> Nat]
      BY DEF IInv, TypeOK
    <3> QED BY <1>3, <3>1 DEF FinishCall
  <2>2. /\ \A q \in Rank \ {r} : pc'[q] = pc[q]
        /\ pc'[r] \notin {"begin", "wait"}
    BY <1>3 DEF FinishCall, AfterRegister, Goto, IInv, TypeOK
  <2>3. UNCHANGED <<at, posted, ctx>>
    BY <1>3 DEF FinishCall
  <2> QED BY <2>1, <2>2, <2>3, QuietStep
<1>4. CASE FailCall(r) \/ ProduceOutput(r) \/ WaitLinkTaskFinish(r) \/ Crash(r)
  <2>1. /\ \A q \in Rank \ {r} : pc'[q] = pc[q]
        /\ pc'[r] \notin {"begin", "wait", "call"}
    BY <1>4 DEF FailCall, ProduceOutput, WaitLinkTaskFinish, Crash, Goto, IInv, TypeOK
  <2>2. UNCHANGED <<at, posted, ctx>>
    BY <1>4 DEF FailCall, ProduceOutput, WaitLinkTaskFinish, Crash
  <2> QED BY <2>1, <2>2, QuietStep
<1> QED BY <1>1, <1>2, <1>3, <1>4 DEF Step

\* The states training starts in.
LEMMA InitInStep == Init => IInv
<1> SUFFICES ASSUME Init PROVE IInv
  OBVIOUS
<1>1. TypeOK
  BY InitTyped
<1>2. \A r \in Rank : posted[r] = 0 /\ at[r] = Place("none", 0, 0) /\ pc[r] = "begin"
  BY DEF Init
<1> QED BY <1>1, <1>2 DEF IInv, FirstCalls, Together, SamePlaces

\* The inductive invariant is kept by every step.
LEMMA IInvStep == IInv /\ [Next]_vars => IInv'
<1> SUFFICES ASSUME IInv, [Next]_vars PROVE IInv'
  OBVIOUS
<1>1. TypeOK'
  BY TypeStep DEF IInv
<1>2. CASE \E r \in Rank : Step(r) \/ Crash(r)
  BY <1>1, <1>2, InStep DEF IInv
<1>3. CASE UNCHANGED vars
  BY <1>1, <1>3 DEF vars, IInv, FirstCalls, Together, SamePlaces
<1> QED BY <1>2, <1>3 DEF Next, Done

\* At the same place, parties with the same terms make the same call.
LEMMA SameCalls == IInv => Lockstep
<1> SUFFICES ASSUME IInv, NEW p \in Rank, NEW q \in Rank
             PROVE  /\ posted[p] <= posted[q] + 1
                    /\ LrTerms(ctx[p]) = LrTerms(ctx[q]) /\ posted[p] = posted[q]
                         => Call(p) = Call(q)
  BY DEF Lockstep
<1>1. posted[p] <= posted[q] + 1
  BY DEF IInv, Together
<1>2. ASSUME LrTerms(ctx[p]) = LrTerms(ctx[q]), posted[p] = posted[q]
      PROVE  Call(p) = Call(q)
  <2>1. at[p] = at[q]
    BY <1>2 DEF IInv, SamePlaces
  <2>2. RowsBeg(ctx[p], at[p]) = RowsBeg(ctx[q], at[q])
    BY <2>1, <1>2, TermsSettle DEF RowsBeg
  <2>3. RowsEnd(ctx[p], at[p]) = RowsEnd(ctx[q], at[q])
    BY <2>1, <2>2, <1>2, TermsSettle DEF RowsEnd
  <2>4. /\ Width(ctx[p].feature_nums) = Width(ctx[q].feature_nums)
        /\ ctx[p].l2_norm = ctx[q].l2_norm
    BY <1>2, TermsSettle
  <2> QED BY <2>1, <2>2, <2>3, <2>4 DEF Call
<1> QED BY <1>1, <1>2

(* Parties with the same terms make the same collective calls on the same  *)
(* shapes, and stay within one call of each other, for any number of       *)
(* parties, whoever fails, is killed or computes something else: RunAlgo   *)
(* needs no agreement beyond the one of the handshake.                     *)
THEOREM PartiesKeepStep == Spec => []Lockstep
<1> QED BY InitInStep, IInvStep, SameCalls, PTL DEF Spec

-----------------------------------------------------------------------------
(* Train stays within the data set.                                        *)

\* A party that has made a call knows the rows of its data set; a batch it
\* trains on is one of the full ones.
Sized ==
  \A r \in Rank :
    /\ pc[r] = "call" \/ posted[r] > 0 => ctx[r].sample_size = ctx[r].rows
    /\ at[r].op = "train" => posted[r] > 0 /\ at[r].batch < NumBatch(ctx[r])

\* Full batches fit.
LEMMA FullBatchesFit ==
  ASSUME NEW n \in Nat, NEW b \in Nat, b > 0, NEW k \in Nat, k < n \div b
  PROVE  k * b + b <= n
<1> DEFINE m == n \div b
<1>1. m \in Nat /\ m * b <= n
  OBVIOUS
<1>2. PICK j \in Nat : m = k + 1 + j
  <2>1. m - (k + 1) \in Nat /\ m = k + 1 + (m - (k + 1))
    BY <1>1
  <2> QED BY <2>1
<1>3. m * b = k * b + b + j * b /\ j * b \in Nat /\ k * b \in Nat
  <2> HIDE DEF m
  <2>1. m * b = (k + 1 + j) * b
    BY <1>2
  <2>2. (k + 1 + j) * b = k * b + b + j * b
    OBVIOUS
  <2> QED BY <2>1, <2>2
<1> HIDE DEF m
<1> QED BY <1>1, <1>3

\* Sized bounds the slices.
LEMMA SlicesFit == TypeOK /\ Sized => SlicesInBounds
<1> SUFFICES ASSUME TypeOK, Sized, NEW r \in Rank, at[r].op = "train"
             PROVE  /\ 0 <= RowsBeg(ctx[r], at[r])
                    /\ RowsEnd(ctx[r], at[r]) <= ctx[r].rows
  BY DEF SlicesInBounds
<1> DEFINE n == ctx[r].sample_size
           b == ctx[r].batch_size
           k == at[r].batch
<1>1. n \in Nat /\ b \in Int /\ k \in Nat
  BY DEF TypeOK, LrContext
<1>2. n = ctx[r].rows /\ k < NumBatch(ctx[r])
  BY DEF Sized
<1>3. b > 0 /\ k < n \div b
  BY <1>1, <1>2 DEF NumBatch
<1>4. RowsBeg(ctx[r], at[r]) = k * b /\ RowsEnd(ctx[r], at[r]) = k * b + b
  BY DEF RowsBeg, RowsEnd
<1> HIDE DEF n, b, k
<1>5. b \in Nat /\ k * b + b <= n
  BY <1>1, <1>3, FullBatchesFit
<1>6. 0 <= k * b
  BY <1>1, <1>5
<1> QED BY <1>2, <1>4, <1>5, <1>6

\* The next place of a party is in a full batch if it is in any.
LEMMA AdvanceSized ==
  ASSUME NEW c \in LrContext, NEW r \in Rank,
         NEW place \in [op : Op, epoch : Nat, batch : Nat],
         place.op = "train" => place.batch < NumBatch(c),
         Advance(c, r, place).op = "train"
  PROVE  Advance(c, r, place).batch < NumBatch(c)
<1>1. NumBatch(c) \in Nat /\ place.batch \in Nat
  BY BatchCount
<1>2. CASE place.op = "register"
  BY <1>1, <1>2 DEF Advance, FirstStep, Place
<1>3. CASE place.op = "train"
  BY <1>1, <1>3 DEF Advance, NextStep, Place
<1>4. CASE place.op \notin {"register", "train"}
  BY <1>4 DEF Advance, AfterScore, Place
<1> QED BY <1>2, <1>3, <1>4

\* A party that goes on to another TrainStep goes on to a full batch.
LEMMA StepSized ==
  ASSUME IInv, Sized, NEW r \in Rank, Step(r) \/ Crash(r)
  PROVE  Sized'
<1>0. posted \in [Rank -> Nat] /\ DOMAIN at = Rank /\ DOMAIN pc = Rank /\ DOMAIN ctx = Rank
  BY DEF IInv, TypeOK
<1>1. CASE Begin(r)
  <2>1. posted[r] = 0 /\ at[r].op # "train" /\ at' = at /\ posted' = posted
    BY <1>1 DEF Begin, IInv, FirstCalls, Place
  <2>2. \A q \in Rank \ {r} : pc'[q] = pc[q] /\ ctx'[q] = ctx[q]
    BY <1>0, <1>1 DEF Begin, Goto
  <2>3. pc'[r] = "call" => ctx'[r].sample_size = ctx'[r].rows
    <3>1. ctx[r] \in LrContext
      BY DEF IInv, TypeOK
    <3>2. pc'[r] = "call" => ctx'[r] = [ctx[r] EXCEPT !.sample_size = ctx[r].rows]
      BY <1>0, <1>1 DEF Begin, Goto
    <3>3. \A p : p = [ctx[r] EXCEPT !.sample_size = ctx[r].rows]
                 => p.sample_size = p.rows
      <4> SUFFICES ASSUME NEW p, p = [ctx[r] EXCEPT !.sample_size = ctx[r].rows]
                   PROVE  p.sample_size = p.rows
        OBVIOUS
      <4>1. ctx[r].rows \in Nat
        BY <3>1 DEF LrContext
      <4> QED BY <3>1, <4>1 DEF LrContext
    <3> QED BY <3>2, <3>3, Zenon
  <2> QED BY <2>1, <2>2, <2>3 DEF Sized
<1>2. CASE PostCall(r)
  <2>1. /\ ctx' = ctx /\ pc[r] = "call" /\ pc'[r] = "wait"
        /\ at'[r] = Advance(ctx[r], r, at[r]) /\ posted'[r] = posted[r] + 1
    BY <1>0, <1>2 DEF PostCall, Goto
  <2>2. \A q \in Rank \ {r} : pc'[q] = pc[q] /\ at'[q] = at[q] /\ posted'[q] = posted[q]
    BY <1>0, <1>2 DEF PostCall, Goto
  <2>3. posted'[r] > 0 /\ ctx[r].sample_size = ctx[r].rows
    BY <1>0, <2>1 DEF Sized
  <2>4. at'[r].op = "train" => at'[r].batch < NumBatch(ctx[r])
    BY <2>1, AdvanceSized DEF Sized, IInv, TypeOK
  <2> QED BY <2>1, <2>2, <2>3, <2>4 DEF Sized
<1>3. CASE FinishCall(r)
  <2>1. posted[r] > 0
    BY <1>0, <1>3 DEF FinishCall, IInv, FirstCalls
  <2>2. (\A q \in Rank \ {r} : pc'[q] = pc[q]) /\ UNCHANGED <<at, posted, ctx>>
    BY <1>0, <1>3 DEF FinishCall, Goto
  <2> QED BY <2>1, <2>2 DEF Sized
<1>4. CASE FailCall(r) \/ ProduceOutput(r) \/ WaitLinkTaskFinish(r) \/ Crash(r)
  <2>1. (\A q \in Rank \ {r} : pc'[q] = pc[q]) /\ pc'[r] # "call"
    BY <1>0, <1>4 DEF FailCall, ProduceOutput, WaitLinkTaskFinish, Crash, Goto
  <2>2. UNCHANGED <<at, posted, ctx>>
    BY <1>4 DEF FailCall, ProduceOutput, WaitLinkTaskFinish, Crash
  <2> QED BY <2>1, <2>2 DEF Sized
<1> QED BY <1>1, <1>2, <1>3, <1>4 DEF Step

\* Sized is inductive beside the invariant.
LEMMA SizedStep == IInv /\ Sized /\ [Next]_vars => Sized'
<1> SUFFICES ASSUME IInv, Sized, [Next]_vars PROVE Sized'
  OBVIOUS
<1>1. CASE \E r \in Rank : Step(r) \/ Crash(r)
  BY <1>1, StepSized
<1>2. CASE UNCHANGED vars
  BY <1>2 DEF vars, Sized
<1> QED BY <1>1, <1>2 DEF Next, Done

(* No slice that Train takes reaches beyond the party's data set, whatever *)
(* batch size and number of epochs were agreed on or configured.           *)
THEOREM TrainStaysWithinTheData == Spec => []SlicesInBounds
<1>1. Init => Sized
  BY DEF Init, Sized, Place
<1>2. IInv /\ Sized => SlicesInBounds
  BY SlicesFit DEF IInv
<1> QED BY <1>1, <1>2, InitInStep, IInvStep, SizedStep, PTL DEF Spec

-----------------------------------------------------------------------------
(* Training keeps the promise of the handshake.                            *)

\* They still have the same terms.
SameTerms ==
  Handshaken => \A p, q \in Rank : /\ LrTerms(ctx[p]) = LrTerms(ctx[q])
                                   /\ ctx[p].sample_size = ctx[p].rows

\* Only parties behind the last call have a result, and everybody has begun by
\* then.
Late ==
  \A r \in Rank :
    /\ r \in result => pc[r] \in {"finish"} \cup Exited
    /\ pc[r] = "finish" => r \in result
    /\ pc[r] = "output" => \A q \in Rank : posted[q] # 0

\* A context after a handshake does not change any more.
LEMMA SettledContext ==
  ASSUME TypeOK, SameTerms, Handshaken, NEW r \in Rank, Begin(r)
  PROVE  ctx' = ctx
<1>1. ctx \in [Rank -> LrContext] /\ ctx[r] \in LrContext
  BY DEF TypeOK
<1>2. [ctx[r] EXCEPT !.sample_size = ctx[r].rows] = ctx[r]
  BY <1>1 DEF SameTerms, LrContext
<1> QED BY <1>1, <1>2 DEF Begin

\* No step changes who shakes hands, and after a handshake none changes a context.
LEMMA ContextsStay ==
  ASSUME TypeOK, SameTerms, [Next]_vars
  PROVE  (Handshaken' <=> Handshaken) /\ (Handshaken => ctx' = ctx)
<1>1. ctx \in [Rank -> LrContext]
  BY DEF TypeOK
<1>2. ASSUME NEW r \in Rank, Begin(r)
      PROVE  \A q \in Rank : ctx'[q].disable_handshake = ctx[q].disable_handshake
  <2>1. ctx[r] \in LrContext
    BY <1>1
  <2>2. [ctx[r] EXCEPT !.sample_size = ctx[r].rows].disable_handshake
          = ctx[r].disable_handshake
    BY <2>1 DEF LrContext
  <2>3. \/ ctx' = [ctx EXCEPT ![r] = [ctx[r] EXCEPT !.sample_size = ctx[r].rows]]
        \/ ctx' = ctx
    BY <1>1, <1>2 DEF Begin
  <2> QED BY <1>1, <2>2, <2>3
<1>3. ASSUME ~ \E r \in Rank : Begin(r) PROVE ctx' = ctx
  BY <1>3 DEF Next, Step, Done, PostCall, FinishCall, FailCall, ProduceOutput,
              WaitLinkTaskFinish, Crash, vars
<1> QED BY <1>2, <1>3, SettledContext DEF Handshaken

\* Both invariants are kept by every step.
LEMMA LateStep == IInv /\ Late /\ [Next]_vars => Late'
<1> SUFFICES ASSUME IInv, Late, [Next]_vars PROVE Late'
  OBVIOUS
<1>1. /\ pc \in [Rank -> Phase] /\ posted \in [Rank -> Nat]
      /\ FirstCalls
  BY DEF IInv, TypeOK
<1>2. ASSUME NEW r \in Rank, PostCall(r) PROVE Late'
  BY <1>1, <1>2 DEF PostCall, Goto, Late, Exited, Gone
<1>3. ASSUME NEW r \in Rank, FinishCall(r) PROVE Late'
  <2>1. /\ \A q \in Rank : posted[q] # 0
        /\ posted' = posted /\ result' = result
    BY <1>1, <1>3 DEF FinishCall, FirstCalls
  <2>2. /\ pc[r] = "wait"
        /\ \E phase \in {"exit1", "crashed", "call", "output"} :
             pc' = [pc EXCEPT ![r] = phase]
    BY <1>3 DEF FinishCall, AfterRegister, Goto
  <2> QED BY <1>1, <2>1, <2>2 DEF Late, Exited, Gone
<1>4. ASSUME NEW r \in Rank, Begin(r) PROVE Late'
  BY <1>1, <1>4 DEF Begin, Goto, Late, Exited, Gone
<1>5. ASSUME NEW r \in Rank, FailCall(r) \/ WaitLinkTaskFinish(r) \/ Crash(r) PROVE Late'
  BY <1>1, <1>5 DEF FailCall, WaitLinkTaskFinish, Crash, Goto, Late, Exited, Gone
<1>6. ASSUME NEW r \in Rank, ProduceOutput(r) PROVE Late'
  BY <1>1, <1>6 DEF ProduceOutput, Goto, Late, Exited, Gone
<1>7. CASE UNCHANGED vars
  BY <1>7 DEF vars, Late
<1> QED BY <1>2, <1>3, <1>4, <1>5, <1>6, <1>7 DEF Next, Step, Done

\* Every step of an agreed job is one of JobAgreement, or none.
LEMMA StepContinues ==
  ASSUME IInv, Late, SameTerms, [Next]_vars, Handshaken
  PROVE  Job!Next \/ UNCHANGED Job!vars
<1>0. /\ pc \in [Rank -> Phase] /\ posted \in [Rank -> Nat] /\ result \subseteq Rank
      /\ FirstCalls
  BY DEF IInv, TypeOK
<1>1. ctx' = ctx
  BY ContextsStay DEF IInv
<1>2. \A r \in Rank : LrTerms(ctx[r]) = LrTerms(ctx[Passive]) /\ LrTerms(ctx[r]) # NoTerms
  <2>1. \A r \in Rank : "num_epoch" \in DOMAIN LrTerms(ctx[r])
    BY DEF LrTerms
  <2>2. "num_epoch" \notin DOMAIN NoTerms
    BY DEF NoTerms
  <2>3. Passive \in Rank
    BY WorldSizeAssumption DEF Passive, Rank
  <2> QED BY <2>1, <2>2, <2>3 DEF SameTerms
<1>3. ASSUME NEW r \in Rank, r \notin result, result' = result, posted' = posted,
             \E phase \in Exited : pc' = [pc EXCEPT ![r] = phase]
      PROVE  Job!Leave(r)
  BY <1>0, <1>1, <1>3 DEF Job!Leave
<1>4. ASSUME NEW r \in Rank, result' = result, posted' = posted,
             \E phase : pc' = [pc EXCEPT ![r] = phase],
             r \in result \/ (pc[r] \notin Exited /\ pc'[r] \notin Exited)
      PROVE  UNCHANGED Job!vars
  BY <1>0, <1>1, <1>4 DEF Job!vars
<1>5. ASSUME NEW r \in Rank, Begin(r) \/ FinishCall(r) \/ FailCall(r)
                             \/ WaitLinkTaskFinish(r) \/ Crash(r)
      PROVE  Job!Next \/ UNCHANGED Job!vars
  <2>1. result' = result /\ posted' = posted
    BY <1>5 DEF Begin, FinishCall, FailCall, WaitLinkTaskFinish, Crash
  <2>2. \E phase : pc' = [pc EXCEPT ![r] = phase]
    BY <1>5 DEF Begin, FinishCall, FailCall, WaitLinkTaskFinish, Crash, Goto
  <2>3. pc[r] \notin Exited
    BY <1>5 DEF Begin, FinishCall, FailCall, WaitLinkTaskFinish, Crash, Exited, Gone
  <2>4. CASE r \notin result /\ pc'[r] \in Exited
    BY <1>0, <1>3, <2>1, <2>2, <2>4 DEF Job!Next
  <2> QED BY <1>4, <2>1, <2>2, <2>3, <2>4
<1>6. ASSUME NEW r \in Rank, PostCall(r) PROVE Job!Next \/ UNCHANGED Job!vars
  <2>1. /\ posted' = [posted EXCEPT ![r] = @ + 1] /\ result' = result
        /\ pc[r] = "call" /\ pc' = [pc EXCEPT ![r] = "wait"]
    BY <1>6 DEF PostCall, Goto
  <2>2. {q \in Rank \ result' : pc'[q] \in Exited} = {q \in Rank \ result : pc[q] \in Exited}
    BY <1>0, <2>1 DEF Exited, Gone
  <2>3. r \notin {q \in Rank \ result : pc[q] \in Exited}
    BY <2>1 DEF Exited, Gone
  <2>4. CASE posted[r] = 0
    <3>1. posted'[r] # 0 /\ \A q \in Rank \ {r} : posted'[q] = posted[q]
      BY <1>0, <2>1, <2>4
    <3>2. Job!Start(r)
      BY <1>0, <1>1, <1>2, <2>1, <2>2, <2>3, <2>4, <3>1 DEF Job!Start
    <3> QED BY <3>2 DEF Job!Next
  <2>5. CASE posted[r] # 0
    <3>1. \A q \in Rank : posted'[q] = 0 <=> posted[q] = 0
      BY <1>0, <2>1, <2>5
    <3> QED BY <1>1, <2>1, <2>2, <3>1 DEF Job!vars
  <2> QED BY <2>4, <2>5
<1>7. ASSUME NEW r \in Rank, ProduceOutput(r) PROVE Job!Next \/ UNCHANGED Job!vars
  <2>1. pc[r] = "output" /\ posted' = posted /\ r \notin result
    BY <1>7 DEF ProduceOutput, Late, Exited, Gone
  <2>2. CASE r \in writable
    <3>1. result' = result \cup {r} /\ pc' = [pc EXCEPT ![r] = "finish"]
      BY <1>7, <2>2 DEF ProduceOutput, Goto
    <3>2. {q \in Rank \ result' : pc'[q] \in Exited} = {q \in Rank \ result : pc[q] \in Exited}
      BY <1>0, <2>1, <3>1 DEF Exited, Gone
    <3>3. \A q \in Rank : posted[q] # 0
      BY <2>1 DEF Late
    <3>4. Job!Complete(r)
      BY <1>1, <1>2, <2>1, <3>1, <3>2, <3>3 DEF Job!Complete, Exited, Gone
    <3> QED BY <3>4 DEF Job!Next
  <2>3. CASE r \notin writable
    <3>1. result' = result /\ pc' = [pc EXCEPT ![r] = "exit1"]
      BY <1>7, <2>3 DEF ProduceOutput, Goto
    <3>2. Job!Leave(r)
      BY <1>3, <2>1, <3>1 DEF Exited, Gone
    <3> QED BY <3>2 DEF Job!Next
  <2> QED BY <2>2, <2>3
<1>8. CASE UNCHANGED vars
  BY <1>8 DEF vars, Job!vars
<1> QED BY <1>5, <1>6, <1>7, <1>8 DEF Next, Step, Done

(* What the handshake has promised, the training keeps, for any number of  *)
(* parties, crashes and timeouts: a party starts on the agreed terms, and  *)
(* has a result only after every party has taken part (RunAlgo).           *)
THEOREM TrainingKeepsThePromise == ASSUME HandshakeAgreed PROVE Spec => ContinuesTheJob
<1>1. Init => SameTerms /\ Late
  BY DEF Init, HandshakeAgreed, SameTerms, Handshaken, Late
<1>2. IInv /\ SameTerms /\ [Next]_vars => SameTerms'
  BY ContextsStay DEF IInv, SameTerms
<1>3. IInv /\ SameTerms /\ Late /\ [Next]_vars => [Handshaken => Job!Next]_(Job!vars)
  BY StepContinues
<1> QED BY <1>1, <1>2, <1>3, InitInStep, IInvStep, LateStep, PTL DEF Spec, ContinuesTheJob

-----------------------------------------------------------------------------
(* How often Train goes over each row: for any batch size and number of    *)
(* epochs, agreed on or not.                                               *)

\* The rows that belong to full batches come before this one.
FullRows(c) == NumBatch(c) * c.batch_size

\* How often row has been trained on after all batches of `epoch' epochs and the
\* first `batch' ones of the next.
Due(c, epoch, batch, row) ==
  IF row < batch * c.batch_size THEN epoch + 1
  ELSE IF row < FullRows(c) THEN epoch ELSE 0

\* ... and after Train.
DueAtLast(c, row) ==
  IF c.num_epoch > 0 /\ row < FullRows(c) THEN c.num_epoch ELSE 0

\* A party's place says how often each row has been trained on: a TrainStep
\* counts from the moment it is done.
RowsCounted(r) ==
  LET c == ctx[r]
      p == at[r]
  IN  \A row \in 0 .. c.rows - 1 :
        /\ p.op \in {"none", "register"} => trained[r][row] = 0
        /\ p.op = "train" /\ pc[r] = "wait" =>
             trained[r][row] = Due(c, p.epoch, p.batch, row)
        /\ p.op = "train" /\ pc[r] = "call" =>
             trained[r][row] = Due(c, p.epoch, p.batch + 1, row)
        /\ p.op \in {"score", "labels", "scores"} =>
             trained[r][row] = DueAtLast(c, row)

\* A party's place goes with its loop bounds and with where its process is.
InPlace(r) ==
  /\ at[r].op = "train" => at[r].epoch < ctx[r].num_epoch
  /\ pc[r] = "output" => at[r].op = "scores"
  /\ r \in result => at[r].op = "scores" /\ pc[r] \in {"finish"} \cup Exited

RowsInv == \A r \in Rank : RowsCounted(r) /\ InPlace(r)

-----------------------------------------------------------------------------
(* The operators.                                                          *)

\* Where the batches end: the first one begins at 0, one follows the other, and
\* none reaches beyond the full rows.
LEMMA BatchEnds ==
  ASSUME NEW c \in LrContext
  PROVE  /\ FullRows(c) \in Int /\ c.batch_size \in Int /\ 0 * c.batch_size = 0
         /\ NumBatch(c) = 0 => FullRows(c) = 0
         /\ \A b \in Nat : b < NumBatch(c) =>
              /\ b * c.batch_size \in Nat
              /\ (b + 1) * c.batch_size = b * c.batch_size + c.batch_size
              /\ (b + 1) * c.batch_size <= FullRows(c)
              /\ b + 1 = NumBatch(c) => (b + 1) * c.batch_size = FullRows(c)
<1> DEFINE s == c.batch_size
           m == NumBatch(c)
<1>1. s \in Int /\ m \in Nat
  BY BatchCount DEF LrContext
<1>2. m > 0 => s > 0
  BY DEF NumBatch
<1> HIDE DEF s, m
<1>3. m * s \in Int /\ 0 * s = 0
  BY <1>1
<1>4. ASSUME NEW b \in Nat, b < m
      PROVE  /\ b * s \in Nat /\ (b + 1) * s = b * s + s
             /\ (b + 1) * s <= m * s
             /\ b + 1 = m => (b + 1) * s = m * s
  <2>1. s \in Nat /\ b * s \in Nat /\ (b + 1) * s = b * s + s
    BY <1>1, <1>2, <1>4
  <2>2. PICK k \in Nat : m = b + 1 + k
    <3>1. m - (b + 1) \in Nat /\ m = b + 1 + (m - (b + 1))
      BY <1>1, <1>4
    <3> QED BY <3>1
  <2>3. m * s = (b + 1) * s + k * s /\ k * s \in Nat
    <3>1. (b + 1 + k) * s = (b + 1) * s + k * s
      BY <2>1
    <3> QED BY <2>1, <2>2, <3>1
  <2> QED BY <2>1, <2>3
<1> QED BY <1>1, <1>3, <1>4 DEF FullRows, s, m

\* Making the next call does not change what is due.
LEMMA NextPlaceDue ==
  ASSUME NEW c \in LrContext, NEW r \in Rank,
         NEW p \in [op : Op, epoch : Nat, batch : Nat], NEW row \in Nat, NEW count,
         p.op \in {"none", "register"} => count = 0,
         p.op = "train" => /\ count = Due(c, p.epoch, p.batch + 1, row)
                           /\ p.batch < NumBatch(c) /\ p.epoch < c.num_epoch,
         p.op \in {"score", "labels", "scores"} => count = DueAtLast(c, row)
  PROVE  LET n == Advance(c, r, p)
         IN  /\ n.op \in {"none", "register"} => count = 0
             /\ n.op = "train" => /\ count = Due(c, n.epoch, n.batch, row)
                                  /\ n.epoch < c.num_epoch
             /\ n.op \in {"score", "labels", "scores"} => count = DueAtLast(c, row)
<1> DEFINE n == Advance(c, r, p)
<1>1. /\ NumBatch(c) \in Nat /\ c.num_epoch \in Int
      /\ p.epoch \in Nat /\ p.batch \in Nat
  BY BatchCount DEF LrContext
<1>2. CASE p.op = "none"
  <2>1. n = Place("register", 0, 0)
    BY <1>2 DEF Advance
  <2> QED BY <1>2, <2>1 DEF Place
<1>3. CASE p.op = "register"
  <2>1. CASE c.num_epoch > 0 /\ NumBatch(c) > 0
    <3>1. n = Place("train", 0, 0)
      BY <1>3, <2>1 DEF Advance, FirstStep
    <3>2. Due(c, 0, 0, row) = 0
      BY BatchEnds DEF Due
    <3> QED BY <1>3, <2>1, <3>1, <3>2 DEF Place
  <2>2. CASE ~ (c.num_epoch > 0 /\ NumBatch(c) > 0)
    <3>1. n = Place("score", 0, 0)
      BY <1>3, <2>2 DEF Advance, FirstStep
    <3>2. DueAtLast(c, row) = 0
      BY <1>1, <2>2, BatchEnds DEF DueAtLast
    <3> QED BY <1>3, <3>1, <3>2 DEF Place
  <2> QED BY <2>1, <2>2
<1>4. CASE p.op = "train"
  <2>1. CASE p.batch + 1 < NumBatch(c)
    <3>1. n = Place("train", p.epoch, p.batch + 1)
      BY <1>4, <2>1 DEF Advance, NextStep
    <3> QED BY <1>4, <3>1 DEF Place
  <2>2. CASE ~ (p.batch + 1 < NumBatch(c))
    <3>1. p.batch + 1 = NumBatch(c) /\ (p.batch + 1) * c.batch_size = FullRows(c)
      BY <1>1, <1>4, <2>2, BatchEnds
    <3>2. count = IF row < FullRows(c) THEN p.epoch + 1 ELSE 0
      BY <1>4, <3>1 DEF Due
    <3>3. CASE p.epoch + 1 < c.num_epoch
      <4>1. n = Place("train", p.epoch + 1, 0)
        BY <1>4, <2>2, <3>3 DEF Advance, NextStep
      <4>2. Due(c, p.epoch + 1, 0, row) = IF row < FullRows(c) THEN p.epoch + 1 ELSE 0
        BY BatchEnds DEF Due
      <4> QED BY <3>2, <3>3, <4>1, <4>2 DEF Place
    <3>4. CASE ~ (p.epoch + 1 < c.num_epoch)
      <4>1. n = Place("score", 0, 0)
        BY <1>4, <2>2, <3>4 DEF Advance, NextStep
      <4>2. p.epoch + 1 = c.num_epoch /\ c.num_epoch > 0
        BY <1>1, <1>4, <3>4
      <4> QED BY <3>2, <4>1, <4>2 DEF Place, DueAtLast
    <3> QED BY <3>3, <3>4
  <2> QED BY <2>1, <2>2
<1>5. CASE p.op \in {"score", "labels", "scores"}
  <2>1. n \in {Place("labels", 0, 0), Place("scores", 0, 0)}
    BY <1>5 DEF Advance, AfterScore
  <2> QED BY <1>5, <2>1 DEF Place
<1> QED BY <1>2, <1>3, <1>4, <1>5 DEF Op

\* A TrainStep adds one to what is due for the rows of its slice.
LEMMA SliceDue ==
  ASSUME NEW c \in LrContext, NEW p \in [op : Op, epoch : Nat, batch : Nat],
         p.op = "train", p.batch < NumBatch(c), NEW row \in Nat
  PROVE  Due(c, p.epoch, p.batch + 1, row)
           = IF row \in RowsBeg(c, p) .. RowsEnd(c, p) - 1
             THEN Due(c, p.epoch, p.batch, row) + 1
             ELSE Due(c, p.epoch, p.batch, row)
<1> DEFINE beg == p.batch * c.batch_size
           fin == (p.batch + 1) * c.batch_size
<1>1. /\ beg \in Nat /\ c.batch_size \in Int /\ fin = beg + c.batch_size
      /\ FullRows(c) \in Int /\ fin <= FullRows(c)
  BY BatchEnds
<1>2. c.batch_size > 0
  BY BatchCount DEF NumBatch
<1>3. RowsBeg(c, p) = beg /\ RowsEnd(c, p) = beg + c.batch_size
  BY DEF RowsBeg, RowsEnd
<1>4. /\ Due(c, p.epoch, p.batch, row)
           = IF row < beg THEN p.epoch + 1 ELSE IF row < FullRows(c) THEN p.epoch ELSE 0
      /\ Due(c, p.epoch, p.batch + 1, row)
           = IF row < fin THEN p.epoch + 1 ELSE IF row < FullRows(c) THEN p.epoch ELSE 0
  BY DEF Due
<1> HIDE DEF beg, fin
<1> QED BY <1>1, <1>2, <1>3, <1>4

-----------------------------------------------------------------------------
(* The steps.                                                              *)

\* A step of r leaves the counts of the other parties alone.
LEMMA OthersCounted ==
  ASSUME TypeOK, RowsInv, NEW r \in Rank, Step(r) \/ Crash(r), NEW q \in Rank \ {r}
  PROVE  (RowsCounted(q) /\ InPlace(q))'
<1>1. trained'[q] = trained[q]
  BY DEF Step, Begin, PostCall, FinishCall, FailCall, ProduceOutput,
         WaitLinkTaskFinish, Crash, TypeOK
<1>2. /\ ctx'[q] = ctx[q] /\ at'[q] = at[q] /\ pc'[q] = pc[q]
      /\ q \in result' <=> q \in result
  BY DEF Step, Begin, PostCall, FinishCall, FailCall, ProduceOutput,
         WaitLinkTaskFinish, Crash, Goto, TypeOK
<1> QED BY <1>1, <1>2 DEF RowsInv, RowsCounted, InPlace

\* Beginning: no call has been made.
LEMMA BeginCounted ==
  ASSUME IInv, RowsInv, NEW r \in Rank, Begin(r)
  PROVE  (RowsCounted(r) /\ InPlace(r))'
<1>1. posted[r] = 0 /\ at[r].op = "none"
  BY DEF Begin, IInv, FirstCalls, Place
<1>2. /\ at' = at /\ trained' = trained /\ result' = result
      /\ pc'[r] \in {"call", "exit1"} /\ r \notin result
  BY <1>1 DEF Begin, Goto, IInv, TypeOK, RowsInv, InPlace
<1>3. ctx'[r].rows = ctx[r].rows
  <2>1. ctx[r] \in LrContext
    BY DEF IInv, TypeOK
  <2>2. ctx'[r] = ctx[r] \/ ctx'[r] = [ctx[r] EXCEPT !.sample_size = ctx[r].rows]
    BY DEF Begin, IInv, TypeOK
  <2>3. [ctx[r] EXCEPT !.sample_size = ctx[r].rows].rows = ctx[r].rows
    BY <2>1 DEF LrContext
  <2> QED BY <2>2, <2>3
<1> QED BY <1>1, <1>2, <1>3 DEF RowsInv, RowsCounted, InPlace

\* The next call.
LEMMA PostCallCounted ==
  ASSUME IInv, Sized, RowsInv, NEW r \in Rank, PostCall(r)
  PROVE  (RowsCounted(r) /\ InPlace(r))'
<1> DEFINE c == ctx[r]
           p == at[r]
           n == Advance(c, r, p)
<1>1. /\ pc[r] = "call" /\ pc'[r] = "wait" /\ at'[r] = n
      /\ ctx' = ctx /\ trained' = trained /\ result' = result
  BY DEF PostCall, Goto, IInv, TypeOK
<1>2. /\ c \in LrContext /\ p \in [op : Op, epoch : Nat, batch : Nat]
      /\ p.op = "train" => p.batch < NumBatch(c) /\ p.epoch < c.num_epoch
      /\ r \notin result
  BY <1>1 DEF IInv, TypeOK, Sized, RowsInv, InPlace, Exited, Gone
<1>3. ASSUME NEW row \in 0 .. c.rows - 1
      PROVE  /\ n.op \in {"none", "register"} => trained[r][row] = 0
             /\ n.op = "train" => /\ trained[r][row] = Due(c, n.epoch, n.batch, row)
                                  /\ n.epoch < c.num_epoch
             /\ n.op \in {"score", "labels", "scores"} =>
                  trained[r][row] = DueAtLast(c, row)
  <2>1. /\ p.op \in {"none", "register"} => trained[r][row] = 0
        /\ p.op = "train" => trained[r][row] = Due(c, p.epoch, p.batch + 1, row)
        /\ p.op \in {"score", "labels", "scores"} => trained[r][row] = DueAtLast(c, row)
    BY <1>1 DEF RowsInv, RowsCounted
  <2>2. row \in Nat
    OBVIOUS
  <2> DEFINE count == trained[r][row]
  <2>3. /\ p.op \in {"none", "register"} => count = 0
        /\ p.op = "train" => /\ count = Due(c, p.epoch, p.batch + 1, row)
                             /\ p.batch < NumBatch(c) /\ p.epoch < c.num_epoch
        /\ p.op \in {"score", "labels", "scores"} => count = DueAtLast(c, row)
    BY <1>2, <2>1
  <2> HIDE DEF c, p, count
  <2>4. /\ n.op \in {"none", "register"} => count = 0
        /\ n.op = "train" => /\ count = Due(c, n.epoch, n.batch, row)
                             /\ n.epoch < c.num_epoch
        /\ n.op \in {"score", "labels", "scores"} => count = DueAtLast(c, row)
    BY <1>2, <2>2, <2>3, NextPlaceDue
  <2> QED BY <2>4 DEF count
<1>4. n.op = "train" => n.epoch < c.num_epoch
  <2>1. n.op = "train" => n \in {Place("train", 0, 0), Place("train", p.epoch, p.batch + 1),
                                 Place("train", p.epoch + 1, 0)}
    BY DEF Advance, FirstStep, NextStep, AfterScore, Place
  <2>2. n = Place("train", 0, 0) => c.num_epoch > 0
    BY <1>2 DEF Advance, FirstStep, NextStep, AfterScore, Place
  <2> QED BY <1>2, <2>1, <2>2 DEF Advance, FirstStep, NextStep, AfterScore, Place
<1> QED BY <1>1, <1>2, <1>3, <1>4 DEF RowsCounted, InPlace

\* The end of a call: the rows of a TrainStep's slice have been trained on.
LEMMA FinishCallCounted ==
  ASSUME IInv, Sized, RowsInv, NEW r \in Rank, FinishCall(r)
  PROVE  (RowsCounted(r) /\ InPlace(r))'
<1> DEFINE c == ctx[r]
           p == at[r]
<1>1. /\ pc[r] = "wait" /\ r \notin result
      /\ UNCHANGED <<ctx, at, result>>
      /\ c \in LrContext /\ p \in [op : Op, epoch : Nat, batch : Nat]
      /\ DOMAIN trained = Rank /\ trained[r] \in [0 .. c.rows - 1 -> Nat]
      /\ p.op = "train" => p.batch < NumBatch(c)
  BY DEF FinishCall, IInv, TypeOK, Sized, RowsInv, InPlace, Exited, Gone
<1>2. InPlace(r)'
  <2>1. pc'[r] = "output" => p.op = "scores"
    BY DEF FinishCall, Goto, AfterRegister, IInv, TypeOK
  <2> QED BY <1>1, <2>1 DEF RowsInv, InPlace
<1>3. CASE p.op # "train"
  <2>1. trained' = trained
    BY <1>3 DEF FinishCall
  <2>2. RowsCounted(r)'
    BY <1>1, <1>3, <2>1 DEF RowsInv, RowsCounted
  <2> QED BY <1>2, <2>2
<1>4. CASE p.op = "train"
  <2> DEFINE slice == RowsBeg(c, p) .. RowsEnd(c, p) - 1
  <2>1. pc'[r] = "call"
    BY <1>4 DEF FinishCall, Goto, IInv, TypeOK
  <2>2. ASSUME NEW row \in 0 .. c.rows - 1
        PROVE  trained'[r][row] = Due(c, p.epoch, p.batch + 1, row)
    <3>1. trained'[r][row]
            = IF row \in slice THEN trained[r][row] + 1 ELSE trained[r][row]
      BY <1>1, <1>4 DEF FinishCall
    <3>2. trained[r][row] = Due(c, p.epoch, p.batch, row)
      BY <1>1, <1>4 DEF RowsInv, RowsCounted
    <3>3. row \in Nat
      OBVIOUS
    <3>4. Due(c, p.epoch, p.batch + 1, row)
            = IF row \in slice THEN Due(c, p.epoch, p.batch, row) + 1
              ELSE Due(c, p.epoch, p.batch, row)
      <4> HIDE DEF c, p
      <4> QED BY <1>1, <1>4, <3>3, SliceDue
    <3> QED BY <3>1, <3>2, <3>4
  <2>3. RowsCounted(r)'
    BY <1>1, <1>4, <2>1, <2>2 DEF RowsCounted
  <2> QED BY <1>2, <2>3
<1> QED BY <1>2, <1>3, <1>4

\* The remaining steps of a party do not train.
LEMMA LastStepsCounted ==
  ASSUME IInv, RowsInv, NEW r \in Rank,
         FailCall(r) \/ ProduceOutput(r) \/ WaitLinkTaskFinish(r) \/ Crash(r)
  PROVE  (RowsCounted(r) /\ InPlace(r))'
<1>1. /\ UNCHANGED <<ctx, at, trained>>
      /\ pc'[r] \in {"finish"} \cup Exited
      /\ r \in result' => r \in result \/ pc[r] = "output"
  BY DEF FailCall, ProduceOutput, WaitLinkTaskFinish, Crash, Goto, IInv, TypeOK,
         Exited, Gone
<1> QED BY <1>1 DEF RowsInv, RowsCounted, InPlace, Exited, Gone

\* No step breaks the count.
LEMMA RowsInvStep == IInv /\ Sized /\ RowsInv /\ [Next]_vars => RowsInv'
<1> SUFFICES ASSUME IInv, Sized, RowsInv, [Next]_vars PROVE RowsInv'
  OBVIOUS
<1>1. ASSUME NEW r \in Rank, Step(r) \/ Crash(r) PROVE RowsInv'
  <2>1. (RowsCounted(r) /\ InPlace(r))'
    BY <1>1, BeginCounted, PostCallCounted, FinishCallCounted, LastStepsCounted
       DEF Step
  <2>2. \A q \in Rank \ {r} : (RowsCounted(q) /\ InPlace(q))'
    BY <1>1, OthersCounted DEF IInv
  <2> QED BY <2>1, <2>2 DEF RowsInv
<1>2. CASE UNCHANGED vars
  BY <1>2 DEF vars, RowsInv, RowsCounted, InPlace
<1> QED BY <1>1, <1>2 DEF Next, Done

\* Nothing has been trained on when the parties begin.
LEMMA InitCounted == Init => RowsInv
<1> SUFFICES ASSUME Init, NEW r \in Rank PROVE RowsCounted(r) /\ InPlace(r)
  BY DEF RowsInv
<1>1. at[r].op = "none" /\ pc[r] = "begin" /\ result = {}
  BY DEF Init, Place
<1>2. \A row \in 0 .. ctx[r].rows - 1 : trained[r][row] = 0
  BY DEF Init
<1> QED BY <1>1, <1>2 DEF RowsCounted, InPlace

\* The full rows are those up to the last full batch.
LEMMA FullRowsOf ==
  ASSUME NEW c \in LrContext, c.batch_size > 0
  PROVE  FullRows(c) = c.sample_size - (c.sample_size % c.batch_size)
<1>1. c.sample_size \in Nat /\ c.batch_size \in Int
  BY DEF LrContext
<1>2. \A n \in Nat, b \in Int : b > 0 => (n \div b) * b = n - (n % b)
  OBVIOUS
<1>3. FullRows(c) = (c.sample_size \div c.batch_size) * c.batch_size
  BY DEF FullRows, NumBatch
<1> QED BY <1>1, <1>2, <1>3

(* A party with a result has trained on every row of its full batches once *)
(* per epoch, and under the policy to discard the partial last batch never *)
(* on the other rows: Train's two loops and its division, for every batch  *)
(* size, number of epochs and data set.                                    *)
THEOREM EveryRowItsTurn == Spec => []TrainedRows
<1>1. Init => IInv /\ Sized /\ RowsInv
  BY InitInStep, InitCounted DEF Init, Sized, Place
<1>2. IInv /\ Sized /\ RowsInv /\ [Next]_vars => (IInv /\ Sized /\ RowsInv)'
  BY IInvStep, SizedStep, RowsInvStep
<1>3. IInv /\ Sized /\ RowsInv => TrainedRows
  <2> SUFFICES ASSUME IInv, Sized, RowsInv, NEW r \in result,
                      NEW row \in 0 .. ctx[r].rows - 1
               PROVE  trained[r][row] = IF InFullBatch(r, row) THEN EpochsOf(r) ELSE 0
    BY DEF TrainedRows
  <2> DEFINE c == ctx[r]
  <2>1. r \in Rank /\ c \in LrContext /\ at[r].op = "scores" /\ row \in Nat
    BY DEF IInv, TypeOK, RowsInv, InPlace
  <2>2. trained[r][row] = DueAtLast(c, row)
    BY <2>1 DEF RowsInv, RowsCounted
  <2>3. c.sample_size = c.rows
    <3>1. posted[r] \in Nat /\ posted[r] # 0
      BY <2>1 DEF IInv, TypeOK, FirstCalls, Place
    <3> QED BY <2>1, <3>1 DEF Sized
  <2> HIDE DEF c
  <2>4. CASE c.batch_size > 0
    BY <2>1, <2>2, <2>3, <2>4, FullRowsOf DEF DueAtLast, InFullBatch, EpochsOf, c
  <2>5. CASE ~ (c.batch_size > 0)
    <3>1. NumBatch(c) = 0
      BY <2>5 DEF NumBatch
    <3>2. DueAtLast(c, row) = 0
      BY <2>1, <3>1, BatchEnds DEF DueAtLast
    <3> QED BY <2>2, <2>5, <3>2 DEF InFullBatch, c
  <2> QED BY <2>4, <2>5
<1> QED BY <1>1, <1>2, <1>3, PTL DEF Spec
-----------------------------------------------------------------------------
(* Sums over a finite set, which Concatenate's blocks of columns are laid  *)
(* out by.  What holds of every subset is proved by looking at a smallest  *)
(* subset it does not hold of.                                             *)

\* What FoldFunctionOnSet computes for a sum, set by set.
Pick(s) == CHOOSE x \in s : TRUE

Summing(f, S, h) ==
  h = [s \in SUBSET S |-> IF s = {} THEN 0 ELSE f[Pick(s)] + h[s \ {Pick(s)}]]

Total(f, S) == FoldFunctionOnSet(+, 0, f, S)

\* A set of subsets of a finite set has one without a smaller one.
LEMMA SmallestSubset ==
  ASSUME NEW S, IsFiniteSet(S), NEW T, T \subseteq SUBSET S, T # {}
  PROVE  \E u \in T : \A v \in T : v \subseteq u => v = u
<1>1. FiniteSubsetsOf(S) = SUBSET S
  BY FS_FiniteSubsetsOfFinite
<1>2. IsWellFoundedOn(StrictSubsetOrdering(S), SUBSET S)
  BY <1>1, FS_StrictSubsetOrderingWellFounded, Zenon
<1>3. PICK u \in T : \A v \in T : ~ (<<v, u>> \in StrictSubsetOrdering(S))
  BY <1>2, WFMin, Zenon
<1> QED BY <1>3 DEF StrictSubsetOrdering

\* The partial sums are determined by the values, and not by the whole set.
LEMMA SumsAlike ==
  ASSUME NEW f, NEW S, IsFiniteSet(S), NEW U, S \subseteq U, NEW h, NEW g,
         Summing(f, S, h), Summing(f, U, g)
  PROVE  \A s \in SUBSET S : h[s] = g[s]
<1> SUFFICES ASSUME \E s \in SUBSET S : h[s] # g[s] PROVE FALSE
  OBVIOUS
<1> DEFINE T == {s \in SUBSET S : h[s] # g[s]}
<1>1. PICK u \in T : \A v \in T : v \subseteq u => v = u
  <2>1. T \subseteq SUBSET S /\ T # {}
    OBVIOUS
  <2> HIDE DEF T
  <2> QED BY <2>1, SmallestSubset
<1>2. u # {}
  BY <1>1 DEF Summing
<1>3. Pick(u) \in u
  BY <1>2 DEF Pick
<1>4. h[u \ {Pick(u)}] = g[u \ {Pick(u)}]
  BY <1>1, <1>3
<1>5. h[u] = f[Pick(u)] + h[u \ {Pick(u)}]
  BY <1>1, <1>2 DEF Summing
<1>6. g[u] = f[Pick(u)] + g[u \ {Pick(u)}]
  BY <1>1, <1>2 DEF Summing
<1> QED BY <1>1, <1>4, <1>5, <1>6

\* There are partial sums of the subsets of a finite set.
LEMMA SumsExist ==
  ASSUME NEW f, NEW S, IsFiniteSet(S)
  PROVE  \E h : Summing(f, S, h)
<1> SUFFICES ASSUME ~ \E h : Summing(f, S, h) PROVE FALSE
  OBVIOUS
<1> DEFINE T == {s \in SUBSET S : ~ \E h : Summing(f, s, h)}
<1>1. PICK u \in T : \A v \in T : v \subseteq u => v = u
  <2>1. T \subseteq SUBSET S /\ T # {}
    OBVIOUS
  <2> HIDE DEF T
  <2> QED BY <2>1, SmallestSubset
<1> DEFINE sums(v) == CHOOSE h : Summing(f, v, h)
           g == [s \in SUBSET u |->
                   IF s = {} THEN 0
                   ELSE f[Pick(s)] + sums(s \ {Pick(s)})[s \ {Pick(s)}]]
<1>2. \A v \in SUBSET u : v # u => Summing(f, v, sums(v))
  BY <1>1
<1>3. \A s \in SUBSET u : s # {} => Pick(s) \in s
  BY DEF Pick
<1>4. ASSUME NEW v \in SUBSET u, v # u
      PROVE  g[v] = sums(v)[v]
  <2> HIDE DEF sums
  <2>1. Summing(f, v, sums(v))
    BY <1>2, <1>4
  <2>2. CASE v = {}
    BY <2>1, <2>2 DEF Summing
  <2>3. CASE v # {}
    <3> DEFINE w == v \ {Pick(v)}
    <3>1. w \in SUBSET v /\ w \in SUBSET u /\ w # u
      BY <1>4
    <3>2. Summing(f, w, sums(w)) /\ IsFiniteSet(w) 
      <4>1. IsFiniteSet(w)
        BY <1>1, <3>1, FS_Subset
      <4> QED BY <1>2, <3>1, <4>1
    <3>3. sums(w)[w] = sums(v)[w]
      <4> DEFINE a == sums(w)
                 b == sums(v)
      <4>1. Summing(f, w, a) /\ Summing(f, v, b) /\ w \subseteq v
        BY <2>1, <3>1, <3>2
      <4> HIDE DEF a, b, w
      <4>2. \A s \in SUBSET w : a[s] = b[s]
        BY <3>2, <4>1, SumsAlike
      <4> QED BY <4>2 DEF a, b
    <3>4. sums(v)[v] = f[Pick(v)] + sums(v)[w]
      BY <2>1, <2>3 DEF Summing
    <3>5. g[v] = f[Pick(v)] + sums(w)[w]
      BY <2>3
    <3> QED BY <3>3, <3>4, <3>5
  <2> QED BY <2>2, <2>3
<1>5. Summing(f, u, g)
  <2> DEFINE r == [s \in SUBSET u |-> IF s = {} THEN 0 ELSE f[Pick(s)] + g[s \ {Pick(s)}]]
  <2>1. \A s \in SUBSET u : g[s] = r[s]
    <3> TAKE s \in SUBSET u
    <3>1. CASE s = {}
      BY <3>1
    <3>2. CASE s # {}
      <4> DEFINE w == s \ {Pick(s)}
      <4>1. w \in SUBSET u /\ w # u
        BY <1>3, <3>2
      <4>2. g[w] = sums(w)[w]
        <5> HIDE DEF g, sums, w
        <5> QED BY <1>4, <4>1
      <4>3. g[s] = f[Pick(s)] + sums(w)[w]
        BY <3>2
      <4> HIDE DEF g, sums
      <4>4. r[s] = f[Pick(s)] + g[w]
        BY <3>2
      <4> QED BY <4>2, <4>3, <4>4
    <3> QED BY <3>1, <3>2
  <2>2. DOMAIN g = SUBSET u /\ DOMAIN r = SUBSET u
    OBVIOUS
  <2>3. g = r
    <3>1. g = [s \in SUBSET u |-> g[s]] /\ r = [s \in SUBSET u |-> r[s]]
      OBVIOUS
    <3> HIDE DEF g, r
    <3> QED BY <2>1, <3>1
  <2> HIDE DEF g
  <2> QED BY <2>3 DEF Summing
<1> QED BY <1>1, <1>5

\* The sum is the last value of the function that sums over the subsets.
LEMMA TotalIsSum ==
  ASSUME NEW f, NEW S, IsFiniteSet(S)
  PROVE  \E h : Summing(f, S, h) /\ Total(f, S) = h[S]
<1>1. Total(f, S) = (CHOOSE h : Summing(f, S, h))[S]
  BY DEF Total, FoldFunctionOnSet, MapThenFoldSet, Summing, Pick
<1> QED BY <1>1, SumsExist

\* The sum over a finite set, one index less at a time.
LEMMA TotalStep ==
  ASSUME NEW f, NEW S, IsFiniteSet(S)
  PROVE  Total(f, S) = IF S = {} THEN 0 ELSE f[Pick(S)] + Total(f, S \ {Pick(S)})
<1>1. PICK h : Summing(f, S, h) /\ Total(f, S) = h[S]
  BY TotalIsSum
<1>2. ASSUME S # {}
      PROVE  Total(f, S) = f[Pick(S)] + Total(f, S \ {Pick(S)})
  <2> DEFINE R == S \ {Pick(S)}
  <2>1. IsFiniteSet(R) /\ R \subseteq S
    BY FS_Subset
  <2>2. h[S] = f[Pick(S)] + h[R]
    BY <1>1, <1>2 DEF Summing
  <2> HIDE DEF R
  <2>3. PICK g : Summing(f, R, g) /\ Total(f, R) = g[R]
    BY <2>1, TotalIsSum
  <2>4. \A s \in SUBSET R : g[s] = h[s]
    BY <1>1, <2>1, <2>3, SumsAlike
  <2> QED BY <1>1, <2>2, <2>3, <2>4 DEF R
<1>3. S = {} => Total(f, S) = 0
  BY <1>1 DEF Summing
<1> QED BY <1>2, <1>3

\* The sum of integers is one, and the order in which they are taken out of the
\* set does not matter.
LEMMA TotalTyped ==
  ASSUME NEW f, NEW S, IsFiniteSet(S), \A i \in S : f[i] \in Int
  PROVE  Total(f, S) \in Int
<1> SUFFICES ASSUME Total(f, S) \notin Int PROVE FALSE
  OBVIOUS
<1> DEFINE T == {s \in SUBSET S : Total(f, s) \notin Int}
<1>1. PICK u \in T : \A v \in T : v \subseteq u => v = u
  <2>1. T \subseteq SUBSET S /\ T # {}
    OBVIOUS
  <2> HIDE DEF T
  <2> QED BY <2>1, SmallestSubset
<1>2. IsFiniteSet(u)
  BY <1>1, FS_Subset
<1>3. u # {} /\ Total(f, u) = f[Pick(u)] + Total(f, u \ {Pick(u)})
  <2>1. Total(f, u) = IF u = {} THEN 0 ELSE f[Pick(u)] + Total(f, u \ {Pick(u)})
    BY <1>2, TotalStep
  <2>2. u # {}
    BY <1>1, <2>1
  <2> QED BY <2>1, <2>2
<1>4. Pick(u) \in u
  BY <1>3 DEF Pick
<1>5. Total(f, u \ {Pick(u)}) \in Int
  BY <1>1, <1>4
<1>6. f[Pick(u)] \in Int
  BY <1>1, <1>4
<1> QED BY <1>1, <1>3, <1>5, <1>6

\* Any index may be taken out of the sum first.
LEMMA TotalWithout ==
  ASSUME NEW f, NEW S, IsFiniteSet(S), \A i \in S : f[i] \in Int, NEW x \in S
  PROVE  Total(f, S) = f[x] + Total(f, S \ {x})
<1> DEFINE Wrong(s) == \E i \in s : Total(f, s) # f[i] + Total(f, s \ {i})
           T == {s \in SUBSET S : Wrong(s)}
<1> SUFFICES ASSUME Wrong(S) PROVE FALSE
  OBVIOUS
<1>1. PICK u \in T : \A v \in T : v \subseteq u => v = u
  <2>1. T \subseteq SUBSET S /\ T # {}
    OBVIOUS
  <2> HIDE DEF T
  <2> QED BY <2>1, SmallestSubset
<1>2. PICK i \in u : Total(f, u) # f[i] + Total(f, u \ {i})
  BY <1>1
<1> DEFINE p == Pick(u)
           rest == u \ {p, i}
<1>3. p \in u
  BY <1>2 DEF Pick
<1>4. IsFiniteSet(u) /\ Total(f, u) = f[p] + Total(f, u \ {p})
  <2>1. IsFiniteSet(u)
    BY <1>1, FS_Subset
  <2> QED BY <1>2, <2>1, TotalStep
<1>5. p # i
  BY <1>2, <1>4
<1> HIDE DEF p
<1>6. Total(f, u \ {p}) = f[i] + Total(f, rest)
  <2>1. ~ Wrong(u \ {p}) /\ i \in u \ {p} /\ (u \ {p}) \ {i} = rest
    BY <1>1, <1>2, <1>3, <1>5
  <2> QED BY <2>1
<1>7. Total(f, u \ {i}) = f[p] + Total(f, rest)
  <2>1. ~ Wrong(u \ {i}) /\ p \in u \ {i} /\ (u \ {i}) \ {p} = rest
    BY <1>1, <1>2, <1>3, <1>5
  <2> QED BY <2>1
<1>8. f[p] \in Int /\ f[i] \in Int /\ Total(f, rest) \in Int
  <2>1. rest \in SUBSET u /\ rest \in SUBSET S
    BY <1>1
  <2>2. IsFiniteSet(rest)
    BY <1>4, <2>1, FS_Subset
  <2> QED BY <1>1, <1>2, <1>3, <2>1, <2>2, TotalTyped
<1> QED BY <1>2, <1>4, <1>6, <1>7, <1>8

\* Where the blocks of columns begin.
LEMMA Blocks ==
  ASSUME NEW N \in Nat, NEW f \in [0 .. N - 1 -> Nat]
  PROVE  /\ Total(f, 0 .. 0 - 1) = 0
         /\ \A n \in 0 .. N : Total(f, 0 .. n - 1) \in Int
         /\ \A n \in 0 .. N - 1 : Total(f, 0 .. (n + 1) - 1) = Total(f, 0 .. n - 1) + f[n]
<1>1. \A n \in 0 .. N : IsFiniteSet(0 .. n - 1) /\ \A i \in 0 .. n - 1 : f[i] \in Int
  BY FS_Interval
<1>2. Total(f, 0 .. 0 - 1) = 0
  <2>1. 0 .. 0 - 1 = {}
    OBVIOUS
  <2>2. IsFiniteSet({})
    BY FS_EmptySet
  <2> QED BY <2>1, <2>2, TotalStep
<1>3. \A n \in 0 .. N : Total(f, 0 .. n - 1) \in Int
  BY <1>1, TotalTyped
<1>4. ASSUME NEW n \in 0 .. N - 1
      PROVE  Total(f, 0 .. (n + 1) - 1) = Total(f, 0 .. n - 1) + f[n]
  <2> DEFINE S == 0 .. (n + 1) - 1
  <2>1. n \in S /\ S \ {n} = 0 .. n - 1
    OBVIOUS
  <2>2. IsFiniteSet(S) /\ \A i \in S : f[i] \in Int
    BY FS_Interval
  <2> HIDE DEF S
  <2>3. Total(f, S) = f[n] + Total(f, S \ {n})
    BY <2>1, <2>2, TotalWithout
  <2>4. f[n] \in Int /\ Total(f, 0 .. n - 1) \in Int
    BY <1>3
  <2> DEFINE a == f[n]
             b == Total(f, 0 .. n - 1)
             t == Total(f, S)
  <2>5. t = a + b /\ a \in Int /\ b \in Int
    BY <2>1, <2>3, <2>4
  <2> HIDE DEF a, b, t
  <2>6. t = b + a
    BY <2>5
  <2>7. Total(f, S) = Total(f, 0 .. n - 1) + f[n]
    BY <2>6 DEF a, b, t
  <2> QED BY <2>7 DEF S
<1> QED BY <1>2, <1>3, <1>4

\* A set of numbers has a least one.
LEMMA Least ==
  ASSUME NEW S, S \subseteq Nat, S # {}
  PROVE  \E i \in S : \A j \in S : i <= j
<1>1. PICK i \in S : \A j \in S : ~ (<<j, i>> \in OpToRel(<, Nat))
  BY NatLessThanWellFounded, WFMin, Zenon
<1>2. \A j \in S : ~ (j < i)
  BY <1>1 DEF OpToRel
<1> QED BY <1>2

\* They begin in the order of the ranks.
LEMMA BlocksInOrder ==
  ASSUME NEW N \in Nat, NEW f \in [0 .. N - 1 -> Nat]
  PROVE  \A q \in 0 .. N : \A p \in 0 .. q : Total(f, 0 .. p - 1) <= Total(f, 0 .. q - 1)
<1> DEFINE B(n) == Total(f, 0 .. n - 1)
           T == {q \in 0 .. N : \E p \in 0 .. q : ~ (B(p) <= B(q))}
<1>1. /\ \A n \in 0 .. N : B(n) \in Int
      /\ \A n \in 0 .. N - 1 : B(n + 1) = B(n) + f[n] /\ f[n] \in Nat
  BY Blocks
<1> HIDE DEF B
<1>2. ASSUME T # {}
      PROVE  FALSE
  <2>1. PICK q \in T : \A j \in T : q <= j
    <3>1. T \subseteq Nat
      OBVIOUS
    <3> HIDE DEF T
    <3> QED BY <1>2, <3>1, Least
  <2>2. PICK p \in 0 .. q : ~ (B(p) <= B(q))
    BY <2>1
  <2>3. p # q /\ q \in 0 .. N /\ q # 0
    BY <1>1, <2>1, <2>2
  <2>4. q - 1 \in 0 .. N /\ q - 1 \notin T /\ p \in 0 .. q - 1
    BY <2>1, <2>2, <2>3
  <2>5. B(p) <= B(q - 1)
    BY <2>4
  <2>6. B(q) = B(q - 1) + f[q - 1] /\ f[q - 1] \in Nat
    <3>1. q - 1 \in 0 .. N - 1 /\ (q - 1) + 1 = q
      BY <2>3
    <3> QED BY <1>1, <3>1
  <2>7. p \in 0 .. N /\ B(p) \in Int /\ B(q) \in Int /\ B(q - 1) \in Int
    BY <1>1, <2>3, <2>4
  <2> QED BY <2>2, <2>5, <2>6, <2>7
<1>3. \A q \in 0 .. N : \A p \in 0 .. q : B(p) <= B(q)
  BY <1>2
<1> QED BY <1>3 DEF B

\* Every column belongs to exactly one block.
LEMMA OneBlock ==
  ASSUME NEW N \in Nat, NEW f \in [0 .. N - 1 -> Nat],
         NEW col \in 0 .. Total(f, 0 .. N - 1) - 1
  PROVE  \E q \in 0 .. N - 1 : \A p \in 0 .. N - 1 :
           col \in Total(f, 0 .. p - 1) .. Total(f, 0 .. p - 1) + f[p] - 1 <=> p = q
<1> DEFINE B(n) == Total(f, 0 .. n - 1)
           T == {n \in 0 .. N : col < B(n)}
<1>1. /\ B(0) = 0
      /\ \A n \in 0 .. N : B(n) \in Int
      /\ \A n \in 0 .. N - 1 : B(n + 1) = B(n) + f[n] /\ f[n] \in Nat
  BY Blocks
<1>2. \A q \in 0 .. N : \A p \in 0 .. q : B(p) <= B(q)
  BY BlocksInOrder
<1>3. col \in 0 .. B(N) - 1 /\ N \in 0 .. N
  OBVIOUS
<1> HIDE DEF B
<1>4. col \in Int /\ 0 <= col /\ col < B(N)
  BY <1>1, <1>3
<1>5. PICK n \in T : \A j \in T : n <= j
  <2>1. T \subseteq Nat /\ T # {}
    BY <1>3, <1>4
  <2> HIDE DEF T
  <2> QED BY <2>1, Least
<1>6. n # 0 /\ n \in 0 .. N /\ col < B(n)
  BY <1>1, <1>4, <1>5
<1> DEFINE q == n - 1
<1>7. q \in 0 .. N - 1 /\ q + 1 = n /\ q \in 0 .. N
  BY <1>6
<1>8. B(q) <= col /\ col < B(q + 1)
  <2>1. q \notin T
    BY <1>5, <1>7
  <2>2. B(q) \in Int
    BY <1>1, <1>7
  <2> QED BY <1>4, <1>6, <1>7, <2>1, <2>2
<1>9. ASSUME NEW p \in 0 .. N - 1
      PROVE  col \in B(p) .. B(p) + f[p] - 1 <=> p = q
  <2>1. /\ col \in B(p) .. B(p) + f[p] - 1 <=> B(p) <= col /\ col < B(p + 1)
        /\ p \in 0 .. N /\ p + 1 \in 0 .. N
    BY <1>1, <1>4
  <2>2. CASE p = q
    BY <1>8, <2>1, <2>2
  <2>3. CASE p < q
    <3>1. p + 1 \in 0 .. q
      BY <1>7, <2>3
    <3>2. B(p + 1) <= B(q)
      BY <1>2, <1>7, <3>1
    <3> HIDE DEF q
    <3>3. B(p + 1) \in Int /\ B(q) \in Int
      BY <1>1, <1>7, <2>1
    <3> QED BY <1>4, <1>8, <2>1, <2>3, <3>2, <3>3
  <2>4. CASE q < p
    <3>1. q + 1 \in 0 .. p
      BY <1>7, <2>4
    <3>2. B(q + 1) <= B(p)
      BY <1>2, <2>1, <3>1
    <3> HIDE DEF q
    <3>3. B(q + 1) \in Int /\ B(p) \in Int
      BY <1>1, <1>6, <1>7, <2>1
    <3> QED BY <1>4, <1>8, <2>1, <2>4, <3>2, <3>3
  <2> QED BY <1>7, <2>2, <2>3, <2>4
<1> HIDE DEF q
<1>10. \E x \in 0 .. N - 1 : \A p \in 0 .. N - 1 : col \in B(p) .. B(p) + f[p] - 1 <=> p = x
  BY <1>7, <1>9
<1> QED BY <1>10 DEF B

-----------------------------------------------------------------------------
(* Every column of the concatenated data set is somebody's.                *)

\* The owner of the label that has begun has a column for it, and who is behind
\* RegisterProtocol has compared its width with what the context says.
Measured ==
  \A r \in Rank :
    /\ HasLabel(ctx[r], r) /\ (ctx[r].rows > 0 \/ ~ ctx[r].disable_handshake) =>
         ctx[r].columns > 0
    /\ HasLabel(ctx[r], r) /\ (pc[r] = "call" \/ posted[r] > 0) => ctx[r].columns > 0
    /\ at[r].op \notin {"none", "register"} \/ (at[r].op = "register" /\ pc[r] = "call") =>
         ctx[r].feature_nums[r] = FeatureNum(ctx[r], r)

\* A party compares the widths before it goes beyond RegisterProtocol.
LEMMA StepMeasured ==
  ASSUME IInv, Measured, NEW r \in Rank, Step(r) \/ Crash(r)
  PROVE  Measured'
<1>0. posted \in [Rank -> Nat] /\ DOMAIN at = Rank /\ DOMAIN pc = Rank /\ DOMAIN ctx = Rank
  BY DEF IInv, TypeOK
<1>1. CASE Begin(r)
  <2>1. posted[r] = 0 /\ at[r].op = "none" /\ at' = at /\ posted' = posted
    BY <1>1 DEF Begin, IInv, FirstCalls, Place
  <2>2. \A q \in Rank \ {r} : pc'[q] = pc[q] /\ ctx'[q] = ctx[q]
    BY <1>0, <1>1 DEF Begin, Goto
  <2>3. /\ ctx'[r].rows = ctx[r].rows /\ ctx'[r].columns = ctx[r].columns
        /\ ctx'[r].disable_handshake = ctx[r].disable_handshake
        /\ ctx'[r].label_rank = ctx[r].label_rank
    <3>1. ctx[r] \in LrContext
      BY DEF IInv, TypeOK
    <3>2. ctx'[r] = ctx[r] \/ ctx'[r] = [ctx[r] EXCEPT !.sample_size = ctx[r].rows]
      BY <1>0, <1>1 DEF Begin
    <3>3. LET d == [ctx[r] EXCEPT !.sample_size = ctx[r].rows]
          IN  /\ d.rows = ctx[r].rows /\ d.columns = ctx[r].columns
              /\ d.disable_handshake = ctx[r].disable_handshake
              /\ d.label_rank = ctx[r].label_rank
      BY <3>1 DEF LrContext
    <3> QED BY <3>2, <3>3
  <2>4. pc'[r] = "call" /\ HasLabel(ctx[r], r) => ctx[r].columns > 0
    <3>1. pc'[r] = "call" => (ctx[r].disable_handshake => ctx[r].rows > 0)
      BY <1>0, <1>1 DEF Begin, Goto, LrPrepares
    <3> QED BY <3>1 DEF Measured
  <2>5. HasLabel(ctx'[r], r) <=> HasLabel(ctx[r], r)
    BY <2>3 DEF HasLabel
  <2> QED BY <2>1, <2>2, <2>3, <2>4, <2>5 DEF Measured
<1>2. CASE PostCall(r)
  <2>1. /\ ctx' = ctx /\ pc[r] = "call" /\ pc'[r] = "wait"
        /\ at'[r] = Advance(ctx[r], r, at[r])
    BY <1>0, <1>2 DEF PostCall, Goto
  <2>2. \A q \in Rank \ {r} : pc'[q] = pc[q] /\ at'[q] = at[q] /\ posted'[q] = posted[q]
    BY <1>0, <1>2 DEF PostCall, Goto
  <2>3. at'[r].op \notin {"none", "register"} => at[r].op # "none"
    BY <2>1 DEF Advance, Place
  <2>4. at'[r].op \notin {"none", "register"} =>
          ctx[r].feature_nums[r] = FeatureNum(ctx[r], r)
    BY <2>1, <2>3 DEF Measured
  <2> QED BY <2>1, <2>2, <2>4 DEF Measured
<1>3. CASE FinishCall(r)
  <2>1. posted[r] > 0
    BY <1>0, <1>3 DEF FinishCall, IInv, FirstCalls
  <2>2. (\A q \in Rank \ {r} : pc'[q] = pc[q]) /\ UNCHANGED <<at, posted, ctx>>
    BY <1>0, <1>3 DEF FinishCall, Goto
  <2>3. at[r].op = "register" /\ pc'[r] = "call" =>
          ctx[r].feature_nums[r] = FeatureNum(ctx[r], r)
    BY <1>0, <1>3 DEF FinishCall, AfterRegister, Goto
  <2> QED BY <2>1, <2>2, <2>3 DEF Measured
<1>4. CASE FailCall(r) \/ ProduceOutput(r) \/ WaitLinkTaskFinish(r) \/ Crash(r)
  <2>1. (\A q \in Rank \ {r} : pc'[q] = pc[q]) /\ pc'[r] # "call"
    BY <1>0, <1>4 DEF FailCall, ProduceOutput, WaitLinkTaskFinish, Crash, Goto
  <2>2. UNCHANGED <<at, posted, ctx>>
    BY <1>4 DEF FailCall, ProduceOutput, WaitLinkTaskFinish, Crash
  <2> QED BY <2>1, <2>2 DEF Measured
<1> QED BY <1>1, <1>2, <1>3, <1>4 DEF Step

\* Measured is inductive beside the invariant.
LEMMA MeasuredStep == IInv /\ Measured /\ [Next]_vars => Measured'
<1> SUFFICES ASSUME IInv, Measured, [Next]_vars PROVE Measured'
  OBVIOUS
<1>1. CASE \E r \in Rank : Step(r) \/ Crash(r)
  BY <1>1, StepMeasured
<1>2. CASE UNCHANGED vars
  BY <1>2 DEF vars, Measured
<1> QED BY <1>1, <1>2 DEF Next, Done

\* The blocks that the parties' own widths make cover every column once.
LEMMA MeasuredAddUp == IInv /\ Measured => ColumnsAddUp
<1> SUFFICES ASSUME IInv, Measured,
                    \A p, q \in Rank : at[p].op = "train" /\ LrTerms(ctx[p]) = LrTerms(ctx[q]),
                    NEW r \in Rank, NEW col \in 0 .. Width(ctx[r].feature_nums) - 1
             PROVE  Cardinality({q \in Rank : col \in OwnColumns(q)}) = 1
  BY DEF ColumnsAddUp
<1> DEFINE f == ctx[r].feature_nums
<1>1. WorldSize \in Nat /\ Rank = 0 .. WorldSize - 1
  BY WorldSizeAssumption DEF Rank
<1>2. \A q \in Rank : ctx[q].feature_nums = f
  BY TermsSettle
<1>3. f \in [0 .. WorldSize - 1 -> Nat]
  <2>1. f \in [Rank -> Int]
    BY DEF IInv, TypeOK, LrContext
  <2>2. ASSUME NEW q \in Rank PROVE f[q] \in Nat
    <3>1. posted[q] > 0
      <4>1. posted[q] \in Nat /\ posted[q] # 0
        BY DEF IInv, TypeOK, FirstCalls, Place
      <4> QED BY <4>1
    <3>2. /\ HasLabel(ctx[q], q) => ctx[q].columns > 0
          /\ f[q] = FeatureNum(ctx[q], q)
      BY <1>2, <3>1 DEF Measured
    <3>3. ctx[q].columns \in Nat
      BY DEF IInv, TypeOK, LrContext
    <3> QED BY <3>2, <3>3 DEF FeatureNum
  <2> QED BY <1>1, <2>1, <2>2
<1>4. Width(f) = Total(f, 0 .. WorldSize - 1)
  BY <1>3 DEF Width, FoldFunction, Total
<1>5. \A q \in Rank :
        OwnColumns(q) = Total(f, 0 .. q - 1) .. Total(f, 0 .. q - 1) + f[q] - 1
  BY <1>2 DEF OwnColumns, BlockBeg, Total
<1> HIDE DEF f
<1>6. PICK x \in 0 .. WorldSize - 1 : \A p \in 0 .. WorldSize - 1 :
        col \in Total(f, 0 .. p - 1) .. Total(f, 0 .. p - 1) + f[p] - 1 <=> p = x
  <2>1. col \in 0 .. Total(f, 0 .. WorldSize - 1) - 1
    BY <1>4 DEF f
  <2> QED BY <1>1, <1>3, <2>1, OneBlock
<1>7. {q \in Rank : col \in OwnColumns(q)} = {x}
  BY <1>1, <1>5, <1>6
<1> QED BY <1>7, FS_Singleton

(* When parties with the same terms train, every column of the             *)
(* concatenated data set is the share of exactly one party's own columns,  *)
(* for any number of parties and any widths of their data sets: the        *)
(* prefix sums of Concatenate.                                             *)
THEOREM ColumnsBelongToOne == Spec => []ColumnsAddUp
<1>1. Init => IInv /\ Measured
  <2> SUFFICES ASSUME Init PROVE Measured
    BY InitInStep
  <2>1. \A r \in Rank :
          HasLabel(ctx[r], r) /\ (ctx[r].rows > 0 \/ ~ ctx[r].disable_handshake) =>
            ctx[r].columns > 0
    BY FilesAssumption DEF Init
  <2>2. \A r \in Rank : pc[r] = "begin" /\ posted[r] = 0 /\ at[r].op = "none"
    BY DEF Init, Place
  <2> QED BY <2>1, <2>2 DEF Measured
<1>2. IInv /\ Measured /\ [Next]_vars => (IInv /\ Measured)'
  BY IInvStep, MeasuredStep
<1> QED BY <1>1, <1>2, MeasuredAddUp, PTL DEF Spec
=============================================================================
