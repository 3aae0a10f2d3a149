-------------------------- MODULE HandshakeDataProofs --------------------------
(***************************************************************************)
(* What the handshake of SS-LR says of the parties' data sets: whose are   *)
(* the labels, and how wide is each data set.  For any number of parties,  *)
(* deployments, crashes and timeouts, and for foreign parties that number  *)
(* themselves by a rank of their own (the code does not compare            *)
(* requester_rank with the rank a request came from).                      *)
(***************************************************************************)
EXTENDS HandshakeProofs

\* A foreign party names neither the rank of a native one nor a negative rank,
\* and has at most one io parameter.
OwnRanks ==
  \A r \in Foreign : \A m \in Proposals[r] :
    /\ m.requester_rank \in Nat \ Native
    /\ \A x, y \in m.lr_io : x = y

-----------------------------------------------------------------------------
(* The negotiation over the io parameters.                                 *)

\* If no rank is negative, a negotiation that succeeds has found at most one
\* request with the label, and one exactly if the passive party has none.
LEMMA OneOwner ==
  ASSUME NEW c \in LrContext, NEW rs \in Seq(Request),
         NegotiateLrIoParams(c, rs) = "OK",
         \A i \in DOMAIN rs : /\ \A x, y \in rs[i].lr_io : x = y
                              /\ rs[i].requester_rank \in Nat
  PROVE  LET owners == Labelled(rs, Len(rs))
         IN  /\ \A i \in DOMAIN rs : rs[i].lr_io # {}
                                     /\ (LrIo(rs, i).has_label <=> i \in owners)
             /\ \A i, j \in owners : i = j
             /\ owners = {} <=> c.label_rank # -1
<1> DEFINE owners == Labelled(rs, Len(rs))
           labelled(i) == \E io \in rs[i].lr_io : io.has_label
<1>0. /\ Len(rs) \in Nat /\ DOMAIN rs = 1 .. Len(rs)
      /\ owners \subseteq DOMAIN rs
      /\ \A i \in DOMAIN rs : i \in owners <=> labelled(i)
  BY DEF Labelled
<1>1. \A i \in DOMAIN rs : rs[i].lr_io # {} /\ (LrIo(rs, i).has_label <=> i \in owners)
  <2> SUFFICES ASSUME NEW i \in DOMAIN rs
               PROVE  rs[i].lr_io # {} /\ (LrIo(rs, i).has_label <=> labelled(i))
    BY <1>0
  <2>1. rs[i].lr_io # {}
    BY LrIoChecked DEF LrIoStatus
  <2>2. LrIo(rs, i) \in rs[i].lr_io
    BY <2>1 DEF LrIo
  <2> QED BY <2>1, <2>2
<1>2. ASSUME NEW i \in owners
      PROVE  c.label_rank = -1 /\ Labelled(rs, i - 1) = {}
  <2> DEFINE before == Labelled(rs, i - 1)
  <2>1. IoLabelRank(c, rs, i - 1) = -1
    BY <1>0, LrIoChecked DEF LrIoStatus
  <2>2. IoLabelRank(c, rs, i - 1)
          = IF before = {} THEN c.label_rank ELSE rs[LatestOf(before)].requester_rank
    BY DEF IoLabelRank
  <2>3. before \subseteq DOMAIN rs
    BY <1>0 DEF Labelled
  <2>4. before # {} => LatestOf(before) \in DOMAIN rs
    BY <1>0, <2>3, LastPosition
  <2> HIDE DEF before
  <2>5. before = {}
    BY <2>1, <2>2, <2>4
  <2> QED BY <2>1, <2>2, <2>5 DEF before
<1>3. \A i, j \in owners : i = j
  <2> SUFFICES ASSUME NEW i \in owners, NEW j \in owners, i < j PROVE FALSE
    <3>1. owners \subseteq Int
      BY <1>0
    <3> QED BY <3>1
  <2>1. i \in 1 .. j - 1
    BY <1>0
  <2>2. i \in Labelled(rs, j - 1)
    BY <1>0, <2>1 DEF Labelled
  <2> QED BY <1>2, <2>2
<1>4. owners = {} => c.label_rank # -1
  <2> SUFFICES ASSUME owners = {}, c.label_rank = -1 PROVE FALSE
    OBVIOUS
  <2>1. IoLabelRank(c, rs, Len(rs)) = -1
    BY DEF IoLabelRank
  <2>2. {i \in DOMAIN rs : LrIoStatus(c, rs, i) # "OK"} = {}
    BY LrIoChecked
  <2>3. NegotiateLrIoParams(c, rs) = "INVALID_REQUEST"
    BY <2>1, <2>2 DEF NegotiateLrIoParams
  <2> QED BY <2>3
<1>5. owners # {} => c.label_rank = -1
  BY <1>2
<1> QED BY <1>1, <1>3, <1>4, <1>5

\* If the requests of the ranks in Q name their own rank, and the others none of
\* these and not the passive party's, then their widths and their claims to the
\* label are what the negotiation leaves.
LEMMA DataNegotiated ==
  ASSUME NEW c \in LrContext, NEW rs \in Seq(Request), LrNegotiate(c, rs) = "OK",
         DOMAIN rs = Active, c.label_rank \in {-1, Passive},
         \A i \in Active : \A x, y \in rs[i].lr_io : x = y,
         NEW Q \in SUBSET Active,
         \A i \in Q : rs[i].requester_rank = i,
         \A i \in Active \ Q : rs[i].requester_rank \in Nat \ (Q \cup {Passive})
  PROVE  LET n == LrNegotiated(c, rs)
         IN  /\ n.label_rank \in Rank
             /\ n.label_rank = Passive <=> c.label_rank = Passive
             /\ n.feature_nums[Passive] = c.feature_nums[Passive]
             /\ \A i \in Q :
                  /\ LrIo(rs, i) \in rs[i].lr_io
                  /\ n.feature_nums[i] = LrIo(rs, i).feature_num
                  /\ n.label_rank = i <=> LrIo(rs, i).has_label
<1> DEFINE n == LrNegotiated(c, rs)
           owners == Labelled(rs, Len(rs))
           from(q) == {i \in DOMAIN rs : rs[i].requester_rank = q}
<1>0. /\ NegotiateLrIoParams(c, rs) = "OK"
      /\ \A i \in Active : /\ rs[i].lr_io # {}
                           /\ ~ (rs[i].requester_rank >= WorldSize)
  <2>1. NegotiateLrIoParams(c, rs) = "OK"
    BY LrStepsDone
  <2>2. \A i \in Active : LrIoStatus(c, rs, i) = "OK"
    BY <2>1, LrIoChecked
  <2> QED BY <2>1, <2>2 DEF LrIoStatus
<1>1. /\ n.feature_nums = IoFeatureNums(c, rs)
      /\ n.label_rank = IoLabelRank(c, rs, Len(rs))
  BY <1>0, LrNegotiatedFields
<1>3. Active \subseteq Nat /\ Active \subseteq Rank /\ Passive \in Rank /\ Passive \notin Active
  BY WorldSizeAssumption DEF Active, Rank, Passive
<1>2. /\ \A i \in Active : LrIo(rs, i).has_label <=> i \in owners
      /\ \A i, j \in owners : i = j
      /\ owners = {} <=> c.label_rank # -1
      /\ owners \subseteq Active
  <2>1. \A i \in Active : rs[i].requester_rank \in Nat
    BY <1>3
  <2>2. owners \subseteq DOMAIN rs
    BY DEF Labelled
  <2> QED BY <1>0, <2>1, <2>2, OneOwner
<1>4. \A i \in Active : /\ rs[i] \in Request /\ rs[i].requester_rank \in Rank
                         /\ LrIo(rs, i) \in rs[i].lr_io
  <2> SUFFICES ASSUME NEW i \in Active
               PROVE  /\ rs[i] \in Request /\ rs[i].requester_rank \in Rank
                      /\ LrIo(rs, i) \in rs[i].lr_io
    OBVIOUS
  <2>1. rs[i] \in Request
    OBVIOUS
  <2>2. rs[i].requester_rank \in Nat
    BY <1>3
  <2> QED BY <1>0, <2>1, <2>2, WorldSizeAssumption DEF Rank, LrIo
<1>5. \A i \in Active : LatestOf({i}) = i
  BY <1>3 DEF LatestOf
<1>6. n.feature_nums[Passive] = c.feature_nums[Passive]
  <2>1. from(Passive) = {}
    BY <1>3
  <2> QED BY <1>1, <1>3, <2>1 DEF IoFeatureNums
<1>7. ASSUME NEW i \in Q PROVE n.feature_nums[i] = LrIo(rs, i).feature_num
  <2>1. from(i) = {i}
    OBVIOUS
  <2>2. LatestOf(from(i)) = i
    BY <1>5, <2>1
  <2> QED BY <1>1, <1>3, <2>1, <2>2 DEF IoFeatureNums
<1>8. /\ n.label_rank \in Rank
      /\ n.label_rank = Passive <=> c.label_rank = Passive
      /\ \A i \in Q : n.label_rank = i <=> LrIo(rs, i).has_label
  <2>1. CASE owners = {}
    <3>1. n.label_rank = Passive /\ c.label_rank = Passive
      BY <1>1, <1>2, <2>1 DEF IoLabelRank
    <3>2. \A i \in Q : ~ LrIo(rs, i).has_label
      BY <1>2, <2>1
    <3> QED BY <1>3, <3>1, <3>2
  <2>2. CASE owners # {}
    <3>1. PICK o \in Active : owners = {o}
      BY <1>2, <2>2
    <3>2. LatestOf(owners) = o
      BY <1>5, <3>1
    <3>3. n.label_rank = rs[o].requester_rank
      BY <1>1, <2>2, <3>2 DEF IoLabelRank
    <3>4. n.label_rank \in Rank
      BY <1>4, <3>3
    <3>5. c.label_rank # Passive
      BY <1>2, <2>2 DEF Passive
    <3>6. n.label_rank # Passive
      BY <1>3, <3>3
    <3>7. \A i \in Q : LrIo(rs, i).has_label <=> i = o
      BY <1>2, <3>1
    <3>8. \A i \in Q : n.label_rank = i <=> i = o
      BY <3>3
    <3> QED BY <3>4, <3>5, <3>6, <3>7, <3>8
  <2> QED BY <2>1, <2>2
<1> QED BY <1>4, <1>6, <1>7, <1>8

-----------------------------------------------------------------------------
(* The inductive invariant.                                                *)

\* What request m says of the data of its sender q is true: a native party tells
\* its width and whether it has the label, a foreign one has a rank of its own.
TellsTruth(m, q) ==
  /\ \A x, y \in m.lr_io : x = y
  /\ IF q \in Native
     THEN /\ m.requester_rank = q
          /\ \A io \in m.lr_io :
               /\ ~ IsPsi(ctx[q])
               /\ io.feature_num = FeatureNum(ctx[q], q)
               /\ io.has_label <=> HasLabel(ctx[q], q)
     ELSE m.requester_rank \in Nat \ Native

\* Every request that was delivered or read tells the truth.
IoIsTrue ==
  \A q \in Active :
    /\ \A m \in inbox[q] : TellsTruth(m, q)
    /\ q \in DOMAIN requests => TellsTruth(requests[q], q)

\* A party that is about to propose, or to collect proposals, knows its own width.
WidthPrepared(q) ==
  pc[q] \in {"collect", "propose"} /\ ~ IsPsi(ctx[q]) =>
    ctx[q].feature_nums[q] = FeatureNum(ctx[q], q)

\* Until it has settled the job, the passive party names nobody else as the owner
\* of the label.
LabelUnsettled ==
  response.code # "OK" /\ ~ IsPsi(ctx[Passive]) /\ ~ Skips(Passive) =>
    ctx[Passive].label_rank \in {-1, Passive}

\* Once the job is settled, the passive party has every native party's width, and
\* the label's owner is the one party that takes itself for it.
DataSettled ==
  response.code = "OK" /\ ~ IsPsi(ctx[Passive]) =>
    /\ ctx[Passive].label_rank \in Rank
    /\ \A q \in Native :
         /\ ~ IsPsi(ctx[q])
         /\ ctx[Passive].feature_nums[q] = FeatureNum(ctx[q], q)
         /\ HasLabel(ctx[q], q) <=> q = ctx[Passive].label_rank

DataInv ==
  /\ IoIsTrue
  /\ \A q \in Native : WidthPrepared(q)
  /\ LabelUnsettled
  /\ DataSettled

\* The csv file of q and what q was told about the label stay as they are.
SameData(q) ==
  /\ IsPsi(ctx'[q]) <=> IsPsi(ctx[q])
  /\ ctx'[q].disable_handshake = ctx[q].disable_handshake
  /\ ~ IsPsi(ctx[q]) => /\ ctx'[q].columns = ctx[q].columns
                        /\ ctx'[q].label_rank = ctx[q].label_rank

\* The data invariant outlives every step that leaves the data alone, delivers
\* only true requests and does not settle the job.
LEMMA DataKept ==
  ASSUME IInv, DataInv,
         \A q \in Native : SameData(q),
         \A q \in Active : \A m \in inbox'[q] : m \in inbox[q] \/ TellsTruth(m, q),
         \A q \in Active : q \in DOMAIN requests' =>
           \/ q \in DOMAIN requests /\ requests'[q] = requests[q]
           \/ requests'[q] \in inbox[q],
         response'.code = "OK" <=> response.code = "OK",
         response.code = "OK" => ctx'[Passive] = ctx[Passive],
         \A q \in Native : \/ pc'[q] \notin {"collect", "propose"}
                           \/ pc'[q] = pc[q] /\ ctx'[q] = ctx[q]
                           \/ WidthPrepared(q)'
  PROVE  DataInv'
<1>0. Passive \in Native
  BY Ranks
<1>1. \A q \in Native : ~ IsPsi(ctx[q]) =>
        /\ HasLabel(ctx'[q], q) <=> HasLabel(ctx[q], q)
        /\ FeatureNum(ctx'[q], q) = FeatureNum(ctx[q], q)
  BY DEF SameData, HasLabel, FeatureNum
<1>2. \A q \in Active : \A m : TellsTruth(m, q) => TellsTruth(m, q)'
  <2> SUFFICES ASSUME NEW q \in Active, NEW m, TellsTruth(m, q)
               PROVE  TellsTruth(m, q)'
    OBVIOUS
  <2>1. CASE q \in Native
    <3>1. \A io \in m.lr_io : /\ ~ IsPsi(ctx'[q])
                              /\ io.feature_num = FeatureNum(ctx'[q], q)
                              /\ io.has_label <=> HasLabel(ctx'[q], q)
      BY <1>1, <2>1 DEF TellsTruth, SameData
    <3> QED BY <2>1, <3>1 DEF TellsTruth
  <2>2. CASE q \notin Native
    BY <2>2 DEF TellsTruth
  <2> QED BY <2>1, <2>2
<1>3. IoIsTrue'
  BY <1>2 DEF DataInv, IoIsTrue
<1>4. \A q \in Native : WidthPrepared(q)'
  <2> SUFFICES ASSUME NEW q \in Native PROVE WidthPrepared(q)'
    OBVIOUS
  <2>1. CASE pc'[q] = pc[q] /\ ctx'[q] = ctx[q]
    BY <2>1 DEF DataInv, WidthPrepared
  <2>2. CASE pc'[q] \notin {"collect", "propose"}
    BY <2>2 DEF WidthPrepared
  <2> QED BY <2>1, <2>2
<1>5. LabelUnsettled'
  BY <1>0 DEF DataInv, LabelUnsettled, SameData, Skips
<1>6. DataSettled'
  <2> SUFFICES ASSUME response.code = "OK", ~ IsPsi(ctx[Passive])
               PROVE  DataSettled'
    BY <1>0 DEF DataSettled, SameData
  <2>1. /\ ctx'[Passive] = ctx[Passive]
        /\ ctx[Passive].label_rank \in Rank
        /\ \A q \in Native :
             /\ ~ IsPsi(ctx[q])
             /\ ctx[Passive].feature_nums[q] = FeatureNum(ctx[q], q)
             /\ HasLabel(ctx[q], q) <=> q = ctx[Passive].label_rank
    BY DEF DataInv, DataSettled
  <2>2. \A q \in Native : ~ IsPsi(ctx'[q])
    BY <2>1 DEF SameData
  <2> QED BY <1>1, <2>1, <2>2 DEF DataSettled
<1> QED BY <1>3, <1>4, <1>5, <1>6 DEF DataInv

\* In particular, steps that only move a process on, or end it.
LEMMA DataUntouched ==
  ASSUME IInv, DataInv, NEW r \in Rank, NEW phase \in Phase \ {"collect", "propose"},
         pc' = [pc EXCEPT ![r] = phase],
         UNCHANGED <<ctx, requests>>,
         \A q \in Active : inbox'[q] \subseteq inbox[q],
         response'.code = "OK" <=> response.code = "OK"
  PROVE  DataInv'
<1>1. \A q \in Native : SameData(q)
  BY DEF SameData
<1>2. \A q \in Native : pc'[q] = pc[q] \/ pc'[q] \notin {"collect", "propose"}
  BY Ranks DEF IInv, TypeOK
<1> QED BY <1>1, <1>2, DataKept

\* The handler functions of SS-LR leave the csv file and the label alone, but for
\* the negotiation; preparing the data set takes its width.
LEMMA HandlerData ==
  ASSUME NEW c \in Context, NEW r \in Rank
  PROVE  /\ IsPsi(Prepared(c, r)) <=> IsPsi(c)
         /\ Prepared(c, r).disable_handshake = c.disable_handshake
         /\ ~ IsPsi(c) =>
              /\ Prepared(c, r).columns = c.columns
              /\ Prepared(c, r).label_rank = c.label_rank
              /\ ~ c.disable_handshake =>
                   Prepared(c, r).feature_nums[r] = FeatureNum(c, r)
         /\ \A rsp \in Response : Accepts(c, r, rsp) =>
              /\ IsPsi(Processed(c, r, rsp)) <=> IsPsi(c)
              /\ Processed(c, r, rsp).disable_handshake = c.disable_handshake
              /\ ~ IsPsi(c) => /\ Processed(c, r, rsp).columns = c.columns
                               /\ Processed(c, r, rsp).label_rank = c.label_rank
<1>1. /\ Prepared(c, r).disable_handshake = c.disable_handshake
      /\ \A rsp \in Response : Accepts(c, r, rsp) =>
           /\ Processed(c, r, rsp) \in Context
           /\ Processed(c, r, rsp).disable_handshake = c.disable_handshake
  BY HandlerTypes
<1>2. CASE IsPsi(c)
  <2>1. c \in PsiContext /\ Prepared(c, r) = c
    BY <1>2, ContextKind DEF Prepared
  <2>2. \A x : PsiProcessed(c, x).algo = c.algo
    BY <2>1 DEF PsiProcessed, PsiContext
  <2>3. \A rsp : IsPsi(Processed(c, r, rsp))
    BY <1>2, <2>2 DEF Processed, IsPsi
  <2> QED BY <1>1, <1>2, <2>1, <2>3
<1>3. CASE ~ IsPsi(c)
  <2>1. c \in LrContext /\ Prepared(c, r) = LrPrepared(c, r)
    BY <1>3, ContextKind DEF Prepared
  <2>2. /\ LrPrepared(c, r).algo = c.algo
        /\ LrPrepared(c, r).columns = c.columns
        /\ LrPrepared(c, r).label_rank = c.label_rank
        /\ ~ c.disable_handshake => LrPrepared(c, r).feature_nums[r] = FeatureNum(c, r)
    BY <2>1 DEF LrPrepared, LrContext
  <2>3. \A x : /\ LrProcessed(c, r, x).algo = c.algo
               /\ LrProcessed(c, r, x).columns = c.columns
               /\ LrProcessed(c, r, x).label_rank = c.label_rank
    BY <2>1 DEF LrProcessed, LrContext
  <2>4. \A rsp : \E x : Processed(c, r, rsp) = LrProcessed(c, r, x)
    BY <1>3 DEF Processed
  <2> QED BY <1>1, <1>3, <2>1, <2>2, <2>3, <2>4 DEF IsPsi
<1> QED BY <1>2, <1>3

\* A party prepares its data set, and from then on knows its width.
LEMMA PrepareDatasetData ==
  ASSUME IInv, DataInv, NEW r \in Native, PrepareDataset(r)
  PROVE  DataInv'
<1>0. /\ pc \in [Rank -> Phase] /\ ctx \in [Native -> Context]
      /\ r \in Rank /\ Native \subseteq Rank /\ Passive \in Native
  BY Ranks DEF IInv, TypeOK
<1>1. CASE ~ Prepares(ctx[r], r)
  BY <1>0, <1>1, DataUntouched DEF PrepareDataset, Throw, Exit, Goto, Exited, Phase
<1>2. CASE Prepares(ctx[r], r)
  <2>1. /\ pc[r] = "linked"
        /\ pc' = [pc EXCEPT ![r] = IF Skips(r) THEN "run"
                                    ELSE IF r = Passive THEN "collect" ELSE "propose"]
        /\ ctx' = [ctx EXCEPT ![r] = Prepared(@, r)]
        /\ UNCHANGED <<inbox, requests, response>>
    BY <1>2 DEF PrepareDataset, Goto
  <2>2. /\ \A q \in Native : q # r => pc'[q] = pc[q] /\ ctx'[q] = ctx[q]
        /\ ctx'[r] = Prepared(ctx[r], r)
    BY <1>0, <2>1
  <2>3. \A q \in Native : SameData(q)
    BY <1>0, <2>2, HandlerData DEF SameData
  <2>4. response.code = "OK" => ctx'[Passive] = ctx[Passive]
    <3>1. response.code = "OK" => r # Passive
      BY <2>1 DEF IInv, ResponseIsTrue, PastHandshake, Exited
    <3> QED BY <1>0, <2>2, <3>1
  <2>5. pc'[r] = "run" \/ WidthPrepared(r)'
    <3>1. CASE Skips(r)
      BY <1>0, <2>1, <3>1
    <3>2. CASE ~ Skips(r)
      <4>1. ~ IsPsi(ctx'[r]) => ctx'[r].feature_nums[r] = FeatureNum(ctx'[r], r)
        BY <1>0, <2>2, <3>2, HandlerData DEF Skips, FeatureNum, HasLabel
      <4> QED BY <4>1 DEF WidthPrepared
    <3> QED BY <3>1, <3>2
  <2>6. \A q \in Native : \/ pc'[q] \notin {"collect", "propose"}
                          \/ pc'[q] = pc[q] /\ ctx'[q] = ctx[q]
                          \/ WidthPrepared(q)'
    BY <2>2, <2>5
  <2> QED BY <2>1, <2>3, <2>4, <2>6, DataKept
<1> QED BY <1>1, <1>2

\* The request of a party that is about to propose tells the truth.
LEMMA OwnRequestIsTrue ==
  ASSUME IInv, DataInv, NEW r \in Native, pc[r] = "propose"
  PROVE  TellsTruth(BuildRequest(ctx[r], r), r)
<1>1. CASE IsPsi(ctx[r])
  BY <1>1 DEF TellsTruth, BuildRequest, PsiBuildRequest
<1>2. CASE ~ IsPsi(ctx[r])
  <2>1. ctx[r].feature_nums[r] = FeatureNum(ctx[r], r)
    BY <1>2 DEF DataInv, WidthPrepared
  <2> DEFINE io == [sample_size |-> ctx[r].sample_size,
                    feature_num |-> ctx[r].feature_nums[r],
                    has_label |-> HasLabel(ctx[r], r)]
  <2>2. /\ BuildRequest(ctx[r], r).lr_io = {io}
        /\ BuildRequest(ctx[r], r).requester_rank = r
    BY <1>2 DEF BuildRequest, LrBuildRequest
  <2> QED BY <1>2, <2>1, <2>2 DEF TellsTruth
<1> QED BY <1>1, <1>2

\* A native party proposes.
LEMMA SendHandshakeRequestData ==
  ASSUME IInv, DataInv, NEW r \in Native, SendHandshakeRequest(r)
  PROVE  DataInv'
<1>0. /\ pc \in [Rank -> Phase] /\ inbox \in [Rank -> SUBSET Request]
      /\ r \in Rank /\ Native \subseteq Rank /\ Active \subseteq Rank
  BY Ranks DEF IInv, TypeOK
<1>1. CASE ~ (CanPropose(ctx[r]) /\ pc[Passive] \notin Exited)
  BY <1>0, <1>1, DataUntouched
     DEF SendHandshakeRequest, Throw, Exit, Goto, Exited, Phase
<1>2. CASE CanPropose(ctx[r]) /\ pc[Passive] \notin Exited
  <2>1. /\ pc[r] = "propose" /\ pc' = [pc EXCEPT ![r] = "await"]
        /\ inbox' = [inbox EXCEPT ![r] = {BuildRequest(ctx[r], r)}]
        /\ UNCHANGED <<ctx, requests, response>>
    BY <1>2 DEF SendHandshakeRequest, Goto
  <2>2. \A q \in Active : \A m \in inbox'[q] : m \in inbox[q] \/ TellsTruth(m, q)
    <3>1. TellsTruth(BuildRequest(ctx[r], r), r)
      BY <2>1, OwnRequestIsTrue
    <3> QED BY <1>0, <2>1, <3>1
  <2>3. \A q \in Native : SameData(q)
    BY <2>1 DEF SameData
  <2>4. \A q \in Native : pc'[q] = pc[q] \/ pc'[q] \notin {"collect", "propose"}
    BY <1>0, <2>1
  <2> QED BY <2>1, <2>2, <2>3, <2>4, DataKept
<1> QED BY <1>1, <1>2

\* A foreign party proposes, by a rank of its own.
LEMMA ForeignRequestData ==
  ASSUME OwnRanks, IInv, DataInv, NEW r \in Foreign, ForeignRequest(r)
  PROVE  DataInv'
<1>0. /\ pc \in [Rank -> Phase] /\ inbox \in [Rank -> SUBSET Request]
      /\ r \in Rank /\ r \notin Native /\ Native \subseteq Rank /\ Active \subseteq Rank
  BY Ranks DEF IInv, TypeOK, Native
<1>1. /\ pc' = [pc EXCEPT ![r] = "await"] /\ UNCHANGED <<ctx, requests, response>>
      /\ \E m \in Proposals[r] : inbox' = [inbox EXCEPT ![r] = {m}]
  BY DEF ForeignRequest, Goto
<1>2. \A m \in Proposals[r] : TellsTruth(m, r)
  BY <1>0 DEF OwnRanks, TellsTruth
<1>3. \A q \in Active : \A m \in inbox'[q] : m \in inbox[q] \/ TellsTruth(m, q)
  BY <1>0, <1>1, <1>2
<1>4. \A q \in Native : SameData(q)
  BY <1>1 DEF SameData
<1>5. \A q \in Native : pc'[q] = pc[q]
  BY <1>0, <1>1
<1> QED BY <1>1, <1>3, <1>4, <1>5, DataKept

\* An active party takes the response over, the passive party reads a request.
LEMMA ReceivingData ==
  ASSUME IInv, DataInv, NEW r \in Native,
         RecvHandshakeResponse(r) \/ RecvHandshakeRequest(r)
  PROVE  DataInv'
<1>0. /\ pc \in [Rank -> Phase] /\ ctx \in [Native -> Context]
      /\ inbox \in [Rank -> SUBSET Request] /\ response \in Response
      /\ requests \in Seq(Request) /\ Passive \in Native
      /\ r \in Rank /\ Native \subseteq Rank /\ Active \subseteq Rank
      /\ Passive \notin Active
  BY Ranks DEF IInv, TypeOK
<1>1. CASE RecvHandshakeResponse(r)
  <2>1. CASE ~ (response.code = "OK" /\ Accepts(ctx[r], r, response))
    BY <1>0, <1>1, <2>1, DataUntouched
       DEF RecvHandshakeResponse, Throw, Exit, Goto, Exited, Phase
  <2>2. CASE response.code = "OK" /\ Accepts(ctx[r], r, response)
    <3>1. /\ pc' = [pc EXCEPT ![r] = "run"] /\ r # Passive
          /\ ctx' = [ctx EXCEPT ![r] = Processed(@, r, response)]
          /\ UNCHANGED <<inbox, requests, response>>
      <4>1. r # Passive
        BY <1>0, <1>1 DEF RecvHandshakeResponse, IInv, TypeOK
      <4> QED BY <1>1, <2>2, <4>1 DEF RecvHandshakeResponse, Goto
    <3>2. /\ \A q \in Native : q # r => pc'[q] = pc[q] /\ ctx'[q] = ctx[q]
          /\ pc'[r] = "run" /\ ctx'[r] = Processed(ctx[r], r, response)
      BY <1>0, <3>1
    <3>3. \A q \in Native : SameData(q)
      BY <1>0, <2>2, <3>2, HandlerData DEF SameData
    <3>4. /\ ctx'[Passive] = ctx[Passive]
          /\ \A q \in Native : \/ pc'[q] \notin {"collect", "propose"}
                               \/ pc'[q] = pc[q] /\ ctx'[q] = ctx[q]
      BY <1>0, <3>1, <3>2
    <3> QED BY <3>1, <3>3, <3>4, DataKept
  <2> QED BY <2>1, <2>2
<1>2. CASE RecvHandshakeRequest(r)
  <2>0. NextRequester = Len(requests) + 1 /\ NextRequester \in Rank
    BY <1>0, <1>2 DEF RecvHandshakeRequest, NextRequester
  <2>1. PICK m \in inbox[NextRequester] :
          /\ inbox' = [inbox EXCEPT ![NextRequester] = {}]
          /\ IF m.version >= 2
             THEN requests' = Append(requests, m) /\ UNCHANGED <<pc, outbox>>
             ELSE Throw(r) /\ UNCHANGED requests
    BY <1>2 DEF RecvHandshakeRequest
  <2>2. UNCHANGED <<ctx, response>>
    BY <1>2 DEF RecvHandshakeRequest
  <2>3. \A q \in Active : inbox'[q] \subseteq inbox[q]
    BY <1>0, <2>0, <2>1
  <2>4. CASE ~ (m.version >= 2)
    BY <1>0, <2>1, <2>2, <2>3, <2>4, DataUntouched DEF Throw, Exit, Goto, Exited, Phase
  <2>5. CASE m.version >= 2
    <3>1. requests' = Append(requests, m) /\ pc' = pc
      BY <2>1, <2>5
    <3>2. \A q \in DOMAIN requests' :
            \/ q \in DOMAIN requests /\ requests'[q] = requests[q]
            \/ requests'[q] \in inbox[q]
      <4>1. /\ DOMAIN requests' = DOMAIN requests \cup {NextRequester}
            /\ requests'[NextRequester] = m
            /\ \A i \in DOMAIN requests : requests'[i] = requests[i]
        BY <1>0, <2>0, <3>1
      <4> QED BY <4>1
    <3>3. \A q \in Native : SameData(q)
      BY <2>2 DEF SameData
    <3> QED BY <2>2, <2>3, <3>1, <3>2, <3>3, DataKept
  <2> QED BY <2>4, <2>5
<1> QED BY <1>1, <1>2

\* The passive party settles the job, and finds out about everybody's data.
LEMMA PassiveHandshakeData ==
  ASSUME IInv, DataInv, NEW r \in Native, PassiveHandshake(r)
  PROVE  DataInv'
<1>0. /\ pc \in [Rank -> Phase] /\ ctx \in [Native -> Context]
      /\ requests \in Seq(Request) /\ r = Passive /\ pc[r] = "collect"
      /\ r \in Rank /\ Native \subseteq Rank /\ Passive \notin Active
      /\ Native = {Passive} \cup (Native \cap Active) /\ Foreign \subseteq Active
  BY Ranks, HandshakeAssumption DEF IInv, TypeOK, PassiveHandshake
<1>1. response.code # "OK" /\ ~ Skips(r)
  BY <1>0 DEF IInv, ResponseIsTrue, RequestsAreTrue, PastHandshake, Exited
<1> DEFINE verdict == Verdict(ctx[r], requests)
           c == ctx[Passive]
           n == Negotiated(c, requests)
<1>2. CASE verdict = "OK"
  <2>1. /\ pc' = [pc EXCEPT ![r] = "run"] /\ ctx' = [ctx EXCEPT ![r] = n]
        /\ response' = BuildResponse(ctx'[r]) /\ UNCHANGED <<inbox, requests>>
    BY <1>0, <1>2 DEF PassiveHandshake, Goto
  <2>2. /\ \A q \in Native : q # Passive => pc'[q] = pc[q] /\ ctx'[q] = ctx[q]
        /\ pc'[Passive] = "run" /\ ctx'[Passive] = n
    BY <1>0, <2>1
  <2>3. response'.code = "OK"
    BY <2>1 DEF BuildResponse
  <2>4. DOMAIN requests = Active
    <3>1. ResponseIsTrue'
      BY PassiveHandshakeStep
    <3> QED BY <2>1, <2>3, <3>1 DEF ResponseIsTrue
  <2>5. IoIsTrue'
    <3>1. \A q \in Active : \A m : TellsTruth(m, q) => TellsTruth(m, q)'
      BY <1>0, <2>2 DEF TellsTruth
    <3> QED BY <2>1, <3>1 DEF DataInv, IoIsTrue
  <2>6. \A q \in Native : WidthPrepared(q)'
    BY <2>2 DEF DataInv, WidthPrepared
  <2>7. DataSettled'
    <3> SUFFICES ASSUME ~ IsPsi(n) PROVE DataSettled'
      BY <2>2 DEF DataSettled
    <3>1. /\ c \in LrContext /\ ~ IsPsi(c)
          /\ n = LrNegotiated(c, requests) /\ LrNegotiate(c, requests) = "OK"
      <4>1. CASE IsPsi(c)
        <5>1. n \in PsiContext
          BY <1>0, <4>1, ContextKind, PsiTypes DEF Negotiated
        <5> QED BY <5>1 DEF PsiContext, IsPsi
      <4>2. CASE ~ IsPsi(c)
        BY <1>0, <1>2, <4>2, ContextKind DEF Negotiated, Verdict, Negotiate
      <4> QED BY <4>1, <4>2
    <3>2. /\ c.label_rank \in {-1, Passive}
          /\ c.feature_nums[Passive] = FeatureNum(c, Passive)
      BY <1>0, <1>1, <3>1 DEF DataInv, LabelUnsettled, WidthPrepared
    <3>3. \A i \in Active : TellsTruth(requests[i], i)
      BY <2>4 DEF DataInv, IoIsTrue
    <3> DEFINE Q == Native \cap Active
    <3>4. /\ \A i \in Active : \A x, y \in requests[i].lr_io : x = y
          /\ \A i \in Q : requests[i].requester_rank = i
          /\ \A i \in Active \ Q :
               requests[i].requester_rank \in Nat \ (Q \cup {Passive})
      BY <1>0, <3>3 DEF TellsTruth
    <3>5. /\ n.label_rank \in Rank
          /\ n.label_rank = Passive <=> c.label_rank = Passive
          /\ n.feature_nums[Passive] = c.feature_nums[Passive]
          /\ \A i \in Q : /\ LrIo(requests, i) \in requests[i].lr_io
                          /\ n.feature_nums[i] = LrIo(requests, i).feature_num
                          /\ n.label_rank = i <=> LrIo(requests, i).has_label
      <4> HIDE DEF n, c
      <4>1. Q \in SUBSET Active /\ requests \in Seq(Request)
        BY <1>0
      <4> HIDE DEF Q
      <4>2. LET m == LrNegotiated(c, requests)
            IN  /\ m.label_rank \in Rank
                /\ m.label_rank = Passive <=> c.label_rank = Passive
                /\ m.feature_nums[Passive] = c.feature_nums[Passive]
                /\ \A i \in Q : /\ LrIo(requests, i) \in requests[i].lr_io
                                /\ m.feature_nums[i] = LrIo(requests, i).feature_num
                                /\ m.label_rank = i <=> LrIo(requests, i).has_label
        BY <2>4, <3>1, <3>2, <3>4, <4>1, DataNegotiated
      <4> QED BY <3>1, <4>2
    <3>6. n.columns = c.columns
      <4>1. LrNegotiated(c, requests).columns = c.columns
        BY <3>1 DEF LrNegotiated, LrContext
      <4> QED BY <3>1, <4>1
    <3>7. FeatureNum(n, Passive) = FeatureNum(c, Passive)
      BY <3>5, <3>6 DEF FeatureNum, HasLabel
    <3>8. ASSUME NEW q \in Q
          PROVE  /\ ~ IsPsi(ctx[q])
                 /\ n.feature_nums[q] = FeatureNum(ctx[q], q)
                 /\ HasLabel(ctx[q], q) <=> q = n.label_rank
      BY <3>3, <3>5 DEF TellsTruth
    <3>9. n.feature_nums[Passive] = FeatureNum(n, Passive)
      BY <3>2, <3>5, <3>7
    <3> HIDE DEF n
    <3>10. ASSUME NEW q \in Native
           PROVE  /\ ~ IsPsi(ctx'[q])
                  /\ n.feature_nums[q] = FeatureNum(ctx'[q], q)
                  /\ HasLabel(ctx'[q], q) <=> q = n.label_rank
      <4>1. CASE q = Passive
        BY <2>2, <3>9, <4>1 DEF HasLabel
      <4>2. CASE q # Passive
        BY <1>0, <2>2, <3>8, <4>2
      <4> QED BY <4>1, <4>2
    <3> QED BY <2>2, <3>5, <3>10 DEF DataSettled
  <2>8. LabelUnsettled'
    BY <2>3 DEF LabelUnsettled
  <2> QED BY <2>5, <2>6, <2>7, <2>8 DEF DataInv
<1>3. CASE verdict \notin {"OK", "THROW"}
  <2>1. /\ pc' = [pc EXCEPT ![r] = "finish"] /\ response'.code # "OK"
        /\ UNCHANGED <<ctx, inbox, requests>>
    BY <1>3 DEF PassiveHandshake, Goto, Refusal
  <2> QED BY <1>0, <1>1, <2>1, DataUntouched DEF Phase
<1>4. CASE verdict = "THROW"
  BY <1>0, <1>4, DataUntouched DEF PassiveHandshake, Throw, Exit, Goto, Exited, Phase
<1> QED BY <1>2, <1>3, <1>4

\* No other step concerns the data.
LEMMA OtherStepData ==
  ASSUME OwnRanks, IInv, DataInv,
         \/ \E r \in Native : NativeStep(r) \/ Crash(r)
         \/ \E r \in Foreign : ForeignStep(r)
         \/ \E r \in Active : DeliverResponse(r)
         \/ UNCHANGED vars
  PROVE  DataInv'
<1>0. Native \subseteq Rank /\ Foreign \subseteq Rank
  BY Ranks
<1> USE DEF Throw, Exit, Goto, Exited, Phase
<1>1. ASSUME NEW r \in Native, NativeStep(r) \/ Crash(r) PROVE DataInv'
  <2>1. CASE CreateIcContext(r)
    BY <1>0, <2>1, DataUntouched DEF CreateIcContext
  <2>2. CASE ConnectToMesh(r)
    BY <1>0, <2>2, DataUntouched DEF ConnectToMesh
  <2>3. CASE MeshFailure(r)
    BY <1>0, <2>3, DataUntouched DEF MeshFailure
  <2>4. CASE AlgoDone(r)
    BY <1>0, <2>4, DataUntouched DEF AlgoDone
  <2>5. CASE AlgoFails(r)
    BY <1>0, <2>5, DataUntouched DEF AlgoFails
  <2>6. CASE WaitLinkTaskFinish(r)
    BY <1>0, <2>6, DataUntouched DEF WaitLinkTaskFinish
  <2>7. CASE RecvTimeout(r)
    BY <1>0, <2>7, DataUntouched DEF RecvTimeout
  <2>8. CASE Crash(r)
    BY <1>0, <2>8, DataUntouched DEF Crash
  <2> QED BY <1>1, <2>1, <2>2, <2>3, <2>4, <2>5, <2>6, <2>7, <2>8, PrepareDatasetData,
             SendHandshakeRequestData, ReceivingData, PassiveHandshakeData DEF NativeStep
<1>2. ASSUME NEW r \in Foreign, ForeignStep(r) PROVE DataInv'
  <2>1. CASE ConnectToMesh(r)
    BY <1>0, <2>1, DataUntouched DEF ConnectToMesh
  <2>2. CASE ForeignResponse(r)
    <3>1. \E phase \in {"run", "finish"} : pc' = [pc EXCEPT ![r] = phase]
      BY <2>2 DEF ForeignResponse
    <3> QED BY <1>0, <2>2, <3>1, DataUntouched DEF ForeignResponse
  <2>3. CASE AlgoDone(r)
    BY <1>0, <2>3, DataUntouched DEF AlgoDone
  <2>4. CASE WaitLinkTaskFinish(r)
    BY <1>0, <2>4, DataUntouched DEF WaitLinkTaskFinish
  <2>5. CASE ForeignGivesUp(r)
    BY <1>0, <2>5, DataUntouched DEF ForeignGivesUp
  <2> QED BY <1>2, <2>1, <2>2, <2>3, <2>4, <2>5, ForeignRequestData DEF ForeignStep
<1>3. ASSUME UNCHANGED <<pc, ctx, inbox, requests, response>> PROVE DataInv'
  BY <1>3, DataKept DEF SameData
<1> QED BY <1>1, <1>2, <1>3 DEF DeliverResponse, vars

\* No data is known when the job starts, and nobody but the passive party is
\* taken for the owner of the label there.
LEMMA InitData == Init => DataInv
<1> SUFFICES ASSUME Init PROVE DataInv
  OBVIOUS
<1>1. IoIsTrue
  BY Ranks DEF Init, IoIsTrue
<1>2. \A q \in Native : WidthPrepared(q)
  BY Ranks DEF Init, WidthPrepared
<1>3. LabelUnsettled
  <2>1. ctx \in [Native -> Context] /\ Passive \in Native
    BY Ranks, HandshakeAssumption DEF Init
  <2>2. ~ IsPsi(ctx[Passive]) => ctx[Passive].algo = "SS_LR"
    BY <2>1, ContextKind
  <2> QED BY <2>1, <2>2, HandshakeAssumption DEF Init, LabelUnsettled, Skips
<1>4. DataSettled
  BY DEF Init, NoResponse, Refusal, DataSettled
<1> QED BY <1>1, <1>2, <1>3, <1>4 DEF DataInv

\* The two invariants hold throughout.
LEMMA DataInductive == ASSUME OwnRanks PROVE Spec => [](IInv /\ DataInv)
<1>1. Init => IInv /\ DataInv
  BY InitKept, InitData
<1>2. IInv /\ DataInv /\ [Next]_vars => (IInv /\ DataInv)'
  BY NextKeeps, OtherStepData DEF Next, Done
<1> QED BY <1>1, <1>2, PTL DEF Spec

-----------------------------------------------------------------------------
(* The theorems.                                                           *)

\* Who runs SS-LR after a handshake, does so on what the passive party settled.
LEMMA RunsSettled ==
  ASSUME IInv, DataInv, NEW p \in Native, Ran(p), ~ Skips(p), ~ IsPsi(ctx[p])
  PROVE  /\ response.code = "OK" /\ ~ IsPsi(ctx[Passive])
         /\ ctx[p].feature_nums = ctx[Passive].feature_nums
<1>1. /\ response.code = "OK" /\ Terms(ctx[p]) = Terms(ctx[Passive])
      /\ ctx[p] \in Context /\ ctx[Passive] \in Context
  BY Ranks DEF IInv, RunsOnTerms, TypeOK
<1>2. ~ IsPsi(ctx[Passive])
  <2> SUFFICES ASSUME IsPsi(ctx[Passive]) PROVE FALSE
    OBVIOUS
  <2>1. Terms(ctx[Passive]).algo = "ECDH_PSI" /\ Terms(ctx[p]).algo = "SS_LR"
    BY <1>1, ContextKind DEF Terms, PsiTerms, LrTerms
  <2> QED BY <1>1, <2>1
<1>3. LrTerms(ctx[p]) = LrTerms(ctx[Passive])
  BY <1>1, <1>2 DEF Terms
<1>4. LrTerms(ctx[p]).feature_nums = LrTerms(ctx[Passive]).feature_nums
  BY <1>3
<1> QED BY <1>1, <1>2, <1>4 DEF LrTerms

(* The parties that run SS-LR after a handshake agree on exactly one of    *)
(* them as the owner of the label, whichever parties, data sets and flags  *)
(* take part and whoever fails (NegotiateLrIoParams and the has_label that *)
(* each party computes for itself).                                        *)
THEOREM OwnerIsUnique == ASSUME OwnRanks PROVE Spec => []OneLabelOwner
<1>1. IInv /\ DataInv => OneLabelOwner
  <2> SUFFICES ASSUME IInv, DataInv, NEW p \in Native,
                      Ran(p), ~ Skips(p), ~ IsPsi(ctx[p])
               PROVE  \E owner \in Rank : \A q \in Native :
                        HasLabel(ctx[q], q) <=> q = owner
    BY DEF OneLabelOwner
  <2>1. response.code = "OK" /\ ~ IsPsi(ctx[Passive])
    BY RunsSettled
  <2> QED BY <2>1 DEF DataInv, DataSettled
<1> QED BY DataInductive, <1>1, PTL

(* Every party that runs SS-LR after a handshake has the true width of     *)
(* every native party's data set, by which it lays out the concatenated    *)
(* one (Concatenate).                                                      *)
THEOREM WidthsAreTrue == ASSUME OwnRanks PROVE Spec => []FeatureNumsAreTrue
<1>1. IInv /\ DataInv => FeatureNumsAreTrue
  <2> SUFFICES ASSUME IInv, DataInv, NEW p \in Native, NEW q \in Native,
                      Ran(p), ~ Skips(p), ~ IsPsi(ctx[p])
               PROVE  ctx[p].feature_nums[q] = FeatureNum(ctx[q], q)
    BY DEF FeatureNumsAreTrue
  <2>1. /\ response.code = "OK" /\ ~ IsPsi(ctx[Passive])
        /\ ctx[p].feature_nums = ctx[Passive].feature_nums
    BY RunsSettled
  <2> QED BY <2>1 DEF DataInv, DataSettled
<1> QED BY DataInductive, <1>1, PTL

-----------------------------------------------------------------------------
(* Acceptance is mutual, but for the truncation mode.                      *)

\* Every party of SS-LR was started with the truncation mode that
\* BuildHandshakeRequest offers for it.
TruncModeAsOffered ==
  \A d \in Deployments : \A r \in Native :
    d[r].algo = "SS_LR" => d[r].trunc_mode = "PROBABILISTIC"

Before == {"init", "linking", "linked"}
Asking == {"propose", "await"}

\* A party that will ask, or has asked, for a job still has the truncation mode it
\* was started with; one that has asked has an optimizer, and knows its own width.
Askable(r) ==
  pc[r] \in Before \cup Asking /\ ~ IsPsi(ctx[r]) =>
    /\ ctx[r].trunc_mode = "PROBABILISTIC"
    /\ pc[r] \in Asking => /\ ctx[r].optimizer = "SGD"
                           /\ ctx[r].feature_nums[r] = FeatureNum(ctx[r], r)

AllAskable == \A r \in Native : Askable(r)

\* A step of one process leaves the others askable, and itself if it goes on to
\* the next stage with the context it has.
LEMMA AskableKept ==
  ASSUME IInv, AllAskable, NEW r \in Rank, NEW phase,
         pc' = [pc EXCEPT ![r] = phase],
         \A q \in Native \ {r} : ctx'[q] = ctx[q],
         \/ r \notin Native
         \/ phase \notin Before \cup Asking
         \/ /\ ctx'[r] = ctx[r]
            /\ \/ phase \in Before /\ pc[r] \in Before
               \/ phase \in Asking /\ pc[r] \in Asking
  PROVE  AllAskable'
<1>0. /\ pc \in [Rank -> Phase] /\ Native \subseteq Rank
      /\ \A q \in Rank : pc'[q] = IF q = r THEN phase ELSE pc[q]
  BY Ranks DEF IInv, TypeOK
<1> SUFFICES ASSUME NEW q \in Native PROVE Askable(q)'
  BY DEF AllAskable
<1>1. CASE q # r
  <2>1. pc'[q] = pc[q] /\ ctx'[q] = ctx[q] /\ Askable(q)
    BY <1>0, <1>1 DEF AllAskable
  <2> QED BY <2>1 DEF Askable
<1>2. CASE q = r
  <2>1. Askable(r)
    BY <1>2 DEF AllAskable
  <2> QED BY <1>0, <1>2, <2>1 DEF Askable, Before, Asking
<1> QED BY <1>1, <1>2

\* A party that gets its handler is askable.
LEMMA PrepareAskable ==
  ASSUME IInv, AllAskable, NEW r \in Native, PrepareDataset(r)
  PROVE  AllAskable'
<1>0. /\ pc \in [Rank -> Phase] /\ ctx \in [Native -> Context]
      /\ r \in Rank /\ Native \subseteq Rank /\ pc[r] = "linked"
  BY Ranks DEF IInv, TypeOK, PrepareDataset
<1>1. CASE ~ Prepares(ctx[r], r)
  BY <1>0, <1>1, AskableKept
     DEF PrepareDataset, Throw, Exit, Goto, Exited, Before, Asking
<1>2. CASE Prepares(ctx[r], r)
  <2>1. /\ pc' = [pc EXCEPT ![r] = IF Skips(r) THEN "run"
                                    ELSE IF r = Passive THEN "collect" ELSE "propose"]
        /\ ctx' = [ctx EXCEPT ![r] = Prepared(@, r)]
    BY <1>2 DEF PrepareDataset, Goto
  <2>2. \A q \in Native : q # r => pc'[q] = pc[q] /\ ctx'[q] = ctx[q] /\ Askable(q)
    BY <1>0, <2>1 DEF AllAskable
  <2>3. \A q \in Native : q # r => Askable(q)'
    BY <2>2 DEF Askable
  <2>4. Askable(r)'
    <3>1. CASE Skips(r)
      BY <1>0, <2>1, <3>1 DEF Askable, Before, Asking
    <3>2. CASE ~ Skips(r) /\ ~ IsPsi(ctx[r])
      <4>1. /\ ctx[r] \in LrContext /\ ctx[r].trunc_mode = "PROBABILISTIC"
            /\ ctx[r].optimizer = "SGD" /\ ~ ctx[r].disable_handshake
        BY <1>0, <1>2, <3>2, ContextKind
           DEF AllAskable, Askable, Before, Prepares, LrHandlerCreated, Skips
      <4>2. ctx'[r] = LrPrepared(ctx[r], r)
        BY <1>0, <2>1, <3>2 DEF Prepared
      <4>3. /\ ctx'[r].trunc_mode = "PROBABILISTIC" /\ ctx'[r].optimizer = "SGD"
            /\ ctx'[r].columns = ctx[r].columns /\ ctx'[r].label_rank = ctx[r].label_rank
            /\ ctx'[r].feature_nums[r] = FeatureNum(ctx[r], r)
        BY <1>0, <4>1, <4>2 DEF LrPrepared, LrContext
      <4> QED BY <4>3 DEF Askable, FeatureNum, HasLabel
    <3>3. CASE IsPsi(ctx[r])
      <4>1. IsPsi(ctx'[r])
        BY <1>0, <2>1, <3>3, HandlerData
      <4> QED BY <4>1 DEF Askable
    <3> QED BY <3>1, <3>2, <3>3
  <2> QED BY <2>3, <2>4 DEF AllAskable
<1> QED BY <1>1, <1>2

\* Every party stays askable until it is answered.
LEMMA AskableInductive == IInv /\ AllAskable /\ [Next]_vars => AllAskable'
<1> SUFFICES ASSUME IInv, AllAskable, [Next]_vars PROVE AllAskable'
  OBVIOUS
<1>0. /\ Native \subseteq Rank /\ Foreign \subseteq Rank /\ Native \cap Foreign = {}
      /\ Passive \in Native /\ ctx \in [Native -> Context]
  BY Ranks DEF IInv, TypeOK, Native
<1> USE DEF Throw, Exit, Goto, Exited, Before, Asking
<1>1. ASSUME NEW r \in Native, NativeStep(r) \/ Crash(r) PROVE AllAskable'
  <2>1. CASE CreateIcContext(r)
    BY <1>0, <2>1, AskableKept DEF CreateIcContext
  <2>2. CASE ConnectToMesh(r)
    BY <1>0, <2>2, AskableKept DEF ConnectToMesh
  <2>3. CASE MeshFailure(r)
    BY <1>0, <2>3, AskableKept DEF MeshFailure
  <2>4. CASE SendHandshakeRequest(r)
    BY <1>0, <2>4, AskableKept DEF SendHandshakeRequest
  <2>5. CASE RecvHandshakeResponse(r)
    <3>1. /\ \A q \in Native \ {r} : ctx'[q] = ctx[q]
          /\ \E phase \in {"run", "finish", "exit1"} : pc' = [pc EXCEPT ![r] = phase]
      BY <1>0, <2>5 DEF RecvHandshakeResponse
    <3> QED BY <1>0, <3>1, AskableKept
  <2>6. CASE RecvHandshakeRequest(r)
    <3>1. CASE UNCHANGED <<pc, ctx>>
      BY <3>1 DEF AllAskable, Askable
    <3>2. CASE UNCHANGED ctx /\ pc' = [pc EXCEPT ![r] = "exit1"]
      BY <1>0, <3>2, AskableKept
    <3> QED BY <2>6, <3>1, <3>2 DEF RecvHandshakeRequest
  <2>7. CASE PassiveHandshake(r)
    <3>1. /\ \A q \in Native \ {r} : ctx'[q] = ctx[q]
          /\ \E phase \in {"run", "finish", "exit1"} : pc' = [pc EXCEPT ![r] = phase]
      BY <1>0, <2>7 DEF PassiveHandshake
    <3> QED BY <1>0, <3>1, AskableKept
  <2>8. CASE AlgoDone(r)
    BY <1>0, <2>8, AskableKept DEF AlgoDone
  <2>9. CASE AlgoFails(r)
    BY <1>0, <2>9, AskableKept DEF AlgoFails
  <2>10. CASE WaitLinkTaskFinish(r)
    BY <1>0, <2>10, AskableKept DEF WaitLinkTaskFinish
  <2>11. CASE RecvTimeout(r)
    BY <1>0, <2>11, AskableKept DEF RecvTimeout
  <2>12. CASE Crash(r)
    BY <1>0, <2>12, AskableKept DEF Crash
  <2> QED BY <1>1, <2>1, <2>2, <2>3, <2>4, <2>5, <2>6, <2>7, <2>8, <2>9, <2>10, <2>11,
             <2>12, PrepareAskable DEF NativeStep
<1>2. ASSUME NEW r \in Foreign, ForeignStep(r) PROVE AllAskable'
  <2>1. r \notin Native /\ UNCHANGED ctx /\ \E phase : pc' = [pc EXCEPT ![r] = phase]
    BY <1>0, <1>2 DEF ForeignStep, ConnectToMesh, ForeignRequest, ForeignResponse, AlgoDone,
         WaitLinkTaskFinish, ForeignGivesUp
  <2> QED BY <1>0, <2>1, AskableKept
<1>3. ASSUME UNCHANGED <<pc, ctx>> PROVE AllAskable'
  BY <1>3 DEF AllAskable, Askable
<1> QED BY <1>1, <1>2, <1>3 DEF Next, Done, DeliverResponse, vars

\* Every party is askable when the job starts.
LEMMA InitAskable == ASSUME TruncModeAsOffered PROVE Init => AllAskable
<1> SUFFICES ASSUME Init, NEW r \in Native PROVE Askable(r)
  BY DEF AllAskable
<1>1. ctx \in [Native -> Context] /\ pc[r] = "init"
  BY Ranks, HandshakeAssumption DEF Init
<1>2. ~ IsPsi(ctx[r]) => ctx[r].algo = "SS_LR"
  BY <1>1, ContextKind
<1>3. ~ IsPsi(ctx[r]) => ctx[r].trunc_mode = "PROBABILISTIC"
  BY <1>2 DEF Init, TruncModeAsOffered
<1> QED BY <1>1, <1>3 DEF Askable, Asking

\* An active party takes a response that lies within its proposal.
LEMMA AskedIsAccepted ==
  ASSUME IInv, DataInv, AllAskable, NEW r \in Native \ {Passive},
         pc[r] = "await", response.code = "OK"
  PROVE  Accepts(ctx[r], r, response)
<1> DEFINE c == ctx[r]
           d == ctx[Passive]
<1>0. /\ r \in Active /\ r \in Rank /\ r \in Native /\ Passive \in Native
      /\ c \in Context /\ d \in Context
  BY Ranks DEF IInv, TypeOK
<1>1. response = BuildResponse(d) /\ Offered(BuildRequest(c, r), response)
  BY <1>0 DEF IInv, ResponseIsTrue, RequestsAreTrue
<1>2. /\ response.algo = d.algo
      /\ response.result = {IF IsPsi(d) THEN PsiBuildResponse(d) ELSE LrBuildResponse(d)}
  BY <1>1 DEF BuildResponse
<1> HIDE DEF c, d
<1>3. CASE IsPsi(d)
  <2> DEFINE x == PsiBuildResponse(d)
  <2>1. OfferedPsi(BuildRequest(c, r), x)
    BY <1>1, <1>2, <1>3 DEF Offered, IsPsi
  <2>2. IsPsi(c)
    BY <2>1 DEF OfferedPsi, BuildRequest, LrBuildRequest
  <2>3. PsiAccepts(c, x)
    <3>1. BuildRequest(c, r).ecc = {PsiEccProposal(c)}
      BY <2>2 DEF BuildRequest, PsiBuildRequest
    <3> HIDE DEF x
    <3>2. /\ x.ec_suit \in PsiEccProposal(c).ec_suits
          /\ x.point_octet_format \in PsiEccProposal(c).point_octet_formats
          /\ x.bit_length_after_truncated # -1 =>
               PsiEccProposal(c).support_point_truncation
      BY <2>1, <3>1 DEF OfferedPsi
    <3> QED BY <3>2 DEF PsiEccProposal, PsiAccepts
  <2>4. /\ response.algo = c.algo /\ response.result = {x}
    BY <1>2, <1>3, <2>2 DEF IsPsi
  <2> HIDE DEF x
  <2> QED BY <2>2, <2>3, <2>4 DEF Accepts, c
<1>4. CASE ~ IsPsi(d)
  <2> DEFINE x == LrBuildResponse(d)
  <2>1. d.algo = "SS_LR" /\ OfferedLr(BuildRequest(c, r), x)
    BY <1>0, <1>1, <1>2, <1>4, ContextKind DEF Offered
  <2>2. ~ IsPsi(c) /\ c \in LrContext /\ c.algo = "SS_LR"
    BY <1>0, <2>1, ContextKind DEF OfferedLr, BuildRequest, PsiBuildRequest
  <2>3. /\ c.trunc_mode = "PROBABILISTIC" /\ c.optimizer = "SGD"
        /\ c.feature_nums[r] = FeatureNum(c, r)
    BY <1>0, <2>2 DEF AllAskable, Askable, Asking, c
  <2>4. d.feature_nums[r] = FeatureNum(c, r)
    BY <1>0, <1>4 DEF DataInv, DataSettled, c, d
  <2>5. x.feature_nums = d.feature_nums /\ x.ttp_server_version = TtpServerVersion
    BY DEF LrBuildResponse
  <2>6. /\ BuildRequest(c, r).lr = {[optimizers |-> {c.optimizer},
                                    last_batch_policies |-> {c.last_batch_policy},
                                    use_l0_norm |-> FALSE, use_l1_norm |-> FALSE,
                                    use_l2_norm |-> c.l2_norm # 0]}
        /\ BuildRequest(c, r).sigmoid = {[sigmoid_modes |-> {c.sigmoid_mode}]}
        /\ BuildRequest(c, r).ss = {LrSsProposal(c)}
        /\ \A io \in BuildRequest(c, r).lr_io : io.sample_size = c.sample_size
    BY <2>2 DEF BuildRequest, LrBuildRequest
  <2> HIDE DEF x
  <2>7. /\ x.optimizer = c.optimizer /\ x.l0_norm = 0 /\ x.l1_norm = 0
        /\ x.l2_norm # 0 => c.l2_norm # 0
    <3>1. PICK p \in BuildRequest(c, r).lr :
            /\ x.optimizer \in p.optimizers
            /\ x.l0_norm # 0 => p.use_l0_norm
            /\ x.l1_norm # 0 => p.use_l1_norm
            /\ x.l2_norm # 0 => p.use_l2_norm
      BY <2>1 DEF OfferedLr
    <3>2. /\ p.optimizers = {c.optimizer} /\ ~ p.use_l0_norm /\ ~ p.use_l1_norm
          /\ p.use_l2_norm = (c.l2_norm # 0)
      BY <2>6
    <3> QED BY <3>1, <3>2
  <2>8. x.sigmoid_mode = c.sigmoid_mode /\ x.sample_size = c.sample_size
    <3>1. \E p \in BuildRequest(c, r).sigmoid : x.sigmoid_mode \in p.sigmoid_modes
      BY <2>1 DEF OfferedLr
    <3>2. \E io \in BuildRequest(c, r).lr_io : io.sample_size = x.sample_size
      BY <2>1 DEF OfferedLr
    <3> QED BY <2>6, <3>1, <3>2
  <2>9. /\ x.field_type = c.field_type /\ x.trunc_mode = "PROBABILISTIC"
        /\ x.shard_serialize_format = c.shard_serialize_format
    BY <2>1, <2>6 DEF OfferedLr, LrSsProposal
  <2>10. LrAccepts(c, r, x)
    BY <2>3, <2>4, <2>5, <2>7, <2>8, <2>9 DEF LrAccepts
  <2>11. /\ response.algo = c.algo /\ response.result = {x}
    BY <1>2, <1>4, <2>1, <2>2 DEF x
  <2> QED BY <2>2, <2>10, <2>11 DEF Accepts, c
<1> QED BY <1>3, <1>4 DEF c

(* If every party of SS-LR was started with the truncation mode that the   *)
(* program's request offers whatever the context holds, no active party    *)
(* throws an acceptance away, for every number of parties, every mixture   *)
(* of algorithms, flags, data sets and foreign proposals, and whoever      *)
(* fails (BuildHandshakeRequest, Negotiate*, ProcessHandshakeResponse).    *)
THEOREM AcceptanceIsMutual ==
  ASSUME OwnRanks, TruncModeAsOffered
  PROVE  Spec => AcceptedIsMutual
<1>1. Init => AllAskable
  BY InitAskable
<1>2. IInv /\ AllAskable /\ [Next]_vars => AllAskable'
  BY AskableInductive
<1>3. IInv /\ DataInv /\ AllAskable /\ [Next]_vars => [TakesAcceptance]_vars
  <2> SUFFICES ASSUME IInv, DataInv, AllAskable, [Next]_vars,
                      NEW r \in Native \ {Passive}, pc[r] = "await",
                      r \in arrived, r \notin arrived', pc'[r] = "exit1",
                      response.code = "OK"
               PROVE  FALSE
    BY DEF TakesAcceptance
  <2>0. Native \cap Foreign = {} /\ Native \subseteq Rank /\ pc \in [Rank -> Phase]
    BY Ranks DEF IInv, TypeOK, Native
  <2>1. RecvHandshakeResponse(r)
    <3>1. ASSUME NEW q \in Native, NativeStep(q) PROVE RecvHandshakeResponse(r)
      BY <3>1 DEF NativeStep, CreateIcContext, ConnectToMesh, MeshFailure, PrepareDataset,
           SendHandshakeRequest, RecvHandshakeResponse, RecvHandshakeRequest,
           PassiveHandshake, AlgoDone, AlgoFails, WaitLinkTaskFinish, RecvTimeout
    <3>2. ASSUME NEW q \in Foreign, ForeignStep(q) PROVE FALSE
      BY <2>0, <3>2 DEF ForeignStep, ConnectToMesh, ForeignRequest, ForeignResponse,
           AlgoDone, WaitLinkTaskFinish, ForeignGivesUp
    <3>3. \A q \in Active : ~ DeliverResponse(q)
      BY DEF DeliverResponse
    <3> QED BY <3>1, <3>2, <3>3 DEF Next, Done, Crash, vars
  <2>2. pc'[r] = "run"
    BY <2>0, <2>1, AskedIsAccepted DEF RecvHandshakeResponse, Goto
  <2> QED BY <2>2
<1> QED BY <1>1, <1>2, <1>3, Inductive, DataInductive, PTL DEF Spec, AcceptedIsMutual
-----------------------------------------------------------------------------
(* The rows.                                                               *)

Working == {"collect", "propose", "await"}

\* The data set of c has been prepared: its rows are counted, and it has columns.
Counted(c) ==
  /\ c.sample_size = c.rows
  /\ ~ c.disable_handshake => c.columns > 0

\* Who shakes hands or runs has prepared its data set.
Sized(q) == (pc[q] \in Working \/ Ran(q)) /\ ~ IsPsi(ctx[q]) => Counted(ctx[q])

AllSized == \A q \in Native : Sized(q)

\* The data set stays as counted, and preparing it counts it.
LEMMA HandlerRows ==
  ASSUME NEW c \in Context, NEW r \in Rank, ~ IsPsi(c)
  PROVE  /\ Prepares(c, r) => Counted(Prepared(c, r))
         /\ Counted(c) => \A x : Counted(LrProcessed(c, r, x))
<1>1. c \in LrContext /\ c.columns \in Nat /\ Prepared(c, r) = LrPrepared(c, r)
  BY ContextKind DEF Prepared, LrContext
<1>2. /\ LrPrepared(c, r).sample_size = LrPrepared(c, r).rows
      /\ LrPrepared(c, r).columns = c.columns
      /\ LrPrepared(c, r).disable_handshake = c.disable_handshake
  BY <1>1 DEF LrPrepared, LrContext
<1>3. Prepares(c, r) => (c.disable_handshake \/ c.columns > 0)
  BY <1>1 DEF Prepares, LrPrepares, FeatureNum
<1>4. \A x : /\ LrProcessed(c, r, x).sample_size = c.sample_size
             /\ LrProcessed(c, r, x).rows = c.rows
             /\ LrProcessed(c, r, x).columns = c.columns
             /\ LrProcessed(c, r, x).disable_handshake = c.disable_handshake
  BY <1>1 DEF LrProcessed, LrContext
<1>5. Prepares(c, r) => Counted(Prepared(c, r))
  BY <1>1, <1>2, <1>3 DEF Counted
<1>6. ASSUME NEW x, Counted(c) PROVE Counted(LrProcessed(c, r, x))
  BY <1>4, <1>6 DEF Counted
<1> QED BY <1>5, <1>6

\* A step of one process leaves the others as they are, and itself counted or in
\* the stage and with the context it had.
LEMMA SizedKept ==
  ASSUME IInv, AllSized, NEW r \in Rank, NEW phase,
         pc' = [pc EXCEPT ![r] = phase],
         \A q \in Native \ {r} : ctx'[q] = ctx[q],
         \A q \in Native \ {r} : q \in entered' => q \in entered,
         \/ r \notin Native
         \/ Sized(r)'
         \/ /\ ctx'[r] = ctx[r] /\ (r \in entered' => r \in entered)
            /\ phase \in Working => pc[r] \in Working
  PROVE  AllSized'
<1>0. /\ Native \subseteq Rank
      /\ \A q \in Rank : pc'[q] = IF q = r THEN phase ELSE pc[q]
  BY Ranks DEF IInv, TypeOK
<1> SUFFICES ASSUME NEW q \in Native PROVE Sized(q)'
  BY DEF AllSized
<1>1. CASE q # r
  <2>1. pc'[q] = pc[q] /\ ctx'[q] = ctx[q] /\ (q \in entered' => q \in entered) /\ Sized(q)
    BY <1>0, <1>1 DEF AllSized
  <2> QED BY <2>1 DEF Sized, Ran
<1>2. CASE q = r
  <2>1. Sized(r)
    BY <1>2 DEF AllSized
  <2> QED BY <1>0, <1>2, <2>1 DEF Sized, Ran
<1> QED BY <1>1, <1>2

\* A party that gets its handler has counted its data set.
LEMMA PrepareSized ==
  ASSUME IInv, AllSized, NEW r \in Native, PrepareDataset(r)
  PROVE  AllSized'
<1>0. /\ pc \in [Rank -> Phase] /\ ctx \in [Native -> Context]
      /\ r \in Rank /\ Native \subseteq Rank
  BY Ranks DEF IInv, TypeOK
<1>1. CASE ~ Prepares(ctx[r], r)
  BY <1>0, <1>1, SizedKept DEF PrepareDataset, Throw, Exit, Goto, Working
<1>2. CASE Prepares(ctx[r], r)
  <2>1. /\ \E phase : pc' = [pc EXCEPT ![r] = phase]
        /\ ctx' = [ctx EXCEPT ![r] = Prepared(@, r)]
        /\ entered' \subseteq entered \cup {r}
    BY <1>2 DEF PrepareDataset, Goto
  <2>2. ctx'[r] = Prepared(ctx[r], r) /\ \A q \in Native \ {r} : ctx'[q] = ctx[q]
    BY <1>0, <2>1
  <2>3. Sized(r)'
    BY <1>0, <1>2, <2>2, HandlerRows, HandlerData DEF Sized
  <2> QED BY <1>0, <2>1, <2>2, <2>3, SizedKept
<1> QED BY <1>1, <1>2

\* An active party that accepts runs on the data set it has counted.
LEMMA AcceptSized ==
  ASSUME IInv, AllSized, NEW r \in Native, RecvHandshakeResponse(r)
  PROVE  AllSized'
<1>0. /\ pc \in [Rank -> Phase] /\ ctx \in [Native -> Context] /\ response \in Response
      /\ r \in Rank /\ Native \subseteq Rank /\ pc[r] = "await"
  BY Ranks DEF IInv, TypeOK, RecvHandshakeResponse
<1>1. CASE ~ (response.code = "OK" /\ Accepts(ctx[r], r, response))
  <2>1. UNCHANGED <<ctx, entered>> /\ \E phase \in {"finish", "exit1"} : pc' = [pc EXCEPT ![r] = phase]
    BY <1>1 DEF RecvHandshakeResponse, Throw, Exit, Goto
  <2> QED BY <1>0, <2>1, SizedKept DEF Working
<1>2. CASE response.code = "OK" /\ Accepts(ctx[r], r, response)
  <2>1. /\ pc' = [pc EXCEPT ![r] = "run"]
        /\ ctx' = [ctx EXCEPT ![r] = Processed(@, r, response)]
        /\ entered' = entered \cup {r}
    BY <1>2 DEF RecvHandshakeResponse, Goto
  <2>2. ctx'[r] = Processed(ctx[r], r, response) /\ \A q \in Native \ {r} : ctx'[q] = ctx[q]
    BY <1>0, <2>1
  <2>3. Sized(r)'
    <3> SUFFICES ASSUME ~ IsPsi(ctx'[r]) PROVE Counted(ctx'[r])
      BY DEF Sized
    <3>1. ~ IsPsi(ctx[r])
      BY <1>0, <1>2, <2>2, HandlerData
    <3>2. Counted(ctx[r])
      BY <1>0, <3>1 DEF AllSized, Sized, Working
    <3>3. \E x : ctx'[r] = LrProcessed(ctx[r], r, x)
      BY <2>2, <3>1 DEF Processed
    <3> QED BY <1>0, <3>1, <3>2, <3>3, HandlerRows
  <2> QED BY <1>0, <2>1, <2>2, <2>3, SizedKept
<1> QED BY <1>1, <1>2

\* So does the passive party.
LEMMA SettleSized ==
  ASSUME IInv, AllSized, NEW r \in Native, PassiveHandshake(r)
  PROVE  AllSized'
<1>0. /\ pc \in [Rank -> Phase] /\ ctx \in [Native -> Context]
      /\ requests \in Seq(Request) /\ r = Passive /\ pc[r] = "collect"
      /\ r \in Rank /\ Native \subseteq Rank
  BY Ranks DEF IInv, TypeOK, PassiveHandshake
<1> DEFINE verdict == Verdict(ctx[r], requests)
           c == ctx[r]
           n == Negotiated(c, requests)
<1>1. CASE verdict = "OK"
  <2>1. /\ pc' = [pc EXCEPT ![r] = "run"] /\ ctx' = [ctx EXCEPT ![r] = n]
        /\ entered' = entered \cup {r}
    BY <1>0, <1>1 DEF PassiveHandshake, Goto
  <2>2. ctx'[r] = n /\ \A q \in Native \ {r} : ctx'[q] = ctx[q]
    BY <1>0, <2>1
  <2>3. Sized(r)'
    <3> SUFFICES ASSUME ~ IsPsi(n) PROVE Counted(n)
      BY <2>2 DEF Sized
    <3>1. c \in LrContext /\ ~ IsPsi(c) /\ n = LrNegotiated(c, requests)
      <4>1. CASE IsPsi(c)
        <5>1. Verdict(c, requests) = "OK" => n \in PsiContext
          BY <1>0, <4>1, ContextKind, PsiTypes DEF Negotiated
        <5> QED BY <1>1, <5>1 DEF PsiContext, IsPsi
      <4>2. CASE ~ IsPsi(c)
        BY <1>0, <4>2, ContextKind DEF Negotiated
      <4> QED BY <4>1, <4>2
    <3>2. Counted(c)
      BY <1>0, <3>1 DEF AllSized, Sized, Working
    <3>3. LET m == LrNegotiated(c, requests)
          IN  /\ m.sample_size = c.sample_size /\ m.rows = c.rows /\ m.columns = c.columns
              /\ m.disable_handshake = c.disable_handshake
      BY <3>1 DEF LrNegotiated, LrContext
    <3> HIDE DEF n, c
    <3> QED BY <3>1, <3>2, <3>3 DEF Counted
  <2> QED BY <1>0, <2>1, <2>2, <2>3, SizedKept
<1>2. CASE verdict # "OK"
  <2>1. UNCHANGED <<ctx, entered>> /\ \E phase \in {"finish", "exit1"} : pc' = [pc EXCEPT ![r] = phase]
    BY <1>2 DEF PassiveHandshake, Throw, Exit, Goto
  <2> QED BY <1>0, <2>1, SizedKept DEF Working
<1> QED BY <1>1, <1>2

\* Every data set stays counted.
LEMMA SizedInductive == IInv /\ AllSized /\ [Next]_vars => AllSized'
<1> SUFFICES ASSUME IInv, AllSized, [Next]_vars PROVE AllSized'
  OBVIOUS
<1>0. /\ Native \subseteq Rank /\ Foreign \subseteq Rank /\ Native \cap Foreign = {}
  BY Ranks DEF Native
<1> USE DEF Throw, Exit, Goto, Working
<1>1. ASSUME NEW r \in Native, NativeStep(r) \/ Crash(r) PROVE AllSized'
  <2>1. CASE CreateIcContext(r)
    BY <1>0, <2>1, SizedKept DEF CreateIcContext
  <2>2. CASE ConnectToMesh(r)
    BY <1>0, <2>2, SizedKept DEF ConnectToMesh
  <2>3. CASE MeshFailure(r)
    BY <1>0, <2>3, SizedKept DEF MeshFailure
  <2>4. CASE SendHandshakeRequest(r)
    BY <1>0, <2>4, SizedKept DEF SendHandshakeRequest
  <2>5. CASE RecvHandshakeRequest(r)
    <3>1. CASE UNCHANGED <<pc, ctx, entered>>
      BY <3>1 DEF AllSized, Sized, Ran
    <3>2. CASE UNCHANGED <<ctx, entered>> /\ pc' = [pc EXCEPT ![r] = "exit1"]
      BY <1>0, <3>2, SizedKept
    <3> QED BY <2>5, <3>1, <3>2 DEF RecvHandshakeRequest
  <2>6. CASE AlgoDone(r)
    BY <1>0, <2>6, SizedKept DEF AlgoDone
  <2>7. CASE AlgoFails(r)
    BY <1>0, <2>7, SizedKept DEF AlgoFails
  <2>8. CASE WaitLinkTaskFinish(r)
    BY <1>0, <2>8, SizedKept DEF WaitLinkTaskFinish
  <2>9. CASE RecvTimeout(r)
    BY <1>0, <2>9, SizedKept DEF RecvTimeout
  <2>10. CASE Crash(r)
    BY <1>0, <2>10, SizedKept DEF Crash
  <2> QED BY <1>1, <2>1, <2>2, <2>3, <2>4, <2>5, <2>6, <2>7, <2>8, <2>9, <2>10,
             PrepareSized, AcceptSized, SettleSized DEF NativeStep
<1>2. ASSUME NEW r \in Foreign, ForeignStep(r) PROVE AllSized'
  <2>1. /\ r \notin Native /\ UNCHANGED ctx /\ (\E phase : pc' = [pc EXCEPT ![r] = phase])
        /\ entered' \subseteq entered \cup {r}
    BY <1>0, <1>2 DEF ForeignStep, ConnectToMesh, ForeignRequest, ForeignResponse, AlgoDone,
         WaitLinkTaskFinish, ForeignGivesUp
  <2> QED BY <1>0, <2>1, SizedKept
<1>3. ASSUME UNCHANGED <<pc, ctx, entered>> PROVE AllSized'
  BY <1>3 DEF AllSized, Sized, Ran
<1> QED BY <1>1, <1>2, <1>3 DEF Next, Done, DeliverResponse, vars

\* Nobody has prepared a data set when the job starts.
LEMMA SizedThroughout == Spec => [](IInv /\ AllSized)
<1>1. Init => IInv /\ AllSized
  BY InitKept, Ranks DEF Init, AllSized, Sized, Ran, Working
<1>2. IInv /\ AllSized /\ [Next]_vars => (IInv /\ AllSized)'
  BY NextKeeps, SizedInductive DEF Next, Done
<1> QED BY <1>1, <1>2, PTL DEF Spec

\* Two parties that run, one of them SS-LR after a handshake, both run it on the
\* same terms.
LEMMA RunAlike ==
  ASSUME IInv, NEW p \in Native, NEW q \in Native,
         Ran(p), ~ Skips(p), ~ IsPsi(ctx[p]), Ran(q)
  PROVE  ~ Skips(q) /\ ~ IsPsi(ctx[q]) /\ LrTerms(ctx[p]) = LrTerms(ctx[q])
<1>1. Agreement
  BY IInvAgreement
<1>2. ~ Skips(q) /\ Terms(ctx[p]) = Terms(ctx[q]) /\ Terms(ctx[p]) = LrTerms(ctx[p])
  BY <1>1 DEF Agreement, Terms
<1>3. ctx[p] \in Context /\ ctx[q] \in Context
  BY DEF IInv, TypeOK
<1>4. ~ IsPsi(ctx[q])
  <2> SUFFICES ASSUME IsPsi(ctx[q]) PROVE FALSE
    OBVIOUS
  <2>1. Terms(ctx[q]).algo = "ECDH_PSI" /\ Terms(ctx[p]).algo = "SS_LR"
    BY <1>2, <1>3, ContextKind DEF Terms, PsiTerms, LrTerms
  <2> QED BY <1>2, <2>1
<1> QED BY <1>2, <1>4 DEF Terms

(* The data sets of the parties that run SS-LR after a handshake have      *)
(* equally many rows, the number agreed on, for any number of parties,     *)
(* whatever foreign parties propose and whoever fails.                     *)
THEOREM RowsFitTogether == Spec => []RowsMatch
<1>1. IInv /\ AllSized => RowsMatch
  <2> SUFFICES ASSUME IInv, AllSized, NEW p \in Native, NEW q \in Native,
                      Ran(p), ~ Skips(p), ~ IsPsi(ctx[p]), Ran(q)
               PROVE  ctx[q].rows = ctx[p].sample_size
    BY DEF RowsMatch
  <2>1. ~ IsPsi(ctx[q]) /\ LrTerms(ctx[p]) = LrTerms(ctx[q])
    BY RunAlike
  <2>2. LrTerms(ctx[p]).sample_size = LrTerms(ctx[q]).sample_size
    BY <2>1
  <2>3. ctx[q].sample_size = ctx[q].rows
    BY <2>1 DEF AllSized, Sized, Counted
  <2> QED BY <2>2, <2>3 DEF LrTerms
<1> QED BY <1>1, SizedThroughout, PTL

\* Every rank runs SS-LR, after a handshake.
AllTrain == \A r \in Rank : r \in Native /\ Ran(r) /\ ~ Skips(r) /\ ~ IsPsi(ctx[r])

\* What LrTraining assumes of contexts that come from a handshake (HandshakeAgreed
\* and FilesAssumption there).
ReadyToTrain ==
  \A p, q \in Rank : /\ LrTerms(ctx[p]) = LrTerms(ctx[q])
                     /\ ctx[p].sample_size = ctx[p].rows
                     /\ ctx[p].columns > 0

(* When every party has come out of the handshake into RunAlgo of SS-LR,   *)
(* their contexts are as LrTraining takes them over: what it assumes of    *)
(* jobs that were agreed on is what the handshake makes true.              *)
THEOREM HandshakeHandsOver == Spec => [](AllTrain => ReadyToTrain)
<1>1. IInv /\ AllSized => (AllTrain => ReadyToTrain)
  <2> SUFFICES ASSUME IInv, AllSized, AllTrain, NEW p \in Rank, NEW q \in Rank
               PROVE  /\ LrTerms(ctx[p]) = LrTerms(ctx[q])
                      /\ ctx[p].sample_size = ctx[p].rows
                      /\ ctx[p].columns > 0
    BY DEF ReadyToTrain
  <2>1. LrTerms(ctx[p]) = LrTerms(ctx[q])
    BY RunAlike DEF AllTrain
  <2>2. Counted(ctx[p]) /\ ~ ctx[p].disable_handshake
    BY DEF AllTrain, AllSized, Sized, Skips
  <2> QED BY <2>1, <2>2 DEF Counted
<1> QED BY <1>1, SizedThroughout, PTL
=============================================================================
