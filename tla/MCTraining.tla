------------------------------ MODULE MCTraining ------------------------------
(* LrTraining over the contexts that the handshake's operators make of the *)
(* example flags, and over contexts that nobody has compared.              *)
EXTENDS LrTraining, MCValues

\* The contexts that a successful handshake leaves the parties with.
Prepared(d) == [r \in Rank |-> LrPrepared(d[r], r)]
RequestsOf(d) == [i \in Active |-> LrBuildRequest(d[i], i)]
AfterHandshake(d) ==
  LET p      == Prepared(d)
      passive == LrNegotiated(p[Passive], RequestsOf(p))
  IN  [r \in Rank |-> IF r = Passive THEN passive
                      ELSE LrProcessed(p[r], r, LrBuildResponse(passive))]

Agreed(d) ==
  LET p       == Prepared(d)
      passive == LrNegotiated(p[Passive], RequestsOf(p))
  IN  /\ LrNegotiate(p[Passive], RequestsOf(p)) = "OK"
      /\ \A r \in Active : LrAccepts(p[r], r, LrBuildResponse(passive))

Negotiated(flags) == {AfterHandshake(d) : d \in {e \in flags : Agreed(e)}}

\* Data sets of different widths, the last column of owner's one being the label.
Owned(d, owner) ==
  [r \in Rank |-> [d[r] EXCEPT !.label_rank = IF r = owner THEN r ELSE -1,
                               !.columns = IF r = owner THEN r + 2 ELSE r + 1]]

\* Every schedule at the passive party, any other one at the active party.
Schedule == {[LrDefault EXCEPT !.num_epoch = e, !.batch_size = b, !.l2_norm = l] :
               e \in -1 .. 2, b \in {-3, 1, 2, 3, 4, 5}, l \in {0, 5}}

\* Parties that agree on another policy for the partial last batch; with batches
\* of three rows there is one.
PolicyContexts ==
  Negotiated({Owned([r \in Rank |-> [LrDefault EXCEPT !.last_batch_policy = "KEEP",
                                       !.batch_size = b, !.num_epoch = e]], o) :
                b \in {2, 3}, e \in 1 .. 2, o \in Rank})

PairContexts ==
  PolicyContexts \cup
  Negotiated({Owned([r \in Rank |-> IF r = Passive THEN s ELSE t], o) :
                s \in Schedule,
                t \in {LrDefault, [LrDefault EXCEPT !.batch_size = 3, !.num_epoch = 2],
                       [LrDefault EXCEPT !.use_ttp = TRUE]},
                o \in Rank})

TrioContexts ==
  Negotiated({Owned([r \in Rank |-> s], o) : s \in
    {[LrDefault EXCEPT !.num_epoch = 2],
     [LrDefault EXCEPT !.protocol = "ABY3"],
     [LrDefault EXCEPT !.batch_size = 0, !.l2_norm = 0]}, o \in {0, 2}})

\* -disable_handshake: the environment says who has the label and how wide
\* the data sets are, and each party believes its own.
Direct(d, owner, widths) ==
  [r \in Rank |-> [d[r] EXCEPT !.disable_handshake = TRUE, !.label_rank = owner, !.feature_nums = widths[r],
                               !.columns = IF r = owner THEN r + 2 ELSE r + 1]]

TrueWidths  == [q \in Rank |-> q + 1]
OwnOnly(r)  == [q \in Rank |-> IF q = r THEN q + 1 ELSE 4]

DirectContexts ==
  {Direct(d, o, w) :
     d \in {[r \in Rank |-> LrDefault],
            [r \in Rank |-> IF r = 1 THEN [LrDefault EXCEPT !.batch_size = 3] ELSE LrDefault],
            [r \in Rank |-> IF r = 2 THEN [LrDefault EXCEPT !.rows = 6] ELSE LrDefault],
            [r \in Rank |-> IF r = 0 THEN [LrDefault EXCEPT !.batch_size = 0] ELSE LrDefault],
            [r \in Rank |-> IF r = 1 THEN [LrDefault EXCEPT !.protocol = "CHEETAH"]
                            ELSE LrDefault]},
     o \in {0, 1},
     w \in {[r \in Rank |-> TrueWidths], [r \in Rank |-> OwnOnly(r)],
            [r \in Rank |-> OwnOnly(1)]}}

TrioJobs == TrioContexts \cup DirectContexts

\* The operators of the handshake leave the parties with the same terms.
ASSUME NegotiatedAlike == HandshakeAgreed
==============================================================================
