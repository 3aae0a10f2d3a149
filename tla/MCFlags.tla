------------------------------- MODULE MCFlags -------------------------------
(* Deployments that differ in who has the label and how wide the data sets *)
(* are, from which the MC modules of the handshake build theirs.           *)
EXTENDS HandshakeImplements, MCValues

\* The same flags at every rank but for the label and the width of the data.
Owned(d, owners) ==
  [r \in DOMAIN d |-> [d[r] EXCEPT
     !.label_rank = IF r \in owners THEN r ELSE -1,
     !.columns = IF @ = 0 THEN 0 ELSE IF r \in owners THEN @ + r + 1 ELSE @ + r]]

Deploy(flags, owners) == {Owned(d, o) : d \in flags, o \in owners}

\* The same job with -disable_handshake: every party's environment names the
\* owner and gives the widths of all data sets, here the true ones.  (Another
\* platform's party has as many columns as the default.)
Direct(c) == [c EXCEPT !.disable_handshake = TRUE]
DirectJob(d, owner) ==
  LET o == Owned(d, {owner})
  IN  [r \in DOMAIN d |-> [Direct(o[r]) EXCEPT !.label_rank = owner,
         !.feature_nums = [q \in Rank |->
           IF q \in DOMAIN d THEN FeatureNum(o[q], q) ELSE LrDefault.columns]]]

NoForeign   == {}
NoProposals == << >>
=============================================================================
