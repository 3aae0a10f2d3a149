------------------------------- MODULE MCLoops -------------------------------
(* Up to three requests whose lists may be of different lengths, hold the  *)
(* value looked for at any place, twice or not at all, and parameters of   *)
(* another type; and io parameters of every kind, from ranks that are      *)
(* counted from 1, all alike, too large or negative.                       *)
EXTENDS ParamLoops

\* A parameter that lists several values and has one.
Param(items, item) == [items |-> items, item |-> item]

\* The lists of a request: the sought enumeration is "SS".
Lists ==
  {[enums |-> <<"SS">>, params |-> <<[type |-> "ss", param |-> Param({1, 2}, 1)]>>],
   [enums |-> <<"ECC", "SS">>, params |-> <<[type |-> "ecc", param |-> Param({3}, 1)],
                                            [type |-> "ss", param |-> Param({2, 3}, 1)]>>],
   [enums |-> <<"SS", "SS">>, params |-> <<[type |-> "ss", param |-> Param({1, 3}, 2)],
                                           [type |-> "ss", param |-> Param({2}, 1)]>>],
   [enums |-> <<"ECC", "SS">>, params |-> <<[type |-> "ss", param |-> Param({1}, 1)]>>],
   [enums |-> <<"SS">>, params |-> <<[type |-> "ecc", param |-> Param({1}, 1)]>>],
   [enums |-> << >>, params |-> <<[type |-> "ss", param |-> Param({1}, 1)]>>]}

Io(size, width, label) == [sample_size |-> size, feature_num |-> width, has_label |-> label]

Request(lists, v, rank, io) ==
  [enums |-> lists.enums, params |-> lists.params, version |-> v,
   requester_rank |-> rank, lr_io |-> io]

Plain == CHOOSE l \in Lists : l.enums = <<"SS">>

\* All lists with one io parameter, and all io parameters with one list.
ListRequests(n) == [1 .. n -> {Request(l, v, 1, {Io(4, 2, FALSE)}) : l \in Lists, v \in {2, 3}}]
IoRequests(n) ==
  {[k \in 1 .. n |-> Request(Plain, 2, rank[k], io[k])] :
     rank \in {[k \in 1 .. n |-> k], [k \in 1 .. n |-> 1], [k \in 1 .. n |-> k + 1],
               [k \in 1 .. n |-> k - 2], [k \in 1 .. n |-> 2 - k], [k \in 1 .. n |-> -1],
               [k \in 1 .. n |-> k - 3]},
     io \in [1 .. n -> {{}, {Io(5, 2, FALSE)}, {Io(4, 0, TRUE)}, {Io(4, 1, FALSE)},
                        {Io(4, 2, TRUE)}}]}

SomeRequests == UNION {ListRequests(n) \cup IoRequests(n) : n \in 1 .. 3}

SomeContexts ==
  {[sample_size |-> 4, feature_nums |-> [q \in Rank |-> IF q = 0 THEN 3 ELSE 0],
    label_rank |-> l] : l \in {-1, 0}}
=============================================================================
