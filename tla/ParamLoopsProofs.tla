--------------------------- MODULE ParamLoopsProofs ---------------------------
(***************************************************************************)
(* The loops of ParamLoops compute what the operators of IcContext say,    *)
(* for any number of requests with lists of any length, order and type.    *)
(***************************************************************************)
EXTENDS ParamLoops, WellFoundedInduction, TLAPS

-----------------------------------------------------------------------------
(* The invariants of the loops.                                            *)

\* The request that a loop over the requests is at.
AtRequest == i \in 1 .. Len(requests) + 1 /\ requests \in Requests

\* All versions that were looked at are the same.
VersionLoop ==
  pc = "version" =>
    /\ AtRequest
    /\ version = IF i = 1 THEN 0 ELSE requests[1].version
    /\ \A k \in 1 .. i - 1 : requests[k].version = requests[1].version

\* What ExtractParam finds in request k.
Found(k) == UNION {ParamAt(requests[k], l) : l \in FirstAt(requests[k])}

\* One parameter was found in each of the requests that were looked at, and in
\* the present one the value that is looked for has not come up yet.
ExtractLoop ==
  pc = "extract" =>
    /\ AtRequest
    /\ Len(params) = i - 1
    /\ \A k \in 1 .. i - 1 : Found(k) = {params[k]}
    /\ i <= Len(requests) =>
         /\ j \in 1 .. Len(requests[i].enums) + 1
         /\ \A l \in 1 .. j - 1 : requests[i].enums[l] # Enumeration

\* The parameters are a sequence; there is none before the second loop.
SomeParam ==
  UNION {{requests[k].params[l].param : l \in DOMAIN requests[k].params} :
           k \in DOMAIN requests}

ParamsTyped ==
  /\ params \in Seq(SomeParam)
  /\ pc = "version" => params = << >>

\* What all parameters looked at so far list, and the one item that they have.
CommonItems(n) ==
  {v \in UNION {params[k].items : k \in 1 .. n} : \A k \in 1 .. n : v \in params[k].items}

IntersectLoop ==
  /\ pc \in {"version", "extract"} => last = {} /\ cur = {}
  /\ pc = "intersect" => /\ i \in 1 .. Len(params) + 1
                         /\ last = CommonItems(i - 1) /\ cur = {}

AlignLoop ==
  /\ pc \in {"version", "extract", "intersect"} => value = {}
  /\ pc = "align" => /\ i \in 1 .. Len(params) + 1
                     /\ \A k \in 1 .. i - 1 : params[k].item = params[1].item
                     /\ value = IF i = 1 THEN {} ELSE {params[1].item}

LoopInv ==
  /\ requests \in Requests
  /\ VersionLoop /\ VersionIsAligned
  /\ ExtractLoop /\ ExtractedFromAll
  /\ ParamsTyped
  /\ IntersectLoop /\ AlignLoop /\ CommonIsFound

-----------------------------------------------------------------------------
\* The lists of requests are sequences, and there is a request.
LEMMA Lists ==
  ASSUME NEW rs \in Requests
  PROVE  /\ Len(rs) \in Nat \ {0} /\ DOMAIN rs = 1 .. Len(rs)
         /\ \A k \in DOMAIN rs :
              /\ rs[k].version \in Nat \ {0}
              /\ Len(rs[k].enums) \in Nat
              /\ DOMAIN rs[k].enums = 1 .. Len(rs[k].enums)
<1>1. rs # << >> /\ rs \in Seq(Range(rs))
  BY LoopsAssumption
<1>2. Len(rs) \in Nat /\ DOMAIN rs = 1 .. Len(rs) /\ Len(rs) # 0
  BY <1>1
<1>3. ASSUME NEW k \in DOMAIN rs
      PROVE  /\ rs[k].version \in Nat \ {0}
             /\ rs[k].enums \in Seq(Range(rs[k].enums))
  BY LoopsAssumption
<1> QED BY <1>2, <1>3

\* The fields of the requests as the operators have them.
LEMMA OfferedFields ==
  /\ DOMAIN Offered = DOMAIN requests
  /\ \A k \in DOMAIN requests : /\ Offered[k].version = requests[k].version
                                /\ Offered[k]["param"] = Found(k)
BY DEF Offered, Found

\* The loop over the versions.
LEMMA VersionStep ==
  ASSUME LoopInv, AlignVersion
  PROVE  /\ VersionLoop' /\ VersionIsAligned' /\ ExtractLoop' /\ ExtractedFromAll'
         /\ (pc' # "version" => pc' = "extract")
<1>1. /\ pc = "version" /\ requests' = requests /\ params' = params
      /\ params = << >> /\ Offered' = Offered
      /\ AtRequest /\ version = (IF i = 1 THEN 0 ELSE requests[1].version)
      /\ \A k \in 1 .. i - 1 : requests[k].version = requests[1].version
  BY DEF AlignVersion, LoopInv, VersionLoop, ParamsTyped, Offered
<1>2. /\ Len(requests) \in Nat \ {0} /\ DOMAIN requests = 1 .. Len(requests)
      /\ \A k \in DOMAIN requests :
           /\ requests[k].version \in Nat \ {0}
           /\ Len(requests[k].enums) \in Nat
      /\ i \in Nat \ {0} /\ i <= Len(requests) + 1
  BY <1>1, Lists DEF AtRequest
<1>3. (ExtractLoop' /\ ExtractedFromAll') \/ pc' = "version"
  <2> SUFFICES ASSUME pc' # "version" PROVE ExtractLoop' /\ ExtractedFromAll'
    OBVIOUS
  <2>1. pc' = "extract" /\ i' = 1 /\ j' = 1
    BY DEF AlignVersion, Goto, Turn
  <2>2. ExtractLoop'
    BY <1>1, <1>2, <2>1 DEF ExtractLoop, AtRequest
  <2>3. ExtractedFromAll'
    BY <2>1 DEF ExtractedFromAll, Past
  <2> QED BY <2>2, <2>3
<1>4. CASE i > Len(requests)
  <2>1. pc' = "extract" /\ version' = version
    BY <1>1, <1>4 DEF AlignVersion, Goto
  <2>2. version = requests[1].version
    BY <1>1, <1>2, <1>4
  <2>3. \A k, l \in DOMAIN Offered : Offered[k].version = Offered[l].version
    BY <1>1, <1>2, <1>4, OfferedFields
  <2>4. version = AlignHandshakeVersion(Offered)
    BY <1>2, <2>2, <2>3, OfferedFields DEF AlignHandshakeVersion
  <2> QED BY <1>1, <1>3, <2>1, <2>4 DEF VersionLoop, VersionIsAligned
<1>5. CASE i <= Len(requests) /\ version # 0 /\ version # requests[i].version
  <2>1. pc' = "extract" /\ version' = 0
    BY <1>1, <1>2, <1>5 DEF AlignVersion, Goto
  <2>2. requests[1].version # requests[i].version /\ {1, i} \subseteq DOMAIN requests
    BY <1>1, <1>2, <1>5
  <2>3. 0 = AlignHandshakeVersion(Offered)
    BY <2>2, OfferedFields DEF AlignHandshakeVersion
  <2> QED BY <1>1, <1>3, <2>1, <2>3 DEF VersionLoop, VersionIsAligned
<1>6. CASE i <= Len(requests) /\ ~ (version # 0 /\ version # requests[i].version)
  <2>1. version' = requests[i].version /\ i' = i + 1 /\ pc' = "version"
    BY <1>1, <1>2, <1>6 DEF AlignVersion, Turn
  <2>2. requests[i].version = requests[1].version
    BY <1>1, <1>2, <1>6
  <2>3. \A k \in 1 .. i : requests[k].version = requests[1].version
    <3>1. \A k \in 1 .. i : k = i \/ k \in 1 .. i - 1
      BY <1>2
    <3> QED BY <1>1, <2>2, <3>1
  <2>4. VersionLoop'
    BY <1>1, <1>2, <1>6, <2>1, <2>2, <2>3 DEF VersionLoop, AtRequest
  <2> QED BY <2>1, <2>4 DEF VersionIsAligned, ExtractLoop, ExtractedFromAll, Past
<1> QED BY <1>2, <1>4, <1>5, <1>6

\* The search for the enumeration value within a request.
LEMMA SearchStep ==
  ASSUME LoopInv, SearchEnum
  PROVE  ExtractLoop'
<1>1. /\ AtRequest /\ Len(params) = i - 1 /\ i <= Len(requests)
      /\ \A k \in 1 .. i - 1 : Found(k) = {params[k]}
      /\ j \in 1 .. Len(requests[i].enums) + 1
      /\ \A l \in 1 .. j - 1 : requests[i].enums[l] # Enumeration
      /\ j \in DOMAIN requests[i].enums /\ requests[i].enums[j] # Enumeration
      /\ j' = j + 1 /\ UNCHANGED <<requests, i, pc, params>>
  BY DEF SearchEnum, Searching, LoopInv, ExtractLoop
<1>2. i \in DOMAIN requests /\ Len(requests[i].enums) \in Nat
      /\ DOMAIN requests[i].enums = 1 .. Len(requests[i].enums)
  BY <1>1, Lists DEF AtRequest
<1>3. j' \in 1 .. Len(requests[i].enums) + 1
  BY <1>1, <1>2
<1>4. \A l \in 1 .. j' - 1 : requests[i].enums[l] # Enumeration
  <2>1. \A l \in 1 .. j' - 1 : l = j \/ l \in 1 .. j - 1
    BY <1>1, <1>2
  <2> QED BY <1>1, <2>1
<1>5. \A k : Found(k)' = Found(k)
  BY <1>1 DEF Found
<1> QED BY <1>1, <1>3, <1>4, <1>5 DEF ExtractLoop, AtRequest

\* Where the search has ended, there is what ExtractParam answers.
LEMMA SearchEnds ==
  ASSUME LoopInv, pc = "extract", i <= Len(requests), ~ Searching
  PROVE  Found(i) = ParamAt(requests[i], j)
<1> DEFINE enums == requests[i].enums
<1>1. /\ i \in DOMAIN requests /\ Len(enums) \in Nat /\ DOMAIN enums = 1 .. Len(enums)
      /\ j \in 1 .. Len(enums) + 1
      /\ \A l \in 1 .. j - 1 : enums[l] # Enumeration
  BY Lists DEF LoopInv, ExtractLoop, AtRequest
<1>2. CASE j \in DOMAIN enums
  <2>1. enums[j] = Enumeration
    BY <1>2 DEF Searching
  <2>2. \A k \in DOMAIN enums : k # j /\ enums[k] = Enumeration => j \in 1 .. k - 1
    BY <1>1
  <2>3. FirstAt(requests[i]) = {j}
    BY <1>1, <1>2, <2>1, <2>2 DEF FirstAt
  <2> QED BY <2>3 DEF Found
<1>3. CASE j \notin DOMAIN enums
  <2>1. \A k \in DOMAIN enums : k \in 1 .. j - 1
    BY <1>1, <1>3
  <2>2. FirstAt(requests[i]) = {}
    BY <1>1, <2>1 DEF FirstAt
  <2>3. ParamAt(requests[i], j) = {}
    BY <1>3 DEF ParamAt
  <2> QED BY <2>2, <2>3 DEF Found
<1> QED BY <1>2, <1>3

\* The extraction from the next request, or its end.
LEMMA ExtractStep ==
  ASSUME LoopInv, ExtractNext
  PROVE  ExtractLoop' /\ ExtractedFromAll' /\ ParamsTyped'
<1>1. /\ pc = "extract" /\ AtRequest /\ Len(params) = i - 1
      /\ \A k \in 1 .. i - 1 : Found(k) = {params[k]}
      /\ requests' = requests /\ Offered' = Offered
      /\ params \in Seq(SomeParam) /\ SomeParam' = SomeParam
  BY DEF ExtractNext, LoopInv, ExtractLoop, ParamsTyped, Offered, SomeParam
<1>2. /\ Len(requests) \in Nat \ {0} /\ DOMAIN requests = 1 .. Len(requests)
      /\ \A k \in DOMAIN requests : Len(requests[k].enums) \in Nat
      /\ i \in Nat \ {0} /\ i <= Len(requests) + 1
  BY <1>1, Lists DEF AtRequest
<1>3. \A k : Found(k)' = Found(k)
  BY <1>1 DEF Found
<1>4. CASE i > Len(requests)
  <2>1. pc' = "intersect" /\ params' = params
    BY <1>4 DEF ExtractNext, Goto
  <2>2. i - 1 = Len(requests) /\ DOMAIN params = DOMAIN requests
    BY <1>1, <1>2, <1>4
  <2>3. \A k \in DOMAIN requests : Offered[k]["param"] = {params[k]}
    BY <1>1, <1>2, <2>2, OfferedFields
  <2>4. ExtractParams(Offered, "param") = {params[k] : k \in DOMAIN params}
    BY <2>2, <2>3, OfferedFields DEF ExtractParams
  <2> QED BY <1>1, <2>1, <2>4 DEF ExtractLoop, ExtractedFromAll, ParamsTyped
<1>5. CASE i <= Len(requests) /\ ParamAt(requests[i], j) = {}
  <2>1. ~ Searching /\ pc' = "intersect" /\ params' = << >>
    BY <1>2, <1>5 DEF ExtractNext, Goto
  <2>2. i \in DOMAIN Offered /\ Offered[i]["param"] = {}
    BY <1>1, <1>2, <1>5, <2>1, SearchEnds, OfferedFields
  <2>3. ExtractParams(Offered, "param") = {}
    BY <2>2 DEF ExtractParams
  <2> QED BY <1>1, <2>1, <2>3 DEF ExtractLoop, ExtractedFromAll, ParamsTyped
<1>6. CASE i <= Len(requests) /\ ParamAt(requests[i], j) # {}
  <2>1. ~ Searching /\ pc' = "extract" /\ i' = i + 1 /\ j' = 1
    BY <1>1, <1>2, <1>6 DEF ExtractNext, Turn
  <2>2. PICK p \in ParamAt(requests[i], j) : params' = Append(params, p)
    BY <1>2, <1>6 DEF ExtractNext
  <2>3. j \in DOMAIN requests[i].params /\ p = requests[i].params[j].param
    BY <2>2 DEF ParamAt
  <2>4. p \in SomeParam
    BY <1>2, <1>6, <2>3 DEF SomeParam
  <2>5. /\ params' \in Seq(SomeParam) /\ Len(params') = i
        /\ params'[i] = p /\ \A k \in 1 .. i - 1 : params'[k] = params[k]
    BY <1>1, <1>2, <2>2, <2>4
  <2>6. Found(i) = {p}
    <3>1. Found(i) = ParamAt(requests[i], j)
      BY <1>1, <1>6, <2>1, SearchEnds
    <3>2. \A q \in ParamAt(requests[i], j) : q = p
      BY <2>3 DEF ParamAt
    <3> QED BY <2>2, <3>1, <3>2
  <2>7. \A k \in 1 .. i : Found(k) = {params'[k]}
    <3>1. \A k \in 1 .. i : k = i \/ k \in 1 .. i - 1
      BY <1>2
    <3> QED BY <1>1, <2>5, <2>6, <3>1
  <2>8. ExtractLoop'
    <3>1. AtRequest'
      BY <1>1, <1>2, <1>6, <2>1 DEF AtRequest
    <3>2. i' - 1 = i /\ (i' <= Len(requests) => i' \in DOMAIN requests)
      BY <1>2, <2>1
    <3>3. i' <= Len(requests) =>
            /\ j' \in 1 .. Len(requests[i'].enums) + 1
            /\ \A l \in 1 .. j' - 1 : requests[i'].enums[l] # Enumeration
      BY <1>2, <2>1, <3>2
    <3> QED BY <1>1, <1>3, <2>5, <2>7, <3>1, <3>2, <3>3 DEF ExtractLoop
  <2> QED BY <1>1, <2>1, <2>5, <2>8 DEF ExtractedFromAll, Past, ParamsTyped
<1> QED BY <1>2, <1>4, <1>5, <1>6

-----------------------------------------------------------------------------
(* The intersection and the alignment.                                     *)

\* Over all parameters, the common items are those of the operator.
LEMMA CommonOfAll ==
  ASSUME NEW S, params \in Seq(S)
  PROVE  CommonItems(Len(params))
           = IntersectParamItems({params[k] : k \in DOMAIN params}, "items")
<1> DEFINE P == {params[k] : k \in DOMAIN params}
<1>1. DOMAIN params = 1 .. Len(params)
  OBVIOUS
<1>2. /\ UNION {p["items"] : p \in P} = UNION {params[k].items : k \in DOMAIN params}
      /\ \A v : (\A p \in P : v \in p["items"])
                  <=> (\A k \in DOMAIN params : v \in params[k].items)
  OBVIOUS
<1> QED BY <1>1, <1>2 DEF CommonItems, IntersectParamItems

\* One more parameter.
LEMMA CommonOfNext ==
  ASSUME NEW n \in Nat
  PROVE  CommonItems(n + 1) = IF n = 0 THEN params[1].items
                              ELSE CommonItems(n) \cap params[n + 1].items
<1>1. \A k : k \in 1 .. n + 1 <=> k = n + 1 \/ k \in 1 .. n
  OBVIOUS
<1>2. CASE n = 0
  <2>1. 1 .. n + 1 = {1}
    BY <1>2
  <2> QED BY <1>2, <2>1 DEF CommonItems
<1>3. CASE n # 0
  <2>1. ASSUME NEW v, v \in CommonItems(n) \cap params[n + 1].items
        PROVE  v \in CommonItems(n + 1)
    BY <1>1, <2>1 DEF CommonItems
  <2>2. ASSUME NEW v, v \in CommonItems(n + 1)
        PROVE  v \in CommonItems(n) \cap params[n + 1].items
    <3>1. 1 \in 1 .. n
      BY <1>3
    <3> QED BY <1>1, <2>2, <3>1 DEF CommonItems
  <2> QED BY <1>3, <2>1, <2>2
<1> QED BY <1>2, <1>3

\* The loop of Intersection.
LEMMA IntersectStep ==
  ASSUME LoopInv, Intersect
  PROVE  IntersectLoop' /\ AlignLoop' /\ CommonIsFound'
<1> DEFINE all == ExtractParams(Offered, "param")
<1>1. /\ pc = "intersect" /\ i \in 1 .. Len(params) + 1 /\ params \in Seq(SomeParam)
      /\ last = CommonItems(i - 1) /\ cur = {} /\ value = {}
      /\ UNCHANGED <<requests, params, value>>
      /\ all = {params[k] : k \in DOMAIN params}
  BY DEF Intersect, LoopInv, ParamsTyped, IntersectLoop, AlignLoop, ExtractedFromAll,
         Past
<1>0. /\ Len(params) \in Nat /\ i \in Nat \ {0} /\ i <= Len(params) + 1
      /\ DOMAIN params = 1 .. Len(params)
  BY <1>1
<1>s. /\ Offered' = Offered /\ SomeParam' = SomeParam
      /\ \A n : CommonItems(n)' = CommonItems(n)
  BY <1>1 DEF Offered, SomeParam, CommonItems
<1>a. all' = all
  BY <1>s DEF ExtractParams
<1> HIDE DEF all
<1>2. CASE i > Len(params)
  <2>1. pc' = "align" /\ i' = 1 /\ last' = last /\ i - 1 = Len(params)
    BY <1>0, <1>1, <1>2 DEF Intersect, Goto
  <2>2. last = IntersectParamItems(all, "items")
    BY <1>1, <2>1, CommonOfAll
  <2>3. CommonIsFound'
    BY <1>1, <1>a, <2>1, <2>2 DEF CommonIsFound, Past, all
  <2>4. AlignLoop'
    BY <1>0, <1>1, <2>1 DEF AlignLoop
  <2> QED BY <2>1, <2>3, <2>4 DEF IntersectLoop
<1>3. CASE i <= Len(params)
  <2>1. /\ pc' = "intersect" /\ i' = i + 1
        /\ last' = IF i = 1 THEN params[1].items ELSE last \cap params[i].items
        /\ cur' = {}
    BY <1>0, <1>1, <1>3 DEF Intersect, Turn
  <2>2. last' = CommonItems(i)
    <3>1. i - 1 \in Nat /\ i - 1 + 1 = i /\ (i - 1 = 0 <=> i = 1)
      BY <1>0
    <3>2. CommonItems(i) = IF i = 1 THEN params[1].items
                           ELSE CommonItems(i - 1) \cap params[i].items
      BY <3>1, CommonOfNext
    <3> QED BY <1>1, <2>1, <3>2
  <2>3. i' \in 1 .. Len(params') + 1 /\ i' - 1 = i
    BY <1>0, <1>1, <1>3, <2>1
  <2>4. IntersectLoop'
    BY <1>s, <2>1, <2>2, <2>3 DEF IntersectLoop
  <2>5. AlignLoop' /\ CommonIsFound'
    BY <1>1, <2>1 DEF AlignLoop, CommonIsFound, Past
  <2> QED BY <2>4, <2>5
<1> QED BY <1>0, <1>2, <1>3

\* The loop of AlignParamItem.
LEMMA AlignStep ==
  ASSUME LoopInv, Align
  PROVE  IntersectLoop' /\ AlignLoop' /\ CommonIsFound'
<1> DEFINE all == ExtractParams(Offered, "param")
<1>1. /\ pc = "align" /\ i \in 1 .. Len(params) + 1 /\ params \in Seq(SomeParam)
      /\ \A k \in 1 .. i - 1 : params[k].item = params[1].item
      /\ value = IF i = 1 THEN {} ELSE {params[1].item}
      /\ UNCHANGED <<requests, params, last, cur>>
      /\ last = IntersectParamItems(all, "items")
      /\ all = {params[k] : k \in DOMAIN params}
  BY DEF Align, LoopInv, ParamsTyped, AlignLoop, ExtractedFromAll, CommonIsFound, Past
<1>0. /\ Len(params) \in Nat /\ i \in Nat \ {0} /\ i <= Len(params) + 1
      /\ DOMAIN params = 1 .. Len(params)
  BY <1>1
<1>a. all' = all
  BY <1>1 DEF Offered, ExtractParams
<1> HIDE DEF all
<1>2. /\ {p["item"] : p \in all} = {params[k].item : k \in DOMAIN params}
      /\ (\A p, q \in all : p["item"] = q["item"])
           <=> (\A k, l \in DOMAIN params : params[k].item = params[l].item)
  BY <1>1
<1>3. CASE i > Len(params)
  <2>1. pc' = "io" /\ value' = value /\ i - 1 = Len(params)
    BY <1>0, <1>1, <1>3 DEF Align, Goto
  <2>2. value = AlignParamItem(all, "item")
    <3>1. \A k, l \in DOMAIN params : params[k].item = params[l].item
      BY <1>0, <1>1, <2>1
    <3>2. AlignParamItem(all, "item") = {params[k].item : k \in DOMAIN params}
      BY <1>2, <3>1 DEF AlignParamItem
    <3>3. CASE Len(params) = 0
      <4>1. i = 1 /\ DOMAIN params = {}
        BY <1>0, <2>1, <3>3
      <4> QED BY <1>1, <3>2, <4>1
    <3>4. CASE Len(params) # 0
      <4>1. 1 \in DOMAIN params /\ i # 1
        BY <1>0, <1>1, <2>1, <3>4
      <4> QED BY <1>1, <3>1, <3>2, <4>1
    <3> QED BY <3>3, <3>4
  <2> QED BY <1>1, <1>a, <2>1, <2>2 DEF IntersectLoop, AlignLoop, CommonIsFound, Past, all
<1>4. CASE i <= Len(params) /\ value \in {{}, {params[i].item}}
  <2>1. pc' = "align" /\ i' = i + 1 /\ value' = {params[i].item}
    BY <1>0, <1>1, <1>4 DEF Align, Turn
  <2>2. params[i].item = params[1].item
    BY <1>0, <1>1, <1>4
  <2>3. \A k \in 1 .. i : params[k].item = params[1].item
    <3>1. \A k \in 1 .. i : k = i \/ k \in 1 .. i - 1
      BY <1>0
    <3> QED BY <1>1, <2>2, <3>1
  <2>4. i' \in 1 .. Len(params') + 1 /\ i' - 1 = i /\ i' # 1
    BY <1>0, <1>1, <1>4, <2>1
  <2>5. AlignLoop'
    BY <1>1, <2>1, <2>2, <2>3, <2>4 DEF AlignLoop
  <2> QED BY <1>1, <1>a, <2>1, <2>5 DEF IntersectLoop, CommonIsFound, Past, all
<1>5. CASE i <= Len(params) /\ value \notin {{}, {params[i].item}}
  <2>1. pc' = "io" /\ value' = {}
    BY <1>0, <1>1, <1>5 DEF Align, Goto
  <2>2. params[1].item # params[i].item /\ {1, i} \subseteq DOMAIN params
    BY <1>0, <1>1, <1>5
  <2>3. AlignParamItem(all, "item") = {}
    BY <1>2, <2>2 DEF AlignParamItem
  <2> QED BY <1>1, <1>a, <2>1, <2>3 DEF IntersectLoop, AlignLoop, CommonIsFound, Past, all
<1> QED BY <1>0, <1>3, <1>4, <1>5

-----------------------------------------------------------------------------
\* The steps that a loop does not take leave its invariant alone.
LEMMA LoopStep == LoopInv /\ [Next]_vars => LoopInv'
<1> SUFFICES ASSUME LoopInv, [Next]_vars PROVE LoopInv'
  OBVIOUS
<1>0. UNCHANGED requests => Offered' = Offered /\ SomeParam' = SomeParam
  BY DEF Offered, SomeParam
<1>1. CASE AlignVersion
  <2>1. /\ pc = "version" /\ pc' \in {"version", "extract"}
        /\ UNCHANGED <<requests, params, last, cur, value>>
    BY <1>1, VersionStep DEF AlignVersion
  <2> QED BY <1>0, <1>1, <2>1, VersionStep
          DEF LoopInv, ParamsTyped, IntersectLoop, AlignLoop, CommonIsFound, Past
<1>2. CASE SearchEnum
  <2>1. /\ pc = "extract" /\ pc' = pc
        /\ UNCHANGED <<requests, params, version, last, cur, value>>
    BY <1>2 DEF SearchEnum
  <2> QED BY <1>0, <1>2, <2>1, SearchStep
          DEF LoopInv, VersionLoop, VersionIsAligned, ExtractedFromAll, ParamsTyped,
              IntersectLoop, AlignLoop, CommonIsFound, Past
<1>3. CASE ExtractNext
  <2>1. /\ pc = "extract" /\ pc' \in {"extract", "intersect"}
        /\ UNCHANGED <<requests, version, last, cur, value>>
    BY <1>3 DEF ExtractNext, Goto, Turn
  <2>2. IntersectLoop'
    <3>1. pc' = "intersect" => i' = 1
      BY <1>3, <2>1 DEF ExtractNext, Goto, Turn
    <3>2. pc' = "intersect" => CommonItems(i - 1)' = {}
      BY <3>1 DEF CommonItems
    <3>3. params' \in Seq(SomeParam')
      BY <1>3, ExtractStep DEF ParamsTyped
    <3>4. 1 \in 1 .. Len(params') + 1
      BY <3>3
    <3> QED BY <2>1, <3>1, <3>2, <3>4 DEF LoopInv, IntersectLoop
  <2> QED BY <1>0, <1>3, <2>1, <2>2, ExtractStep
          DEF LoopInv, VersionLoop, VersionIsAligned, AlignLoop, CommonIsFound, Past
<1>4. CASE Intersect
  <2>1. /\ pc = "intersect" /\ pc' \in {"intersect", "align"}
        /\ UNCHANGED <<requests, params, version>>
    BY <1>4 DEF Intersect, Goto, Turn
  <2> QED BY <1>0, <1>4, <2>1, IntersectStep
          DEF LoopInv, VersionLoop, VersionIsAligned, ExtractLoop, ExtractedFromAll,
              ParamsTyped, Past
<1>5. CASE Align
  <2>1. /\ pc = "align" /\ pc' \in {"align", "io"}
        /\ UNCHANGED <<requests, params, version>>
    BY <1>5 DEF Align, Goto, Turn
  <2> QED BY <1>0, <1>5, <2>1, AlignStep
          DEF LoopInv, VersionLoop, VersionIsAligned, ExtractLoop, ExtractedFromAll,
              ParamsTyped, Past
<1>6. CASE NegotiateIo
  <2>1. /\ pc = "io" /\ pc' \in {"io", "done"}
        /\ UNCHANGED <<requests, params, version, last, cur, value>>
    BY <1>6 DEF NegotiateIo, Return, Goto, Turn
  <2> QED BY <1>0, <2>1
          DEF LoopInv, VersionLoop, VersionIsAligned, ExtractLoop, ExtractedFromAll,
              ParamsTyped, IntersectLoop, AlignLoop, CommonIsFound, Past
<1>8. CASE DieOfIo
  <2>1. /\ pc = "io" /\ pc' = "dead"
        /\ UNCHANGED <<requests, params, version, last, cur, value>>
    BY <1>8 DEF DieOfIo, Goto
  <2> QED BY <1>0, <2>1
          DEF LoopInv, VersionLoop, VersionIsAligned, ExtractLoop, ExtractedFromAll,
              ParamsTyped, IntersectLoop, AlignLoop, CommonIsFound, Past
<1>7. CASE UNCHANGED vars
  <2>1. UNCHANGED <<requests, pc, i, j, version, params, last, cur, value>>
    BY <1>7 DEF vars
  <2>2. VersionLoop' /\ VersionIsAligned'
    BY <1>0, <2>1 DEF LoopInv, VersionLoop, VersionIsAligned, AtRequest, Past
  <2>3. ExtractLoop' /\ ExtractedFromAll' /\ ParamsTyped'
    <3>1. \A k : Found(k)' = Found(k)
      BY <2>1 DEF Found
    <3>2. ExtractLoop'
      BY <2>1, <3>1 DEF LoopInv, ExtractLoop, AtRequest
    <3>3. ExtractedFromAll' /\ ParamsTyped'
      BY <1>0, <2>1 DEF LoopInv, ExtractedFromAll, ParamsTyped, Past
    <3> QED BY <3>2, <3>3
  <2>4. IntersectLoop' /\ AlignLoop' /\ CommonIsFound'
    BY <1>0, <2>1 DEF LoopInv, IntersectLoop, CommonItems, AlignLoop, CommonIsFound, Past
  <2> QED BY <2>1, <2>2, <2>3, <2>4 DEF LoopInv
<1> QED BY <1>1, <1>2, <1>3, <1>4, <1>5, <1>6, <1>7, <1>8 DEF Next, Done

\* The loops start well.
LEMMA InitLoops == Init => LoopInv
<1> SUFFICES ASSUME Init PROVE LoopInv
  OBVIOUS
<1>1. /\ pc = "version" /\ i = 1 /\ version = 0 /\ params = << >>
      /\ requests \in Requests /\ last = {} /\ cur = {} /\ value = {}
  BY DEF Init
<1>2. Len(requests) \in Nat \ {0}
  BY <1>1, Lists
<1>3. VersionLoop
  BY <1>1, <1>2 DEF VersionLoop, AtRequest
<1> QED BY <1>1, <1>3
        DEF LoopInv, VersionIsAligned, ExtractLoop, ExtractedFromAll, ParamsTyped,
            IntersectLoop, AlignLoop, CommonIsFound, Past

\* The loop invariants hold throughout.
LEMMA LoopsKeep == Spec => []LoopInv
<1> QED BY InitLoops, LoopStep, PTL DEF Spec

(* AlignHandshakeVersion answers the version that all requests have, and 0 *)
(* if there is none, for any number of requests.                           *)
THEOREM VersionOfAll == Spec => []VersionIsAligned
<1>1. LoopInv => VersionIsAligned
  BY DEF LoopInv
<1> QED BY LoopsKeep, <1>1, PTL

(* ExtractParams answers the parameter of each request or nothing, however *)
(* long the lists of enumerations and parameters are, in whatever order    *)
(* and of whatever type.                                                   *)
THEOREM ParametersOfAll == Spec => []ExtractedFromAll
<1>1. LoopInv => ExtractedFromAll
  BY DEF LoopInv
<1> QED BY LoopsKeep, <1>1, PTL

(* IntersectParamItems and AlignParamItem answer what is common to all     *)
(* parameters, for any number of them.                                     *)
THEOREM CommonToAll == Spec => []CommonIsFound
<1>1. LoopInv => CommonIsFound
  BY DEF LoopInv
<1> QED BY LoopsKeep, <1>1, PTL

-----------------------------------------------------------------------------
(* The loop over the io parameters.                                        *)

\* The requests before the n-th inclusive that came with rank q.
From(n, q) == {k \in 1 .. n : requests[k].requester_rank = q}

\* The context as the first n requests leave it, none of which is refused.
WidthsSoFar(n) ==
  \A q \in Rank :
    /\ From(n, q) # {} => LatestOf(From(n, q)) \in From(n, q)
    /\ ctx.feature_nums[q] = IF From(n, q) = {} THEN given.feature_nums[q]
                             ELSE LrIo(requests, LatestOf(From(n, q))).feature_num

OwnerSoFar(n) == ctx.label_rank = IoLabelRank(given, requests, n)

NoneRefused(n) == \A k \in 1 .. n : LrIoStatus(given, requests, k) = "OK"

IoLoop ==
  /\ requests \in Requests /\ given \in Contexts
  /\ ctx \in [sample_size : Nat, feature_nums : [Rank -> Int], label_rank : Int]
  /\ pc \notin {"io", "done", "dead"} => ctx = given
  /\ pc # "done" => status = "OK"
  /\ pc = "io" => /\ i \in 1 .. Len(requests) + 1
                  /\ ctx.sample_size = given.sample_size
                  /\ WidthsSoFar(i - 1) /\ OwnerSoFar(i - 1) /\ NoneRefused(i - 1)

\* A set of positions within a list has a last one.
LEMMA LastOne ==
  ASSUME NEW n \in Nat, NEW S, S \subseteq 1 .. n, S # {}
  PROVE  LatestOf(S) \in S
<1> DEFINE T == {n - k : k \in S}
<1>0. \A k \in S : k \in Int /\ n - k \in Nat
  <2>1. \A k \in 1 .. n : k \in Int /\ n - k \in Nat
    OBVIOUS
  <2> QED BY <2>1, Zenon
<1>1. T \subseteq Nat
  BY <1>0, Zenon
<1>2. T # {}
  <2>1. PICK k \in S : TRUE
    OBVIOUS
  <2>2. n - k \in T
    BY <2>1
  <2> QED BY <2>2
<1> HIDE DEF T
<1>3. PICK t \in T : \A u \in T : ~ (<<u, t>> \in OpToRel(<, Nat))
  BY <1>1, <1>2, NatLessThanWellFounded, WFMin, Zenon
<1>4. \A u \in T : ~ (u < t)
  BY <1>1, <1>3 DEF OpToRel
<1>5. PICK k \in S : t = n - k
  BY DEF T
<1>6. \A l \in S : l <= k
  <2>1. \A l \in S : ~ (n - l < n - k)
    BY <1>4, <1>5 DEF T
  <2> QED BY <2>1
<1> QED BY <1>6 DEF LatestOf

\* What is known of the io parameters of a request, and of its rank.
LEMMA IoTyped ==
  ASSUME NEW rs \in Requests, NEW k \in DOMAIN rs
  PROVE  /\ rs[k].requester_rank \in Int
         /\ \A io \in rs[k].lr_io : /\ rs[k].lr_io = {io} /\ LrIo(rs, k) = io
                                    /\ io.feature_num \in Int
BY LoopsAssumption DEF LrIo

\* What the loop has made of label_rank is a number.
LEMMA LabelTyped ==
  ASSUME requests \in Requests, given \in Contexts, NEW n \in 0 .. Len(requests)
  PROVE  IoLabelRank(given, requests, n) \in Int
<1>1. given.label_rank \in Int
  BY LoopsAssumption
<1> DEFINE owners == Labelled(requests, n)
<1>2. owners \subseteq 1 .. n /\ \A k \in 1 .. n : k \in DOMAIN requests
  BY Lists DEF Labelled
<1>3. owners # {} => LatestOf(owners) \in DOMAIN requests
  BY <1>2, Lists, LastOne
<1>4. IoLabelRank(given, requests, n)
        = IF owners = {} THEN given.label_rank ELSE requests[LatestOf(owners)].requester_rank
  BY DEF IoLabelRank
<1> HIDE DEF owners
<1> QED BY <1>1, <1>3, <1>4, IoTyped

\* The loop and the operators look at the same io parameters.
LEMMA OfferedIo ==
  ASSUME requests \in Requests, NEW k \in DOMAIN requests
  PROVE  /\ Offered[k].requester_rank = requests[k].requester_rank
         /\ Offered[k].lr_io = requests[k].lr_io
         /\ LrIo(Offered, k) = LrIo(requests, k)
         /\ LrIoStatus(given, Offered, k) = LrIoStatus(given, requests, k)
         /\ IoLabelRank(given, Offered, k) = IoLabelRank(given, requests, k)
<1>1. \A l \in DOMAIN requests : /\ Offered[l].requester_rank = requests[l].requester_rank
                                 /\ Offered[l].lr_io = requests[l].lr_io
  BY DEF Offered
<1>2. /\ \A l \in 1 .. k : l \in DOMAIN requests
      /\ \A l \in 1 .. k - 1 : l \in DOMAIN requests
  BY Lists
<1>3. \A n \in {k - 1, k} : IoLabelRank(given, Offered, n) = IoLabelRank(given, requests, n)
  <2> SUFFICES ASSUME NEW n \in {k - 1, k}
               PROVE  IoLabelRank(given, Offered, n) = IoLabelRank(given, requests, n)
    OBVIOUS
  <2> DEFINE owners == Labelled(requests, n)
  <2>1. Labelled(Offered, n) = owners
    BY <1>1, <1>2 DEF Labelled
  <2>2. owners \subseteq 1 .. n
    BY DEF Labelled
  <2>3. IoLabelRank(given, Offered, n)
          = IF owners = {} THEN given.label_rank ELSE Offered[LatestOf(owners)].requester_rank
    BY <2>1 DEF IoLabelRank
  <2>4. IoLabelRank(given, requests, n)
          = IF owners = {} THEN given.label_rank ELSE requests[LatestOf(owners)].requester_rank
    BY DEF IoLabelRank
  <2>5. owners # {} => LatestOf(owners) \in owners
    BY <1>2, <2>2, Lists, LastOne
  <2> HIDE DEF owners
  <2> QED BY <1>1, <1>2, <2>2, <2>3, <2>4, <2>5
<1>4. LrIoStatus(given, Offered, k) = LrIoStatus(given, requests, k)
  BY <1>1, <1>3 DEF LrIoStatus
<1> QED BY <1>1, <1>3, <1>4 DEF LrIo

\* The operator answers for the first request that is refused.
LEMMA FirstRefused ==
  ASSUME requests \in Requests, NEW k \in DOMAIN requests, NoneRefused(k - 1),
         LrIoStatus(given, requests, k) # "OK"
  PROVE  NegotiateLrIoParams(given, Offered) = LrIoStatus(given, requests, k)
<1> DEFINE Bad == {l \in DOMAIN Offered : LrIoStatus(given, Offered, l) # "OK"}
<1>1. DOMAIN Offered = DOMAIN requests /\ DOMAIN requests = 1 .. Len(requests)
      /\ Len(requests) \in Nat
  BY Lists DEF Offered
<1>2. \A l \in DOMAIN requests :
        LrIoStatus(given, Offered, l) = LrIoStatus(given, requests, l)
  BY OfferedIo
<1>3. k \in Bad /\ \A l \in Bad : k <= l
  BY <1>1, <1>2 DEF NoneRefused
<1>4. Bad \subseteq Nat
  BY <1>1
<1>5. \A l \in Bad : (\A m \in Bad : l <= m) => l = k
  BY <1>3, <1>4
<1> HIDE DEF Bad
<1>6. (CHOOSE l \in Bad : \A m \in Bad : l <= m) = k
  BY <1>3, <1>5
<1>7. NegotiateLrIoParams(given, Offered)
        = LrIoStatus(given, Offered, CHOOSE l \in Bad : \A m \in Bad : l <= m)
  BY <1>3 DEF NegotiateLrIoParams, Bad
<1> QED BY <1>2, <1>6, <1>7

\* A position beyond all others is the last one.
LEMMA LatestAdded ==
  ASSUME NEW n \in Nat, NEW S, S \subseteq 1 .. n
  PROVE  LatestOf(S \cup {n + 1}) = n + 1
<1>1. \A l \in S \cup {n + 1} : l <= n + 1 /\ (n + 1 <= l => l = n + 1)
  OBVIOUS
<1> QED BY <1>1 DEF LatestOf

\* A request that is in order adds its width and its claim to the label.
LEMMA IoTurn ==
  ASSUME IoLoop, pc = "io", i <= Len(requests), NEW io \in requests[i].lr_io,
         io.sample_size = ctx.sample_size, io.feature_num > 0,
         requests[i].requester_rank < WorldSize,
         io.has_label => ctx.label_rank = -1,
         i' = i + 1, requests' = requests, given' = given,
         ctx'.sample_size = ctx.sample_size,
         ctx'.feature_nums =
           WithWidth(ctx.feature_nums, requests[i].requester_rank, io.feature_num),
         ctx'.label_rank =
           IF io.has_label THEN requests[i].requester_rank ELSE ctx.label_rank
  PROVE  /\ WidthsSoFar(i - 1)' /\ OwnerSoFar(i - 1)' /\ NoneRefused(i - 1)'
<1> DEFINE rank == requests[i].requester_rank
<1>1. /\ requests \in Requests /\ i \in DOMAIN requests /\ i \in Nat \ {0}
      /\ i - 1 \in Nat /\ (i - 1) + 1 = i /\ i' - 1 = i
      /\ 1 .. i' - 1 = 1 .. i - 1 \cup {i} /\ i \notin 1 .. i - 1
  BY Lists DEF IoLoop
<1>2. /\ rank \in Int
      /\ requests[i].lr_io = {io} /\ LrIo(requests, i) = io /\ io.feature_num \in Int
  BY <1>1, IoTyped
<1>4. WidthsSoFar(i - 1)'
  <2> SUFFICES ASSUME NEW q \in Rank
               PROVE  /\ From(i - 1, q)' # {} => LatestOf(From(i - 1, q)') \in From(i - 1, q)'
                      /\ ctx'.feature_nums[q] =
                           IF From(i - 1, q)' = {} THEN given.feature_nums[q]
                           ELSE LrIo(requests, LatestOf(From(i - 1, q)')).feature_num
    BY DEF WidthsSoFar
  <2>1. /\ ctx.feature_nums \in [Rank -> Int]
        /\ From(i - 1, q) # {} => LatestOf(From(i - 1, q)) \in From(i - 1, q)
        /\ ctx.feature_nums[q] = IF From(i - 1, q) = {} THEN given.feature_nums[q]
                                 ELSE LrIo(requests, LatestOf(From(i - 1, q))).feature_num
    BY DEF IoLoop, WidthsSoFar
  <2>2. CASE q = rank
    <3>1. From(i - 1, q)' = From(i - 1, q) \cup {i}
      BY <1>1, <2>2 DEF From
    <3>2. LatestOf(From(i - 1, q) \cup {i}) = i
      <4>1. \A n \in Nat : \A S : S \subseteq 1 .. n => LatestOf(S \cup {n + 1}) = n + 1
        BY LatestAdded
      <4>2. From(i - 1, q) \subseteq 1 .. i - 1
        BY DEF From
      <4> QED BY <1>1, <4>1, <4>2
    <3>3. /\ LatestOf(From(i - 1, q)') = i
          /\ i \in From(i - 1, q)' /\ From(i - 1, q)' # {}
      BY <3>1, <3>2
    <3>4. ctx'.feature_nums[q] = io.feature_num
      BY <1>2, <2>1, <2>2 DEF WithWidth
    <3>5. LrIo(requests, LatestOf(From(i - 1, q)')) = io
      BY <1>2, <3>3
    <3> QED BY <3>3, <3>4, <3>5
  <2>3. CASE q # rank
    <3>1. From(i - 1, q)' = From(i - 1, q)
      BY <1>1, <2>3 DEF From
    <3>2. ctx'.feature_nums[q] = ctx.feature_nums[q]
      BY <2>1, <2>3 DEF WithWidth
    <3> QED BY <2>1, <3>1, <3>2
  <2> QED BY <2>2, <2>3
<1>5. OwnerSoFar(i - 1)'
  <2>1. ctx'.label_rank = IoLabelRank(given, requests, i)
    <3>1. CASE io.has_label
      <4>1. Labelled(requests, i) = Labelled(requests, i - 1) \cup {i}
        BY <1>1, <1>2, <3>1 DEF Labelled
      <4>2. LatestOf(Labelled(requests, i - 1) \cup {i}) = i
        <5>1. \A n \in Nat : \A S : S \subseteq 1 .. n => LatestOf(S \cup {n + 1}) = n + 1
          BY LatestAdded
        <5>2. Labelled(requests, i - 1) \subseteq 1 .. i - 1
          BY DEF Labelled
        <5> QED BY <1>1, <5>1, <5>2
      <4> QED BY <3>1, <4>1, <4>2 DEF IoLabelRank
    <3>2. CASE ~ io.has_label
      <4>1. Labelled(requests, i) = Labelled(requests, i - 1)
        BY <1>1, <1>2, <3>2 DEF Labelled
      <4> QED BY <3>2, <4>1 DEF IoLabelRank, IoLoop, OwnerSoFar
    <3> QED BY <3>1, <3>2
  <2>2. IoLabelRank(given', requests', i' - 1) = IoLabelRank(given, requests, i)
    BY <1>1
  <2> QED BY <2>1, <2>2 DEF OwnerSoFar
<1>6. NoneRefused(i - 1)'
  <2>1. LrIoStatus(given, requests, i) = "OK"
    <3>1. io.has_label => IoLabelRank(given, requests, i - 1) = -1
      BY DEF IoLoop, OwnerSoFar
    <3>2. io.sample_size = given.sample_size
      BY DEF IoLoop
    <3>3. ~ (rank >= WorldSize) /\ ~ (io.feature_num <= 0)
      BY <1>2, WorldSizeAssumption
    <3> QED BY <1>2, <3>1, <3>2, <3>3 DEF LrIoStatus
  <2>2. \A k \in 1 .. i - 1 : LrIoStatus(given, requests, k) = "OK"
    BY DEF IoLoop, NoneRefused
  <2> QED BY <1>1, <2>1, <2>2 DEF NoneRefused, LrIoStatus
<1> QED BY <1>4, <1>5, <1>6

\* The loop keeps its invariant, and what it returns is what the operator says.
LEMMA IoStep ==
  ASSUME IoLoop, IoIsNegotiated, NegotiateIo
  PROVE  IoLoop' /\ IoIsNegotiated'
<1>1. /\ pc = "io" /\ status = "OK"
      /\ requests' = requests /\ given' = given /\ Offered' = Offered
      /\ requests \in Requests /\ given \in Contexts
      /\ ctx \in [sample_size : Nat, feature_nums : [Rank -> Int], label_rank : Int]
      /\ ctx.sample_size = given.sample_size
      /\ i \in 1 .. Len(requests) + 1
      /\ WidthsSoFar(i - 1) /\ OwnerSoFar(i - 1) /\ NoneRefused(i - 1)
  <2>1. pc = "io" /\ requests' = requests /\ given' = given
    BY DEF NegotiateIo
  <2>2. Offered' = Offered
    BY <2>1 DEF Offered
  <2> QED BY <2>1, <2>2 DEF IoLoop
<1>2. Len(requests) \in Nat \ {0} /\ DOMAIN requests = 1 .. Len(requests)
  BY <1>1, Lists
<1>3. CASE i > Len(requests)
  <2>1. /\ i - 1 = Len(requests)
        /\ \A k \in DOMAIN requests : LrIoStatus(given, Offered, k) = "OK"
    BY <1>1, <1>2, <1>3, OfferedIo DEF NoneRefused
  <2>2. /\ ctx' = ctx /\ pc' = "done"
        /\ status' = IF ctx.label_rank = -1 THEN "INVALID_REQUEST" ELSE "OK"
    BY <1>1, <1>3 DEF NegotiateIo, Return, Goto
  <2>3. DOMAIN Offered = DOMAIN requests
    BY DEF Offered
  <2>4. \A k \in DOMAIN requests :
          /\ Offered[k].requester_rank = requests[k].requester_rank
          /\ Offered[k].lr_io = requests[k].lr_io
          /\ LrIo(Offered, k) = LrIo(requests, k)
    BY <1>1, OfferedIo
  <2>5. ctx.label_rank = IoLabelRank(given, Offered, Len(Offered))
    <3>1. Len(requests) \in DOMAIN requests /\ Len(Offered) = Len(requests)
      BY <1>2 DEF Offered
    <3> QED BY <1>1, <2>1, <3>1, OfferedIo DEF OwnerSoFar
  <2>8. status' = NegotiateLrIoParams(given, Offered)
    BY <2>1, <2>2, <2>3, <2>5 DEF NegotiateLrIoParams
  <2>9. ctx.feature_nums = IoFeatureNums(given, Offered)
    <3>1. ASSUME NEW q \in Rank
          PROVE  /\ From(i - 1, q) = {k \in DOMAIN Offered : Offered[k].requester_rank = q}
                 /\ From(i - 1, q) # {} => LatestOf(From(i - 1, q)) \in DOMAIN requests
      <4>1. From(i - 1, q) = {k \in DOMAIN Offered : Offered[k].requester_rank = q}
        BY <1>2, <2>1, <2>3, <2>4 DEF From
      <4>2. From(i - 1, q) # {} => LatestOf(From(i - 1, q)) \in 1 .. Len(requests)
        BY <1>1, <2>1 DEF WidthsSoFar, From
      <4> QED BY <1>2, <4>1, <4>2
    <3>2. \A q \in Rank : ctx.feature_nums[q] = IoFeatureNums(given, Offered)[q]
      BY <1>1, <2>4, <3>1 DEF WidthsSoFar, IoFeatureNums
    <3> QED BY <1>1, <3>2 DEF IoFeatureNums
  <2>11. IoIsNegotiated'
    BY <1>1, <2>2, <2>5, <2>8, <2>9 DEF IoIsNegotiated
  <2> QED BY <1>1, <2>2, <2>11 DEF IoLoop
<1>4. CASE i <= Len(requests) /\ requests[i].lr_io = {}
  <2>1. ctx' = ctx /\ pc' = "done" /\ status' = "INVALID_REQUEST"
    BY <1>1, <1>2, <1>4 DEF NegotiateIo, Return, Goto
  <2>2. LrIoStatus(given, requests, i) = "INVALID_REQUEST"
    BY <1>4 DEF LrIoStatus
  <2>3. i \in DOMAIN requests
    BY <1>1, <1>2, <1>4
  <2>4. NegotiateLrIoParams(given, Offered) = "INVALID_REQUEST"
    BY <1>1, <2>2, <2>3, FirstRefused
  <2> QED BY <1>1, <2>1, <2>4 DEF IoLoop, IoIsNegotiated
<1>5. CASE i <= Len(requests) /\ requests[i].lr_io # {}
  <2>1. i \in DOMAIN requests /\ requests[i].requester_rank \in Int
    BY <1>1, <1>2, <1>5, IoTyped
  <2>2. PICK io \in requests[i].lr_io : /\ requests[i].lr_io = {io} /\ io.feature_num \in Int
    BY <1>1, <1>5, <2>1, IoTyped
  <2> DEFINE rank == requests[i].requester_rank
             wide == [ctx EXCEPT !.feature_nums = WithWidth(@, rank, io.feature_num)]
  <2>3. IF io.sample_size # ctx.sample_size THEN Return("HANDSHAKE_REFUSED") /\ UNCHANGED ctx
        ELSE IF io.feature_num <= 0 THEN Return("INVALID_REQUEST") /\ UNCHANGED ctx
        ELSE IF rank >= WorldSize THEN Return("THROW") /\ UNCHANGED ctx
        ELSE IF ~ io.has_label THEN ctx' = wide /\ Turn /\ UNCHANGED status
        ELSE IF ctx.label_rank # -1 THEN ctx' = wide /\ Return("HANDSHAKE_REFUSED")
        ELSE ctx' = [wide EXCEPT !.label_rank = rank] /\ Turn /\ UNCHANGED status
    BY <1>1, <1>2, <1>5, <2>2 DEF NegotiateIo
  <2>5. /\ wide \in [sample_size : Nat, feature_nums : [Rank -> Int], label_rank : Int]
        /\ wide.sample_size = ctx.sample_size /\ wide.label_rank = ctx.label_rank
        /\ wide.feature_nums = WithWidth(ctx.feature_nums, rank, io.feature_num)
    <3>1. WithWidth(ctx.feature_nums, rank, io.feature_num) \in [Rank -> Int]
      BY <1>1, <2>2 DEF WithWidth
    <3> QED BY <1>1, <3>1
  <2>6. WorldSize \in Nat /\ (rank < WorldSize <=> ~ (rank >= WorldSize))
    BY <2>1, WorldSizeAssumption
  <2>7. ctx.label_rank = IoLabelRank(given, requests, i - 1)
    BY <1>1 DEF OwnerSoFar
  <2> HIDE DEF wide
  <2>9. CASE status' # "OK"
    <3>1. /\ pc' = "done" /\ LrIoStatus(given, requests, i) = status'
          /\ ctx' \in [sample_size : Nat, feature_nums : [Rank -> Int], label_rank : Int]
      BY <1>1, <2>2, <2>3, <2>5, <2>6, <2>7, <2>9
         DEF LrIoStatus, Return, Goto, Turn
    <3>2. NegotiateLrIoParams(given, Offered) = status'
      BY <1>1, <2>1, <2>9, <3>1, FirstRefused
    <3> QED BY <1>1, <2>9, <3>1, <3>2 DEF IoLoop, IoIsNegotiated
  <2>10. CASE status' = "OK"
    <3>1. /\ io.sample_size = ctx.sample_size /\ io.feature_num > 0 /\ rank < WorldSize
          /\ io.has_label => ctx.label_rank = -1
          /\ i' = i + 1 /\ pc' = pc
          /\ ctx' = IF io.has_label THEN [wide EXCEPT !.label_rank = rank] ELSE wide
      BY <1>1, <2>2, <2>3, <2>6, <2>10 DEF Return, Turn
    <3>2. /\ ctx' \in [sample_size : Nat, feature_nums : [Rank -> Int], label_rank : Int]
          /\ ctx'.sample_size = ctx.sample_size
          /\ ctx'.feature_nums = WithWidth(ctx.feature_nums, rank, io.feature_num)
          /\ ctx'.label_rank = IF io.has_label THEN rank ELSE ctx.label_rank
      BY <2>1, <2>5, <3>1
    <3>3. WidthsSoFar(i - 1)' /\ OwnerSoFar(i - 1)' /\ NoneRefused(i - 1)'
      BY <1>1, <1>5, <2>2, <3>1, <3>2, IoTurn
    <3>4. i' \in 1 .. Len(requests) + 1
      BY <1>1, <1>2, <1>5, <3>1
    <3> QED BY <1>1, <2>10, <3>1, <3>2, <3>3, <3>4 DEF IoLoop, IoIsNegotiated
  <2> QED BY <2>9, <2>10
<1> QED BY <1>2, <1>1, <1>3, <1>4, <1>5

\* The loops before it leave the context alone.
LEMMA IoKept == LoopInv /\ IoLoop /\ IoIsNegotiated /\ [Next]_vars => IoLoop' /\ IoIsNegotiated'
<1> SUFFICES ASSUME LoopInv, IoLoop, IoIsNegotiated, [Next]_vars
             PROVE  IoLoop' /\ IoIsNegotiated'
  OBVIOUS
<1>1. CASE NegotiateIo
  BY <1>1, IoStep
<1>2. CASE AlignVersion \/ SearchEnum \/ ExtractNext \/ Intersect \/ Align
  <2>1. /\ pc \notin {"io", "done", "dead"} /\ pc' \notin {"done", "dead"}
        /\ pc' = "io" => i' = 1
        /\ UNCHANGED <<requests, given, ctx, status>>
    BY <1>2 DEF AlignVersion, SearchEnum, Searching, ExtractNext, Intersect, Align, Goto, Turn
  <2>2. requests \in Requests /\ ctx = given /\ status = "OK" /\ Len(requests) \in Nat
    BY <2>1, Lists DEF IoLoop
  <2>3. pc' = "io" => WidthsSoFar(i - 1)' /\ OwnerSoFar(i - 1)' /\ NoneRefused(i - 1)'
    <3> SUFFICES ASSUME pc' = "io"
                 PROVE  WidthsSoFar(i - 1)' /\ OwnerSoFar(i - 1)' /\ NoneRefused(i - 1)'
      OBVIOUS
    <3>1. 1 .. i' - 1 = {}
      BY <2>1
    <3>2. \A q : From(i - 1, q)' = {}
      BY <3>1 DEF From
    <3>3. Labelled(requests', i' - 1) = {}
      BY <3>1 DEF Labelled
    <3> QED BY <2>1, <2>2, <3>1, <3>2, <3>3
            DEF WidthsSoFar, OwnerSoFar, NoneRefused, IoLabelRank
  <2> QED BY <2>1, <2>2, <2>3 DEF IoLoop, IoIsNegotiated
<1>3. CASE UNCHANGED vars
  <2>1. Offered' = Offered
    BY <1>3 DEF vars, Offered
  <2>2. /\ WidthsSoFar(i - 1) => WidthsSoFar(i - 1)'
        /\ OwnerSoFar(i - 1) => OwnerSoFar(i - 1)'
        /\ NoneRefused(i - 1) => NoneRefused(i - 1)'
    <3>1. \A q : From(i - 1, q)' = From(i - 1, q)
      BY <1>3 DEF vars, From
    <3> QED BY <1>3, <3>1 DEF vars, WidthsSoFar, OwnerSoFar, NoneRefused
  <2> QED BY <1>3, <2>1, <2>2 DEF vars, IoLoop, IoIsNegotiated
<1>4. CASE DieOfIo
  BY <1>4 DEF DieOfIo, Goto, IoLoop, IoIsNegotiated
<1> QED BY <1>1, <1>2, <1>3, <1>4 DEF Next, Done

(* NegotiateLrIoParams, if the process does not die of it, answers for any *)
(* number of requests and whatever ranks and claims they hold, negative    *)
(* ranks included, with the status of the first request that is not in     *)
(* order, and otherwise leaves the last width of each rank and the         *)
(* requester_rank of who claimed the label last.                           *)
THEOREM IoOfAll == Spec => []IoIsNegotiated
<1>1. Init => IoLoop /\ IoIsNegotiated
  BY LoopsAssumption DEF Init, IoLoop, IoIsNegotiated
<1> QED BY <1>1, IoKept, LoopsKeep, PTL DEF Spec
=============================================================================
