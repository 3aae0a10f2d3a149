# A TLA+ development of interconnection-impl

`ic_impl` is a reference implementation of the interconnection protocol between
privacy-computing platforms: every party starts the program `ic_main` with its
own flags and environment, the parties connect to each other, agree on the
parameters of one job in a handshake, and run that job together (ECDH private set
intersection, or logistic regression over secret shares).  This directory holds
TLA+ modules of that program, TLC configurations that check them on small
instances, and proofs of the safety properties for any number of parties.

Paths are relative to `src/`; `ic_impl/` is left out where it is clear.

## 1. The system

### 1.1 Inventory

| component | code | state | operations | what makes it correct |
|---|---|---|---|---|
| main, Party, context, link set-up | `ic_main.cc`, `party.cc`, `context.cc`, `util.cc`, and the `Create*Context` functions | the process and its exit code; `IcContext` (version, protocol families, link); the link's mesh | `CreateIcContext`, `MakeLink` / `ConnectToMesh`, `Party::Run`, `WaitLinkTaskFinish`, the `catch` of `main` | every process ends; a queued response is flushed before `main` returns; nobody talks before the mesh is complete; a mesh has one process per rank and one kind of link; the environment goes before the flags |
| handshake skeleton | `handler.cc`, `handler.h` | the requests collected at rank 0, the response, the handler's context | `PassiveRun`, `ActiveRun`, `RecvHandshakeRequests`, `ProcessHandshakeRequests`, `SendHandshakeResponse`, `ActiveHandshake`, `ProcessHandshakeResponse` | parties that run hold the same terms; nobody runs before everybody has proposed; acceptance is mutual; a refusal reaches everyone |
| negotiation helpers | `util.h` | none (loops over the requests) | `ExtractParams`, `IntersectParamItems`, `AlignParamItem`, `IsFlagSupported` | a value is chosen only if all requesters offer it; one missing parameter ends the negotiation |
| ECDH-PSI handler | `algo/psi/v2/*`, `protocol_family/ecc/ecc.cc` | `EcdhPsiContext`: suite, octet format, truncation, receiver | `PrepareDataset` (`CreateBucketPsi`), `BuildHandshakeRequest`, `Negotiate*`, `BuildHandshakeResponse`, `ProcessHandshakeResponse`, `RunAlgo` | one suite, one format, one truncation and one receiver at all parties |
| SS-LR handler, negotiation | `algo/lr/lr_handler.cc` 197-702, `lr_context.*`, `optimizer.cc`, `op/sigmoid/*`, `protocol_family/ss/*` | `LrContext`: epochs, batches, norms, optimizer, sample size, `feature_nums`, `label_rank`, sigmoid, protocol, field, `fxp_bits`, truncation, ttp | as above, with `NegotiateLrAlgoParams`, `NegotiateOpParams`, `NegotiateSsParams`, `NegotiateLrIoParams` | one owner of the label; the true width of every data set at every party; equal terms |
| SS-LR handler, training | `algo/lr/lr_handler.cc` 704-941 | weights, the shared data set, batch and epoch counters | `RunAlgo`, `ProcessDataset`, `Concatenate`, `Train`, `TrainStep` | the parties make the same sequence of collective calls on the same shapes |
| handler factories | `factory*.cc`, `factory.h` | none | create a handler for the algorithm and version | the handler fits the context |
| router demos | `router/demo/*` | rounds, message packs, timeouts of a router between platforms | Python and configuration files that exchange shares and ciphertexts in rounds | shares of different rounds never meet; every round gets its aggregate |
| scripts, data, build files | `router/`, `docker/`, `bazel/`, `BUILD.bazel` | none | none | no behaviour of their own |
| libraries | yacl link, SPU, PSI (not in the repository) | the link's queues | `Send`, `SendAsync`, `Recv`, `ConnectToMesh`, `WaitLinkTaskFinish`; `RunPsi`; SPU operators | assumed, as the code uses them |

### 1.2 How the components interact

Each process runs `main`: flags and environment give the context, `MakeLink`
brings up the link and blocks in `ConnectToMesh` until every peer answers,
`Party::Run` picks the handler and calls `PassiveRun` at rank 0 and `ActiveRun`
elsewhere.  Both first prepare the data set.  With `-disable_handshake` they go
straight into `RunAlgo`, on what flags and environment say.  Otherwise an active
party sends its request (blocking `Send`) and blocks in `Recv`; the passive party
receives the requests **in rank order**, parses each, compares the versions, lets the handler
negotiate over all of them, and queues one response for everybody with
`SendAsync`.  An `OK` response sends all of them into `RunAlgo`, which is a
sequence of collective calls; a refusal ends them with exit code 0.  Any
exception ends in `main` with exit code -1, without `WaitLinkTaskFinish`.

### 1.3 What is hard to test

* The decision is made at one party and interpreted again at the others: the
  active party compares some of the response's fields with its own context,
  overwrites some and never reads the rest.  Whether two parties end up with the
  same parameters depends on the pair *passive check, active check* of each field.
* With more than one requester the helpers fold over the requests; a mistake
  shows only for the third party.
* A party may refuse, throw, time out or be killed at any point of the handshake
  while the others are blocked in `Recv`, `Send` or `ConnectToMesh`.
* The response is asynchronous: it races with the passive party's exit and with
  the timeouts of the active parties.
* Another platform may propose several values, leave parameters out, number itself
  wrongly or speak another version.
* Without the handshake nothing compares what the parties were started with, and a
  process takes a parameter from one of two places, and its link from one of two
  descriptions, without telling the others which.
* The demo of the router counts its rounds in three programs, none of which looks at
  the round a message is labelled with.

`PROJECT.json` lists the hazards line by line, with the property that covers each.

## 2. Modules

| module | models | rests on |
|---|---|---|
| `IcContext` | `context.cc`, `party.cc` (what has to hold before a handler exists), the helpers of `util.h`, `AlignHandshakeVersion` | |
| `EcdhPsi` | the ECDH-PSI handler's part of the handshake as operators | `IcContext` |
| `SsLr` | the SS-LR handler's part of the handshake as operators | `IcContext` |
| `Handshake` | the processes of one job: `main`, `Party`, `AlgoV2Handler`, the link, failures, `-disable_handshake` | `EcdhPsi`, `SsLr` |
| `JobAgreement` | what the handshake promises, abstractly: one decider, terms fixed once | |
| `HandshakeImplements` | the refinement mapping from `Handshake` to `JobAgreement` | `Handshake` |
| `LrTraining` | `RunAlgo` of SS-LR: the collective calls each party makes, with and without a handshake; a second refinement of `JobAgreement` | `SsLr`, `JobAgreement` |
| `ParamLoops` | the loops by which the passive party reads the proposals, step by step; shown to compute the operators of `IcContext` and `SsLr` | `SsLr` |
| `Config` | flags and environment: `GetParamEnv`, `GetFlagValue`, the `Create*` and `Suggested*` functions, the two descriptions of a link | `EcdhPsi`, `SsLr` |
| `Startup` | the processes from `main` to a handler: `MakeLink` with its fallback, `ConnectToMesh`, failures | `Config` |
| `ConfiguredJob` | the composition: `Handshake` over the contexts that `Config` makes of each party's settings | `Handshake`, `Config` |
| `RouterLr` | the rounds of the router's horizontal LR demo | |
| `HandshakeProofs` | lemmas about the negotiation operators; theorems about the handshake | `Handshake` |
| `HandshakeDataProofs` | theorems about what the handshake settles of the data | `HandshakeProofs` |
| `HandshakeImplementsProofs` | the refinement and the refusals | `HandshakeProofs`, `HandshakeImplements` |
| `ConfiguredJobProofs` | theorems about jobs started from flags and environments | `HandshakeProofs`, `ConfiguredJob` |
| `LrTrainingProofs`, `StartupProofs`, `ParamLoopsProofs`, `RouterLrProofs` | theorems about these modules | `LrTraining`, `Startup`, `ParamLoops`, `RouterLr` |
| `MCValues`, `MCFlags`, `MCPsi`, `MCLr`, `MCJobs`, `MCMixed`, `MCForeign` | deployments (flags and data sets of the parties) for TLC | `HandshakeImplements` |
| `MCTraining` | the contexts a handshake over such deployments leaves, and contexts of the environment | `LrTraining`, `MCValues` |
| `MCLibrary`, `MCStartup`, `MCConfigured` | library functions on the texts of the examples; settings of the processes | `Startup`, `ConfiguredJob` |
| `MCLoops` | requests with lists of several lengths, orders and types | `ParamLoops` |

### 2.1 `Handshake`: state

| variable | code |
|---|---|
| `pc[r]` | where process `r` is: `init` (before `CreateIcContext`), `linking` (in `ConnectToMesh`), `linked` (in `Party::Run`, no handler yet), `collect` (rank 0 in `RecvHandshakeRequests`), `propose` (before `SendHandshakeRequest`), `await` (in `RecvHandshakeResponse`), `run` (in `RunAlgo`), `finish` (`Party::Run` has returned), `exit0`, `exit1` (exit code -1), `crashed` |
| `ctx[r]` | `ctx_` of the handler: `EcdhPsiContext` or `LrContext` with the fields of `IcContext` |
| `mesh` | ranks whose link server is up |
| `inbox[r]` | the request of rank `r` delivered to rank 0 and not yet received |
| `requests` | the vector of `RecvHandshakeRequests` |
| `response` | the response the passive party built; its code is `NONE` before |
| `outbox`, `arrived` | ranks the response is queued for (`SendAsync`) and has reached |
| `entered` | ranks that have called `RunAlgo` |
| `result` | ranks whose `RunAlgo` produced its output |
| `crashes` | processes killed so far |

A parameter message of a request is an optional value, a set with at most one
element: `{}` is everything `ExtractParam` answers `nullopt` to.

### 2.2 `Handshake`: actions

| action | code |
|---|---|
| `CreateIcContext` | `CreateIcContext`, up to the start of the link's server |
| `ConnectToMesh`, `MeshFailure` | `MakeLink`'s `ConnectToMesh` returns or throws |
| `PrepareDataset` | `CreateHandlerFactory`, the handler's constructor, `PrepareDataset`; with `-disable_handshake` (`Skips`) the call of `RunAlgo` follows at once |
| `SendHandshakeRequest` | `BuildHandshakeRequest` and the `Send` of `ActiveHandshake` |
| `RecvHandshakeRequest` | one iteration of `RecvHandshakeRequests` with `ParseHandshakeReqeust` |
| `PassiveHandshake` | the rest of `PassiveHandshake`: versions, negotiation, `BuildHandshakeResponse`, `SendHandshakeResponse` |
| `DeliverResponse` | the link delivers a queued response |
| `RecvHandshakeResponse` | `RecvHandshakeResponse` and `ProcessHandshakeResponse` |
| `AlgoDone`, `AlgoFails` | `RunAlgo` returns with a result, or without |
| `WaitLinkTaskFinish` | the last lines of `main` |
| `RecvTimeout` | a `Recv` of the handshake throws |
| `Crash` | the process is killed, or dies of a write outside of `feature_nums` (`MemoryDamaged`) |
| `ForeignRequest`, `ForeignResponse`, `ForeignGivesUp` | a party of another platform |

The handler's virtual functions are operators dispatched on `ctx[r].algo`
(`Prepares`, `Negotiate`, `Negotiated`, `Accepts`, `Processed`, ...), defined in
`EcdhPsi` and `SsLr`, one per function of the code.

### 2.3 `Handshake`: abstractions

* Wording, logging, `supported_versions`, `item_num`, the ttp's schema and `prg`
  seeds are left out: nothing branches on them in a way a property can see.
* A refused negotiation of the code may leave the context partly written; the
  context is never read again (the process goes to `finish`), so `ctx` stays.
* `RunAlgo` is one collective step here: it completes only when every party has entered
  it and the context is one the algorithm can run with (`Runnable`).  SS-LR types its
  shares as SEMI2K's even when the protocol is ABY3, so with any other protocol the
  library may throw (`MayFail`).  Parties that do not fit together (`Fits`: the terms,
  and with `LrBeaver` the source of the multiplication triples, a ttp or none) may throw
  or not: what they make of each other's messages is the libraries' affair.
  `LrTraining` takes the step apart.
* Values of norms and rates are naturals, 0 standing for what `AlmostZero` takes for
  zero; enumerations keep the values at least one check tells apart.
* `compatible_protocols` holds enum numbers, as in the code, which searches it for
  the truncation mode; the numbers themselves are of the protocol's definition files,
  which are not in the repository.
* The link delivers in order, without loss or duplication, as yacl's does; a `Send`
  to a process that is gone throws, and what `SendAsync` has queued is lost when the
  process ends without `WaitLinkTaskFinish`.
* A foreign party follows the message order.  Its proposals are the sets given in
  `MCForeign`.  A `requester_rank` that names a native rank is not among them, one beyond the
  ranks and negative ones are.
* `requester_rank` is an `int32` of the message, of which the code checks only that it is
  below the number of parties (`lr_handler.cc:470`).  With a negative one the loop writes a
  width outside of the vector (line 472), which is undefined.  Two kinds of outcome are in the
  model: the write does no harm to what the model keeps, and the negotiation goes on as written, `label_rank`
  included, where -1 means that nobody has claimed the label (`IoLabelRank`, `LrIoStatus`);
  or the process dies of it, during the negotiation or any time later (`Crash` by
  `MemoryDamaged`).  Other damage to the process's data is not modelled.
* Definitions called `X_Something` with a comment "Mutant" are deliberately wrong
  variants of `X`; no action uses them.  Each property is known to fail when its
  variant takes the place of `X`.

### 2.4 `LrTraining`

Every SS-LR party runs by itself through `RegisterProtocol`, `num_epoch` times
`NumBatch` calls of `TrainStep`, `inference`, and the two `reveal`s, and writes its share
of the weights.  Each of these exchanges messages with all the others, so each is a
*call* that a party makes (`PostCall`) and that returns (`FinishCall`) when every party
has made as many.

| variable | code |
|---|---|
| `pc[r]` | `begin` (before `RunAlgo`), `call` (between calls), `wait` (inside one), `output` (before `ProduceOutput`), `finish`, and the exits |
| `ctx[r]` | `ctx_`, an `LrContext` |
| `at[r]` | the last call: its place in `RunAlgo`, `epoch` and `batch` of `Train` |
| `posted[r]` | how many calls the party has made |
| `trained[r]` | how often each row went into a finished `TrainStep` (history) |
| `writable`, `result` | parties whose output file can be opened, parties that have written it |

| action | code |
|---|---|
| `Begin` | `PrepareDataset`'s last checks without a handshake, `MakeSpuContext` |
| `PostCall`, `FinishCall` | entering and returning from the next collective operation of `RunAlgo`; `Advance` is the control flow between them (the loops of `Train`), `AfterRegister` the ENFORCEs of `Concatenate` and the division of `Train` |
| `FailCall` | the operation throws: a peer is gone, a timeout, or parties that compute different things |
| `ProduceOutput`, `WaitLinkTaskFinish`, `Crash` | as their names say |

One call stands for all messages of a `TrainStep`; a party that is inside it may be
anywhere in it.  Slices, shapes and the place of each party's columns are values of
operators (`RowsBeg`, `RowsEnd`, `Width`, `BlockBeg`); share values are not modelled.
What a batch size of 0 does to the division is undefined in C++: the process
dies, or goes on without batches.  Without a handshake `ctx` comes from each party's
environment, and nothing compares the environments: a mismatch may break any call
or pass unnoticed.

### 2.5 `ParamLoops`

`IcContext` and `SsLr` say in one operator each what the passive party's loops over the
requests compute.  `ParamLoops` runs the loops, one iteration per step:
`AlignVersion` (`AlignHandshakeVersion`), `SearchEnum` and `ExtractNext` (`ExtractParam`
within `ExtractParams`), `Intersect` (`Intersection` over the requests), `Align`
(`AlignParamItem`), `NegotiateIo` (`NegotiateLrIoParams`) with `DieOfIo`, the death of the
process by the write outside of the vector (`WithWidth` leaves the vector alone at a negative
index).  Its variables are those of
the loops (`i`, `j`, `version`, `params`, `last`, `cur`, `value`, `status`).  A request
here still has its list of enumeration values and its list of parameters, which need not
be equally long nor typed alike.  The loops run one after the other for one parameter;
they share nothing but the requests.

### 2.6 `Config`, `Startup`, `ConfiguredJob`

`Config` has no variables.  A function of the code that may throw is a set-valued
operator: empty when it throws.  Library functions (`StrSplit`, `stoi`, the JSON parser,
`base64`) are constants; texts are strings that get their meaning from them.  Where the
code reads the environment first and the flag second, the operator does.

| variable of `Startup` | code |
|---|---|
| `pc[p]` | `init`, `linking` (in `ConnectToMesh`), `linked`, `ready` (a handler exists), `exit1`, `killed` |
| `settings[p]` | flags and environment of the process |
| `link[p]` | the link `MakeLink` has made: kind, addresses, own rank |
| `server[p]` | the address at which, and the kind of link for which, it receives |
| `told[p]`, `heard[p]` | ranks it has reached in `ConnectToMesh`, ranks it has been reached by |
| `faults` | processes killed and connections given up too early |

| action of `Startup` | code |
|---|---|
| `StartLink` | `CreateIcContext` and `MakeLink` up to the link's server: black-box, or after any exception of it white-box |
| `Hello` | one connection attempt of `ConnectToMesh` that succeeds |
| `ConnectToMesh`, `MeshFailure` | it returns, or throws |
| `CreateHandler` | `Party::Run` up to the handler: the algorithm's context is created, or throws |
| `Kill` | the process is killed |

`ConfiguredJob` adds `settings` to the state of `Handshake`: initially `ctx[r]` is what
`Config` makes of `settings[r]`, and every step is one of `Handshake`.  `MakeLink(s)` is
the link of a process with the settings `s` once every peer is there: black-box where the
environment describes it completely, white-box otherwise.

### 2.7 `RouterLr`

The arbiter `rc_03`, the servers `rs_01` and `rs_02` and the clients `rc_01` and `rc_02` of
`router/demo/horizontal_lr`.  Nodes and transactions of the router's packages (binary, not
in source) are modelled as the demo and its configuration use them.

| variable | code |
|---|---|
| `pc`, `round` | where the arbiter is in its loop; the round each of the three clients is in |
| `channel` | packages under way, in order between two nodes |
| `trans` | transactions a node collects: the packages with one `uid`, up to `n_batches` |
| `q_recv` | what `recv` will return at each client |
| `agg` | which shares the arbiter took for the aggregate of each round (history) |
| `faults` | packages lost and transactions dropped |

`ArbiterSends`, `ArbiterReceives` and `ReturnShare` are the programs, `Receive` and `Dispatch`
the nodes, `DropTransaction` (`recv_timeout`) and `LosePackage` (`send_timeout`) the
failures.

## 3. Runs

| run | instance | properties | what it shows |
|---|---|---|---|
| `pair` | 2 parties, all pairs of 15 ECDH-PSI settings; all pairs of 21 SS-LR settings and all label assignments; jobs of which some or all parties skip the handshake | `Agreement`, `OneLabelOwner`, `AcceptedIsMutual`, `RefusalIsHeard`, `SameParametersSucceed` | whichever flags the operators chose, parties that run after a handshake agree and know one owner of the label, a party that was accepted does not throw at the response, a refusal is heard, and like parties get a result |
| `trio` | 3 parties, at most one unusable or two deviating settings, or any mix of algorithms, families, versions, with and without handshake; 1 crash, timeouts at any time | `TypeOK`, `Agreement`, `NoEarlyRun`, `OneLabelOwner`, `FeatureNumsAreTrue`, `RowsMatch`, `ImplementsJobAgreement`, `AcceptedIsMutual` | the same safety with two requesters and under failures; nobody runs before all proposals were read; who runs has a data set of the agreed length; a request of another algorithm is never skipped; the handshake refines `JobAgreement` |
| `foreign_peer` | 3 parties, rank 2 foreign with 15 kinds of proposals of both algorithms, three of them with a negative rank, beside any mix of algorithms, families, versions, with and without handshake; 1 crash | `ResponseWithinProposals`, `AcceptedIsMutual`, `EveryPartyEnds` | the passive party settles only on what everyone offered, unless it dies of a negative rank; every process ends, whatever the others are, and also when three parties have agreed on the two-party ECDH-PSI |
| `configured_pair` | 2 parties, environments of the examples, complete, in part or absent, and command lines that say something else | `EnvironmentDecides`, `EnvironmentSuffices` | without a handshake, the same complete environment means the same computation, and a result |
| `start` | 3 processes, right, wrong and swapped settings, three processes for two ranks, 1 fault | `TypeOK`, `OneProcessPerRank`, `LinkIsShared`, `EveryProcessStarts`, `UsableSettingsStart` | nobody gets past `ConnectToMesh` beside another process of its rank or with another kind of link, whoever fell back; usable settings all start |
| `train_pair` | 2 parties after the handshake, 48 schedules (epochs -1 to 2, batch sizes -3 to 5 over 4 rows, with and without penalty) of the passive and 3 settings of the active party, another `last_batch_policy` with batches of 2 and 3 rows, each owner, each set of writable outputs | `SlicesInBounds`, `TrainedRows`, `AgreedJobCompletes` | the loops cover the full batches, and no other row where these are to be discarded; what the handshake settled lets the job complete |
| `train_trio` | 3 parties after the handshake (one setting of a batch size of 0, one of ABY3), and without one (environments that agree or contradict each other in one setting or in the widths), 1 crash, timeouts at any call | `TypeOK`, `Lockstep`, `ColumnsAddUp`, `ContinuesTheJob`, `EveryPartyEnds` | like parties make the same calls in step and share out the columns; no contradiction makes a process hang; the training keeps the promise of `JobAgreement` |
| `loops` | up to 3 requests with lists that differ in length, order and type, from ranks in order, doubled, too large and negative | `VersionIsAligned`, `ExtractedFromAll`, `CommonIsFound`, `IoIsNegotiated` | the loops compute what the operators say |
| `router_lr` | 4 rounds, 2 faults | `TypeOK`, `LabelsAreTrue`, `AggregateOfTheRound`, `EveryRoundCompletes` | shares of different rounds never meet, whatever is lost; without a fault every round completes |
| `lr_trunc_mode` | 2 parties, truncation mode differs | `AcceptedIsMutual` (violated) | see section 5 |
| `skip_rows` | as `configured_pair` | `EnvironmentDecidesRows` (violated) | see section 5 |
| `last_batch` | 2 parties after the handshake that agreed on a policy other than to discard, batches of 2 and 3 rows | `PartialBatchIsProcessed` (violated) | see section 5 |

**Bounds.**  Three parties are the smallest number at which the loops over requests
meet two requesters and at which the response is queued for more than one peer; the
proofs of section 4 carry the safety properties they cover to any number.  The flag settings hold,
for every field, the default and a value each check of the code tells from it: fields
that are compared, overridden by the response, ignored by it, or unusable before the
handshake.  Pairs of settings cover every *passive check, active check* pair.
`MaxCrashes = 1`: after a process is killed the others only have exits left, so a
second kill adds no new order of messages; `MaxFaults = 1` of `start` for the same
reason.  `Timely = FALSE` lets every timeout expire at any moment, which includes every
timing of the real one; `Timely = TRUE` lets it expire only when nothing can come any
more, which is what liveness needs, since a link slower than its timeout fails any job.
In `loops` three requests have a first, a middle and a last; the lists have none, one
or two elements, so that an index of one may be past the end of the other.  Four rounds are
those of the demo (`range(4)`); two faults can hit both shares of a round, or a share and
the key.

**Fairness.**  `FairSpec` of `Handshake` assumes weak fairness of every process's own steps
(the threads are scheduled by the operating system, and `Recv` and `ConnectToMesh` have
timeouts, so a blocked process is never without a next step for ever) and of the
link's delivery of each queued response.  Nothing is assumed of a crash, nor of a
foreign party but that it takes some step; a job with no process left may stop.  In
`LrTraining` and `Startup` the same weak fairness of each process's steps is assumed:
SPU's operations use the link, so one that cannot complete any more throws.  `RouterLr`
assumes that nodes and programs that can go on do; nothing has to be lost.  Its
`EveryRoundCompletes` is conditional on no loss: `recv` has no timeout, so after a loss the
arbiter waits for ever, and the run does not check deadlock for that reason.  The other
conditional liveness properties (`SameParametersSucceed`, `AgreedJobCompletes`,
`EnvironmentSuffices`, `UsableSettingsStart`) name in their premise what the operators have to
have done right.

## 4. Proofs

Everything below holds for any number of parties, any deployments, any foreign proposals
and any number of crashes and any timeouts unless a hypothesis is named.  The assumptions on the
constants are those of the modules, each evaluated by TLC on the instances:

* `WorldSizeAssumption`: at least two parties.
* `HandshakeAssumption`: foreign ranks are active; deployments are contexts, with
  `label_rank` as `GetLabelRank` gives it.
* `TrainingAssumption`: contexts of the training are `LrContext`s, agreed on or not.
* `FilesAssumption`: a party that has the label and has read a row of its file, or has come
  through the handshake, has a column: `ReadDataset` makes a matrix of the file, the label's
  column included, and `PrepareDataset` insists on a feature before a handshake
  (`lr_handler.cc:203-214`).  For parties of a handshake it is proved
  (`HandshakeHandsOver`).
* `LibraryAssumption`: a library function on a text (`stoi`, `stod`, `base64`, the JSON
  parser) has at most one result, of its type: it returns or throws, and the same each time.
* `ChoicesAssumption`: the processes have found each other, each with its own rank and with
  the same list of parties, and each has a context; `Startup` is about those that do not.
* `StartupAssumption`: a link's own rank is one of its addresses, as the library's settings
  have it.
* `LoopsAssumption`: there is a request, each has a version of at least 1 (`ParseHandshakeReqeust`
  insists on 2), lists, and at most one io parameter; its rank and its width are any
  integers.  The passive party's own sample size, which it has counted, is a natural number.
* `RouterAssumption`: at least one round.

| theorem | states |
|---|---|
| `HandshakeProofs!TypeCorrect` | `Spec => []TypeOK` |
| `HandshakeProofs!PartiesAgree` | `Spec => []Agreement` |
| `HandshakeProofs!SettledWithinProposals` | `Spec => []ResponseWithinProposals` |
| `HandshakeProofs!NobodyRunsEarly` | `Spec => []NoEarlyRun` |
| `HandshakeDataProofs!OwnerIsUnique` | `OwnRanks`: `Spec => []OneLabelOwner` |
| `HandshakeDataProofs!WidthsAreTrue` | `OwnRanks`: `Spec => []FeatureNumsAreTrue` |
| `HandshakeDataProofs!RowsFitTogether` | `Spec => []RowsMatch` |
| `HandshakeDataProofs!HandshakeHandsOver` | `Spec => [](AllTrain => ReadyToTrain)` |
| `HandshakeDataProofs!AcceptanceIsMutual` | `OwnRanks`, `TruncModeAsOffered`: `Spec => AcceptedIsMutual` |
| `HandshakeImplementsProofs!HandshakeKeepsPromise` | `Spec => ImplementsJobAgreement` |
| `HandshakeImplementsProofs!EveryoneHearsRefusal` | `Timely`, `MaxCrashes = 0`, `RanksInBounds`: `Spec => RefusalIsHeard` |
| `LrTrainingProofs!TrainingTyped` | `Spec => []TypeOK` |
| `LrTrainingProofs!PartiesKeepStep` | `Spec => []Lockstep` |
| `LrTrainingProofs!TrainStaysWithinTheData` | `Spec => []SlicesInBounds` |
| `LrTrainingProofs!TrainingKeepsThePromise` | `HandshakeAgreed`: `Spec => ContinuesTheJob` |
| `LrTrainingProofs!EveryRowItsTurn` | `Spec => []TrainedRows` |
| `LrTrainingProofs!ColumnsBelongToOne` | `Spec => []ColumnsAddUp` |
| `ConfiguredJobProofs!ConfiguredIsHandshake` | `JobSpec => FairSpec` |
| `ConfiguredJobProofs!EnvironmentGoesFirst` | `JobSpec => []EnvironmentDecides` |
| `StartupProofs!TypeCorrectness` | `Spec => []TypeOK` |
| `StartupProofs!SharedLinks` | `Spec => []LinkIsShared` |
| `StartupProofs!OnePerRank` | `Spec => []OneProcessPerRank` |
| `ParamLoopsProofs!VersionOfAll` | `Spec => []VersionIsAligned` |
| `ParamLoopsProofs!ParametersOfAll` | `Spec => []ExtractedFromAll` |
| `ParamLoopsProofs!CommonToAll` | `Spec => []CommonIsFound` |
| `ParamLoopsProofs!IoOfAll` | `Spec => []IoIsNegotiated` |
| `RouterLrProofs!TypeCorrect` | `Spec => []TypeOK` |
| `RouterLrProofs!LabelsStayTrue` | `Spec => []LabelsAreTrue` |
| `RouterLrProofs!AggregatesAreOfTheRound` | `Spec => []AggregateOfTheRound` |

### 4.1 The handshake

`Agreement` is not inductive: a state in which an active party is about to receive a
response that does not fit what it proposed satisfies it.  The inductive invariant
`IInv` is the conjunction of

* `TypeOK`;
* `RequestsAreTrue`: what rank 0 holds of a native rank, in `inbox` or `requests`, is
  `BuildRequest` of that rank's context, as long as that rank has not gone on;
* `ResponseIsTrue`: an `OK` response is what the passive party's negotiation made of
  all the requests, with the passive party's terms, and every requester offered it;
* `RunsOnTerms`: a native party that has entered `RunAlgo` after a handshake, whatever
  became of it since, holds the response's terms.

The argument for the one interesting step, `RecvHandshakeResponse`: the response lies
within the active party's own proposal (`ResponseIsTrue`, `RequestsAreTrue`), which
lists exactly its own value of each field the response does not overwrite; with
the checks of `ProcessHandshakeResponse` this makes its terms those of the passive
party (`TermsMeet`, from `PsiTermsMeet` and `LrTermsMeet`).  That it is
`IntersectParamItems` and `AlignParamItem` over *all* requests that put the response
within each proposal is `PsiOffered` and `LrOffered`.  `FirstPosition` and
`LastPosition` (a set of positions has a first and a last one) come from the
well-foundedness of the naturals and give the meaning of "the first request that
fails" and "the last one wins" in `NegotiateLrIoParams`.

**The data.**  `DataInv` adds that what each request says of its sender's data set is true
(`IoIsTrue`) and that after an `OK` the passive party's `feature_nums` and `label_rank` are those
of the data sets (`DataSettled`).  This needs the hypothesis `OwnRanks`: a foreign party does
not name the rank of a native one, nor a negative one, since the code stores the widths at
`requester_rank` and never compares it with the rank the request came from, and since after a
label claimed by -1 a second claim passes.  `AcceptanceIsMutual` further needs
`TruncModeAsOffered`, that every context has the truncation mode that
`BuildHandshakeRequest` writes into each request: so the finding of section 5 is the only
way in which an accepted party throws at the response.

`RowsMatch` and `HandshakeHandsOver` need neither hypothesis.  `AllSized` says that who shakes
hands or runs has a `sample_size` equal to the rows of its file, and a column; with
`Agreement` this makes the files of all parties that run equally long.  `ReadyToTrain` is
what `LrTraining` assumes of contexts that come from a handshake, so for a job without
foreign parties the two models join without a gap: `HandshakeAgreed` and the handshake's half of `FilesAssumption` hold of whatever
contexts `Handshake` leaves.

**The refinement.**  `Stages` says how far the passive party is when others are anywhere past
the handshake; with it every step maps to one of `JobAgreement` or to a stutter.  For
`RefusalIsHeard`, `Heard` says that after a refusal the passive party is on its way out and the
response of every party that waits is queued or has arrived; it needs that nobody is
killed and that timeouts do not expire early, since otherwise `RecvTimeout` is a way out
without hearing anything, and that no foreign party has a negative rank (`RanksInBounds`), since
the passive party may die of it before the response is sent (`RequestsInBounds`, `NobodyDies`).

### 4.2 The training

`Lockstep` speaks of parties that have made equally many calls; to carry it over
`PostCall` one has to know where a party stands that is one call ahead.  `IInv` therefore has
`Together` (who is about to make a call is not ahead of anybody; nobody is more than one
call ahead), `SamePlaces` (with equal terms, equal counts mean equal places and one more
call means the next place) and `FirstCalls` (before the first call a context may still
change, but the first two places do not depend on it).  `AdvanceAlike` says that the
next place depends on the terms only.  `SlicesInBounds` adds `Sized`: a batch that is
being trained on is one of the `sample_size / batch_size` full ones.

`TrainedRows` speaks of the full batches under any policy, and of the other rows under the
policy to discard them; what the code makes of the other policies is the finding `last_batch`
of section 5.  It adds `RowsInv`: a party's place says how often each row has been trained on, once
more per epoch in the batches before the present one.  `ContinuesTheJob` adds `Late`: who is
behind the last call has seen every party begin.  `HandshakeAgreed`, its hypothesis,
is `HandshakeHandsOver` of section 4.1; `MCTraining` also assumes it of the contexts it
works out, so TLC evaluates it.

`ColumnsAddUp` sums the widths of the parties with `FoldFunction`, which is defined by a
function over the subsets of its index set.  That this function exists, that two such
functions agree, that the sum of integers is an integer, and that any index may be taken
out of it first (`SumsExist`, `SumsAlike`, `TotalTyped`, `TotalWithout`) are shown by taking a
smallest subset for which it is otherwise (`SmallestSubset`, from the well-foundedness of the
strict subset relation on finite sets).  `Blocks` then gives where a party's columns begin as the
sum over the ranks before it, `BlocksInOrder` that the blocks do not overlap, and `OneBlock`
that together they cover the width.  The invariant `Measured` says
that the owner of the label has a column from its first call on, and that who is past
`RegisterProtocol` has its own width in `feature_nums`: so no width is negative.

### 4.3 Startup

For `OneProcessPerRank`, two processes of one mesh and one rank would have to listen at one
address (`OwnAddress`: when every address of the mesh belongs to one rank, a connected process has been reached
at its own), which `Exclusive` rules out.  That no two are connected by different kinds of
link is `NoCrossing`: of two processes with different kinds, not both have been reached by
the other, because what reached the address of the later one did so before it was there.
`LinkIsShared` rests on `HeardIsTrue`: who was heard of is, or was, there.

### 4.4 The loops

`LoopInv` has one conjunct per loop, which says what it has found in the requests before its
index, and what the earlier loops have left behind.  `IoLoop` is the one of the io parameters:
none of the requests so far is refused, each width is that of the last request of its rank,
and `label_rank` is what the last claim has made it (`IoLabelRank`), for any integers as ranks.
That the loop and `NegotiateLrIoParams`, which
chooses the first refused request of all, agree is `FirstRefused`.

### 4.5 Configured jobs

`JobSpec` fixes the settings and lets `Handshake` run, so it implies `FairSpec`
(`ConfiguredIsHandshake`), and what is proved of `Handshake` holds of configured jobs; that the
contexts `Config` makes satisfy `HandshakeAssumption` is evaluated by TLC, see 4.7.  For
`EnvironmentDecides`, `Skipping` says that the context of a party that skips the handshake is
the one it was started with, prepared once before it runs.  `Origin` takes it back to the
`Create*` function of its algorithm; there every parameter of the terms comes from `GetParamEnv`, and
what is read of one environment is the same for both (`OneValue`), the one result of a library
function included.  `feature_nums` and `label_rank` are by party id; that they are the
same rests on the parties having one list of ids.

### 4.6 The router

`LabelsAreTrue` is not inductive: `ReturnShare` labels a share with the client's own count of
the rounds.  `IInv` of `RouterLrProofs` says where everything is: three things travel in a round, the
two shares and the key that becomes the aggregate, each in one of ten (nine) stages; the
stages determine what is on each connection, in each transaction and in each queue, and
which round each client counts, and `Causes` says which stages go together.  A loss or a
dropped transaction puts what travelled in it into the stage `lost`, from which nothing
goes on: the arbiter, whose `recv` has no timeout, stays in its round.  So at any time every
package is of the arbiter's round (`PacksOfTheRound`), which gives the three properties.  This
also shows what they rest on: with a timeout in `recv` (`ArbiterReceives_TimesOut`) TLC finds
an arbiter that takes an old aggregate for a new one.

### 4.7 What is only model-checked

* The liveness properties: `EveryPartyEnds`, `SameParametersSucceed`, `AgreedJobCompletes`,
  `EnvironmentSuffices`, `EveryProcessStarts`, `UsableSettingsStart`, `EveryRoundCompletes`.
  Liveness under fairness and `ENABLED` are out of the prover's reach.
* That the contexts `Config` makes are contexts of `Handshake` (`HandshakeAssumption` of
  `MCConfigured`): `GetFlagValues` uses `SelectSeq`, which the prover cannot expand.
* The three violated properties of section 5, naturally.

Every invariant and every action property of a passing run is proved.  No module here
declares a `RECURSIVE` operator.

## 5. What was found

**`lr_trunc_mode`.**  `BuildHandshakeRequest` proposes the probabilistic truncation mode
whatever the context holds (`lr_handler.cc:328`), while `ProcessHandshakeResponse` insists
that the response has the context's mode (`lr_handler.cc:281`).  A party started with
another mode is accepted by a probabilistic passive party and then throws on the `OK`
response; the passive party goes on to `RunAlgo` alone.

**`skip_rows`.**  `README.md:142` lists `skip_rows` among the parameters of the environment, and
`README.md:108` says that the environment goes before the flags, but `ReadDataset` takes
it from the flag only (`lr_handler.cc:86`).  Parties with one environment and equally long
files train on different rows.

**`last_batch`.**  `README.md:122` and the flag (`lr_context.cc:27-28`) describe
`last_batch_policy` as the "policy to process the partial last batch of each epoch", `discard`
being the default; the parties negotiate its value (`lr_handler.cc:502`).  `Train` never reads it: its loops
run over the `sample_size / batch_size` full batches (`lr_handler.cc:856-873`).  Parties that
agree on any other value leave the rows after the last full batch out, in every epoch, as if they
had agreed to discard them.  The names of the other values are in the protocol's definition
files, which are not in the repository; the model calls them `KEEP`.

## 6. Not modelled

* The demos `he2ss` and `ss2he` of the router: each is one pass over one half of what
  `horizontal_lr` does in every round.  Encryption, and the router's own packages, which are
  binary wheels in `router/deps`; `RouterLr` takes from the demo and its configuration what
  they do.
* The arithmetic of SPU on shares and `EncodingDataset`, the PSI library, the yacl link
  beyond what section 2.3 says of it: not in the repository.
* Reflection on protobuf messages, accessors, logging, conversions between enumerations
  of flags and messages that name the same value twice.
* Scripts, data sets and build files.
* Three hazards have no property.  `lr_handler.cc:561` searches the compatible *protocols*
  for the truncation *mode*; whether this ever refuses depends on enum numbers that are not
  in the repository.  `lr_handler.cc:76` names the default output file after the rank of the
  command line, which with a black-box link need not be the party's; files are outside the
  model.  `psi_handler_v2.cc:278` catches what `RunPsi` throws, so the process exits with 0 and
  without a result; the step is in the model, but nothing in the repository promises that 0
  means a result.

What could be added: an abstract specification of the link under `Startup` and `Handshake` together, so that one run
goes from `main` to exit.
