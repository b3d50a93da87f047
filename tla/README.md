# A TLA+ development for akson

akson is a local-first gateway between agents. Each endpoint runs one daemon,
`aksond`, over one SQLite store. An operator imports peers, the daemons
introduce themselves to one another, and then two surfaces move work and bytes:
*tasks* (a requester proposes, a performer approves, performs and delivers) and
*coordination* (a driver stages bytes, the operator consents, the daemon
discloses them once). This directory specifies those surfaces from the Rust
source, model-checks them with TLC, and proves their safety with TLAPS.

## The system

| part | state | operations | what makes it hard |
|---|---|---|---|
| peer imports, pinned peers (`akson-store`) | `peer_imports` (live, label, epoch), `peers` (status), `auto_approve` | add, relabel, remove, commit of an introduction | labels are re-bound and roots re-imported while other things refer to them |
| coordination (`coord.rs`, `coord_egress.rs`, `a2a_client.rs`) | `coord_staged`, `coord_consents`, `coord_dispatches` | stage, consent, dispatch, record of the carriage | the store lock is released across the network; concurrent retries under one key; crashes between spend, send and record; lost answers |
| receive endpoint (`receive*.rs`) | `inbox_objects`, event feed, contract heads | admit, replay, conflict, proposal, delivered result | duplicates, a crash between two commits of one admission |
| approval (`approve.rs`, `decision.rs`, `issue.rs`, `reactor.rs`) | `contract_heads`, `attempts`, `work_orders`, `task_reactions` | approve, deny, issue, auto-approve, hook, mark | three commits per approval; a background sweep racing the operator and peer removal |
| execution (`worker_run.rs`, `result.rs`, `cgroup.rs`) | `attempts`, `task_outputs`, `results`, run directories, cgroup leaves | run, fulfil, stage outputs, complete, fail | concurrent runs of one task, workers that never exit, failing store calls |
| introduction (`introduce.rs`, `akson-pairing`) | connection state, epoch snapshots, knock log, rate map | two flights, commit by compare-and-swap | removal between the flights, one-sided commits |
| broker (`broker.rs`, `akson-broker`) | `processor_calls` sub-attempts, budget | prepare, in flight, outcome, restart | budget at its limit, never sending a call twice |
| exchange (`send.rs`, `delivery.rs`, `outcome.rs`) | `sent_requests`, deliveries, received results | send, deliver, finalize | records written after the effect, results before records |
| receive listener (`receive_server.rs`, `receive_http.rs`, `akson-transport`) | limiter table, request records, tombstones | routes, gates, replay | order of the gates, a peer removed while its body is on the way |
| store services (`akson-store`) | schema version, keys, checkpoint, trusted-time floor, audit chain, event feed | open, migrate, seal, observe, append, read | a crash after any commit of an open, restored snapshots, backward clocks |
| control plane (`control.rs`, `socket.rs`, `bootstrap.rs`) | sockets, secrets, connection counter | start, gate, dispatch | narrow surfaces, ceilings, a start that dies half-way |

Every daemon has one `Mutex<Store>`. A handler that holds it across several
commits is atomic to other threads but not to a crash or to a failing store
call. The models reflect exactly that: where a handler commits several times, a
variable `lock` holds what the handler has left to do, each commit is a step,
only the holder, a failing store call or a crash may go on from there, and other
handlers wait. Where a handler lets go of the lock (across the network, around
a sandboxed process, around the hook) the others interleave freely. The sockets
serve up to 16 connections at once (`socket.rs`), so two calls of one kind may
be under way.

## Modules

- **Imports**: the relationship tables. Each operator is one store transaction;
  modules that call them extend this one. Keys, endpoints and hints are
  abstracted: an introduction presents the pinned material or changed material.
- **Coordination** (extends Imports): `stage`, `stage_consent`, then `dispatch`
  cut where the code lets go of the lock: the locked route and spend, `Post`,
  the wait (`AnswerArrives`, `Timeout`), the locked `RecordCarriage`. `calls`
  holds the calls under way and `wire` the exchange on each call's connection,
  which outlives the call. The recipient's admission is `RecvFresh` (arrival
  event) then `RecvCommit` (inbox record and acknowledgement), `RecvAgain` for
  duplicates and conflicts, `RecvRefuse` for a refusal. `Crash` ends the
  sender's calls; `Lose` drops a request or an answer, or is a recipient's crash.
  A body is the record of what identifies it: dispatch, content, receipt and
  recipient.
- **Disclosure**: what the surface promises. A content goes from staged to
  consented to spent to acknowledged and never back, and is disclosed only while
  spent or acknowledged. `Coordination!ImplementsDisclosure` states the
  refinement.
- **TaskLife**: what a performer promises of a received task: proposed, accepted,
  claimed, ordered, started at most once, decided once, delivered with a success
  and never otherwise; a restart gives up all that was in flight at once. Approval,
  Execution and Broker model parts of this life, and each states the refinement as
  `ImplementsTaskLife`; `First` is the stage its tasks begin at.
- **Attempts**: the one-shot authority: attempt states, their transitions, the
  claim, the work order and the resolution of attempts in flight at a restart.
- **Approval** (extends Imports, Attempts): proposals, `TaskApprove`,
  `TaskDeny`, the issue's commits, and the reactor's sweep in its three
  sections. `Issuable` stands for everything `issue_for_accepted` refuses. The
  model has an on-task hook configured. `denied`, `auto`, `hooks` and
  `interrupted` are history variables.
- **Execution** (extends Attempts): `task run` step by step (gather, prepare the
  directory, make the cgroup leaf, the Start compare-and-swap and launch, exit,
  collect file by file, submit, mark failed), `task fulfill` and the worker
  socket (`Fulfill`), and the commits of `submit_result`. An output's bytes are a
  model value; a manifest is the outputs it covers. A file is read through the
  task's path, a worker writes to the directory it was bound to, so a wiped
  directory separates the two. `RunAborts` is every error between the gathering
  and the launch. It starts where Approval ends: a claimed attempt belongs to a
  locked head (Approval's `OrderHasDecision`).
- **Introduction**: both roles of the two-flight handshake at every endpoint.
  `conns` holds a connection with the dialer's half (`wait`, the epoch it
  snapshotted), the responder's half (`slot`, its epoch) and what is on the
  network between them; `imports`, `peers`, `peer_keys` and `knocks` are the
  tables. `commit_introduced_peer` is the compare-and-swap on the epoch. `Remove`
  and `Import` fall between any two steps; `GiveUp`, `Break`, `Misroute`,
  `StoreFails` and `Restart` are the faults. `dcut`, `rcut`, `dpin` and `rpin` are
  history: whether the relationship was removed under a half, and whether the
  half pinned. Imports has the same tables seen from one endpoint.
- **Broker** (extends Attempts): processor calls. `run_processor_call` is cut
  into its three locked sections with the resolution, connection and exchange
  between them; the worker's channel is a queue of lines that one thread of the
  run serves (`ServeLine`, `write_line`), the adapter's proxy serialises the
  agents on it (`forward`, `ReadReply`). `sends` counts what left the host.
- **Exchange** (extends **Contract**): a task from the requester's `run_send` to
  its recorded outcome. The performer's admission is one step per commit (head,
  context, inputs, request record), the requester's `finalize_result` checks the
  signature, the request and the bytes. Approval's and Execution's results are
  one step each here (`approve_and_issue`, `submit_result`). An approval locks the
  head without asking for the time; only the issue of the work order does, so a
  lapsed contract may end locked without an order. Two clocks, the floor of the
  trusted time and a wall clock that steps back, decide what has lapsed.
  Contract has the pure part: extraction, binding of inputs to entries, the
  validity window, the revision chain.

What has no interleaving of its own is a module of functions, with a *checks*
module that states what they must satisfy as named assumptions; TLC evaluates
these over small domains when it starts the run whose MC module extends them.

| functions | code | checks, in run |
|---|---|---|
| **Authority**, **Confinement** | scopes and capability vectors, what an approval grants, work orders, standing rules, the output gate; sandbox spec, mounts, filter, namespaces, descriptors, cgroup, staging, collection, the inert scan | ConfinementChecks, `execution` |
| **Identity**, **Token** | key purposes, detached signatures, the records and transcripts of an introduction, certificate windows; the bech32m codec | IdentityChecks, `introduction` |
| **Evidence**, **RiskCard** | manifests, outcomes, slots, statements, SARIF, decisions; the card shown before approval | EvidenceChecks, `exchange` |
| **Tls**, **Listener**, **Profile** | verifiers and configurations; routes and gates of a request, idempotency of the inbox, tombstones, the limiter; validation of cards, Messages and negotiation | ListenerChecks, `approval` |
| **Tables**, **Ledger** | sealing, the migrations to roots, the audit chain, relationship tables by name; opening against the checkpoint, the schema steps, the walk over the audit log, policies, event feed | LedgerChecks, `approval` |
| **Control** | surfaces, routing of requests, the gate of a connection, the accept loop, what a start binds and keeps, labels and hints | ControlChecks, `coordination` |
| **CoordReads** | what the driver and the operator are told about a disclosure and a peer | CoordChecks, `coordination` |

- **ApprovedRun** joins Execution with Authority and Confinement: for any contract
  the owner accepts with any of the two outward grants, it says what the work
  order, the output gate and the sandbox of the run have to be.
  `WorkerKeepsToApproval` asks this of every task with an order.
- **CoordinationProofs**, **ApprovalProofs**, **ExecutionProofs**,
  **ConfinementProofs**, **IntroductionProofs**, **BrokerProofs**,
  **ExchangeProofs**, **GateProofs**: theorems, below.
- **MCCoordination**, **MCApproval**, **MCExecution**, **MCIntroduction**,
  **MCBroker**, **MCExchange**: instances for TLC.

Definitions named `X_Y` behind the comment "Mutant" are variants of `X` with a
plausible slip; each property has one that breaks it. No specification uses them.

## Runs

| run | instance | what it shows |
|---|---|---|
| `coordination` | 1 content, 2 roots under 1 label, 2 receipts, 2 keys, 2 concurrent calls | `OneDispatchPerStage`, `EveryByteIsConsented`, `SentMeansAdmitted`, `RetryNeverConflicts`, `NoArrivalAfterRecord`, the refinement `ImplementsDisclosure` |
| `coordination_live` | 2 contents, 1 root, 2 receipts, 2 keys, 1 call at a time | calls return (`CallsReturn`); once failures stop, a retried dispatch is acknowledged or its label names no active peer (`RetriedDispatchIsSent`); receipts are not exchanged between contents |
| `approval` | 2 tasks (one a policy may cover), 1 root | `DeniedIsNotAutoApproved`, `PolicyHasPeer`, `OrderHasDecision`, `ReactedWasAnnounced`, the refinement `ImplementsTaskLife`, `SubmittedIsAnnounced` |
| `execution` | 1 task, 2 runs, 2 outputs with 2 contents; 144 contracts, 6 approvals, batches of up to 2 outputs, 3 configured workers | `LaunchedOnce`, `RunHasAuthority`, `OneConfinedRun`, `ManifestCoversOutputs`, `WorkerKeepsToApproval`, the refinement `ImplementsTaskLife`, `RunsEnd`, `RunningResolves` |
| `introduction` | 2 endpoints, 2 connections, 2 conforming materials and one that is not | `RemovedIsForgotten`, `NoStaleCommit`, `DialerPinsAfterResponder`, `RepinNeedsRemoval`, `HealsByRetry`, and the types with the cap of the knock log |
| `broker` | 1 work order, 2 agents of its worker, 1 operator, 1 processor with 3 configurations, budget 1 | `SentOnce`, `HonestOutcome`, `WithinBudget`, `RunOutlivesItsCalls`, `ReplyIsMine`, the refinement `ImplementsTaskLife`, `RunEnds` |
| `exchange` | 1 send with 2 inputs, a second revision and a clashing message of another client, 2 connections, 2 submissions | `AcceptedIsSigned`, `DeliveredIsAccepted`, `AnsweredTaskIsWhole`, `NoRevival`, `RedeliveryFinalizes` |
| `consent_card` | as `coordination` | violated: a re-bound label spends a receipt on a root its card did not print |
| `lost_hook` | as `approval` | violated: a crash between acceptance and hook loses the announcement |
| `locked_head` | as `approval` | violated: a refused issue leaves a locked head without an attempt |
| `stale_outputs` | as `execution` | violated: after a failing store call, a completed task's manifest covers bytes that are not the staged ones |
| `run_dir` | as `execution` | violated: a second run wipes the first one's directory |

The five violated properties state what a comment of the code says; the findings
in PROJECT.json quote it.

**Bounds.** `MaxEpoch` 2 lets a root be imported, removed and imported again.
`MaxArrivals` 2 lets a recipient crash once between the commits of an admission,
and the event be repeated. Two receipts, keys and calls are what a double spend, a retry
under the same or another key and a race of two carriages need; two roots under
one label are what a re-binding needs. One call at a time in `coordination_live`
keeps temporal checking small; concurrent calls are in `coordination`. Two tasks
let a sweep have one task left while it works on another. Two runs are what a
race needs, two outputs what a part-way failure needs, two contents what tells
one submission from another. The contracts of `execution` request nothing to all
four capabilities, in several orders and one of them twice, with none to two
deliverables, a second input that is hidden, visible or of the same id, and a
deadline before or after the time; the approvals grant a configured processor, an
unknown one or none; the batches stay within each limit of the gate or pass it by
one. History counters `launches` and `hooks` stop at 2,
"more than once". In `introduction`, `MaxEpoch` 2 again lets a relationship be
removed and made anew under an open half, two connections let both sides dial at
once or one dial twice, `KnockCap` 1 makes the knock log full, and one fault
(`MaxFaults`: a misroute, a time-out, a broken connection, a failing store call, a
restart) is enough to lose any one message or commit. In `broker` one operation of budget and three configurations of one
processor (the same origin local or not, another origin) let a second call meet
the limit, reuse a call or be another one; three callers share it. `MaxRequests`
2 bounds the lines a channel serves (1024 in the code). In `exchange` two ticks of
time reach the end of the contract, and the tolerance of 1 separates a step back
that is bridged by the floor from one that makes the clock uncertain; its one
fault is a lost message, a dialer that gives up, a failing store call, a crash of
either daemon, an unpairing or a clock that steps back. Symmetry over receipts, keys and calls is used in
`coordination` only, which has no liveness property.

**Fairness.** A dispatch call takes its next step: every network stage runs
under a ceiling in `post_a2a`, and the lock is not held across it. A recipient
handles what reaches it. Retrying is the driver's part of the recovery protocol
and is assumed only for `RetriedDispatchIsSent`. In Approval and Execution the
holder of the lock goes on (weak fairness), and a thread that keeps wanting the lock
gets it in the end although others take it in between (strong fairness: the
mutex is not starved for ever); the reactor polls in a loop. Nothing makes a
worker exit; its wall clock does. In Introduction and Exchange a message that has
arrived is handled and a handler goes on; a retry by the operator (`PeerPing`,
`run_delivery`) is assumed only as the premise of `HealsByRetry` and
`RedeliveryFinalizes`, and so is that the disturbances end. In Broker a call's
thread goes on and gets the lock (strong fairness), a resolver, connection or
exchange that hangs ends at its ceiling, and the wall clock ends the worker. Crashes, losses and store failures are never
fair, and the properties that need them to stop say so. So `RunningResolves`
leaves out an attempt whose Failed mark was lost: it stays Running until the daemon
is started again, and nothing obliges anyone to do that.

## Proofs

For every value of the constants (under `ImportsAssumption` and
`CoordinationAssumption`, which only keep the "absent" values apart from real ones
and the bounds positive), `CoordinationProofs` proves `TypeOK`,
`OneDispatchPerStage`, `EveryByteIsConsented`, `SentMeansAdmitted`,
`RetryNeverConflicts`, `SentIsFinal` and `NoArrivalAfterRecord`, and that
Coordination implements Disclosure (`Implements`).

The safety properties are not inductive alone. `IInv` adds: `CallHasRow` (a call
exists only for a committed dispatch), `LedgerInv` (a dispatch row's receipt was
minted for that content and is spent, a spent receipt has its row, and a content
with a dispatch has no unspent receipt; without the last, two consents could each
be spent), `CarriageInv` (a message on the wire is backed by its row and was
carried to its recipient; an "ok" answer or an acknowledged call means the
recipient's inbox holds the body), `InboxInv` (what an inbox holds is backed and
names that recipient; with the row this fixes the body, so duplicates never
conflict) and `CarriedHasRow`. The proof that a step keeps `IInv` goes conjunct by
conjunct, with lemmas on which steps write the ledger, the wire and the inboxes.
The action properties follow from `IInv` and a step; the refinement maps each
step to a step of Disclosure or to a stutter, by cases on the steps that write
the ledger or `carriedTo`.

`ApprovalProofs` (under `ImportsAssumption` and `ApprovalAssumption`) proves
`TypeOK`, `DeniedIsNotAutoApproved`, `PolicyHasPeer`, `OrderHasDecision`,
`ReactedWasAnnounced` and `DecisionIsFinal`, and that Approval implements TaskLife
(`KeepsTaskLife`). Its `IInv` adds `PhaseInv` (the
reactor is in a locked phase exactly while it holds the lock), `SweepInv` (no task
the sweep has left is handled; a denial marks its task handled, so the sweep
accepts no denied task), `HookInv` (the hook has fired for the part of the pending
tasks that is not left) and `DecisionInv` (a denial is marked, an acceptance is
locked, and an issue in the lock works behind a locked head).

`ExecutionProofs` (under `ExecutionAssumption`) proves `TypeOK`, `LaunchedOnce`,
`RunHasAuthority`, `OneConfinedRun`, `ManifestCoversOutputs` and
`OutcomeIsFinal`, and that Execution implements TaskLife. `CallsMove` first says how the calls move in a step: one of
them, none, or all end. Its `IInv` adds `SubmitInv` (a submission in the lock has
its call waiting for it and an attempt that is not completed), `CallInv` (a call
runs an issued task and, once past the cgroup, holds the leaf; with
`OneConfinedRun` this makes the leaf's removal harmless to others), `LaunchInv`
(an attempt that did not start has no launch) and `OutputsInv` (a task that is
not over, and met no failing store call, holds exactly the bytes the submission in
the lock has staged; a manifest recorded at the end of it therefore covers all of
them and nothing else).

`ConfinementProofs` (under `ApprovedAssumption`: sizes and times are numbers, no
processor is called "none", and the directories of the run are not among the
host's worker programs) proves `WorkerKeepsToApproval` for any contracts,
approvals, batches, workers and host. It is a fact about functions and needs no
induction over steps: it has three parts, which hold whenever the order could be
issued. `GateKeeps` says that the gate lets exactly the approved outputs through.
An issued vector is described by its places (`VectorFacts`), hence which grants it
holds (`GrantFacts`); the gate's running counts, one per output, stay within a
limit exactly when the count at the last output of the channel does, which is the
number of outputs on it (`CountIsTotal`). `OrderKeeps` bounds the order and the
wall clock of the run: the clamped deadline is the earliest of three times.
`ViewKeeps` follows the sandbox spec through both launchers: what a capability
vector contributes to the spec (`BoundaryFacts`, `SpecFacts`), the mounts that
`build_argv` and `build_plan` list in order (`ListingFacts`), and the view, in
which the last mount on a path wins (`ViewTop`, `ViewShift`); the one
list is the other among options that are no mounts, so the views are equal
(`LaunchersAgree`). What is staged, what is writable, the descriptor, the
namespaces and the filter follow from the spec.

`IntroductionProofs` (under `IntroductionAssumption`) proves `TypeOK` with the cap
of the knock log, `RemovedIsForgotten`, `NoStaleCommit`,
`DialerPinsAfterResponder` and `RepinNeedsRemoval`. Its `IInv` is `TableTypes`,
`KnockInv`, `RemovedIsForgotten` and, of every connection, `ConnInv` (a connection
in use names its endpoints, a responder that admitted a hello is the one it was
for, and an ack on the network means the responder has pinned) and `EpochInv` (the
epoch an open half snapshotted is at most the import's, and strictly less once the
relationship was removed under it). `NoStaleCommit` rests on the last: a removal
raises the epoch, epochs never fall, and a commit needs them equal
(`PinNeedsEpoch`). A step replaces at most one connection (`Replaces`), except
`Remove` and `Restart`, which touch all of them; each action has a lemma on what it
puts there and one on what it does to the tables. The action properties are
conjuncts of what a step is shown to do (`Good`), so one induction serves all.

`BrokerProofs` (under `BrokerAssumption`) proves `TypeOK`, `SentOnce`,
`HonestOutcome`, `WithinBudget`, `RunOutlivesItsCalls` and `ReplyIsMine`, and that
Broker implements TaskLife. Its `IInv` has two halves. Of the calls: `KeyInv` says that the
row of a call's key is what the call's phase implies, that no two callers are
between the marks under one key, that a caller in a locked section holds the lock,
and that every row is honest about what was sent; `HolderInv` that the holder of
the lock is in such a section; `BudgetInv` that the rows of a work order are at
most its budget. A second send is impossible because a caller must own its key to
send (`Alone`) and a row past `prepared` is never prepared again; `MovesOne` shows
once that a step which moves one caller and one row, with nobody else at that
key, keeps `KeyInv`. Of the channels: `ServeInv` says that a call of a worker is
for the first line of an open channel whose run lives, `PairInv` that a running
worker and the daemon have at most one line or one reply between them, of the one
agent that waits.

The three refinements of TaskLife map an attempt (and, in Approval, the head before
there is one) to the stage of its task, and follow from the `IInv` of their module.
Approval needs `OrderHasDecision`: a claim finds an accepted task, an order a claimed
one. Execution needs `LaunchInv`: a Start finds an attempt with no launch, so
`started` counts to one; a result is recorded in the commit that decides the attempt.
Broker's work orders are all there from the beginning (`AllOrdered`), and what it
decides is read off the attempt. Each step of the code moves one task by one stage or
leaves all where they are, except the restart, which is TaskLife's `Restart`. What
`DecisionIsFinal`, `OutcomeIsFinal` and `SentIsFinal` say of rows the abstract
specifications do not have (the bytes of a completed task, the approval that holds
the lock at a claim) is proved as it stands (`DecisionStays`, `OutcomeStays`, `SentStaysSent`); the
runs check the refinements.

`ExchangeProofs` proves `AcceptedIsSigned`, `DeliveredIsAccepted`, `NoRevival` and
`AnsweredTaskIsWhole`, for any messages, submissions, connections and number of
faults. It assumes `ExchangeAssumption` (a submission is finite and names an output
id once: `submit_result` refuses a duplicate) and `ContractAssumption` (one
Task id, one contract: the id is derived from the digest). `IInv` adds to
`AcceptedIsSigned`: `Jobs` (a delivery under way carries the signed result of its
Task, which never changes once it is there, and one answered 200 has its outcome
recorded), `Signed` (a manifest names exactly what some submission held, and what is
staged is finite), `Handler` (the lock is held for a request that is still posted,
and a handler about to open a head acted before the contract's end) and `Clock` (no
time acted on is past the trusted floor). That the requester holds what the manifest
names, and nothing more, is a counting argument (`MatchIsExact`): every entry has its
delivery, the two sets have one size, so no delivery is left over. `NoRevival` says
that no head opens and no order is issued once the performer acted past the
contract's end. It follows from `Handler` and `Clock` for a head, which opens in a
later commit than the one that read the time, and from the validity check of
`issue_for_accepted` for an order; `Stated` (every head has a state) is needed to
see that an approval opens none.
`AnsweredTaskIsWhole` has an invariant of its own, `WInv`: `Progress` says how much of
the Task there is at each commit of the handler, `Rows` that no stored input has
other bytes than its entry covers, `Committed` what a recorded answer stands for.
Its condition `Plain` is what `prepare_send` makes. A later revision finds no head
under its own Task and is answered as submitted all the same, since the verdict of
`submit_revision` is not looked at; `Unopened` shows that such a Task is never
opened, ordered or completed. Of two inputs with one id the first is kept (the
schema does not force ids unique), and a second context sent with one contract replaces the first.

`GateProofs` is about functions, for every store, table, card, certificate and
request; it has no specification and no induction over steps. Of the listener:
`ReplayHasNoEffect` and `RecordsAreKept` (the tables of `receive_request` grow and
are never rewritten, so a recorded answer stays), `LimiterKeepsItsBounds` (one
arrival keeps the bounds of the table, hence any number of them) and
`OnlyTheCardIsPublic` (the order of the gates in `handle`, with the peer's status
read before and after its body). Of the handshake and the profile:
`PinnedHandshakeIsMutual`, `CardForcesMutualTls`, `NegotiationHasNoDowngrade`. Of the
database: `SealedOpensOnlyAsItself`, `CutoverKeepsTheBacked` (which also says when
the cutover is refused), `StoringAgainKeepsTheStatus`, `DecisionsByNameAreOfOne`, `RemovalByNameIsOfOne`, and
of the audit log that appending keeps the chain (`AppendKeepsTheChain`) and that
the head commits to the whole log (`HeadCommitsToTheLog`): of two different logs with
one head, take the place nearest to the end where they differ; the rows
after it agree, so the hash they name there agrees too, and with it the rows, and neither log can be the shorter one since
no row hashes to the genesis value. The argument rests on a hash being the tuple of what it
covers, and on `Chained` saying what `verify_chain` accepts; the walk is a fold, so
that equivalence is `WalkAcceptsTheChained` of LedgerChecks, over logs of up to three
rows and what can be done to one of them.

Only model-checked: all liveness (`CallsReturn`, `RetriedDispatchIsSent`,
`SubmittedIsAnnounced`, `RunsEnd`, `RunningResolves`, `HealsByRetry`, `RunEnds`,
`RedeliveryFinalizes`), which is out of the prover's reach because it needs fairness
and ENABLED; and the assumptions of the checks modules, which quantify over the domains they define (they rest on recursive
operators, bitwise arithmetic or data that would need induction).

## Where the code and its comments part

Besides the five findings, the checks modules state what the code does in places
where a reader of its comments would expect something else:

- A proposal refused with 422 is answered 200 when it is sent again
  (`ReplayHasNoEffect`); a refused coordination keeps its status.
- The limiter's windows are fixed: a stretch of one window's length can see twice
  the budget, never more (`LimiterKeepsItsBounds`).
- The media type is covered with its parameters, and extensions beyond the cap are
  not covered (`ConflictIsOnCoveredValues`).
- Two evidence slots of one id stay in the order they came in, so the order of a
  manifest is canonical only for distinct keys (`SlotOrderIsByIdOnly`).
- The sentence of the risk card counts every input as going to the worker
  (`CardShowsEveryInput`).
- Rows dropped at the end of the audit log leave a chain that verifies
  (`AuditShowsEdits`).
- Removing a peer by a name two peers bear deletes both rows, keeps their keys and
  policies, and answers that there was none (`RemovalByNameIsOfOne`).
- The migration that re-keys by root fails where two names of one root are left:
  the open ends at version 18 and every later one ends there again
  (`FailedCutoverStaysAt18`).
- A policy ceiling beyond the signed column reads back as 0 (`PolicyReadsBack`).
- A first open that dies before it adopts the checkpoint's generation comes up in
  recovery (`FirstOpenSurvivesCrash`); a start that dies while it writes a secret
  leaves a file every later start refuses (`SecretsAreStable`).
- The coordination socket's group is kept out by the mode of its directory
  (`OnlyTheOwnerReachesTheSockets`), and the socket survives a start without the
  surface (`StartsWholeOrNotAtAll`).
- A connection that panics costs its place for good (`PanicsCostPlaces`).
- An interface that is an IPv6 literal presents a hint that no peer can add
  (`PresentedHints`).
- The retry of a dispatch needs its route: a peer removed after the disclosure
  turns it into a 409 (`RetryNeedsTheRoute`).

## Not modelled

- Curve arithmetic, hashes, the cipher and TLS records: a digest is injective, a
  signature names its key, a sealed value opens as itself.
- The JSON canonicaliser and parser and most of the JSON schemas, which work
  character by character; a payload is a document and whether its bytes are
  canonical.
- What the kernel does with a mount, a filter, a namespace or a cgroup; the models
  end at what is asked of it.
- The accept loop of the listener, its sockets and their time-outs, beyond the
  ceilings the models name.
- The command line, the MCP server and the adapter SDK besides its broker call:
  they format requests and print answers and keep no durable state.
- The removal of a cgroup leaf whose run died with the daemon: the code has none.
  The models keep the leaf, and every later run of that attempt fails at it.
- `MarkAmbiguous` and `Cancel` of an attempt and the remote cancellation of an
  order: no code of the daemon calls them.

Tls and Profile include `server_config` and `negotiate_extensions`, which in this
repository only tests call; the daemon listens with `bootstrap_server_config`.

PROJECT.json lists each part with its status.

## Plan

1. Exchange as an implementation of TaskLife, so that its one-step decisions and
   results are justified by refinement too.
2. Crashes of a second daemon in Coordination with its own imports, joining
   Introduction and Coordination over the same tables.
