# Frond in TLA+

This directory is a formal model of the Frond runtime (`src/packages/core`), of
its React adapter, its devtools and hub, and of the release script: TLA+
modules translated from the source, TLC configurations that check them on small
instances, and theorems about them that TLAPS proves for every instance.
`PROJECT.json` lists the components, the runs, the source lines every
definition stands for, a mutant per checked property, and the hazards the
properties are for.

`tlc -config X.cfg M` repeats a run (`PROJECT.json` pairs modules and
configurations), `tlapm M.tla` a proof.

## 1. The system

Frond keeps an application's state in a graph of keyed nodes. A *request*
(a node specification and arguments) resolves to a node identity; the graph
plans the node and its declared dependencies, acquires them through their
drivers when somebody needs them ready, serialises actions, refreshes and
argument updates on each node, and releases or evicts what is no longer wanted.
It is written in TypeScript on Effect: fibers, interruption, semaphores, scopes
and deferreds are Effect's. There is one thread; fibers interleave where they
suspend.

| Component | State it keeps | Operations | Talks to | Module |
|---|---|---|---|---|
| Cell actor (`graph/cell/cellActor.ts`, `actorRegistry.ts`) | permit, scope of workers, closed flag, a reply latch per submission; the registry's map | submit, close, runExclusive, shutdown | every operation on a node runs in its actor | `SerialCell`, `CellActor` |
| Node cell (`graph/cell`, `graph/readiness`, `graph/operations`, `graph/lifecycle`) | phase (Idle, Acquiring, ReadinessError, Ready, Operating, Invalid), attempt, ready data, args, result | ensure ready, action, refresh, args update, unsafe update, release, teardown | driver hooks, the author's node object, dependencies | `NodeCell` |
| Live resources (`graph/liveness`) | leases, demand, one live resource with a generation | acquire, release and roll back a lease, deliver demand | `live.start/update/stop` of the driver | `LiveResource` |
| Observation (`system/systemLiveness.ts`, `liveness/resultObservationBridge.ts`, `node/runtime.ts`) | a queue of reports and a lease per observed field of a node | observed, unobserved | live leases | `Observation` |
| Planning and eviction (`graph/planning`, `graph/lifecycle/eviction.ts`, `graph/system`) | nodes, edges, overrides, evicted revisions, the planning semaphore | plan, wire, invalidate, evict, submit by request or by id, stop | actors; their workers come back for dependencies | `GraphPlanning` |
| Admission and runtime host (`system/*Admission.ts`, `runtime/*`) | active keyed work, status, operation starts | join, reject, start, submit, stop | graph system, event bus | `Runtime` |
| Disposers, driver contexts (`graph/lifecycle/*isposers.ts`, `graph/driverExecution`) | disposers registered by a hook, abort signals | add, hand off, append, drain | driver hooks | `Disposers` |
| Results (`graph/resultValidity`, `driverExecution/driverContext.ts`) | a result, its validity and load time, what a hook staged | stage, patch, commit, evaluate a policy | readers, acquires | `ResultValidity` |
| Event and signal buses (`runtime/eventBus.ts`, `signalBus.ts`) | sequence, buffers, observers, subscribers, retained signals | emit, observe, publish, subscribe | sinks, observers, subscribers | `EventBus`, `SignalBus` |
| Diagnostics (`diagnostics`, `graph/types/failures.ts`, `readiness/sourceFailures.ts`) | chains of causes, the failures already reported | report, withhold, project | events, error trackers | `Diagnostics` |
| Coordinator (`runtimeCoordinator.ts`) | generation, current lease, transition chain | start, dispose | boots and disposes hosts | `Coordinator` |
| React adapter (`packages/react`) | per-component readiness slot, generation, fingerprint, subscription | boot, read, retry, update args, dispose | runtime client, React | `ReactStore` |
| Devtools, hub (`packages/devtools`, `apps/hub`) | bounded buffers of records, attachments, pending questions | attach, flush, retain, page, ask, show | event bus, sockets | `Devtools` |
| Release scripts (`publish.ts`, `build.ts`) | manifests, build output, the registry | check, build, pack, try, upload | npm | `Publish` |

Hard behaviour: a submission waits for a permit and may be aborted, refused or
cut off by a close at any moment; a hook may answer late, time out or never;
planning, eviction and stop close actors whose workers themselves wait for
planning; interruption in Effect bypasses error handlers, so only finalizers
run; notifications go through user code that may suspend; React runs, cleans up
and replays effects; sockets die without notice; a release half fails.

What makes each component correct:

- *Actor*: one operation at a time, through interruption and shutdown; one
  outcome per submission; nothing starts after close; shutdown ends and leaves
  nothing; every awaiter is answered.
- *Node cell*: at rest it is in no operation and no attempt; a Ready node is
  alive; every incarnation is torn down; a failed attempt is never committed;
  results belong to the args shown; every operation ends.
- *Live resources, observation*: every resource that start returns reaches stop;
  the demand of the leases held is what the resource was given; what is observed
  is demanded, and no longer than it is observed; close ends.
- *Planning and eviction*: what can be acquired has acyclic, complete wiring;
  eviction takes all dependents and leaves no work; invalid stays invalid;
  workers, planners and evictors never wait in a circle.
- *Runtime host*: one run per admitted key; nothing runs after stop; what was
  begun is reported completed with its own work; every caller returns.
- *Disposers*: each runs once in its incarnation, late ones too; none is lost;
  drains end though promises never settle.
- *Results*: a failed hook leaves the committed result alone; what has gone stale
  is current again only by an operation that loads.
- *Buses*: observers and sinks see every record; a published signal has been
  handled by everybody who subscribed before it.
- *Diagnostics*: one failure is one report, on every surface where it shows.
- *Coordinator*: generations do not overlap, the newest start wins.
- *React adapter*: no component waits for a promise nobody settles, and what it
  shows ends up true.
- *Devtools, hub*: records are accounted for, readers miss nothing, questions
  are answered although sockets die.
- *Releases*: what npm serves can be installed, and was tried.

## 2. Modules

### SerialCell, CellActor

`SerialCell` is the promise: an operation is new, pending, active or gone, at
most one is active, exclusive sections exclude operations, each ends with one
outcome, and nothing is activated after the shutdown flag.

`CellActor` is the code. `holder` is the permit; `worker` the fiber forked by
`submit` (waiting, running, unwinding its finalizers, refusing, exited);
`claim` is the `settled` latch, with who set it; `handler` is the
operation's `interrupt`; `reply` the Deferred; `completions` counts
`onComplete`. `InvalidateBegins`, `EvictBegins` and `StopBegins` are the three
callers of `close`, with the order in which they take the semaphore, run their
section (`mark`, `teardown`, `cleanup`) and close the scope. Effects and
handlers are opaque and may suspend; effects may hang.

### NodeCell

One node under one permit. Ops are ensures, actions, refreshes, args updates and
releases; each has a program counter that follows the source between suspension
points (`Synchronous` names the steps that cannot be suspended in; `Quiet`
says no worker is inside one). The closer is a planning invalidation or an
eviction. Interruption handlers run beside the worker as in the actor. Every
attempt makes an incarnation, whose lifetime (`acquiring`, `committed`,
`closing`, `closed`, `discarding`, `discarded`) is followed, and results are
named by the args they were loaded for. `Expire` is the clock. `scenario` is
chosen initially: which operations meet, which of them their callers may abort
(`Abortable`), and whether sinks suspend. `OnePermit` reads a `SerialCell` from
these places: a node takes such steps only, except that a planning invalidation
deletes the actor it closed and the next submission finds a new one.

Abstracted: driver results, validity other than expired or not
(`ResultValidity`), dependency cells (they answer), live leases
(`LiveResource`), disposers (`Disposers`), `unsafeUpdate`. The phases Releasing
and Evicted of the source are never constructed by it.

### LiveResource, Observation

`LiveResource` is one node's leases and its live resource. Parties (workers,
rollback handlers, the closer) are each in at most one live hook. A start that is
interrupted or timed out becomes an orphan whose late resource a detached stop
receives. Whether the driver has an update hook is chosen initially.
Notifications do not suspend.

`Observation` extends it with what submits those operations. The nodes of
successive incarnations (`node`, `open`) report the fields that MobX begins and
ceases to observe (`observed`); each incarnation's reporter takes its reports
one at a time (`sync`, `task`) and keeps the leases it `held`. An operation of
`Reports` is submitted by a reporter only, the others directly. A mix says which
operations meet.

### GraphPlanning

Many nodes and the planning semaphore (`planner`). `stack` is the recursion of
`planNode`; `doomed` the nodes the planner is about to invalidate or evict, one
at a time: close the actor, wait for the permit, mark or clean up. `workers`
are the accepted submissions; an ensure's worker holds its node's permit,
looks its dependencies up, takes the semaphore once for each and awaits
their workers. Cells are reduced to a phase, a dependency slot is named by its
target, teardown and cleanup are single steps.

Submissions by node id *look up first and wait second*: the lookup is an
argument of `withPermit` (`cell/cellSubmission.ts:31`). `look` and
`Cell` model the captured cell, with the dependencies it had and the
incarnation it belonged to; `ghost` is the phase of the cell an eviction
removed. Callers, with the call each may make, come from `Calls`; `Impatient`
callers may be interrupted while they plan.

### Coordinator

Each call of `start` or `dispose` is one value. `gen` is the generation it
claimed, `after` the promise it is chained behind, `pc` how far its body is:
bodies run from await to await. A lease is named by the start that created it
(`lease` is what became of it); `seen` is history, the runtime that was active
when the call was made. `createLease` and a lease's `dispose` take any time
and may reject.

### Runtime

The host over one node, ready or not there (`call.found`). `caller` is a
caller's path through the host: registered with the operation starts, admitted
in the graph, awaiting a task (its own, or the one it joined), reporting a
refresh, gone. `worker` and `settled` are the actor's worker and reply latch, as
in `CellActor`; `admitted` is the map that `join` and `reject` look at;
`pending` holds the registered starts and `active` the work of running
operations (`operationStarts.ts`); `startedAs` and `completedAs` record which
work the node's events carried. `stopping` is the owner of the stop, step by
step, with `subscribed` and `closed` as it leaves them. A command in `own` is
called by the node's code, past the host's admission and without a registered
start. A command whose node is missing fails in the graph and is completed by
the host.

An event is recorded with its observer's bookkeeping in one step; the sinks then
suspend the emitter, so a step follows. The actor and its registry close
in one step. The completions emitted under the planning permit, by a rejection
or by a closed registry, are recorded together with the admission.

### Disposers

`bag` is the list of one operation (`operationDisposers.ts`), `list` and
`settled` the registry of a ready incarnation (`disposers.ts`), `hook` the
registry a release hook is given. `invoked` is the once-only set all of them
share in one incarnation. `stage` is where the worker is: an acquire hands its
bag over, an operation appends its own, a failure, an interruption or a teardown
drains. `drain` is a batch with what is left of it and the promises it awaits.
Driver code may add at any time, after its operation too. `calls`, `added` and
`forgotten` are history; `forgotten` holds exactly the registrations the code
drops (section 5).

### ResultValidity

One node with the clock. `op.staged` is the result state a hook stages through
its context: set, patched, given a validity, committed with any load time;
`ready` what the node committed. Whether the staged object *is* the committed
one, and whether the hook wrote into it, is `shares`, `cloned`, `wrote`, `back`.
`churned`, `torn` and `vouched` are history: `vouched`, that the hook (in `op`) or the
commit (in `ready`) handed over a loaded result or said how valid it is, which the
plain value of an action does not (`"preserve"`). Policies come from `Policies`;
`Normalized` is what the source admits.

### EventBus, SignalBus, Devtools

`EventBus`: `work` is what emitting fibers still have to do, a pass over a
snapshot of the observers or a sink's answer; an observer that throws is an
event for the sinks, a sink that fails one for the observers, until the depth
ends the exchange. `SignalBus` extends it: a publication is numbered, retained
under its channel's policy, announced on the event bus, and then runs the
subscribers of the snapshot taken after that, in order (`publishing`).

`Devtools` extends both with a client and a hub. A session is one attachment:
the client (`client`, `buffer`, `dropped`, `flight`) observes the bus, flushes
in batches and attaches again when its socket dies; the hub's handler turns
messages into actions of the attachments node, queued in `mail`; a row has a
`ring` of retained records, and an `outbound` queue of questions with those
pending in `channel`. `reader` pages through a ring; `board` is the dashboard,
which may be paused over a frozen tail. A *plan*, chosen initially, says how
much of each a behaviour has.

### Diagnostics

A failure is the sequence of its frames, outermost first; the serial of the
attempt or operation that made a frame is the identity of the object. Ensures,
actions and refreshes of several nodes fail, expire and are retried;
`source` is the set in which an attempt notes what it reported
(`sourceFailures.ts`), `records` the events that carry failures, with the
reports they lead to. An action or refresh whose dependency is not ready fails at
once, around that dependency's status. `projectError` and `createErrorReport`
project a chain as the source does. An observer may suspend between an error's
commit and its event.

### ReactStore

A component of `Size` nodes. Each store has a readiness slot (`slot`), the
promise callbacks that are due, its generation and whether it is disposed or
listens; the composite store caches what it showed. `stage`, `view` and `dirty`
are React's: mounting, suspended, committed, hidden by an Activity, its effects
cleaned up and replayed. Nodes answer, expire and are evicted by themselves;
`news` is a notification that is due. `fingerprint` and `held` are the args
the store believes in and the runtime holds.

### Publish

The tree (`manifest`, `source`, `dist`), the registry and one run of the script
at a time, from the metadata checks over build, pack and smoke to the uploads.
What is packed, tried and uploaded is taken from the tree each time, because
`prepack` rebuilds it. Steps fail; the process is killed anywhere; an upload
may succeed unheard; the developer edits and tries again. `QuietTree` says that
nobody edits while a run is under way.

## 3. Runs

| Run | Question | Instance and why it is enough |
|---|---|---|
| `cell_actor` | Does the actor implement the serial cell, does shutdown finish and leave nothing, although effects hang? | An interruptible submission and a shared one, one invalidation, eviction or stop: every pair of claimants of a latch and every pair of permit holders meet. The safety properties are proved for every set of submissions (section 4). |
| `node_lifecycle` | Does a node settle, are results right, does every operation end? | Five mixes: an action, an ensure and an args update with suspending sinks; an action its caller may abort among two of an ensure, a refresh, an args update and a release. Three attempts (first, expired, again), one invalidation or eviction. |
| `live_demand` | Is demand delivered and nothing lost, is what is observed demanded and no longer, does close end? | Three mixes: the result and a field of one node, observed and let go; a direct lease beside an observation that a release ends; two incarnations, both observed. Three starts, hooks that fail, time out or answer late. |
| `graph_wiring` | Do evictions find all dependents, is what can be acquired free of circles, is nothing orphaned, do all calls end? | A chain of three nodes; other args close a cycle, contradict the wiring or are malformed or rejected; four callers: a readiness, a plan that invalidates, an eviction, a second readiness, or a release of a sound node. Nineteen scenarios. |
| `generations` | Do generations of the runtime never overlap, does the newest start win, does every call settle? | Three starts and two disposes, called in any order and at any moment; boots and disposals may reject. Enough for a boot superseded by a start or a dispose with a start behind it, and for a second dispose. |
| `runtime_host` | Do commands that join, are rejected, leave or are stopped all return? One run per key, nothing after the stop, every started action completed? | Three commands, or two and two callers of stop; five mixes of keys, in which two meet in one key and the third, or a stop, comes between them; and commands whose node is not there, with a stop. Anybody may leave at any moment. |
| `disposers` | Does every disposer run once, is none lost, do drains end? | Two functions, two incarnations, three registrations anywhere (a bag, a bag after its operation, the release hook), one interruption of the worker: enough for a late add of the first incarnation beside the second, and for one function in two lists. |
| `validity` | Is a committed result safe from a hook that fails, does anything but a load make a stale result current? | Five policies: none, stale then expired, stale only, expired without a warning, expired at once. The clock has four instants, one more than a result needs to be loaded, go stale and expire. |
| `react_store` | Does a component ever wait for a callback that will not come, does the fingerprint name the args held, does what is shown end up true? | Two entries, three args, three readiness attempts of both together, two changes of args, one replay of effects: enough for an overtaken update and for a promise of a generation before. |
| `devtools` | Are records accounted for, readers answered, nothing missed by paging, published signals handled, does the hub catch up? | Nine plans, each with room for one matter: records out of order on the bus; failures that cause failures; a full buffer; a lost socket with records in flight; questions beside a lost socket; the dashboard over three attachments; signals with subscribers that come and go. Buffers of one and two; questions are interchangeable values (`p`, `q`). A reader is owed what its cursor passed in order (`InOrder`). |
| `diagnostics` | Is a failure reported once, is none withheld that nobody reported, does every surface project alike? | A screen over a session over a wallet and a quote, one invalid node, drivers that fail in three ways, two callers (interchangeable, so symmetry is sound: no liveness is checked), three failures made: enough for an aggregate of two and its retry. |
| `publish` | Is nothing served before what it names, is nothing uploaded that was not tried? | Three packages (one ships as source), the list in each of six orders, three runs, one edit, one kill: a failed, a killed and a repeated release. |

Bounds: `MaxAttempts` (NodeCell, ReactStore) and `MaxStarts` (LiveResource) stop
new attempts and starts, `MaxNodes` (Observation) and `MaxGen` (Disposers) new
incarnations, `MaxAdds` and `MaxInterrupts` registrations and interruptions;
`MaxTime` the clock of ResultValidity; `MaxUpdates` and `MaxHides` changes of
rendered args and replays of effects; `MaxSerial` the failures made;
`MaxVersion`, `MaxEdits`, `MaxRuns` and `MaxKills` what happens to a release;
a plan's fields what happens in Devtools,
`MaxSessions` the sessions of any plan. `EvictionAssumption` (GraphPlanning)
allows one eviction in a scenario, so a node has at most one evicted cell; every
operation is submitted once. No run explores wrap-around: ids in the code are
unbounded numbers.

`CHECK_DEADLOCK` is off where the system may stop: callers need not call, an
effect may hang, and what has ended may rest for ever. In `validity` a hook can
always begin or end, so it is on.

The type invariants (`TypeOK`) of `CellActor`, `NodeCell`, `LiveResource`,
`Observation`, `GraphPlanning` and `Coordinator` are proved, the shapes the proofs
of `Disposers`, `ResultValidity`, `ReactStore` and `Publish` need are part of their
inductive invariants, and the others are stated beside the properties; any run
can check them as a further INVARIANT.

### Fairness

- `CellActor`: weak fairness of `Runtime`, the Effect scheduler. Ends of
  operations and calls are not fair.
- `NodeCell`: weak fairness of each worker, handler and the closer. Hooks end
  because the driver timeouts bound them (`driverOperationRunner.ts`,
  `lifecycle/cleanup.ts`); sinks and dependencies are assumed to answer.
- `Observation`: weak fairness of `Progresses`, the fibers and the promise chains
  of the reporters; the live timeout bounds hooks. Late answers of orphans,
  observers and callers are not fair.
- `GraphPlanning`: weak fairness of `Runtime`. Every behaviour of a finite set
  of calls has finitely many steps, so one condition is enough. Calls and
  interruptions are not fair.
- `Coordinator`: weak fairness of each call's body. It includes the host's
  `createLease` and `dispose`: a boot that never settles blocks the chain, and
  the code has no way around it. Calls are not fair.
- `Runtime`: weak fairness of `Run`, whatever the scheduler runs for calls that
  have been made. Every call has finitely many steps, so one condition is
  enough. Bodies, sinks and cleanups are assumed to end. Calls and
  interruptions are not fair.
- `Disposers`: weak fairness of `Worker`. A deadline bounds every disposer, so a
  promise need never settle.
- `ReactStore`: weak fairness of the runtime's notifications and promise
  callbacks, of React's renders and effects, and of the nodes' answers. What the
  user and the application do is not fair.
- `Devtools`: weak fairness of `Runtime`, both processes' schedulers; sockets may
  die at any time, a plan bounds how often.

`ResultValidity`, `Diagnostics` and `Publish` have safety properties only.

## 4. Proofs

Eight modules hold the proofs. `CellActorProofs`, `NodeCellProofs`,
`GraphPlanningProofs`, `RuntimeProofs` and `DisposersProofs` each extend the module
they are about. Three speak of two modules each: `ReadyDataProofs` of `Observation`
(with `LiveResource`) and `ResultValidity`, the parts of a node that live and die
with its ready data; `GenerationProofs` of `Coordinator` and `ReactStore`, which
number what they make in generations; `DeliveryProofs` of `Publish` and `Devtools`,
which hand something on piece by piece. Each extends both, whose definitions have no
name in common (`StoreSpec`, `ResultSpec`, `DevtoolsSpec`); a theorem speaks of the
variables of its own specification only.

`CellActorProofs` proves for every set of submissions the type invariant, that
operations and exclusive sections exclude each other, that every submission has
one outcome, that nothing starts after close or beside a teardown, and
`ShutdownLeavesNothing`. None is inductive alone. `Inv`
adds: `PermitInv`, that `holder` agrees with the states of workers and sections;
`LatchInv`, that a handler has started exactly if an interruption claimed the latch,
and that a worker past its operation has a claimed one; `ClosersInv`, which ties
each closer to its section and to the planning semaphore that keeps an
invalidation and a shutdown apart; `ShutdownInv`, which says what a shutdown has
yet to settle. Each is preserved by every action (`PermitStep`, `LatchStep`, ...,
one step per action); the theorems follow from `Invariance`. The only assumptions
are that interruptible submissions are submissions and that no submission is
called like a section.

The same module proves that the actor implements `SerialCell`: under `Inv` each action
maps to a step of `SerialCell` or a stutter. It rests on permit exclusivity, since a
`SerialCell` may activate an operation only when no other is active.

`NodeCellProofs` proves the types and the four invariants of `node_lifecycle`,
and `CompletedOnce`, `OwnCompletionOnly` and `OperationsSettle` (where nobody aborts)
beside them, for any operations, args, attempts and closers, with and without
suspending sinks. Nothing of it is inductive alone, because an operation holds
the permit over many steps and its worker, its handler and the closer each
leave it in a different place. `IInv` says what every one of these places knows:
`Permit`, that a program counter is inside an operation exactly if its party holds the
permit; `Attempts`, that the attempt in the phase is open, and that an operation on
its way through one finds the phase it left unless a handler answered it
meanwhile; `Owned`, that an incarnation which is not over is in the phase, or is the
one the permit holder works on (`Owner`); `Teardown`, that what an operation tears
down is in the phase, and what an invalidation tears down is not; `Closing`, when the
actor is closed and who may be interrupted before that; `Intact`, that the ready
incarnation is alive except while an operation tears it down; `Agree`, that node,
args and result agree except while an args update loads its result, and that what it
rolls back to then agrees; `Running`, that an operation in the phase is the permit
holder's and about to be settled; `Once`, that an action which was reported is past
its report or was interrupted. The theorems are what `IInv` says of a node at rest. From
it follows `PermitIsSerial`, too: the node, which holds the permit over many steps and in
as many places, implements the serial cell of `CellActor` (`OnePermit`). And with
`Released`, that the incarnation in the phase was released at most by the operation about
to leave it, by one a close interrupted there, or by the closer, and `Fresh`, that an
attempt under way has released nothing, `OnlyACloseRepeats`: where no caller aborts, a
release hook is started again only by the cleanup of a close, and by that once (no run
lists it; its hypothesis holds in the first mix of `node_lifecycle`). The
assumptions are `OpAssumption` and `ParameterAssumption`: the kinds of operations
and what the parameters range over.

`ReadyDataProofs` proves the live resource first, as a component of its own.
`LiveInv` has four parts beside the types: `Permit`, that who is in a live hook
has the permit, a handler excepted; `Closing`, that handlers run and demand is
rolled back only in a closed actor; `Serial`, that until then every running
resource is the one in the slot and every hook is about that one; `Brings`, that
the hook under way brings the demand of the leases, or that the last one did.
`SerialDeliveryLosesNothing` and `DemandIsDelivered` follow. It then proves that the
composition `Observation` takes only steps of `LiveResource`
(`ImplementsLiveResource`), which carries both over, and `ResultDemandFollows` for any
number of incarnations, reporters and leases. That one needs an account of all
that is under way, `OInv`, while the actor is open: `Ledger`, that the lease book
of the cell is what the reporters know, corrected by the operation each awaits;
`Tasks`, that an operation under way has one reporter, whose report it answers;
`KnownOnce`, that a lease is known to one reporter and is its only one for the
scope; `Nodes`, that the node which is open is the newest; `Follows`, that the last
report on its way, else the one being answered, else what is known, agrees with
what is observed. `Rooms` is about the instance: a reporter never runs out of
operations to submit (`Room`), so that a report is skipped only for the code's
reason. The assumptions are those of the modules; `LeasesAssumption` says what the
code does by numbering: each acquisition makes a lease of its own, and only its
reporter gives it back.

Of `ResultValidity` it proves `StagingIsolated`, and `NoChurn` and
`ExplicitSurvives` beside it, for any normalized policies (`PoliciesAssumption`) and however far
the clock goes. `Staging` is what makes them inductive: the last word of the hook
that runs stands on its stage, an acquire shares no object with the node, and what
was written in place after a first patch was put back there by the hook. `SaidStands`
carries the last word past the commit. `OnlyLoadsRenew` is an action property:
`Unrenewed`, that a stage nobody vouched for is dated as the committed result and is
no fresher, gives what a commit can show, and `AgeingIsOneWay` that time between two
steps only takes a result further from being current.

`GenerationProofs` proves of the coordinator, for every set of calls that the type invariant and
the safety properties of `generations` hold. The inductive invariant `IInv`
rests on `InOrder`: below a call that has begun every call is settled. It
follows from `Chain`, that a call waits for the call with the generation before
its own, and gives that at most one body runs (`OneRuns`) and that none runs
while a lease is active (`Alone`). `Witnessed`, that whoever called after the
active boot saw it active, gives `NewestWins`. The assumptions are that starts
and disposes differ and that `None` is neither.

Of the stores it proves `SlotWillSettle` and `FingerprintHonest`, for any nodes, args,
attempts and replays of effects. For the first, `Stores` says that a slot which is
not settled has its callback due in the store's own generation; every way of
making, gating and showing a slot keeps it, and a new generation starts
without slots. For the second, `Leads` says that the updates under way form a chain
from the args the runtime holds to the fingerprint, each sent over the one
before, unless a mishap was recorded (`misled`); an answer takes the first link, and
a failure leaves the next without its foundation. The assumption is `SizeAssumption`: a
component has an entry, and args.

`RuntimeProofs` proves `OneRunPerKey`, `StopMeansStopped` and
`StartsAreCompleted` for any commands, policies and callers of stop. The
inductive invariant `IInv` has a part for each: `Admission`, that the unanswered
command of a keyed admission is the admitted one; `StopOrder`, that workers are
gone before the host unsubscribes and before anybody is answered; `Reported`, that
an action which is settled or past its report has a completion. They rest on
`Submitted`: nothing of a command exists before it is submitted, and only a
settled command is being interrupted. `Books` are the types with `RegisteredIsInFlight`, that a
registered start is of a command in flight, under its key and once: a start is appended
by a caller that was not in flight yet, withdrawn before its caller has returned, and else
only taken from the front (`Fewer`). The assumption is `RuntimeAssumption`: what
each key's policy may be.

`DisposersProofs` proves `OnceOnly` and `NothingLost` for any disposers, any
number of incarnations, registrations and interruptions. `Once` says that the
once-only set of an incarnation is exactly what was called, which makes
`OnceOnly` inductive. `Places` says which stages run a batch, when a registry is
settled and when a release hook's list is open; without it a drain could
overwrite a batch that still holds a disposer, or an add could land in a list
that was drained. The lemmas on `Members` say what appending, reversing and
taking from a list does to the disposers in it.

`DeliveryProofs` proves `DependenciesFirst` when `QuietTree` holds, for any
packages, dependencies and lists. `Checked` says that the manifests of a run pass
the checks it began with, which needs the quiet tree; `Prefix`, that at the uploads
everything before the package at hand is served. With the order checked and the
ranges the tree's, a package's dependencies are then served before it. Under the same
hypothesis it proves `SmokeTriedTheUploads`, through failures, kills and reruns:
`Whence` says where what is packed comes from. `HalfBuilt` says that a package
whose types are being rolled up was compiled from the sources of now; `Rebuilt`, that
the one about to be packed waits to be rebuilt, or was; `Tarballs`, that what is packed,
installed and uploaded is each package whole: its manifest, and files all from the
sources of now. The assumptions are `PackagesAssumption`, that the list names every
package once, and `PrepackAssumption`, that a package with a target is among those its
`prepack` builds.

Of an attached application it proves `NothingUncounted` and `NoOrphanQuestion`, for
any plans, any number of sessions and any capacities of buffer, ring and channel
(`DevtoolsAssumption`). `Counted` is the account: before a client is attached nothing
of its session has left the buffer, the ring of its row is empty and what it was given
is what it buffered and dropped; from then on what the hub counts, what is in flight,
the buffer and the drops add up, and ring, batch and buffer are the end of what was
buffered, also across a trim of the ring (`Trimmed`). That rests on `Handlers`: a
session is registered by exactly one message, which its handler waits for, so no row
is emptied under an attached client, and an interrupted handler withdraws it.
`Questions` adds to `NoOrphanQuestion` only that who waits asked an attachment. The
bus enters through one fact, that records are numbers: whose pass calls the observer
when, and who fails meanwhile, is left open to this account.

`PagingMissesNothing` holds for any plans and any sizes of page and ring. `PInv` says
that records are positive numbers (`Numbers`), that nothing is in flight or was read of
a session that is not registered yet (`Past`), that ring and batch of a row continue
each other in what was kept (`Follows`), and that the cursor is 0 or the number of a
record that arrived and was got (`Cursor`). A page is found by binary search in a ring
that need not be sorted, so its place is known for one case only: if all up to a record
came in order, the search does not end after it. That is an induction over the
steps of the search, which is proved by a smallest counterexample (`Induction`): a number is
the least of a nonempty set, by the well-foundedness of the naturals.
`PublishedMeansHandled` holds for any subscribers that come and go, snapshots and
failures. `SInv` has three parts: `Subscriptions`, that the list of a channel holds each
subscriber once and with when it came; `Deliveries`, that a publication under way has run
no callback, or some once and has the others it owes still ahead, and that one which is
over ran all it owed; `Buffers`, that a buffer of n holds the newest signals of its channel
in order. `FrozenTailsAreTheCursors` proves `PausedTailIsTheCursors`: whom the cursor was put
on has been registered (`Watched`), and a session is registered once, so no row appears
under a cursor that fell back.

`GraphPlanningProofs` proves `NoOrphanWork` and the types for any finite graph, any
wiring and any calls, with planners that leave at any point. A worker may be
submitted to an actor while its node is being shut down, so the step that forgets
a node is safe only because of what came before it. `Shutdown` says that the node
shut down is the first one doomed, its actor closed, or gone if the teardown of an
earlier invalidation ended meanwhile; `Permit`, that a teardown and a cleanup hold
the permit of an actor whose workers have all gone; `Unowned`, that a node without
an actor has no work; `Semaphore`, that only its holder has nodes to visit or to
take down. The types carry one fact of the recursion, that an activation whose
dependency was planned still has it ahead: without it `RecordEdge` would read past
the end. The assumptions are `WiringAssumption`, `CallAssumption` and
`PartyAssumption`; the bound of one eviction is not used. 
Under `WholeEvictions` (no eviction is interrupted, and a root that is kept is on no
declared cycle) it proves `EvictionsFindDependents`, that whatever an unevicted cell
depends on has the edge by which an eviction would find it. `EInv` adds that edges join
planned nodes as declared (`Ends`), that what an activation has still to plan is all it
has no edge to (`Frames`), and that while an eviction goes on a dependent of what it
forgot is doomed too (`Covered`, `Upward`). The last rests on the closure being complete:
the breadth-first search, whose depths are a recursion, reaches whatever it reaches within
as many steps as there are nodes (`Within`, by `Induction`).

Under `SoundReleases` as well (whoever is released is on no declared cycle)
`CirclesAreInvalid` proves `AcyclicWiring`: planned nodes that are not Invalid never
depend on each other in a circle, so no worker waits for itself. `AInv` adds that
activations are of different nodes, each for the next one's sake (`Path`), that nobody
depends on a node whose dependencies are not recorded yet (`Unfounded`), and will not on
what an activation has planned (`Behind`), and that a visit which comes back to an
activation dooms it (`Turned`). So recording closes no circle of its own. What a
release makes acquirable again is no part of one either, since a smallest circle has
only nodes on declared cycles (`CirclesAreTied`). `WiringStaysSound` is both, and the
run's `SoundWiring`. The code assures neither hypothesis (section 5 says what happens
without them); the run's `evict` scenarios satisfy both, and in the others
(`evictDependents`, `release`) `SoundWiring` is checked by TLC.

Model-checked only: liveness (out of the prover's reach; `EveryCallEnds`,
`ViewSettles`); `Diagnostics` (its recursion over chains of causes needs RECURSIVE
operators); what else `ReactStore` states; and the types of `SignalBus` and `Devtools`.

## 5. Where the code and its documentation disagree

Seen in the models and kept out of the runs. Where a definition is named, giving
it to its module's run as an INVARIANT or PROPERTY shows the behaviour.

**Actor and node cell**

- `CellActor.CancelledNeverStarts`: a queued operation whose awaiter was
  interrupted can start while its handler is suspended (`cellActor.ts:109` looks
  at `closed` only), against "settles without invoking the driver"
  (`skills/frond-node-authoring/SKILL.md:342`).
- `CellActor.OnCompleteBeforeAwaiters`: `onComplete` may run after the awaiter
  resumes, against the comment at `cellActor.ts:33`.
- `NodeCell.EveryOperationEnds` without its `Abortable` clause: an action aborted
  during its implicit acquire leaves the phase Acquiring with an attempt nobody
  makes (`acquireOperation.ts:171`, `readiness/index.ts:61`); later ensures wait
  for ever (compare `graph-action-signal-cancellation.test.ts:182`). The attempt
  of an action that an eviction closes is never completed either.
- `NodeCell.ReadyIsAlive` without that clause: an action aborted while it tears an
  expired incarnation down leaves the node Ready with an aborted signal.
- `NodeCell.OperationsSettle` in a scenario with aborts and suspending sinks: an
  interruption between the commit of Operating and the attachment of the
  finalizer leaves Operating. In the run's scenarios it holds.
- `NodeCell.CompletedOnce` in such a scenario, without its `SinksSuspend` clause:
  the handler and the worker both report an action.
- `NodeCell.ReleasedOnce`: a release cut off by a close is repeated by the
  close's cleanup, so a release hook may run twice for one incarnation. Nothing else
  repeats one where no caller aborts (`OnlyACloseRepeats`, proved).
- An `unsafeUpdate` recipe that throws after it wrote leaves node and cell
  apart; an args update that is interrupted keeps the new args.

**Live resources, observation**

- `LiveResource.EveryResourceStops`: a planning invalidation commits Invalid before
  the teardown, whose live stop then finds no ready data (`plan.ts:394`,
  `liveness/index.ts:310`): the resource keeps running, against `cleanup.ts:27`.
  With rollback: a rollback beside the worker's own start overwrites its
  resource. `SerialDeliveryLosesNothing` excludes both.
- `Observation.FieldDemandFollows` with `Mixes <- ReleasedField`: the lease of a
  field other than `result` that is observed while its node is released, or
  expires, is never given back (`cleanup.ts:56`, `node/runtime.ts:189`,
  `resultObservationBridge.ts:47`; compare `fine-liveness-composition.test.ts`).

**Planning and eviction**

- `GraphPlanning.NothingOutlivesEviction` with `Calls <- MCEvictions`: a submission
  by id that looked its cell up before an eviction acquires the evicted cell
  (`cellSubmission.ts:31`); nothing can tear it down, against the guarantee of
  `packages/core/README.md:179`.
- `GraphPlanning.AcyclicWiring` and `EveryCallEnds` when two invalidated nodes of a
  cycle are both released: they become Idle and acquirable again (`cleanup.ts:80`),
  and their workers wait for each other for ever. `SoundReleases` excludes it; the
  run's scenario releases a sound node.
- `GraphPlanning.EdgesCoverDependencies` when the dependents of a node that depends on an
  invalidated cycle are evicted and the node is kept (`eviction.ts:87`). With leaf
  depending on mid, and mid and top on each other, mid is forgotten with its edges,
  leaf keeps its cell and the dependency, and a later eviction of mid would not find it.
  `WholeEvictions` excludes it, and interrupted evictions.
- `LookUp` while a plan is wiring the node: the captured cell has no
  dependencies yet and the driver acquires without them.
- `Leave` between `VisitNext` and `RecordDependencies` (`plan.ts:210`): an idle
  node without its dependencies stays behind; the next plan finds a mismatch and
  invalidates it for good.
- An eviction whose caller is interrupted leaves a shut-down actor registered.
- Eviction goes by breadth-first depth, which is not a topological order when a
  dependent is reached both directly and indirectly. Tests have chains and
  diamonds. The table of specifications by tag is not cleared.

**Runtime host**

- `Runtime.CompletionsCarryTheirWork` with `Scenario <- Foreign`: an action that ends
  without an operation of its own (rejected, or aborted in the queue) is reported
  with the first start registered for the action (`operationStarts.ts:109`),
  though that is another command's, against `apps/hub/README.md:45`. An operation
  that begins after it is then itself reported with another command's work.
- `completedAs`: an action interrupted after its operation has left the
  phase is reported twice, by its handler and by its worker; interrupted before
  that report, its entry in `active` stays.
- `Leave` of the caller that leads a refresh: the refresh goes on and
  its start was reported, but nobody reports its end.

**Disposers**: what `forgotten` holds. A drain that is interrupted drops the rest
of its batch (`operationDisposers.ts:134`); an add to a release hook's registry
after its drain is never run (`cleanup.ts:107`). `Disposers.QuiescedFirst`, that
callbacks bound to the node's signal quiesce before cleanup runs, holds.

**Results**

- A slow acquire that stages its result, or returns a commit without a load time,
  is dated at its start or at the stage, so it may be expired on arrival, against
  the comment at `acquireOperation.ts:136` (`NoChurn` speaks of plain values).
- A result committed as Stale never becomes Expired (`resultValidity/index.ts:135`;
  compare `skills/frond-node-authoring/SKILL.md:263`).
- patch, `setResult` of the committed object, patch: writes into the committed
  object (`driverContext.ts:117`); `StagingIsolated` excludes it by `back`.
- Nobody is told when a result expires; `projectNodeRead` shows the stored
  validity (`projection/index.ts:135`), not the effective one.

**Buses and diagnostics**

- A subscriber's failure is recorded with the whole signal even if its channel
  retains nothing (`signalBus.ts:78`), against `packages/core/README.md:313`.
- Failures of observers do not reach the other observers (`eventBus.ts:66`).
- With a suspending observer an action's event can report a failure before the
  attempt's own (`readinessAttempt.ts:41`), against `report.ts:60`.
- Where the failing block names no kind, fingerprint and kind depend on who asked
  (`report.ts:33`, `projection.ts:132`); `RequestersAgree` excepts it.
- A refresh of a node in Error wraps the whole status (`refreshOperation.ts:34`),
  so the failure is reported again under another type, against
  `events/index.ts:279`. The failure of an invalid node is reported by every
  ensure; a refresh that joined one is reported twice, or not at all.

**React adapter**

- `ReactStore.OwnedRollback` with `MaxUpdates = 3`: args that go b, a, b give the later update the
  fingerprint of the earlier one, whose failure rolls it back
  (`nodeStore.ts:325`, against `nodeStore.ts:346`; `nodeControls.ts:178` compares
  attempts instead). Two overlapping failures leave args the node never took.
- A store mounted over a node with other args takes its own for the node's; an
  Activity that is revealed runs the args effect while the store is disposed
  (`useReactNodeStore.ts:61`); a second `retry()` does nothing
  (`nodeStore.ts:99`).

**Devtools, hub**

- A socket that dies after its row was attached and before the stream has its
  finalizer leaves the row for ever (`hubServer.ts:132`). `Devtools.DeadIsForgotten`
  speaks of streams that began, and holds.
- "Sorted by construction" (`retention.ts:147`) needs sequence order, which
  concurrent emits do not keep (`eventBus.ts:132`): a page can skip a late
  record, and one that came in time but was overtaken: of 2, 3, 1, 4 with 2 read and
  trimmed, the search after 2 in 3, 1, 4 lands on 4. `PagingMissesNothing` speaks of
  records that came in order up to the cursor.
- A paused dashboard whose cursor was never moved shows the first attachment's
  header over another's frozen tail (`dashboard.ts:186`).
  `Devtools.PausedTailIsTheCursors` speaks of a cursor that was, and holds.

**Releases**: `npm publish` runs `prepack`, which builds again after the smoke: with
`QuietTree = FALSE` both properties of `publish` fail. A release that failed half way
cannot be completed by running it again, because the packages already there make
npm refuse (`publish.ts:983`). `Publish.DirectoriesRemoved` holds.

## 6. Plan

Done: `SerialCell`, `CellActor` with proofs and refinement; `NodeCell`,
`LiveResource`, `Observation`, `GraphPlanning`, `Runtime` (commands, stop, operation
starts and keyed admission), `Coordinator`, `Disposers`, `ResultValidity`, `ReactStore`
and `Publish`, and `Devtools` over the two buses, all with proofs; `Diagnostics`.

To model next: what an eviction does to the admitted refreshes, inputs and queries
of the host, interrupted publishers. Runs are kept few: each asks what no other asks, and the disagreements of section 5
stay out of them.

## 7. Not modelled

- *Value constructors, adapters, the transition runner* (`cancellation.ts`,
  `envelope.ts`, `interop.ts`, driver authoring): no protocol to check. Node
  and key definitions are pure data; a key that cannot be made is left out.
- *The testing harness* is no part of a running system.
- *MobX nodes*: the projection of reads into boxes. Observation in the other
  direction is modelled.
- *Runtime host*: start, inputs, queries; the clearing of admissions by an
  eviction; the failures a cleanup reports; the end events of refreshes and
  args updates.
- *Observation*: scopes the driver does not support, several author fields in one
  scope, expiry, reports after a planning invalidation.
- *Signal bus*: interrupted publishers, the host's admission of `publish`, nested
  publications that are awaited.
- *Diagnostics*: wording, headlines, stacks, masking and truncation; cycles of
  causes; nodes that depend on invalid ones.
- *React adapter*: callables and the boundary component.
- *Devtools, hub*: the encoding of records and snapshots, rates, pages, the MCP
  tools and the user interface.
- *Releases*: argument parsing and output.

Formatting, spans and logging are left out everywhere.
