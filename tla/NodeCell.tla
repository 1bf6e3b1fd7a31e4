------------------------------ MODULE NodeCell ------------------------------
(***************************************************************************)
(* The lifecycle of one node: the phase machine of its cell                *)
(* (cell/cellTransitions.ts) driven by the operations the actor runs:      *)
(* readiness, actions, refreshes, args updates and release, with expiry,   *)
(* planning invalidation and eviction.                                     *)
(*                                                                         *)
(* CellActor shows that operations hold the permit one at a time, so here  *)
(* the actor is its permit, its closed flag and, per operation, the        *)
(* interruption handler, which runs beside the worker.  A fiber runs until *)
(* it suspends: on a driver hook, on other nodes, on disposers, and on     *)
(* notifications when the sinks of the host may suspend.                   *)
(*                                                                         *)
(* Every readiness attempt makes one incarnation (a lifetime signal and a  *)
(* disposer registry), so an incarnation has the number of its attempt.    *)
(* Results are named by the args they were loaded for.                     *)
(***************************************************************************)
EXTENDS Naturals, FiniteSets

CONSTANTS
  Op,           \* the operations that may be submitted for this node
  KindOf,       \* what each of them is
  Scenario,     \* who meets whom, see the assumption
  MaxAttempts,  \* bound on readiness attempts
  HasRefresh    \* whether the driver has a refresh hook

Kind == {"ensure", "action", "refresh", "args", "release"}
Closer == "closer"          \* planning invalidation or eviction
Party == Op \cup {Closer}
Attempt == 1..MaxAttempts

ASSUME OpAssumption ==
  /\ KindOf \in [Op -> Kind]
  /\ \A s \in Scenario :
       /\ s.ops \subseteq Op                     \* the operations that are submitted
       /\ s.abortable \subseteq {o \in s.ops : KindOf[o] = "action"}
                                               \* those whose caller may abort them
       /\ s.sinksSuspend \in BOOLEAN           \* whether notifications may suspend
  /\ Op \cap {Closer, "nobody"} = {}
ASSUME ParameterAssumption ==
  /\ MaxAttempts \in Nat
  /\ HasRefresh \in BOOLEAN

VARIABLES
  scenario,
  phase,           \* the cell's phase
  nextAttemptId, nextOperationId,
  outcome,         \* the Deferred of each attempt
  incarnation,     \* lifetime signal and disposers of each incarnation
  releases,        \* how often its release hook was started
  args, result,    \* in the cell's phase
  nodeArgs, nodeResult, \* in the author's node object
  expired,         \* the clock has passed the result's expiry
  holder, closed, reason, \* permit, closed flag, who closed the actor
  pc,              \* progress of every operation and of the closer
  attempt,         \* the attempt an operation made or awaits
  operation,       \* its operationId
  ready,           \* its readiness read said Ready
  captured,        \* the incarnation the permit holder is tearing down
  saved,           \* what the permit holder's args update rolls back to
  handler,         \* the operation's interruption handler
  completions      \* ActionCompleted notifications of an operation

cellVars == <<phase, nextAttemptId, nextOperationId, outcome>>
incarnationVars == <<incarnation, releases>>
dataVars == <<args, result, nodeArgs, nodeResult, expired, saved>>
actorVars == <<holder, closed, reason>>
operationVars == <<attempt, operation, ready>>
handlerVars == <<handler, completions>>
steps == <<cellVars, incarnationVars, dataVars, actorVars, pc, operationVars,
           captured, handlerVars>>
vars == <<scenario, steps>>

Abortable == scenario.abortable
SinksSuspend == scenario.sinksSuspend

-----------------------------------------------------------------------------
(* Phases *)

Idle == [tag |-> "Idle"]
ReadinessError == [tag |-> "ReadinessError"]
Invalid == [tag |-> "Invalid"]
Acquiring(n) == [tag |-> "Acquiring", attempt |-> n]
Ready(g) == [tag |-> "Ready", gen |-> g]
Operating(g, id) == [tag |-> "Operating", gen |-> g, operation |-> id]

\* The phases of a cell.
CellPhase ==
  {Idle, ReadinessError, Invalid}
    \cup {Acquiring(n) : n \in Attempt} \cup {Ready(n) : n \in Attempt}
    \cup [tag : {"Operating"}, gen : Attempt, operation : Nat]

\* What became of the promise of an attempt, and of an incarnation: its lifetime
\* signal and the registry it hands on.
AttemptOutcome == {"none", "pending", "Ready", "Error"}
IncarnationState ==
  {"none", "acquiring", "committed", "closing", "closed", "discarding", "discarded"}

HasReadyData == phase.tag \in {"Ready", "Operating"}

Live(o) == pc[o] \notin {"none", "done"}

\* Where a worker is while its fiber does not suspend.
Synchronous == {"entered", "beginning", "refreshing"} \cup
  (IF SinksSuspend THEN {}
   ELSE {"expired", "failing", "starting", "committed", "settled", "notifying"})

\* No worker is between two suspensions: other fibers may run.
Quiet == \A o \in Op : pc[o] \notin Synchronous

\* A handler interrupts the worker when it ends; it only suspends to notify.
Undisturbed(o) ==
  \/ handler[o] = "idle"
  \/ SinksSuspend /\ handler[o] = "running"

\* The worker of o proceeds.
Runs(o, at) == holder = o /\ pc[o] = at /\ Undisturbed(o)

Goto(x, at) == pc' = [pc EXCEPT ![x] = at]

Finish(x) ==
  /\ Goto(x, "done")
  /\ holder' = "nobody"
  /\ UNCHANGED <<closed, reason>>

Init ==
  /\ scenario \in Scenario
  /\ phase = Idle
  /\ nextAttemptId = 0
  /\ nextOperationId = 0
  /\ outcome = [n \in Attempt |-> "none"]
  /\ incarnation = [n \in Attempt |-> "none"]
  /\ releases = [n \in Attempt |-> 0]
  /\ args = "old" /\ result = "none"
  /\ nodeArgs = "old" /\ nodeResult = "none"
  /\ expired = FALSE
  /\ saved = [args |-> "old", result |-> "none", expired |-> FALSE]
  /\ holder = "nobody" /\ closed = FALSE /\ reason = "none"
  /\ pc = [x \in Party |-> "none"]
  /\ attempt = [o \in Op |-> 0]
  /\ operation = [o \in Op |-> 0]
  /\ ready = [o \in Op |-> FALSE]
  /\ captured = 0
  /\ handler = [o \in Op |-> "idle"]
  /\ completions = [o \in Op |-> 0]

-----------------------------------------------------------------------------
(* Submission and the permit *)

Submit(o) ==
  /\ Quiet /\ ~closed
  /\ o \in scenario.ops /\ pc[o] = "none"
  /\ Goto(o, "queued")
  /\ UNCHANGED <<cellVars, incarnationVars, dataVars, actorVars, operationVars,
                 captured, handlerVars>>

\* A closed actor's worker only checks the flag and leaves.
TakePermit(o) ==
  /\ holder = "nobody"
  /\ pc[o] = "queued" /\ Undisturbed(o)
  /\ ~closed
  /\ holder' = o
  /\ Goto(o, "entered")
  /\ UNCHANGED <<cellVars, incarnationVars, dataVars, closed, reason,
                 operationVars, captured, handlerVars>>

-----------------------------------------------------------------------------
(* Teardown of a ready incarnation, by an operation or by the closer *)

\* The lifetime signal aborts first.
StartTeardown(x, g) ==
  /\ incarnation' = [incarnation EXCEPT ![g] = "closing"]
  /\ captured' = g
  /\ Goto(x, "stopping")

Tears(x, at) == IF x = Closer THEN holder = x /\ pc[x] = at ELSE Runs(x, at)

LiveStopEnds(x) ==
  /\ Tears(x, "stopping")
  /\ releases' = [releases EXCEPT ![captured] = @ + 1]
  /\ Goto(x, "releasing")
  /\ UNCHANGED <<cellVars, incarnation, dataVars, actorVars, operationVars,
                 captured, handlerVars>>

ReleaseHookEnds(x) ==
  /\ Tears(x, "releasing")
  /\ Goto(x, "draining")
  /\ UNCHANGED <<cellVars, incarnationVars, dataVars, actorVars, operationVars,
                 captured, handlerVars>>

\* Mutant of DisposersEnd: an expired incarnation is torn down and kept.
DisposersEndKept(x) ==
  /\ Tears(x, "draining")
  /\ incarnation' = [incarnation EXCEPT ![captured] = "closed"]
  /\ phase' = IF x # Closer /\ KindOf[x] # "release" THEN phase ELSE Idle
  /\ Finish(x)
  /\ UNCHANGED <<nextAttemptId, nextOperationId, outcome, releases, dataVars,
                 operationVars, captured, handlerVars>>

\* releaseCell returns the cell to Idle; planning has already marked it.
DisposersEnd(x) ==
  /\ Tears(x, "draining")
  /\ incarnation' = [incarnation EXCEPT ![captured] = "closed"]
  /\ \/ /\ x # Closer /\ KindOf[x] # "release"
        /\ Goto(x, "expired")
        /\ UNCHANGED <<phase, actorVars>>
     \/ /\ x # Closer /\ KindOf[x] = "release"
        /\ phase' = Idle
        /\ Finish(x)
     \/ /\ x = Closer
        /\ phase' = IF reason = "evict" THEN Idle ELSE phase
        /\ Finish(x)
  /\ UNCHANGED <<nextAttemptId, nextOperationId, outcome, releases, dataVars,
                 operationVars, captured, handlerVars>>

-----------------------------------------------------------------------------
(* Readiness *)

\* A read is available: an ensure answers it, an action goes on.
Delivered(o, isReady) ==
  /\ ready' = [ready EXCEPT ![o] = isReady]
  /\ IF KindOf[o] = "ensure"
       THEN Finish(o)
       ELSE /\ Goto(o, "beginning")
            /\ UNCHANGED actorVars

ReadyOrInvalidRead(o) ==
  /\ Runs(o, "entered") /\ KindOf[o] \in {"ensure", "action"}
  /\ \/ phase.tag \in {"Invalid", "Operating"}
     \/ phase.tag = "Ready" /\ ~expired
  /\ Delivered(o, HasReadyData)
  /\ UNCHANGED <<cellVars, incarnationVars, dataVars, attempt, operation,
                 captured, handlerVars>>

\* Mutant of DiscardExpired: the expired incarnation is not torn down.
DiscardExpiredLeaking(o) ==
  /\ Runs(o, "entered") /\ KindOf[o] \in {"ensure", "action"}
  /\ phase.tag = "Ready" /\ expired
  /\ Goto(o, "expired")
  /\ UNCHANGED <<cellVars, incarnationVars, dataVars, actorVars, operationVars,
                 captured, handlerVars>>

\* An expired result discards its incarnation, still in phase Ready.
DiscardExpired(o) ==
  /\ Runs(o, "entered") /\ KindOf[o] \in {"ensure", "action"}
  /\ phase.tag = "Ready" /\ expired
  /\ StartTeardown(o, phase.gen)
  /\ UNCHANGED <<cellVars, releases, dataVars, actorVars, operationVars,
                 handlerVars>>

AwaitAttempt(o) ==
  /\ Runs(o, "entered") /\ KindOf[o] \in {"ensure", "action"}
  /\ phase.tag = "Acquiring"
  /\ attempt' = [attempt EXCEPT ![o] = phase.attempt]
  /\ Goto(o, "awaiting")
  /\ UNCHANGED <<cellVars, incarnationVars, dataVars, actorVars, operation,
                 ready, captured, handlerVars>>

AttemptAnswers(o) ==
  /\ Runs(o, "awaiting")
  /\ outcome[attempt[o]] # "pending"
  /\ Delivered(o, outcome[attempt[o]] = "Ready")
  /\ UNCHANGED <<cellVars, incarnationVars, dataVars, attempt, operation,
                 captured, handlerVars>>

BeginAttempt(o) ==
  /\ \/ /\ Runs(o, "entered") /\ KindOf[o] \in {"ensure", "action"}
        /\ phase.tag \in {"Idle", "ReadinessError"}
     \/ Runs(o, "expired")
  /\ nextAttemptId < MaxAttempts
  /\ nextAttemptId' = nextAttemptId + 1
  /\ phase' = Acquiring(nextAttemptId')
  /\ outcome' = [outcome EXCEPT ![nextAttemptId'] = "pending"]
  /\ attempt' = [attempt EXCEPT ![o] = nextAttemptId']
  /\ Goto(o, "dependencies")
  /\ UNCHANGED <<nextOperationId, incarnationVars, dataVars, actorVars,
                 operation, ready, captured, handlerVars>>

\* failAttempt up to its notifications.
FailAttempt(o) ==
  /\ phase' = IF phase.tag = "Acquiring" THEN ReadinessError ELSE phase
  /\ Goto(o, "failing")

DependenciesFail(o) ==
  /\ Runs(o, "dependencies")
  /\ FailAttempt(o)
  /\ UNCHANGED <<nextAttemptId, nextOperationId, outcome, incarnationVars,
                 dataVars, actorVars, operationVars, captured, handlerVars>>

DependenciesReady(o) ==
  /\ Runs(o, "dependencies")
  /\ incarnation' = [incarnation EXCEPT ![attempt[o]] = "acquiring"]
  /\ saved' = [saved EXCEPT !.args = args]
  /\ Goto(o, "acquiring")
  /\ UNCHANGED <<cellVars, releases, args, result, nodeArgs, nodeResult, expired,
                 actorVars, operationVars, captured, handlerVars>>

\* Mutant of AcquireSucceeds: it commits without looking at the phase.
AcquireSucceedsStale(o) ==
  /\ Runs(o, "acquiring")
  /\ phase' = Ready(attempt[o])
  /\ incarnation' = [incarnation EXCEPT ![attempt[o]] = "committed"]
  /\ result' = saved.args /\ nodeResult' = saved.args
  /\ nodeArgs' = args
  /\ expired' = FALSE
  /\ Goto(o, "delivering")
  /\ UNCHANGED <<nextAttemptId, nextOperationId, outcome, releases, args, saved,
                 actorVars, operationVars, captured, handlerVars>>

\* Commit, unless this is no longer the cell's attempt: then the incarnation
\* is discarded and the attempt's own outcome is awaited.
AcquireSucceeds(o) ==
  /\ Runs(o, "acquiring")
  /\ IF phase = Acquiring(attempt[o])
       THEN /\ phase' = Ready(attempt[o])
            /\ incarnation' = [incarnation EXCEPT ![attempt[o]] = "committed"]
            /\ result' = saved.args /\ nodeResult' = saved.args
            /\ nodeArgs' = args
            /\ expired' = FALSE
            /\ Goto(o, "delivering")
       ELSE /\ incarnation' = [incarnation EXCEPT ![attempt[o]] = "discarding"]
            /\ Goto(o, "stale")
            /\ UNCHANGED <<phase, result, nodeResult, nodeArgs, expired>>
  /\ UNCHANGED <<nextAttemptId, nextOperationId, outcome, releases, args, saved,
                 actorVars, operationVars, captured, handlerVars>>

\* A failing or late driver, an expired result, a failing constructor.
AcquireFails(o) ==
  /\ Runs(o, "acquiring")
  /\ incarnation' = [incarnation EXCEPT ![attempt[o]] = "discarding"]
  /\ Goto(o, "discarding")
  /\ UNCHANGED <<cellVars, releases, dataVars, actorVars, operationVars,
                 captured, handlerVars>>

Discarded(o) ==
  /\ \/ Runs(o, "discarding") /\ FailAttempt(o)
     \/ Runs(o, "stale") /\ Goto(o, "awaiting") /\ UNCHANGED phase
  /\ incarnation' = [incarnation EXCEPT ![attempt[o]] = "discarded"]
  /\ UNCHANGED <<nextAttemptId, nextOperationId, outcome, releases, dataVars,
                 actorVars, operationVars, captured, handlerVars>>

\* The first completion of a Deferred wins.
Complete(n, with) ==
  outcome' = [outcome EXCEPT ![n] = IF @ = "pending" THEN with ELSE @]

\* After the notifications of a failure, or after live delivery.
AttemptEnds(o) ==
  /\ \/ /\ Runs(o, "failing")
        /\ Complete(attempt[o], "Error")
        /\ Delivered(o, FALSE)
     \/ /\ Runs(o, "delivering")
        /\ Complete(attempt[o], "Ready")
        /\ Delivered(o, TRUE)
  /\ UNCHANGED <<phase, nextAttemptId, nextOperationId, incarnationVars, dataVars,
                 attempt, operation, captured, handlerVars>>

-----------------------------------------------------------------------------
(* Background operations: action, refresh, args *)

\* beginNodeOperation up to its notifications.  Only a Ready phase changes.
BeginOperation(o) ==
  /\ \/ Runs(o, "beginning")
     \/ Runs(o, "entered") /\ KindOf[o] \in {"refresh", "args"}
  /\ nextOperationId' = nextOperationId + 1
  /\ operation' = [operation EXCEPT ![o] = nextOperationId]
  /\ phase' = IF phase.tag = "Ready"
                THEN Operating(phase.gen, nextOperationId)
                ELSE phase
  /\ Goto(o, "starting")
  /\ UNCHANGED <<nextAttemptId, outcome, incarnationVars, dataVars, actorVars,
                 attempt, ready, captured, handlerVars>>

\* completeNodeOperation and failNodeOperation: only the current operation
\* leaves Operating.
SettledPhase(o) ==
  IF phase.tag = "Operating" /\ phase.operation = operation[o]
    THEN Ready(phase.gen)
    ELSE phase

Settle(o) ==
  /\ phase' = SettledPhase(o)
  /\ Goto(o, "settled")

\* The action's readiness failed, its data is gone, or a dependency is not
\* ready: no hook runs.
ActionStarts(o) ==
  /\ Runs(o, "starting") /\ KindOf[o] = "action"
  /\ \/ /\ ready[o] /\ HasReadyData
        /\ Goto(o, "driving")
        /\ UNCHANGED phase
     \/ Settle(o)
  /\ UNCHANGED <<nextAttemptId, nextOperationId, outcome, incarnationVars,
                 dataVars, actorVars, operationVars, captured, handlerVars>>

\* A missing hook succeeds, a missing or expired result fails, both at once.
RefreshStarts(o) ==
  /\ Runs(o, "starting") /\ KindOf[o] = "refresh"
  /\ \/ /\ HasReadyData /\ ~expired /\ HasRefresh
        /\ Goto(o, "driving")
        /\ UNCHANGED phase
     \/ Settle(o)
  /\ UNCHANGED <<nextAttemptId, nextOperationId, outcome, incarnationVars,
                 dataVars, actorVars, operationVars, captured, handlerVars>>

\* The node and the cell take the new args before the refresh that loads them.
ArgsRejected(o) ==
  /\ Runs(o, "starting") /\ KindOf[o] = "args"
  /\ Settle(o)
  /\ UNCHANGED <<nextAttemptId, nextOperationId, outcome, incarnationVars,
                 dataVars, actorVars, operationVars, captured, handlerVars>>

ArgsSet(o) ==
  /\ Runs(o, "starting") /\ KindOf[o] = "args"
  /\ phase.tag # "Invalid"
  /\ args' = "new"
  /\ nodeArgs' = IF HasReadyData THEN "new" ELSE nodeArgs
  /\ saved' = [args |-> args, result |-> result, expired |-> expired]
  /\ IF HasReadyData /\ HasRefresh
       THEN /\ Goto(o, "refreshing")
            /\ UNCHANGED phase
       ELSE Settle(o)
  /\ UNCHANGED <<nextAttemptId, nextOperationId, outcome, incarnationVars, result,
                 nodeResult, expired, actorVars, operationVars, captured,
                 handlerVars>>

\* The refresh of an args update fails at once, or its hook runs.
ArgsRefreshStarts(o) ==
  /\ Runs(o, "refreshing")
  /\ ~expired
  /\ Goto(o, "driving")
  /\ UNCHANGED <<cellVars, incarnationVars, dataVars, actorVars, operationVars,
                 captured, handlerVars>>

\* Mutant of RollBack: the node keeps the new args.
RollBackCellOnly ==
  /\ args' = saved.args
  /\ result' = saved.result
  /\ nodeResult' = saved.result
  /\ expired' = saved.expired
  /\ UNCHANGED <<nodeArgs, saved>>

\* Args, result and validity as they were; the node follows.
RollBack ==
  /\ args' = saved.args
  /\ nodeArgs' = saved.args
  /\ result' = saved.result
  /\ nodeResult' = saved.result
  /\ expired' = saved.expired
  /\ UNCHANGED saved

ArgsRefreshFails(o) ==
  /\ KindOf[o] = "args"
  /\ Runs(o, "refreshing") \/ Runs(o, "driving")
  /\ RollBack
  /\ Settle(o)
  /\ UNCHANGED <<nextAttemptId, nextOperationId, outcome, incarnationVars,
                 actorVars, operationVars, captured, handlerVars>>

\* Commit into ready data, if there still is any.  An action keeps the result
\* and its validity unless it sets one.
DriverSucceeds(o) ==
  /\ Runs(o, "driving")
  /\ \/ /\ nodeArgs' = args
        /\ nodeResult' = args
        /\ result' = IF HasReadyData THEN args ELSE result
        /\ expired' = (expired /\ ~HasReadyData)
     \/ /\ KindOf[o] = "action"
        /\ UNCHANGED <<result, nodeResult, nodeArgs, expired>>
  /\ Goto(o, "committed")
  /\ UNCHANGED <<cellVars, incarnationVars, args, saved, actorVars,
                 operationVars, captured, handlerVars>>

DriverFails(o) ==
  /\ Runs(o, "driving") /\ KindOf[o] # "args"
  /\ Settle(o)
  /\ UNCHANGED <<nextAttemptId, nextOperationId, outcome, incarnationVars,
                 dataVars, actorVars, operationVars, captured, handlerVars>>

CommitEnds(o) ==
  /\ Runs(o, "committed")
  /\ Settle(o)
  /\ UNCHANGED <<nextAttemptId, nextOperationId, outcome, incarnationVars,
                 dataVars, actorVars, operationVars, captured, handlerVars>>

\* An action's completion is notified once its phase has settled.
NotifyCompleted(o) ==
  /\ Runs(o, "settled") /\ KindOf[o] = "action"
  /\ completions' = [completions EXCEPT ![o] = @ + 1]
  /\ Goto(o, "notifying")
  /\ UNCHANGED <<cellVars, incarnationVars, dataVars, actorVars, operationVars,
                 captured, handler>>

\* Mutant of OperationEnds: the permit is not released.
OperationEndsHolding(o) ==
  /\ \/ Runs(o, "settled") /\ KindOf[o] # "action"
     \/ Runs(o, "notifying")
  /\ Goto(o, "done")
  /\ UNCHANGED <<cellVars, incarnationVars, dataVars, actorVars, operationVars,
                 captured, handlerVars>>

OperationEnds(o) ==
  /\ \/ Runs(o, "settled") /\ KindOf[o] # "action"
     \/ Runs(o, "notifying")
  /\ Finish(o)
  /\ UNCHANGED <<cellVars, incarnationVars, dataVars, operationVars, captured,
                 handlerVars>>

-----------------------------------------------------------------------------
(* releaseCell as an operation *)

ReleaseStarts(o) ==
  /\ Runs(o, "entered") /\ KindOf[o] = "release"
  /\ IF HasReadyData
       THEN /\ StartTeardown(o, phase.gen)
            /\ UNCHANGED <<phase, actorVars>>
       ELSE /\ phase' = Idle
            /\ Finish(o)
            /\ UNCHANGED <<incarnation, captured>>
  /\ UNCHANGED <<nextAttemptId, nextOperationId, outcome, releases, dataVars,
                 operationVars, handlerVars>>

-----------------------------------------------------------------------------
(* Interruption *)

\* The caller of an abortable action leaves, or the actor closes.  An ensure
\* answers the cell's current attempt; an action is reported as completed.
HandlerStarts(o) ==
  /\ Quiet
  /\ Live(o) /\ handler[o] = "idle"
  /\ o \in Abortable \/ closed
  /\ IF KindOf[o] = "ensure" /\ phase.tag = "Acquiring"
       THEN /\ Complete(phase.attempt, "Error")
            /\ phase' = ReadinessError
       ELSE UNCHANGED <<outcome, phase>>
  /\ IF KindOf[o] = "action"
       THEN /\ handler' = [handler EXCEPT ![o] = "running"]
            /\ completions' = [completions EXCEPT ![o] = @ + 1]
       ELSE /\ handler' = [handler EXCEPT ![o] = "done"]
            /\ UNCHANGED completions
  /\ UNCHANGED <<nextAttemptId, nextOperationId, incarnationVars, dataVars,
                 actorVars, pc, operationVars, captured>>

HandlerEnds(o) ==
  /\ Quiet
  /\ handler[o] = "running"
  /\ handler' = [handler EXCEPT ![o] = "done"]
  /\ UNCHANGED <<cellVars, incarnationVars, dataVars, actorVars, pc,
                 operationVars, captured, completions>>

\* What the worker's finalizers do depends on where it was suspended.  Before
\* and after the regions they guard there is nothing to undo.
Unguarded == {"awaiting", "dependencies", "failing", "delivering", "starting",
              "stopping", "releasing", "draining", "expired"}
InAcquire == {"acquiring", "discarding", "stale"}
InOperation == {"committed", "settled", "notifying"}

Place == Unguarded \cup InAcquire \cup InOperation
           \cup {"none", "queued", "entered", "beginning", "refreshing", "driving",
                 "unwinding", "closing", "done"}

Interrupted(o) ==
  /\ Quiet
  /\ handler[o] = "done"
  /\ \/ /\ pc[o] = "queued"
        /\ Goto(o, "done")
        /\ UNCHANGED <<phase, incarnation, actorVars>>
     \/ /\ pc[o] \in Unguarded
        /\ Finish(o)
        /\ UNCHANGED <<phase, incarnation>>
     \/ /\ pc[o] \in InAcquire
        /\ incarnation' = [incarnation EXCEPT ![attempt[o]] = "discarding"]
        /\ Goto(o, "unwinding")
        /\ UNCHANGED <<phase, actorVars>>
     \/ /\ pc[o] = "driving"
        /\ Goto(o, "unwinding")
        /\ UNCHANGED <<phase, incarnation, actorVars>>
     \/ /\ pc[o] \in InOperation
        /\ phase' = SettledPhase(o)
        /\ Finish(o)
        /\ UNCHANGED incarnation
  /\ UNCHANGED <<nextAttemptId, nextOperationId, outcome, releases, dataVars,
                 operationVars, captured, handlerVars>>

\* The disposers the operation collected have run.
Unwound(o) ==
  /\ holder = o /\ pc[o] = "unwinding"
  /\ IF attempt[o] # 0 /\ incarnation[attempt[o]] = "discarding"
       THEN /\ incarnation' = [incarnation EXCEPT ![attempt[o]] = "discarded"]
            /\ UNCHANGED phase
       ELSE /\ phase' = SettledPhase(o)
            /\ UNCHANGED incarnation
  /\ Finish(o)
  /\ UNCHANGED <<nextAttemptId, nextOperationId, outcome, releases, dataVars,
                 operationVars, captured, handlerVars>>

-----------------------------------------------------------------------------
(* The closer and the clock *)

Close(why) ==
  /\ Quiet /\ ~closed
  /\ closed' = TRUE
  /\ reason' = why
  /\ Goto(Closer, "closing")
  /\ UNCHANGED <<cellVars, incarnationVars, dataVars, holder, operationVars,
                 captured, handlerVars>>

\* close() has claimed every reply and interrupted what it claimed.
Claimed == \A o \in Op : Live(o) => o \in Abortable /\ handler[o] # "idle"

\* Planning marks the cell Invalid and keeps the ready data it found.  An
\* eviction reads the phase and releases the cell.
CloserTakesPermit ==
  /\ pc[Closer] = "closing"
  /\ holder = "nobody" /\ Claimed
  /\ IF HasReadyData
       THEN /\ phase' = IF reason = "invalidate" THEN Invalid ELSE phase
            /\ StartTeardown(Closer, phase.gen)
            /\ holder' = Closer
       ELSE /\ phase' = IF reason = "invalidate" THEN Invalid ELSE Idle
            /\ Goto(Closer, "done")
            /\ UNCHANGED <<incarnation, captured, holder>>
  /\ UNCHANGED <<nextAttemptId, nextOperationId, outcome, releases, dataVars,
                 closed, reason, operationVars, handlerVars>>

\* Planning deletes the actor it closed; the next submission makes a new one.
ActorDeleted ==
  /\ pc[Closer] = "done" /\ reason = "invalidate"
  /\ closed /\ \A o \in Op : ~Live(o)
  /\ closed' = FALSE
  /\ UNCHANGED <<cellVars, incarnationVars, dataVars, holder, reason, pc,
                 operationVars, captured, handlerVars>>

Expire ==
  /\ Quiet
  /\ HasReadyData /\ ~expired
  /\ expired' = TRUE
  /\ UNCHANGED <<cellVars, incarnationVars, args, result, nodeArgs, nodeResult,
                 saved, actorVars, pc, operationVars, captured, handlerVars>>

-----------------------------------------------------------------------------
(* Specification *)

Worker(o) ==
  \/ TakePermit(o)
  \/ LiveStopEnds(o) \/ ReleaseHookEnds(o) \/ DisposersEnd(o)
  \/ ReadyOrInvalidRead(o) \/ DiscardExpired(o) \/ AwaitAttempt(o)
  \/ AttemptAnswers(o) \/ BeginAttempt(o)
  \/ DependenciesFail(o) \/ DependenciesReady(o)
  \/ AcquireSucceeds(o) \/ AcquireFails(o) \/ Discarded(o) \/ AttemptEnds(o)
  \/ BeginOperation(o)
  \/ ActionStarts(o) \/ RefreshStarts(o)
  \/ ArgsRejected(o) \/ ArgsSet(o) \/ ArgsRefreshStarts(o) \/ ArgsRefreshFails(o)
  \/ DriverSucceeds(o) \/ DriverFails(o) \/ CommitEnds(o)
  \/ NotifyCompleted(o) \/ OperationEnds(o)
  \/ ReleaseStarts(o)
  \/ HandlerEnds(o) \/ Interrupted(o) \/ Unwound(o)

CloserSteps ==
  \/ LiveStopEnds(Closer) \/ ReleaseHookEnds(Closer) \/ DisposersEnd(Closer)
  \/ CloserTakesPermit \/ ActorDeleted

Environment ==
  \/ \E o \in Op : Submit(o) \/ HandlerStarts(o)
  \/ \E why \in {"invalidate", "evict"} : Close(why)
  \/ Expire

Next ==
  /\ Environment \/ CloserSteps \/ \E o \in Op : Worker(o)
  /\ UNCHANGED scenario

Spec == Init /\ [][Next]_vars

-----------------------------------------------------------------------------
(* Properties *)

CellTypes ==
  /\ phase \in CellPhase
  /\ nextAttemptId \in 0..MaxAttempts
  /\ nextOperationId \in Nat
  /\ outcome \in [Attempt -> AttemptOutcome]
  /\ incarnation \in [Attempt -> IncarnationState]
  /\ releases \in [Attempt -> Nat]

DataTypes ==
  /\ args \in {"old", "new"} /\ nodeArgs \in {"old", "new"}
  /\ result \in {"none", "old", "new"} /\ nodeResult \in {"none", "old", "new"}
  /\ expired \in BOOLEAN
  /\ saved \in [args : {"old", "new"}, result : {"none", "old", "new"},
                expired : BOOLEAN]

ActorTypes ==
  /\ holder \in Party \cup {"nobody"}
  /\ closed \in BOOLEAN
  /\ reason \in {"none", "invalidate", "evict"}
  /\ pc \in [Party -> Place]

OperationTypes ==
  /\ attempt \in [Op -> 0..MaxAttempts]
  /\ operation \in [Op -> Nat]
  /\ ready \in [Op -> BOOLEAN]
  /\ captured \in 0..MaxAttempts
  /\ handler \in [Op -> {"idle", "running", "done"}]
  /\ completions \in [Op -> Nat]

TypeOK == CellTypes /\ DataTypes /\ ActorTypes /\ OperationTypes

AtRest == holder = "nobody" /\ ~closed

\* A node at rest is not left in the middle of an operation: a Running node
\* whose operation is gone would keep its expiry disabled for ever
\* (operationState.ts, the interruption finalizer).
OperationsSettle == AtRest => phase.tag # "Operating"

\* The incarnation a resting Ready node shows is intact: no teardown has
\* aborted its lifetime signal or begun to release it. No caller aborts: a
\* teardown that is interrupted stops half way.
ReadyIsAlive ==
  AtRest /\ phase.tag = "Ready" /\ Abortable = {} => incarnation[phase.gen] = "committed"

\* No incarnation is lost: when nobody holds the permit, an incarnation that
\* was neither closed nor discarded is the one in the phase.
NothingLeaks ==
  holder = "nobody" =>
    \A g \in Attempt :
      incarnation[g] \in {"acquiring", "committed", "closing", "discarding"} =>
        HasReadyData /\ phase.gen = g

\* An attempt whose awaiters were told it failed never becomes the node's
\* ready incarnation, although its acquire may still succeed.
NoStaleCommit == HasReadyData => outcome[phase.gen] # "Error"

\* At rest the author's node and the cell agree, and with a refresh hook the
\* result is the one loaded for the args they show: an args update whose
\* refresh fails rolls all of them back.
ResultMatchesArgs ==
  AtRest /\ phase.tag = "Ready" /\ HasRefresh =>
    nodeArgs = args /\ nodeResult = result /\ result = args

\* The release hook runs once for each incarnation.
ReleasedOnce == \A g \in Attempt : releases[g] <= 1

\* The release hook of an incarnation is started again only by the cleanup of a
\* close, and by that once, when no caller aborts: that close interrupted the
\* teardown, or the readiness that was to follow it (cleanup.ts:27, plan.ts:389).
OnlyACloseRepeats ==
  [][Abortable = {} =>
       \A g \in Attempt : releases'[g] # releases[g] /\ releases[g] # 0 =>
         holder = Closer /\ releases[g] = 1]_vars

\* An action is reported as completed once: by the operation that settled or
\* by the handler of its interruption. It is when no sink suspends: the handler
\* cannot then begin between the settling and its notification.
CompletedOnce == ~SinksSuspend => \A o \in Op : completions[o] <= 1

\* Only the operation a phase names ends it: a late completion never clears
\* the operation that overtook it.
OwnCompletionOnly ==
  [][phase.tag = "Operating" /\ phase'.tag = "Ready" =>
       \E o \in Op : holder = o /\ operation[o] = phase.operation]_vars

\* The scheduler runs every fiber that can run.  Hooks and disposers end
\* because they are bounded by the driver timeouts, and dependencies and
\* sinks are assumed to answer.
Fairness ==
  /\ \A o \in Op : WF_steps(Worker(o)) /\ WF_steps(closed /\ HandlerStarts(o))
  /\ WF_steps(CloserSteps)

FairSpec == Spec /\ Fairness

\* Every submitted operation ends, whatever expired, was invalidated or evicted
\* meanwhile: as long as no caller aborts an action.
EveryOperationEnds ==
  \A o \in Op : pc[o] = "queued" /\ Abortable = {} ~> pc[o] = "done"
-----------------------------------------------------------------------------
(* What the actor promises, seen from here *)

StageOf(o) ==
  IF pc[o] = "none" THEN "new"
  ELSE IF pc[o] = "queued" THEN "pending"
  ELSE IF pc[o] = "done" THEN "gone" ELSE "active"

\* A handler claims the outcome; what it reports is an action's.
OutcomeOf(o) ==
  IF handler[o] = "idle" THEN IF pc[o] = "done" THEN "result" ELSE "none"
  ELSE IF handler[o] = "done" /\ KindOf[o] = "action" THEN "interrupted"
  ELSE "cancelling"

Stage == [o \in Op |-> StageOf(o)]
Outcome == [o \in Op |-> OutcomeOf(o)]
Exclusive == holder = Closer

Cell == INSTANCE SerialCell WITH
          Submission <- Op,
          stage <- Stage, outcome <- Outcome, exclusive <- Exclusive, shut <- closed

\* One permit: whatever the operations, the handlers and the closer do is what
\* a SerialCell may do, except that a planning invalidation puts a new actor in
\* the place of the one it closed (cellActor.ts:105-131, plan.ts:389-397).
OnePermit == Cell!Init /\ [][ActorDeleted \/ Cell!Next]_Cell!vars
=============================================================================
