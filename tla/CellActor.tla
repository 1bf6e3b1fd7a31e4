----------------------------- MODULE CellActor ------------------------------
(***************************************************************************)
(* One graph cell actor (graph/cell/cellActor.ts): a one-permit semaphore, *)
(* a scope of forked workers, a `closed` flag and a reply latch per        *)
(* submission, together with the part of its environment that decides who  *)
(* may call it when: the actor registry (actorRegistry.ts), planning       *)
(* invalidation (planning/plan.ts), eviction and graph stop.               *)
(*                                                                         *)
(* A submission is an operation handed to `submit`.  Its effect and its    *)
(* interruption handler belong to cellOperations.ts and are opaque here:   *)
(* each may suspend, so each is a start and an end.  Only the awaiter of   *)
(* an interruptible submission may interrupt it.                           *)
(*                                                                         *)
(* The semaphore is Effect's.  Any waiter may take a free permit here,     *)
(* which allows every wake-up order the library could have.                *)
(***************************************************************************)
EXTENDS Naturals, FiniteSets

CONSTANTS
  Submission,     \* the operations submitted to this actor
  Interruptible   \* those submitted with { interruptible: true }

ASSUME SubmissionAssumption == Interruptible \subseteq Submission

Closer  == {"invalidate", "shutdown"}        \* the two callers of close()
Section == {"mark", "teardown", "cleanup"}   \* what runs under runExclusive

ASSUME DisjointAssumption == Submission \cap (Section \cup {"nobody"}) = {}

VARIABLES
  holder,      \* who has the permit: a submission's worker, a section, "nobody"
  closed,      \* the actor's closed flag
  worker,      \* the forked worker fiber of each submission
  claim,       \* who claimed the reply latch ("none": `settled` is false)
  handler,     \* progress of operation.interrupt for the claimed submission
  reply,       \* the Deferred
  completions, \* how often onComplete ran
  awaiter,     \* the fiber awaiting the reply
  section,     \* the exclusive sections
  pc,          \* control state of each closer
  toClose,     \* the accepted submissions a close() is still working through
  planner,     \* holder of the graph system's planning semaphore
  registered,  \* the registry maps the node to this actor
  registryClosed \* the registry's closed flag (graph stop)

workerVars   == <<worker, claim, handler, reply, completions, awaiter>>
registryVars == <<planner, registered, registryClosed>>
closerVars   == <<pc, toClose>>
vars == <<holder, closed, workerVars, section, closerVars, registryVars>>

-----------------------------------------------------------------------------
(* State predicates *)

Settled(s) == claim[s] # "none"
Alive(s)   == worker[s] \notin {"none", "exited"}

\* The `submissions` set: added by submit, deleted when the worker has exited.
Accepted == {s \in Submission : Alive(s)}

\* Between taking and releasing the permit.
InPermit(s) == worker[s] \in {"running", "unwinding", "refusing"}

\* Running the operation's own code: its effect or its finalizers.
Executing(s) == worker[s] \in {"running", "unwinding"}

Init ==
  /\ holder = "nobody"
  /\ closed = FALSE
  /\ worker = [s \in Submission |-> "none"]
  /\ claim = [s \in Submission |-> "none"]
  /\ handler = [s \in Submission |-> "idle"]
  /\ reply = [s \in Submission |-> "pending"]
  /\ completions = [s \in Submission |-> 0]
  /\ awaiter = [s \in Submission |-> "none"]
  /\ section = [x \in Section |-> "idle"]
  /\ pc = [c \in Closer |-> "idle"]
  /\ toClose = [c \in Closer |-> {}]
  /\ planner = "free"
  /\ registered = TRUE
  /\ registryClosed = FALSE

-----------------------------------------------------------------------------
(* Submitting and running an operation *)

\* interruptOnce up to the start of operation.interrupt: the latch is claimed.
ClaimInterrupt(s, by) ==
  /\ claim' = [claim EXCEPT ![s] = by]
  /\ handler' = [handler EXCEPT ![s] = "running"]

\* A mutant: a refusal returns without running the interruption handler.
EnterSilently(s) ==
  /\ worker' = [worker EXCEPT ![s] = IF closed THEN "exited" ELSE "running"]
  /\ holder' = IF closed THEN holder ELSE s
  /\ UNCHANGED <<claim, handler>>

\* The worker owns the permit.  It checks `closed`, not the latch: an open
\* actor starts the effect even if the reply was already claimed.
Enter(s) ==
  \/ /\ ~closed
     /\ holder' = s
     /\ worker' = [worker EXCEPT ![s] = "running"]
     /\ UNCHANGED <<claim, handler>>
  \/ /\ closed
     /\ ~Settled(s)
     /\ holder' = s
     /\ worker' = [worker EXCEPT ![s] = "refusing"]
     /\ ClaimInterrupt(s, "worker")
  \/ /\ closed
     /\ Settled(s)
     /\ worker' = [worker EXCEPT ![s] = "exited"]
     /\ UNCHANGED <<holder, claim, handler>>

\* Every submit happens under the planning semaphore, through the registry.
\* The worker is forked with startImmediately: it takes a free permit at once.
Submit(s) ==
  /\ planner = "free"
  /\ registered
  /\ worker[s] = "none"
  /\ ~Settled(s)
  /\ awaiter' = [awaiter EXCEPT ![s] = "awaiting"]
  /\ \/ /\ holder = "nobody"
        /\ Enter(s)
     \/ /\ holder # "nobody"
        /\ worker' = [worker EXCEPT ![s] = "waiting"]
        /\ UNCHANGED <<holder, claim, handler>>
  /\ UNCHANGED <<closed, reply, completions, section, closerVars, registryVars>>

\* A stopped graph's registry answers for the actor (closedCellTask).  The
\* handler runs inside submit, which keeps the planning semaphore meanwhile.
SubmitToClosedRegistry(s) ==
  /\ planner = "free"
  /\ registryClosed
  /\ worker[s] = "none"
  /\ ~Settled(s)
  /\ ClaimInterrupt(s, "registry")
  /\ planner' = "refuse"
  /\ UNCHANGED <<holder, closed, worker, reply, completions, awaiter, section,
                 closerVars, registered, registryClosed>>

WorkerTakesPermit(s) ==
  /\ worker[s] = "waiting"
  /\ holder = "nobody"
  /\ Enter(s)
  /\ UNCHANGED <<closed, reply, completions, awaiter, section, closerVars,
                 registryVars>>

\* The effect ends by itself (completeReply, settleReply), the permit is
\* released and the ensuring block deletes the submission.
OperationEnds(s) ==
  /\ worker[s] = "running"
  /\ worker' = [worker EXCEPT ![s] = "exited"]
  /\ holder' = "nobody"
  /\ \/ /\ ~Settled(s)
        /\ claim' = [claim EXCEPT ![s] = "operation"]
        /\ reply' = [reply EXCEPT ![s] = "result"]
        /\ completions' = [completions EXCEPT ![s] = @ + 1]
     \/ /\ Settled(s)
        /\ UNCHANGED <<claim, reply, completions>>
  /\ UNCHANGED <<closed, handler, awaiter, section, closerVars, registryVars>>

\* The finalizers of an interrupted effect end.
OperationUnwinds(s) ==
  /\ worker[s] = "unwinding"
  /\ worker' = [worker EXCEPT ![s] = "exited"]
  /\ holder' = "nobody"
  /\ UNCHANGED <<closed, claim, handler, reply, completions, awaiter, section,
                 closerVars, registryVars>>

-----------------------------------------------------------------------------
(* The interruption handler, run by whoever claimed the latch *)

HandlerReplies(s) ==
  /\ handler[s] = "running"
  /\ handler' = [handler EXCEPT ![s] = "replied"]
  /\ reply' = [reply EXCEPT ![s] = "interrupted"]
  /\ UNCHANGED <<holder, closed, worker, claim, completions, awaiter, section,
                 closerVars, registryVars>>

\* What Fiber.interrupt does to the worker; interruptFiber is false when the
\* worker itself is the claimant, which then simply leaves the permit.
Interrupted(s) ==
  /\ worker' = [worker EXCEPT ![s] =
        CASE @ = "waiting" -> "exited"
          [] @ = "running" -> "unwinding"
          [] @ = "refusing" -> "exited"
          [] OTHER -> @]
  /\ holder' = IF worker[s] = "refusing" THEN "nobody" ELSE holder

\* operation.interrupt is over: onComplete, then Fiber.interrupt; a refusal by
\* the registry returns its task to the caller instead.
HandlerEnds(s) ==
  /\ handler[s] = "replied"
  /\ handler' = [handler EXCEPT ![s] = "done"]
  /\ completions' = [completions EXCEPT ![s] = @ + 1]
  /\ Interrupted(s)
  /\ IF claim[s] = "registry"
       THEN /\ awaiter' = [awaiter EXCEPT ![s] = "awaiting"]
            /\ planner' = "free"
       ELSE UNCHANGED <<awaiter, planner>>
  /\ UNCHANGED <<closed, claim, reply, section, closerVars, registered,
                 registryClosed>>

-----------------------------------------------------------------------------
(* The awaiter *)

AwaiterResumes(s) ==
  /\ awaiter[s] = "awaiting"
  /\ reply[s] # "pending"
  /\ awaiter' = [awaiter EXCEPT ![s] = "resumed"]
  /\ UNCHANGED <<holder, closed, worker, claim, handler, reply, completions,
                 section, closerVars, registryVars>>

\* The fiber awaiting the reply is interrupted.
AwaiterLeaves(s) ==
  /\ awaiter[s] = "awaiting"
  /\ awaiter' = [awaiter EXCEPT ![s] = "left"]
  /\ IF s \in Interruptible /\ ~Settled(s)
       THEN ClaimInterrupt(s, "awaiter")
       ELSE UNCHANGED <<claim, handler>>
  /\ UNCHANGED <<holder, closed, worker, reply, completions, section,
                 closerVars, registryVars>>

-----------------------------------------------------------------------------
(* close(), and the callers that close the actor *)

\* Mutant: close() does not set the flag.
CloseBeginsOpen(c) ==
  /\ toClose' = [toClose EXCEPT ![c] = Accepted]
  /\ pc' = [pc EXCEPT ![c] = "closing"]
  /\ UNCHANGED closed

\* close(): the flag, then a snapshot of the accepted submissions.
CloseBegins(c) ==
  /\ closed' = TRUE
  /\ toClose' = [toClose EXCEPT ![c] = Accepted]
  /\ pc' = [pc EXCEPT ![c] = "closing"]

\* markCellInvalid, called while planning.
InvalidateBegins ==
  /\ planner = "free"
  /\ registered
  /\ pc["invalidate"] = "idle"
  /\ planner' = "invalidate"
  /\ CloseBegins("invalidate")
  /\ UNCHANGED <<holder, workerVars, section, registered, registryClosed>>

\* evictNode holds the planning semaphore throughout.
EvictBegins ==
  /\ planner = "free"
  /\ registered
  /\ pc["shutdown"] = "idle"
  /\ planner' = "evict"
  /\ CloseBegins("shutdown")
  /\ UNCHANGED <<holder, workerVars, section, registered, registryClosed>>

\* Graph stop detaches the registered actors under the planning semaphore and
\* shuts them down afterwards.
StopBegins ==
  /\ planner = "free"
  /\ ~registryClosed
  /\ registryClosed' = TRUE
  /\ registered' = FALSE
  /\ \/ registered /\ CloseBegins("shutdown")
     \/ ~registered /\ UNCHANGED <<closed, pc, toClose>>
  /\ UNCHANGED <<holder, workerVars, section, planner>>

\* interruptOnce of one snapshot member; the members run concurrently.
CloseInterrupts(c, s) ==
  /\ s \in toClose[c]
  /\ IF Settled(s)
       THEN /\ claim[s] # c
            /\ toClose' = [toClose EXCEPT ![c] = @ \ {s}]
            /\ UNCHANGED <<claim, handler>>
       ELSE /\ ClaimInterrupt(s, c)
            /\ UNCHANGED toClose
  /\ UNCHANGED <<holder, closed, worker, reply, completions, awaiter, section,
                 pc, registryVars>>

\* Fiber.interrupt awaits the worker's exit.
CloseJoins(c, s) ==
  /\ s \in toClose[c]
  /\ claim[s] = c
  /\ handler[s] = "done"
  /\ worker[s] = "exited"
  /\ toClose' = [toClose EXCEPT ![c] = @ \ {s}]
  /\ UNCHANGED <<holder, closed, workerVars, section, pc, registryVars>>

\* The section each closer runs with runExclusive once close() has returned.
SectionOf(c) == IF c = "invalidate" THEN "mark" ELSE "cleanup"

CloseReturns(c) ==
  /\ pc[c] = "closing"
  /\ toClose[c] = {}
  /\ pc' = [pc EXCEPT ![c] = "exclusive"]
  /\ \/ /\ holder = "nobody"
        /\ holder' = SectionOf(c)
        /\ section' = [section EXCEPT ![SectionOf(c)] = "running"]
     \/ /\ holder # "nobody"
        /\ section' = [section EXCEPT ![SectionOf(c)] = "waiting"]
        /\ UNCHANGED holder
  /\ UNCHANGED <<closed, workerVars, toClose, registryVars>>

SectionTakesPermit(x) ==
  /\ section[x] = "waiting"
  /\ holder = "nobody"
  /\ holder' = x
  /\ section' = [section EXCEPT ![x] = "running"]
  /\ UNCHANGED <<closed, workerVars, closerVars, registryVars>>

\* The cell is Invalid.  Releasing the permit and forking the teardown are one
\* fiber's consecutive steps, so the fork takes the permit just released.
MarkEnds ==
  /\ section["mark"] = "running"
  /\ section' = [section EXCEPT !["mark"] = "done", !["teardown"] = "running"]
  /\ holder' = "teardown"
  /\ pc' = [pc EXCEPT !["invalidate"] = "done"]
  /\ planner' = "free"
  /\ UNCHANGED <<closed, workerVars, toClose, registered, registryClosed>>

\* The forked teardown ends and, whatever its outcome, deletes the actor.
TeardownEnds ==
  /\ section["teardown"] = "running"
  /\ section' = [section EXCEPT !["teardown"] = "done"]
  /\ holder' = "nobody"
  /\ registered' = FALSE
  /\ UNCHANGED <<closed, workerVars, closerVars, planner, registryClosed>>

CleanupEnds ==
  /\ section["cleanup"] = "running"
  /\ section' = [section EXCEPT !["cleanup"] = "done"]
  /\ holder' = "nobody"
  /\ pc' = [pc EXCEPT !["shutdown"] = "scope"]
  /\ UNCHANGED <<closed, workerVars, toClose, registryVars>>

\* Scope.close interrupts every fiber still in the scope, one after another:
\* a worker ...
ScopeInterrupts(s) ==
  /\ pc["shutdown"] = "scope"
  /\ worker[s] \in {"waiting", "running", "refusing"}
  /\ Interrupted(s)
  /\ UNCHANGED <<closed, claim, handler, reply, completions, awaiter, section,
                 closerVars, registryVars>>

\* Mutant: the scope close does not await the fibers.
ScopeClosesEarly ==
  /\ pc["shutdown"] = "scope"
  /\ pc' = [pc EXCEPT !["shutdown"] = "done"]
  /\ registered' = FALSE
  /\ planner' = IF planner = "evict" THEN "free" ELSE planner
  /\ UNCHANGED <<holder, closed, workerVars, section, toClose, registryClosed>>

\* ... or the forked teardown, and returns when all have exited.  Eviction then
\* deletes the actor and frees the planning semaphore.
ScopeCloses ==
  /\ pc["shutdown"] = "scope"
  /\ Accepted = {}
  /\ pc' = [pc EXCEPT !["shutdown"] = "done"]
  /\ section' = [section EXCEPT !["teardown"] = IF @ = "running" THEN "cut" ELSE @]
  /\ holder' = IF holder = "teardown" THEN "nobody" ELSE holder
  /\ registered' = FALSE
  /\ planner' = IF planner = "evict" THEN "free" ELSE planner
  /\ UNCHANGED <<closed, workerVars, toClose, registryClosed>>

-----------------------------------------------------------------------------
Caller(s) == Submit(s) \/ SubmitToClosedRegistry(s) \/ AwaiterLeaves(s)

\* What the Effect scheduler runs once it can run.
Runtime ==
  \/ \E s \in Submission :
       \/ WorkerTakesPermit(s) \/ OperationUnwinds(s)
       \/ HandlerReplies(s) \/ HandlerEnds(s) \/ AwaiterResumes(s)
       \/ ScopeInterrupts(s)
       \/ \E c \in Closer : CloseInterrupts(c, s) \/ CloseJoins(c, s)
  \/ \E c \in Closer : CloseReturns(c)
  \/ \E x \in Section : SectionTakesPermit(x)
  \/ MarkEnds \/ TeardownEnds \/ CleanupEnds \/ ScopeCloses

Next ==
  \/ \E s \in Submission : Caller(s) \/ OperationEnds(s)
  \/ InvalidateBegins \/ EvictBegins \/ StopBegins
  \/ Runtime

Spec == Init /\ [][Next]_vars

\* Fibers that can run do run, handlers and finalizers end (they are bounded
\* by the driver timeouts), but an operation's effect may hang for ever and no
\* caller has to call.  One fairness condition covers Runtime: every behaviour
\* of a finite set of submissions has finitely many Runtime steps.
FairSpec == Spec /\ WF_vars(Runtime)

-----------------------------------------------------------------------------
(* Properties *)

WorkerState  == {"none", "waiting", "running", "unwinding", "refusing", "exited"}
Claimant     == {"none", "operation", "worker", "awaiter", "registry"} \cup Closer
HandlerState == {"idle", "running", "replied", "done"}

TypeOK ==
  /\ holder \in Submission \cup Section \cup {"nobody"}
  /\ closed \in BOOLEAN
  /\ worker \in [Submission -> WorkerState]
  /\ claim \in [Submission -> Claimant]
  /\ handler \in [Submission -> HandlerState]
  /\ reply \in [Submission -> {"pending", "interrupted", "result"}]
  /\ completions \in [Submission -> Nat]
  /\ awaiter \in [Submission -> {"none", "awaiting", "resumed", "left"}]
  /\ section \in [Section -> {"idle", "waiting", "running", "done", "cut"}]
  /\ pc \in [Closer -> {"idle", "closing", "exclusive", "scope", "done"}]
  /\ toClose \in [Closer -> SUBSET Submission]
  /\ planner \in {"free", "invalidate", "evict", "refuse"}
  /\ registered \in BOOLEAN
  /\ registryClosed \in BOOLEAN

\* "only one operation may own the ready state at a time" (cellActor.ts:99):
\* two operations never execute together, and none executes beside an
\* exclusive section, through interruption, invalidation and shutdown.
MutualExclusion ==
  /\ \A s, t \in Submission : InPermit(s) /\ InPermit(t) => s = t
  /\ \A x, y \in Section : section[x] = "running" /\ section[y] = "running" => x = y
  /\ \A s \in Submission, x \in Section : ~(InPermit(s) /\ section[x] = "running")

\* However the operation's end, its awaiter, a close and the worker's own
\* refusal race for the latch, onComplete runs at most once, exactly when the
\* outcome is final, and the reply keeps the outcome of the claimant.
OneOutcome ==
  \A s \in Submission :
    /\ completions[s] = (IF claim[s] = "operation" \/ handler[s] = "done" THEN 1 ELSE 0)
    /\ reply[s] = "result" <=> claim[s] = "operation"
    /\ reply[s] = "interrupted" <=> handler[s] \in {"replied", "done"}

\* The cleanup of a shutdown is the last thing that touches the cell: while it
\* runs and ever after, no operation executes, not even its finalizers.
CleanupIsLast ==
  section["cleanup"] \in {"running", "done"} => \A s \in Submission : ~Executing(s)

\* A shutdown neither starts its cleanup while the teardown of an invalidated
\* generation is running nor interrupts that teardown by closing the scope.
TeardownRunsOut ==
  /\ section["teardown"] # "cut"
  /\ pc["shutdown"] \in {"scope", "done"} => section["teardown"] # "running"

\* A finished shutdown leaves no worker behind, no permit taken, and no
\* accepted submission that nobody has undertaken to settle.
ShutdownLeavesNothing ==
  pc["shutdown"] = "done" =>
    /\ holder = "nobody"
    /\ \A s \in Submission : ~Alive(s) /\ (worker[s] = "exited" => Settled(s))

\* After close() no operation effect starts, whoever still waits for the permit.
NoStartAfterClose ==
  [][\A s \in Submission : worker'[s] = "running" /\ worker[s] # "running" => ~closed]_vars

\* Every shutdown finishes, even of an actor whose operation hangs for ever, and
\* a closed actor, or a closed registry, leaves no awaiter waiting for ever
\* (cellActor.ts:102-118,167-196, actorRegistry.ts:81-98).
ShutdownFinishes ==
  /\ pc["shutdown"] = "closing" ~> pc["shutdown"] = "done"
  /\ \A s \in Submission :
       (closed /\ awaiter[s] = "awaiting") ~> (awaiter[s] \in {"resumed", "left"})

\* What skills/frond-node-authoring/SKILL.md says of a queued single-owner
\* action whose caller aborts: it "settles without invoking the driver".
\* An effect never starts once its reply has been claimed.
CancelledNeverStarts ==
  [][\A s \in Submission : worker'[s] = "running" /\ worker[s] # "running" => ~Settled(s)]_vars

\* The comment on GraphCellSubmitOptions.onComplete (cellActor.ts:33): it runs
\* "before awaiters are resumed".
OnCompleteBeforeAwaiters ==
  \A s \in Submission : awaiter[s] = "resumed" => completions[s] = 1

-----------------------------------------------------------------------------
(* Refinement of SerialCell *)

StageOf(s) ==
  CASE worker[s] = "none" -> "new"
    [] worker[s] \in {"waiting", "refusing"} -> "pending"
    [] worker[s] \in {"running", "unwinding"} -> "active"
    [] worker[s] = "exited" -> "gone"

OutcomeOf(s) ==
  IF claim[s] = "none" THEN "none"
  ELSE IF claim[s] = "operation" THEN "result"
  ELSE IF handler[s] = "running" THEN "cancelling" ELSE "interrupted"

Stage     == [s \in Submission |-> StageOf(s)]
Outcome   == [s \in Submission |-> OutcomeOf(s)]
Exclusive == \E x \in Section : section[x] = "running"

Cell == INSTANCE SerialCell WITH
          stage <- Stage, outcome <- Outcome, exclusive <- Exclusive, shut <- closed

\* The actor, whatever its permit, fibers and handlers do, is a serial cell.
ImplementsSerialCell == Cell!Spec
=============================================================================
