---------------------------- MODULE LiveResource ----------------------------
(***************************************************************************)
(* The live resource of one node (liveness/index.ts): leases held by       *)
(* observers add up to a demand, and every change of demand is delivered   *)
(* to the driver's live hooks, which start, update and stop one resource.  *)
(*                                                                         *)
(* Deliveries run in an operation that holds the permit, with one          *)
(* exception: when the actor closes, the handler of an interrupted lease   *)
(* acquisition rolls its lease back beside the worker.  Live hooks suspend; *)
(* notifications do not.  A start that is interrupted or times out may     *)
(* still produce a resource later, which a detached stop hook receives.    *)
(*                                                                         *)
(* Readiness is reduced to whether the node has ready data, teardown to    *)
(* its live stop: NodeCell has the rest.                                   *)
(***************************************************************************)
EXTENDS Naturals, FiniteSets

CONSTANTS
  Op,            \* operations submitted for this node
  KindOf,        \* what each of them is
  LeaseOf,       \* the lease an operation acquires or releases
  ScopeOf,       \* the scope of each lease
  MaxStarts,     \* bound on live.start calls
  CloseReasons   \* "invalidate" (planning), "evict"

Kind == {"hold", "drop", "ensure", "release"}
Lease == DOMAIN ScopeOf
Scope == {ScopeOf[l] : l \in Lease}
Resource == 1..MaxStarts
LiveResourceState == 0..MaxStarts   \* 0: Inactive

ASSUME OpAssumption ==
  /\ KindOf \in [Op -> Kind]
  /\ LeaseOf \in [{o \in Op : KindOf[o] \in {"hold", "drop"}} -> Lease]
  /\ Op \cap {"nobody", "closer"} = {}
ASSUME ParameterAssumption ==
  /\ MaxStarts \in Nat
  /\ CloseReasons \subseteq {"invalidate", "evict"}

VARIABLES
  phase,        \* "Idle" (no ready data), "Ready" or "Invalid"
  leases,       \* liveLeases of the cell
  live,         \* the resource in the ready data, 0 if Inactive
  liveDemand,   \* the demand it was last given
  liveFailure,  \* the cell records a live failure
  hasUpdate,    \* the driver has an update hook
  resource,     \* what became of every start
  starts,       \* nextLiveGeneration
  delivery,     \* the live hook each party is in
  pc, handler,  \* operations, and their interruption handlers
  holder, closed, reason, \* permit, closed flag, who closed the actor
  rolledBack    \* some rollback changed the demand

cellVars == <<phase, leases, live, liveDemand, liveFailure>>
resourceVars == <<resource, starts>>
actorVars == <<pc, handler, holder>>
closeVars == <<closed, reason>>
vars == <<cellVars, hasUpdate, resourceVars, delivery, actorVars, closeVars,
          rolledBack>>

Worker(o) == <<o, "worker">>
Handler(o) == <<o, "handler">>
Closer == <<"closer", "worker">>
Party == {Worker(o) : o \in Op} \cup {Handler(o) : o \in Op} \cup {Closer}

NoDelivery ==
  [step |-> "none", resource |-> 0, demand |-> {}, then |-> "end", failed |-> FALSE]
Delivery ==
  [step : {"none", "starting", "updating", "stopping"}, resource : LiveResourceState,
   demand : SUBSET Scope, then : {"end", "start", "free"}, failed : BOOLEAN]

Demand(held) == {ScopeOf[l] : l \in held}

Live(o) == pc[o] \notin {"none", "done"}

Init ==
  /\ phase = "Idle"
  /\ leases = {}
  /\ live = 0 /\ liveDemand = {} /\ liveFailure = FALSE
  /\ hasUpdate \in BOOLEAN
  /\ resource = [r \in Resource |-> "none"]
  /\ starts = 0
  /\ delivery = [p \in Party |-> NoDelivery]
  /\ pc = [o \in Op |-> "none"]
  /\ handler = [o \in Op |-> "idle"]
  /\ holder = "nobody"
  /\ closed = FALSE /\ reason = "none"
  /\ rolledBack = FALSE

-----------------------------------------------------------------------------
(* The parties of a delivery *)

\* A party is in a hook and may leave it: a worker whose handler has ended is
\* about to be interrupted.
In(p, step) ==
  /\ delivery[p].step = step
  /\ \A o \in Op : p = Worker(o) => handler[o] # "done"

Continue(p) ==
  \/ /\ p = Closer
     /\ holder' = "closer"
     /\ UNCHANGED <<pc, handler>>
  \/ \E o \in Op :
       \/ /\ p = Worker(o)
          /\ holder' = o
          /\ pc' = [pc EXCEPT ![o] = "delivering"]
          /\ UNCHANGED handler
       \/ /\ p = Handler(o)
          /\ handler' = [handler EXCEPT ![o] = "running"]
          /\ UNCHANGED <<pc, holder>>

End(p) ==
  \/ /\ p = Closer
     /\ holder' = "nobody"
     /\ UNCHANGED <<pc, handler>>
  \/ \E o \in Op :
       \/ /\ p = Worker(o)
          /\ holder' = "nobody"
          /\ pc' = [pc EXCEPT ![o] = "done"]
          /\ UNCHANGED handler
       \/ /\ p = Handler(o)
          /\ handler' = [handler EXCEPT ![o] = "done"]
          /\ UNCHANGED <<pc, holder>>

Leave(p) ==
  /\ delivery' = [delivery EXCEPT ![p] = NoDelivery]
  /\ End(p)

\* The party calls live.start for a fresh generation.
Start(p, demand, failed, resources) ==
  /\ starts < MaxStarts
  /\ starts' = starts + 1
  /\ resource' = [resources EXCEPT ![starts'] = "starting"]
  /\ delivery' = [delivery EXCEPT ![p] =
       [step |-> "starting", resource |-> starts', demand |-> demand,
        then |-> "end", failed |-> failed]]
  /\ Continue(p)

Stop(p, r, demand, then, failed) ==
  /\ delivery' = [delivery EXCEPT ![p] =
       [step |-> "stopping", resource |-> r, demand |-> demand, then |-> then,
        failed |-> failed]]
  /\ UNCHANGED resourceVars
  /\ Continue(p)

Update(p, r, demand) ==
  /\ delivery' = [delivery EXCEPT ![p] =
       [step |-> "updating", resource |-> r, demand |-> demand, then |-> "end",
        failed |-> FALSE]]
  /\ UNCHANGED resourceVars
  /\ Continue(p)

\* deliverLiveDemand on a cell whose ready data, if any, holds resource r with
\* demand given.  Inactive demand clears the recorded failure.
Deliver(p, demand, isReady, r, given) ==
  \/ /\ \/ ~isReady
        \/ demand = {} /\ r = 0
        \/ demand # {} /\ r # 0 /\ given = demand
     /\ liveFailure' = (liveFailure /\ ~(isReady /\ demand = {}))
     /\ Leave(p)
     /\ UNCHANGED resourceVars
  \/ /\ isReady /\ demand = {} /\ r # 0
     /\ Stop(p, r, {}, "end", FALSE)
     /\ UNCHANGED liveFailure
  \/ /\ isReady /\ demand # {} /\ r = 0
     /\ Start(p, demand, FALSE, resource)
     /\ UNCHANGED liveFailure
  \/ /\ isReady /\ demand # {} /\ r # 0 /\ given # demand
     /\ IF hasUpdate THEN Update(p, r, demand)
                     ELSE Stop(p, r, demand, "start", FALSE)
     /\ UNCHANGED liveFailure

-----------------------------------------------------------------------------
(* Live hooks answer, fail or time out *)

\* setLiveResourceState: ready data takes the resource, the base the failure.
SetLive(r, demand, failed) ==
  /\ live' = IF phase = "Ready" THEN r ELSE live
  /\ liveDemand' = IF phase = "Ready" THEN demand ELSE liveDemand
  /\ liveFailure' = failed

StartSucceeds(p) ==
  /\ In(p, "starting")
  /\ resource' = [resource EXCEPT ![delivery[p].resource] = "running"]
  /\ SetLive(delivery[p].resource, delivery[p].demand, delivery[p].failed)
  /\ Leave(p)
  /\ UNCHANGED <<phase, leases, hasUpdate, starts, closeVars, rolledBack>>

\* A start that timed out may still produce a resource.
StartFails(p) ==
  /\ In(p, "starting")
  /\ \E fate \in {"failed", "orphan"} :
       resource' = [resource EXCEPT ![delivery[p].resource] = fate]
  /\ SetLive(0, {}, TRUE)
  /\ Leave(p)
  /\ UNCHANGED <<phase, leases, hasUpdate, starts, closeVars, rolledBack>>

UpdateSucceeds(p) ==
  /\ In(p, "updating")
  /\ SetLive(delivery[p].resource, delivery[p].demand, FALSE)
  /\ Leave(p)
  /\ UNCHANGED <<phase, leases, hasUpdate, resourceVars, closeVars, rolledBack>>

\* Mutant of UpdateFails: the uncertain resource is replaced, not stopped.
UpdateFailsUnstopped(p) ==
  /\ In(p, "updating")
  /\ Start(p, delivery[p].demand, TRUE, resource)
  /\ UNCHANGED <<cellVars, hasUpdate, closeVars, rolledBack>>

\* The resource is uncertain: stop it, then one bounded restart.
UpdateFails(p) ==
  /\ In(p, "updating")
  /\ Stop(p, delivery[p].resource, delivery[p].demand, "start", TRUE)
  /\ UNCHANGED <<cellVars, hasUpdate, closeVars, rolledBack>>

StopEnds(p) ==
  /\ In(p, "stopping")
  /\ LET stopped == [resource EXCEPT ![delivery[p].resource] = "stopped"]
     IN \E failed \in BOOLEAN :
          /\ SetLive(0, {}, failed)
          /\ \/ /\ delivery[p].then = "start"
                /\ Start(p, delivery[p].demand, failed \/ delivery[p].failed, stopped)
                /\ UNCHANGED phase
             \/ /\ delivery[p].then = "end"
                /\ resource' = stopped
                /\ Leave(p)
                /\ UNCHANGED <<phase, starts>>
             \/ /\ delivery[p].then = "free"
                /\ resource' = stopped
                /\ phase' = "Idle"
                /\ Leave(p)
                /\ UNCHANGED starts
  /\ UNCHANGED <<leases, hasUpdate, closeVars, rolledBack>>

\* An abandoned start answers: its resource goes to a detached stop.
OrphanAnswers(r) ==
  /\ resource[r] = "orphan"
  /\ \E fate \in {"failed", "detached"} : resource' = [resource EXCEPT ![r] = fate]
  /\ UNCHANGED <<cellVars, hasUpdate, starts, delivery, actorVars, closeVars,
                 rolledBack>>

\* The detached stop records its failure on the cell and leaves the slot alone.
DetachedStopEnds(r) ==
  /\ resource[r] = "detached"
  /\ resource' = [resource EXCEPT ![r] = "stopped"]
  /\ \E failed \in BOOLEAN : liveFailure' = (liveFailure \/ failed)
  /\ UNCHANGED <<phase, leases, live, liveDemand, hasUpdate, starts, delivery,
                 actorVars, closeVars, rolledBack>>

-----------------------------------------------------------------------------
(* Operations *)

\* A lease is given back by who was told that it holds it.
Submit(o) ==
  /\ ~closed /\ pc[o] = "none"
  /\ KindOf[o] = "drop" => LeaseOf[o] \in leases /\
       \A h \in Op : KindOf[h] = "hold" /\ LeaseOf[h] = LeaseOf[o] => pc[h] = "done"
  /\ pc' = [pc EXCEPT ![o] = "queued"]
  /\ UNCHANGED <<cellVars, hasUpdate, resourceVars, delivery, handler, holder,
                 closeVars, rolledBack>>

\* The worker takes the permit and runs up to its first suspension.
Begins(o, kind) ==
  /\ holder = "nobody" /\ ~closed
  /\ pc[o] = "queued" /\ KindOf[o] = kind

\* The new leases are committed; a changed demand is delivered.
ChangeLeases(p, held) ==
  /\ leases' = held
  /\ IF Demand(held) # Demand(leases)
       THEN Deliver(p, Demand(held), phase = "Ready", live, liveDemand)
       ELSE /\ Leave(p)
            /\ UNCHANGED <<resourceVars, liveFailure>>

AcquireLiveLease(o) ==
  /\ Begins(o, "hold")
  /\ ChangeLeases(Worker(o), leases \cup {LeaseOf[o]})
  /\ UNCHANGED <<phase, live, liveDemand, hasUpdate, closeVars, rolledBack>>

\* Mutant of ReleaseLiveLease: the demand is not recomputed.
ReleaseLiveLeaseQuietly(o) ==
  /\ Begins(o, "drop")
  /\ leases' = leases \ {LeaseOf[o]}
  /\ Leave(Worker(o))
  /\ UNCHANGED <<phase, live, liveDemand, liveFailure, hasUpdate, resourceVars,
                 closeVars, rolledBack>>

ReleaseLiveLease(o) ==
  /\ Begins(o, "drop")
  /\ ChangeLeases(Worker(o), leases \ {LeaseOf[o]})
  /\ UNCHANGED <<phase, live, liveDemand, hasUpdate, closeVars, rolledBack>>

\* Ready data answers the read; without it the driver acquires.
ReadinessRead(o) ==
  /\ Begins(o, "ensure")
  /\ IF phase = "Idle"
       THEN /\ holder' = o
            /\ pc' = [pc EXCEPT ![o] = "acquiring"]
            /\ UNCHANGED <<handler, delivery>>
       ELSE Leave(Worker(o))
  /\ UNCHANGED <<cellVars, hasUpdate, resourceVars, closeVars, rolledBack>>

\* Fresh ready data has no resource and no failure; the leases it inherits are
\* delivered after the commit.
AcquireSucceeds(o) ==
  /\ pc[o] = "acquiring" /\ handler[o] = "idle"
  /\ phase' = "Ready"
  /\ live' = 0 /\ liveDemand' = {}
  /\ \/ /\ Demand(leases) = {}
        /\ Leave(Worker(o))
        /\ UNCHANGED resourceVars
     \/ /\ Demand(leases) # {}
        /\ Start(Worker(o), Demand(leases), FALSE, resource)
  /\ liveFailure' = FALSE
  /\ UNCHANGED <<leases, hasUpdate, closeVars, rolledBack>>

AcquireFails(o) ==
  /\ pc[o] = "acquiring" /\ handler[o] = "idle"
  /\ Leave(Worker(o))
  /\ UNCHANGED <<cellVars, hasUpdate, resourceVars, closeVars, rolledBack>>

\* releaseCell: live stop first, then the cell returns to Idle.
Release(p) ==
  IF phase = "Ready" /\ live # 0
    THEN /\ Stop(p, live, {}, "free", FALSE)
         /\ UNCHANGED <<phase, live, liveDemand>>
    ELSE /\ phase' = "Idle"
         /\ Leave(p)
         /\ UNCHANGED <<live, liveDemand, resourceVars>>

ReleaseNode(o) ==
  /\ Begins(o, "release")
  /\ Release(Worker(o))
  /\ UNCHANGED <<leases, liveFailure, hasUpdate, closeVars, rolledBack>>

-----------------------------------------------------------------------------
(* Closing the actor *)

Close(why) ==
  /\ ~closed
  /\ closed' = TRUE /\ reason' = why
  /\ UNCHANGED <<cellVars, hasUpdate, resourceVars, delivery, actorVars, rolledBack>>

\* Mutant of HandlerStarts: the handler answers and leaves the worker running.
HandlerStartsForever(o) ==
  /\ closed /\ Live(o) /\ handler[o] = "idle"
  /\ handler' = [handler EXCEPT ![o] = "running"]
  /\ UNCHANGED <<cellVars, hasUpdate, resourceVars, delivery, pc, holder,
                 closeVars, rolledBack>>

\* close() claims an unsettled operation.  The handler of a lease acquisition
\* that has committed its lease rolls it back and delivers the demand left.
HandlerStarts(o) ==
  /\ closed /\ Live(o) /\ handler[o] = "idle"
  /\ IF KindOf[o] = "hold" /\ pc[o] = "delivering"
       THEN /\ ChangeLeases(Handler(o), leases \ {LeaseOf[o]})
            /\ rolledBack' = (rolledBack \/ Demand(leases') # Demand(leases))
       ELSE /\ End(Handler(o))
            /\ UNCHANGED <<leases, liveFailure, resourceVars, delivery, rolledBack>>
  /\ UNCHANGED <<phase, live, liveDemand, hasUpdate, closeVars>>

\* The handler has ended: its worker leaves the hook it is in, without a
\* commit.  A start it abandons may still produce a resource.
WorkerInterrupted(o) ==
  /\ handler[o] = "done" /\ Live(o)
  /\ resource' = IF delivery[Worker(o)].step = "starting"
                   THEN [resource EXCEPT ![delivery[Worker(o)].resource] = "orphan"]
                   ELSE resource
  /\ delivery' = [delivery EXCEPT ![Worker(o)] = NoDelivery]
  /\ pc' = [pc EXCEPT ![o] = "done"]
  /\ holder' = IF holder = o THEN "nobody" ELSE holder
  /\ UNCHANGED <<cellVars, hasUpdate, starts, handler, closeVars, rolledBack>>

Claimed == \A o \in Op : ~Live(o) /\ handler[o] # "running"

\* Planning marks the cell Invalid and then tears the captured ready data down:
\* its live stop finds no ready data in the cell and does nothing.
Invalidate ==
  /\ closed /\ reason = "invalidate" /\ Claimed
  /\ phase' = "Invalid"
  /\ live' = 0 /\ liveDemand' = {}
  /\ reason' = "closed"
  /\ UNCHANGED <<leases, liveFailure, hasUpdate, resourceVars, delivery, actorVars,
                 closed, rolledBack>>

Evict ==
  /\ closed /\ reason = "evict" /\ Claimed /\ holder = "nobody"
  /\ Release(Closer)
  /\ reason' = "closed"
  /\ UNCHANGED <<leases, liveFailure, hasUpdate, closed, rolledBack>>

-----------------------------------------------------------------------------
(* Specification *)

Hooks(p) ==
  \/ StartSucceeds(p) \/ StartFails(p)
  \/ UpdateSucceeds(p) \/ UpdateFails(p)
  \/ StopEnds(p)

Steps(o) ==
  \/ AcquireLiveLease(o) \/ ReleaseLiveLease(o)
  \/ ReadinessRead(o) \/ AcquireSucceeds(o) \/ AcquireFails(o)
  \/ ReleaseNode(o)
  \/ HandlerStarts(o) \/ WorkerInterrupted(o)

Progress ==
  \/ \E o \in Op : Steps(o)
  \/ \E p \in Party : Hooks(p)
  \/ Invalidate \/ Evict

Next ==
  \/ \E o \in Op : Submit(o)
  \/ Progress
  \/ \E r \in Resource : OrphanAnswers(r) \/ DetachedStopEnds(r)
  \/ \E why \in CloseReasons : Close(why)

Spec == Init /\ [][Next]_vars

-----------------------------------------------------------------------------
(* Properties *)

TypeOK ==
  /\ phase \in {"Idle", "Ready", "Invalid"}
  /\ leases \subseteq Lease
  /\ live \in LiveResourceState
  /\ liveDemand \subseteq Scope
  /\ liveFailure \in BOOLEAN
  /\ hasUpdate \in BOOLEAN
  /\ resource \in [Resource -> {"none", "starting", "running", "stopped", "failed",
                                "orphan", "detached"}]
  /\ starts \in 0..MaxStarts
  /\ delivery \in [Party -> Delivery]
  /\ pc \in [Op -> {"none", "queued", "acquiring", "delivering", "done"}]
  /\ handler \in [Op -> {"idle", "running", "done"}]
  /\ holder \in Op \cup {"nobody", "closer"}
  /\ closed \in BOOLEAN
  /\ reason \in {"none", "invalidate", "evict", "closed"}
  /\ rolledBack \in BOOLEAN

\* Any resource returned from start reaches stop (liveness/index.ts:424): when
\* nobody holds the permit, a running resource is the one the cell knows.
EveryResourceStops ==
  holder = "nobody" =>
    \A r \in Resource :
      resource[r] = "running" => phase = "Ready" /\ live = r

\* So it is as long as deliveries are serialized by the permit and the cell is
\* not invalidated.
SerialDeliveryLosesNothing ==
  ~rolledBack /\ phase # "Invalid" => EveryResourceStops

\* The resource of a ready node at rest matches the leases held: it was given
\* their demand, or none is active and there is no demand or a failure to show.
DemandIsDelivered ==
  holder = "nobody" /\ ~closed /\ phase = "Ready" =>
    \/ live # 0 /\ resource[live] = "running" /\ liveDemand = Demand(leases)
    \/ live = 0 /\ (Demand(leases) = {} \/ liveFailure)

\* A closed actor's eviction ends although handlers deliver demand meanwhile.
CloseEnds == closed ~> reason = "closed" /\ holder = "nobody"
=============================================================================
