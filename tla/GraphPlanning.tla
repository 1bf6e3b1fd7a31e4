--------------------------- MODULE GraphPlanning ---------------------------
(***************************************************************************)
(* The graph around the cells: planning (graph/planning/plan.ts), the      *)
(* readiness of dependencies (graph/operations/dependencies.ts) and the    *)
(* eviction of subgraphs (graph/lifecycle/eviction.ts), which share one    *)
(* planning semaphore (graph/system/index.ts).                             *)
(*                                                                         *)
(* A caller plans a request under the semaphore: planNode walks the        *)
(* declared dependencies depth first, materialises missing nodes, records  *)
(* edges and invalidates nodes that were declared wrongly.  It may then    *)
(* submit an operation to the node's actor.  The worker of an ensure holds *)
(* its node's permit while it takes the semaphore again, once for each     *)
(* dependency, and awaits their workers.  An eviction holds the semaphore  *)
(* until every actor it shuts down has ended.                              *)
(*                                                                         *)
(* Submissions by node id look their cell up before they wait for the      *)
(* semaphore (cell/cellSubmission.ts evaluates the lookup as an argument), *)
(* so they may submit a cell that was wired, or evicted, meanwhile.        *)
(*                                                                         *)
(* A cell is reduced to its phase; CellActor and NodeCell model what is    *)
(* inside.  A dependency slot is named by the node it points to, teardown  *)
(* and cleanup are single steps, and results do not expire.                *)
(***************************************************************************)
EXTENDS Naturals, Sequences, FiniteSets, SequencesExt

CONSTANTS
  Node,       \* node identities: tag and key
  Args,       \* args that project to the same key
  Wiring,     \* dependency requests each node declares for each args
  Malformed,  \* requests whose dependency declaration is malformed
  Rejected,   \* requests whose key fails or whose tag is taken
  Caller,     \* callers of the graph system
  Calls,      \* the scenarios: which call each caller may make
  Impatient,  \* callers whose fiber may be interrupted while they plan
  Nobody

Request == Node \X Args
Kind == {"plan", "ensure", "ensureById", "release", "evict", "evictDependents"}
Call == [kind : Kind, request : Request]

ASSUME WiringAssumption == IsFiniteSet(Node) /\ Wiring \in [Request -> Seq(Request)]
ASSUME RequestAssumption == Malformed \subseteq Request /\ Rejected \subseteq Request
ASSUME CallAssumption == Calls \subseteq [Caller -> Call] /\ Impatient \subseteq Caller
\* Bound: one eviction, so a node has at most one evicted cell.
ASSUME EvictionAssumption ==
  \A s \in Calls : Cardinality({c \in Caller : s[c].kind \in {"evict", "evictDependents"}}) <= 1
ASSUME PartyAssumption == Nobody \notin Caller /\ Node \cap Caller = {}

VARIABLES
  phase,     \* of each node's cell; "Missing" is not in the nodes map
  ghost,     \* the phase of the cell an eviction removed, "none" before it
  deps,      \* the dependencies recorded in the cell
  edges,     \* of the graph, from a dependent to a dependency
  actor,     \* the registered actor: none, open or closed
  holder,    \* of the permit of each node's actor
  attempts,  \* readiness attempts each node has begun
  workers,   \* submissions the actors have accepted
  planner,   \* holder of the planning semaphore
  stack,     \* planNode activations, the innermost last
  doomed,    \* nodes the planner is about to invalidate or evict
  closing,   \* is the planner shutting down the first of them
  pc, call,
  look       \* what a caller's lookup by node id found

cellVars == <<phase, ghost, deps, edges>>
actorVars == <<actor, holder, attempts, workers>>
planVars == <<planner, stack, doomed, closing>>
callerVars == <<pc, call, look>>
vars == <<cellVars, actorVars, planVars, callerVars>>

Planned == {n \in Node : phase[n] # "Missing"}
Targets(r) == {d[1] : d \in ToSet(Wiring[r])}
Life(n) == IF ghost[n] = "none" THEN 0 ELSE 1

\* A cell as a lookup found it: the object captures its dependencies.
Cell(n) == [on |-> n, found |-> n \in Planned, deps |-> deps[n], life |-> Life(n)]

Init ==
  /\ phase = [n \in Node |-> "Missing"]
  /\ ghost = [n \in Node |-> "none"]
  /\ deps = [n \in Node |-> {}]
  /\ edges = {}
  /\ actor = [n \in Node |-> "none"]
  /\ holder = [n \in Node |-> "nobody"]
  /\ attempts = [n \in Node |-> 0]
  /\ workers = {}
  /\ planner = Nobody
  /\ stack = <<>> /\ doomed = <<>> /\ closing = FALSE
  /\ pc = [c \in Caller |-> "idle"]
  /\ call \in Calls
  /\ look = [c \in Caller |-> {}]

-----------------------------------------------------------------------------
(* Submissions and their answers *)

\* A closed actor accepts a submission too, and refuses it once the permit is
\* free.
Submitted(cell, by, nth, kind) ==
  [on |-> cell.on, by |-> by, nth |-> nth, kind |-> kind, life |-> cell.life,
   deps |-> cell.deps, todo |-> {}, failed |-> FALSE,
   pc |-> IF actor[cell.on] = "closed" THEN "refused" ELSE "queued"]

Submit(cell, by, nth, kind, others) ==
  /\ workers' = others \cup {Submitted(cell, by, nth, kind)}
  /\ actor' = [actor EXCEPT ![cell.on] = IF @ = "none" THEN "open" ELSE @]

\* The parent that awaits an answer: the attempt of a dependent's worker.
Awaits(p, w) == p.on = w.by /\ attempts[p.on] = w.nth /\ p.pc = "dependencies"

\* The worker w ends; whoever awaits it sees whether the node is ready.
Answer(w, isReady) ==
  /\ workers' = {IF Awaits(p, w) /\ ~isReady THEN [p EXCEPT !.failed = TRUE] ELSE p :
                   p \in workers \ {w}}
  /\ pc' = [c \in Caller |-> IF c = w.by THEN "done" ELSE pc[c]]
  /\ UNCHANGED <<actor, attempts, call, look>>

Continue(w, next) ==
  /\ workers' = (workers \ {w}) \cup {next}
  /\ UNCHANGED <<actor, callerVars>>

Hold(n, who) == holder' = [holder EXCEPT ![n] = who]
Become(n, p) == phase' = [phase EXCEPT ![n] = p] /\ UNCHANGED <<ghost, deps, edges>>

\* A worker reads and commits the cell it captured, evicted or not.
Outdated(w) == w.life # Life(w.on)
PhaseOf(w) == IF Outdated(w) THEN ghost[w.on] ELSE phase[w.on]

Commit(w, p) ==
  IF Outdated(w)
    THEN ghost' = [ghost EXCEPT ![w.on] = p] /\ UNCHANGED <<phase, deps, edges>>
    ELSE Become(w.on, p)

-----------------------------------------------------------------------------
(* Workers *)

TakesPermit(w) ==
  w.pc = "queued" /\ actor[w.on] = "open" /\ holder[w.on] = "nobody"

\* ensureReadyCell finds the node ready or invalid.
ReadinessRead(w) ==
  /\ TakesPermit(w) /\ w.kind = "ensure"
  /\ PhaseOf(w) \in {"Ready", "Invalid"}
  /\ Answer(w, PhaseOf(w) = "Ready")
  /\ UNCHANGED <<holder, cellVars, planVars>>

BeginAttempt(w) ==
  /\ TakesPermit(w) /\ w.kind = "ensure"
  /\ PhaseOf(w) \in {"Idle", "Error"}
  /\ Commit(w, "Acquiring")
  /\ Hold(w.on, "worker")
  /\ attempts' = [attempts EXCEPT ![w.on] = @ + 1]
  /\ Continue(w, [w EXCEPT !.pc = "acquiring"])
  /\ UNCHANGED planVars

\* ensureDependencyNodes looks all of them up before it waits.
LookUpDependencies(w) ==
  /\ w.pc = "acquiring"
  /\ Continue(w, [w EXCEPT !.pc = "dependencies", !.todo = {Cell(d) : d \in w.deps}])
  /\ UNCHANGED <<holder, attempts, cellVars, planVars>>

\* submitToCellActor takes the planning semaphore for one dependency.
SubmitDependency(w, d) ==
  /\ w.pc = "dependencies" /\ d \in w.todo
  /\ planner = Nobody
  /\ LET others == workers \ {w}
         next == [w EXCEPT !.todo = @ \ {d}, !.failed = @ \/ ~d.found] IN
       IF d.found
         THEN Submit(d, w.on, attempts[w.on], "ensure", others \cup {next})
         ELSE workers' = others \cup {next} /\ UNCHANGED actor
  /\ UNCHANGED <<holder, attempts, cellVars, planVars, callerVars>>

DependenciesAnswered(w) ==
  /\ w.pc = "dependencies" /\ w.todo = {}
  /\ ~\E v \in workers : Awaits(w, v)

DependenciesFail(w) ==
  /\ DependenciesAnswered(w) /\ w.failed
  /\ Commit(w, "Error")
  /\ Hold(w.on, "nobody")
  /\ Answer(w, FALSE)
  /\ UNCHANGED planVars

AcquireStarts(w) ==
  /\ DependenciesAnswered(w) /\ ~w.failed
  /\ Continue(w, [w EXCEPT !.pc = "driving"])
  /\ UNCHANGED <<holder, attempts, cellVars, planVars>>

AcquireEnds(w) ==
  /\ w.pc = "driving"
  /\ \E p \in {"Ready", "Error"} : Commit(w, p) /\ Answer(w, p = "Ready")
  /\ Hold(w.on, "nobody")
  /\ UNCHANGED planVars

\* releaseCell leaves the node idle, whatever its phase was.
Release(w) ==
  /\ TakesPermit(w) /\ w.kind = "release"
  /\ Commit(w, "Idle")
  /\ Answer(w, TRUE)
  /\ UNCHANGED <<holder, planVars>>

\* The worker finds its actor closed, or the closing scope interrupts it.
Refused(w) ==
  /\ w.pc = "refused" /\ holder[w.on] = "nobody"
  /\ Answer(w, FALSE)
  /\ UNCHANGED <<holder, cellVars, planVars>>

\* Bug: a worker that awaits its dependencies is not interrupted.
InterruptedUnlessWaiting(w) ==
  /\ actor[w.on] = "closed" /\ w.pc \in {"queued", "driving"}
  /\ Commit(w, IF w.pc = "driving" THEN "Error" ELSE PhaseOf(w))
  /\ Hold(w.on, IF w.pc = "driving" THEN "nobody" ELSE holder[w.on])
  /\ Answer(w, FALSE)
  /\ UNCHANGED planVars

\* A closed actor interrupts what it had accepted, whatever the worker waits
\* for, and fails the attempt it was making.
Interrupted(w) ==
  /\ actor[w.on] = "closed" /\ w.pc # "refused"
  /\ LET Holds == w.pc \in {"acquiring", "dependencies", "driving"} IN
       /\ Commit(w, IF Holds THEN "Error" ELSE PhaseOf(w))
       /\ Hold(w.on, IF Holds THEN "nobody" ELSE holder[w.on])
  /\ Answer(w, FALSE)
  /\ UNCHANGED planVars

-----------------------------------------------------------------------------
(* Planning *)

Frame(r) == [request |-> r, rest |-> Wiring[r], returned |-> FALSE]
Top == stack[Len(stack)]
NodeAt(i) == stack[i].request[1]

Visiting == {NodeAt(i) : i \in DOMAIN stack}

\* The caller of a planNode that ends has its dependency planned.
Returned(s) ==
  IF s = <<>> THEN s ELSE [s EXCEPT ![Len(s)].returned = TRUE]

\* The members of the cycle that visiting n again closes.
CyclePath(n) ==
  LET first == CHOOSE i \in DOMAIN stack : NodeAt(i) = n
  IN  [i \in 1..(Len(stack) - first + 1) |-> NodeAt(first + i - 1)]

\* The cell of a node that has none.
Materialised(n) == [phase EXCEPT ![n] = IF @ = "Missing" THEN "Idle" ELSE @]

SameDependencies(r) == deps[r[1]] = Targets(r)

\* The key, the tag and the policy of a request stand; its declaration does.
Admitted(r) == r \notin Rejected
WellDeclared(r) == r \notin Malformed

\* planNode up to the point where it returns or begins to wire dependencies.
VisitRejected(r) ==
  /\ ~Admitted(r)
  /\ IF r[1] \in Planned
       THEN doomed' = <<r[1]>> /\ UNCHANGED phase
       ELSE doomed' = <<>> /\ phase' = [phase EXCEPT ![r[1]] = "Invalid"]
  /\ stack' = Returned(stack)

VisitInvalid(r) ==
  /\ Admitted(r) /\ phase[r[1]] = "Invalid"
  /\ stack' = Returned(stack)
  /\ UNCHANGED <<phase, doomed>>

VisitCycle(r) ==
  /\ Admitted(r) /\ phase[r[1]] # "Invalid" /\ r[1] \in Visiting
  /\ doomed' = CyclePath(r[1])
  /\ stack' = Returned(stack)
  /\ UNCHANGED phase

\* A known identity must keep its dependencies, and every declaration must be
\* well formed.
VisitMisdeclared(r) ==
  /\ Admitted(r) /\ phase[r[1]] # "Invalid" /\ r[1] \notin Visiting
  /\ \/ ~WellDeclared(r)
     \/ r[1] \in Planned /\ ~SameDependencies(r)
  /\ phase' = Materialised(r[1])
  /\ doomed' = <<r[1]>>
  /\ stack' = Returned(stack)

VisitDependencies(r) ==
  /\ Admitted(r) /\ WellDeclared(r)
  /\ phase[r[1]] # "Invalid" /\ r[1] \notin Visiting
  /\ r[1] \in Planned => SameDependencies(r)
  /\ phase' = Materialised(r[1])
  /\ stack' = Append(Returned(stack), Frame(r))
  /\ UNCHANGED doomed

Visit(r) ==
  \/ VisitRejected(r) \/ VisitInvalid(r) \/ VisitCycle(r)
  \/ VisitMisdeclared(r) \/ VisitDependencies(r)

PlanBegins(c) ==
  /\ pc[c] = "idle" /\ call[c].kind \in {"plan", "ensure"}
  /\ planner = Nobody
  /\ planner' = c
  /\ pc' = [pc EXCEPT ![c] = "planning"]
  /\ Visit(call[c].request)
  /\ UNCHANGED <<ghost, deps, edges, actorVars, closing, call, look>>

VisitNext ==
  /\ doomed = <<>> /\ stack # <<>>
  /\ ~Top.returned /\ Top.rest # <<>>
  /\ Visit(Head(Top.rest))
  /\ UNCHANGED <<ghost, deps, edges, actorVars, planner, closing, callerVars>>

\* recordDependencyEdge: after the dependency was planned, however it ended.
RecordEdge ==
  /\ doomed = <<>> /\ stack # <<>> /\ Top.returned
  /\ edges' = edges \cup {<<Top.request[1], Head(Top.rest)[1]>>}
  /\ stack' = [stack EXCEPT ![Len(stack)].returned = FALSE,
                            ![Len(stack)].rest = Tail(@)]
  /\ UNCHANGED <<phase, ghost, deps, actorVars, planner, doomed, closing, callerVars>>

\* recordCellDependencies: once all of them are planned.
RecordDependencies ==
  /\ doomed = <<>> /\ stack # <<>>
  /\ ~Top.returned /\ Top.rest = <<>>
  /\ deps' = [deps EXCEPT ![Top.request[1]] = Targets(Top.request)]
  /\ stack' = Front(stack)
  /\ UNCHANGED <<phase, ghost, edges, actorVars, planner, doomed, closing, callerVars>>

PlanEnds(c) ==
  /\ pc[c] = "planning" /\ stack = <<>> /\ doomed = <<>>
  /\ planner' = Nobody
  /\ IF call[c].kind = "plan"
       THEN pc' = [pc EXCEPT ![c] = "done"] /\ UNCHANGED <<workers, actor>>
       ELSE /\ pc' = [pc EXCEPT ![c] = "waiting"]
            /\ Submit(Cell(call[c].request[1]), c, 0, "ensure", workers)
  /\ UNCHANGED <<cellVars, holder, attempts, stack, doomed, closing, call, look>>

\* Submissions by node id do not plan.  Their lookup comes first ...
LookUp(c) ==
  /\ pc[c] = "idle" /\ call[c].kind \in {"ensureById", "release"}
  /\ pc' = [pc EXCEPT ![c] = "submitting"]
  /\ look' = [look EXCEPT ![c] = {Cell(call[c].request[1])}]
  /\ UNCHANGED <<cellVars, actorVars, planVars, call>>

\* ... and the semaphore second.
SubmitById(c) ==
  /\ pc[c] = "submitting" /\ planner = Nobody
  /\ \E cell \in look[c] :
       IF cell.found
         THEN /\ pc' = [pc EXCEPT ![c] = "waiting"]
              /\ Submit(cell, c, 0, IF call[c].kind = "release" THEN "release" ELSE "ensure",
                        workers)
         ELSE pc' = [pc EXCEPT ![c] = "done"] /\ UNCHANGED <<workers, actor>>
  /\ look' = [look EXCEPT ![c] = {}]
  /\ UNCHANGED <<cellVars, holder, attempts, planVars, call>>

-----------------------------------------------------------------------------
(* Invalidation and eviction, under the planning semaphore *)

Dooms(kind) == doomed # <<>> /\ planner # Nobody /\ pc[planner] = kind

CloseActor ==
  /\ doomed # <<>> /\ ~closing /\ actor[Head(doomed)] # "none"
  /\ actor' = [actor EXCEPT ![Head(doomed)] = "closed"]
  /\ closing' = TRUE
  /\ UNCHANGED <<cellVars, holder, attempts, workers, planner, stack, doomed, callerVars>>

\* close() has returned and the permit is free.
Exclusive(n) ==
  /\ closing /\ holder[n] = "nobody"
  /\ \A w \in workers : w.on = n => w.pc = "refused"

\* markCellInvalid without an actor, teardown included.
InvalidateUnowned ==
  /\ Dooms("planning") /\ ~closing /\ actor[Head(doomed)] = "none"
  /\ Become(Head(doomed), "Invalid")
  /\ doomed' = Tail(doomed)
  /\ UNCHANGED <<actorVars, planner, stack, closing, callerVars>>

\* The teardown of ready data is forked and holds the permit after planning
\* has moved on; its end deletes the actor.
Invalidate ==
  /\ Dooms("planning") /\ Exclusive(Head(doomed))
  /\ LET n == Head(doomed) IN
       /\ Become(n, "Invalid")
       /\ IF phase[n] = "Ready"
            THEN Hold(n, "teardown") /\ UNCHANGED actor
            ELSE actor' = [actor EXCEPT ![n] = "none"] /\ UNCHANGED holder
  /\ doomed' = Tail(doomed) /\ closing' = FALSE
  /\ UNCHANGED <<attempts, workers, planner, stack, callerVars>>

TeardownEnds(n) ==
  /\ holder[n] = "teardown"
  /\ Hold(n, "nobody")
  /\ actor' = [actor EXCEPT ![n] = "none"]
  /\ UNCHANGED <<cellVars, attempts, workers, planVars, callerVars>>

\* The nodes that depend on a node of S in at most k steps, S included.
DependentsWithin(S) ==
  LET within[k \in 0..Cardinality(Node)] ==
        IF k = 0 THEN S
        ELSE within[k - 1] \cup {n \in Node : \E m \in within[k - 1] : <<n, m>> \in edges}
  IN  within

\* Bug: only direct dependents are evicted with a root.
ClosureDirect(S) == DependentsWithin(S)[1]

Closure(S) == DependentsWithin(S)[Cardinality(Node)]

Depth(n) ==
  CHOOSE k \in 0..Cardinality(Node) :
    /\ DependentsWithin({n})[k] = Closure({n})
    /\ \A j \in 0..(k - 1) : DependentsWithin({n})[j] # Closure({n})

\* evictedNodeIds: the roots' dependents, deepest first.
EvictionOrders(S) ==
  {s \in SetToSeqs(S) : \A i, j \in DOMAIN s : i < j => Depth(s[i]) >= Depth(s[j])}

EvictBegins(c) ==
  /\ pc[c] = "idle" /\ call[c].kind \in {"evict", "evictDependents"}
  /\ planner = Nobody
  /\ planner' = c
  /\ pc' = [pc EXCEPT ![c] = "evicting"]
  /\ LET root == call[c].request[1]
         kept == IF call[c].kind = "evict" THEN {} ELSE {root} IN
       doomed' \in EvictionOrders((Planned \cap Closure({root})) \ kept)
  /\ UNCHANGED <<cellVars, actorVars, stack, closing, call, look>>

Forget(n) ==
  /\ ghost' = [ghost EXCEPT ![n] = "Idle"]
  /\ phase' = [phase EXCEPT ![n] = "Missing"]
  /\ deps' = [deps EXCEPT ![n] = {}]
  /\ edges' = {e \in edges : n \notin {e[1], e[2]}}
  /\ doomed' = Tail(doomed)

\* Bug: an eviction forgets a node without shutting its actor down.
EvictOwned ==
  /\ Dooms("evicting") /\ ~closing
  /\ Forget(Head(doomed))
  /\ UNCHANGED <<actorVars, planner, stack, closing, callerVars>>

EvictUnowned ==
  /\ Dooms("evicting") /\ ~closing /\ actor[Head(doomed)] = "none"
  /\ Forget(Head(doomed))
  /\ UNCHANGED <<actorVars, planner, stack, closing, callerVars>>

\* The cleanup of a shutdown, which waits for hooks and disposers.
CleanupBegins ==
  /\ Dooms("evicting") /\ Exclusive(Head(doomed))
  /\ Hold(Head(doomed), "planner")
  /\ UNCHANGED <<cellVars, actor, attempts, workers, planVars, callerVars>>

CleanupEnds ==
  /\ Dooms("evicting") /\ holder[Head(doomed)] = "planner"
  /\ Forget(Head(doomed))
  /\ Hold(Head(doomed), "nobody")
  /\ actor' = [actor EXCEPT ![Head(doomed)] = "none"]
  /\ closing' = FALSE
  /\ UNCHANGED <<attempts, workers, planner, stack, callerVars>>

EvictEnds(c) ==
  /\ pc[c] = "evicting" /\ doomed = <<>>
  /\ planner' = Nobody
  /\ pc' = [pc EXCEPT ![c] = "done"]
  /\ UNCHANGED <<cellVars, actorVars, stack, doomed, closing, call, look>>

\* The caller's fiber is interrupted while it holds the planning semaphore.
Leave(c) ==
  /\ c \in Impatient /\ planner = c
  /\ planner' = Nobody /\ stack' = <<>> /\ doomed' = <<>> /\ closing' = FALSE
  /\ holder' = [n \in Node |-> IF holder[n] = "planner" THEN "nobody" ELSE holder[n]]
  /\ pc' = [pc EXCEPT ![c] = "done"]
  /\ UNCHANGED <<cellVars, actor, attempts, workers, call, look>>

-----------------------------------------------------------------------------
(* Specification *)

Worker(w) ==
  \/ ReadinessRead(w) \/ BeginAttempt(w)
  \/ LookUpDependencies(w) \/ \E d \in w.todo : SubmitDependency(w, d)
  \/ DependenciesFail(w) \/ AcquireStarts(w) \/ AcquireEnds(w)
  \/ Release(w) \/ Refused(w) \/ Interrupted(w)

Planner ==
  \/ VisitNext \/ RecordEdge \/ RecordDependencies
  \/ CloseActor \/ InvalidateUnowned \/ Invalidate
  \/ EvictUnowned \/ CleanupBegins \/ CleanupEnds
  \/ \E c \in Caller : PlanEnds(c) \/ EvictEnds(c)

Begins(c) == PlanBegins(c) \/ LookUp(c) \/ EvictBegins(c)

Runtime ==
  \/ Planner
  \/ \E w \in workers : Worker(w)
  \/ \E n \in Node : TeardownEnds(n)
  \/ \E c \in Caller : SubmitById(c)

Next == Runtime \/ \E c \in Caller : Begins(c) \/ Leave(c)

Spec == Init /\ [][Next]_vars

\* The scheduler runs every fiber that can run; driver hooks end because their
\* timeouts bound them.  Callers need not call, nor leave.
FairSpec == Spec /\ WF_vars(Runtime)

-----------------------------------------------------------------------------
(* Properties *)

Phase == {"Missing", "Idle", "Acquiring", "Ready", "Error", "Invalid"}

CellObject == [on : Node, found : BOOLEAN, deps : SUBSET Node, life : {0, 1}]

Alive == {n \in Planned : phase[n] # "Invalid"}

TypeOK ==
  /\ phase \in [Node -> Phase]
  /\ ghost \in [Node -> Phase \cup {"none"}]
  /\ deps \in [Node -> SUBSET Node]
  /\ edges \subseteq Node \X Node
  /\ actor \in [Node -> {"none", "open", "closed"}]
  /\ holder \in [Node -> {"nobody", "worker", "teardown", "planner"}]
  /\ attempts \in [Node -> Nat]
  /\ \A c \in Caller : look[c] \subseteq CellObject
  /\ \A w \in workers :
       /\ w.on \in Node /\ w.by \in Node \cup Caller /\ w.nth \in Nat
       /\ w.kind \in {"ensure", "release"}
       /\ w.deps \subseteq Node /\ w.todo \subseteq CellObject /\ w.failed \in BOOLEAN
       /\ w.pc \in {"queued", "refused", "acquiring", "dependencies", "driving"}
  /\ planner \in Caller \cup {Nobody}
  /\ \A i \in DOMAIN stack :
       stack[i].request \in Request /\ stack[i].returned \in BOOLEAN
  /\ \A i \in DOMAIN doomed : doomed[i] \in Node
  /\ closing \in BOOLEAN
  /\ pc \in [Caller -> {"idle", "planning", "evicting", "submitting", "waiting", "done"}]
  /\ call \in [Caller -> Call]

\* Every recorded dependency of a node that may be acquired has the edge by
\* which an eviction of it finds the node; no edge outlives its ends, so the
\* dependency is in the graph (eviction.ts: evictedNodeIds, removeEdgesForNode).
EdgesCoverDependencies ==
  planner = Nobody =>
    /\ edges \subseteq Planned \X Planned
    /\ \A n \in Alive : \A d \in deps[n] : <<n, d>> \in edges

\* What a node may declare, whatever its args.
Declares(n) == UNION {Targets(<<n, a>>) : a \in Args}

\* The node is not among the dependencies of its dependencies.
OnNoCycle(n) ==
  \E S \in SUBSET Node :
    n \notin S /\ Declares(n) \subseteq S /\ \A m \in S : Declares(m) \subseteq S

\* Nobody interrupts an eviction, and a node that is kept while its dependents
\* are evicted is not one of them.  The code assures neither (section 5 of the
\* README): it is the hypothesis under which EdgesCoverDependencies is proved.
WholeEvictions ==
  \A s \in Calls, c \in Caller :
    /\ s[c].kind \in {"evict", "evictDependents"} => c \notin Impatient
    /\ s[c].kind = "evictDependents" => OnNoCycle(s[c].request[1])

\* Only nodes on no cycle are released: a released node is idle, although its
\* plan found it on a cycle (section 5 of the README).  It is the hypothesis
\* under which AcyclicWiring is proved.
SoundReleases ==
  \A s \in Calls, c \in Caller : s[c].kind = "release" => OnNoCycle(s[c].request[1])

\* Nodes each of which depends on another of them.
Circle(S) == S # {} /\ \A n \in S : deps[n] \cap S # {}

\* The nodes that can be acquired never depend on each other in a circle, also
\* while a plan or an eviction is under way, so workers that await each other's
\* readiness do not wait in one (plan.ts, markCycleInvalid).
AcyclicWiring == \A S \in SUBSET Alive : ~Circle(S)

\* What planning, invalidation and eviction leave behind, however they meet:
\* dependents can be found, and can be acquired one after the other.
SoundWiring == EdgesCoverDependencies /\ AcyclicWiring

\* An eviction leaves no work behind: when a node is forgotten, no worker that
\* its actor had accepted is still to run (test "eviction during dependency
\* readiness does not leave orphan dependency work").
NoOrphanWork ==
  [][\A n \in Node :
       phase[n] # "Missing" /\ phase'[n] = "Missing" =>
         \A w \in workers' : w.on = n => w.pc = "refused"]_vars

\* An incarnation does not outlive its eviction: the cell an eviction removed
\* never becomes ready again, for nothing would ever tear it down.
NothingOutlivesEviction == \A n \in Node : ghost[n] # "Ready"

\* Every call ends: workers that hold their node's permit while they wait for
\* the semaphore and for each other, and evictions that hold the semaphore
\* while they wait for workers, never wait in a circle.
EveryCallEnds == \A c \in Caller : pc[c] # "idle" ~> pc[c] = "done"
=============================================================================
