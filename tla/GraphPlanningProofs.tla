------------------------- MODULE GraphPlanningProofs -------------------------
(***************************************************************************)
(* An eviction leaves no work behind, for every graph, every scenario of   *)
(* calls and wherever planners are interrupted.  When evictions are whole, *)
(* it finds every dependent; when releases are sound, too, the nodes that  *)
(* can be acquired never depend on each other in a circle.                 *)
(***************************************************************************)
EXTENDS GraphPlanning, FiniteSetTheorems, WellFoundedInduction, TLAPS

WorkerRecord ==
  [on : Node, by : Node \cup Caller, nth : Nat, kind : {"ensure", "release"},
   life : {0, 1}, deps : SUBSET Node, todo : SUBSET CellObject, failed : BOOLEAN,
   pc : {"queued", "refused", "acquiring", "dependencies", "driving"}]

\* An activation whose dependency was planned still has it ahead.
FrameRecord ==
  {f \in [request : Request, rest : Seq(Request), returned : BOOLEAN] :
     f.returned => f.rest # <<>>}

\* The cells and what is known of them.
CellTypes ==
  /\ phase \in [Node -> Phase]
  /\ ghost \in [Node -> Phase \cup {"none"}]
  /\ deps \in [Node -> SUBSET Node]
  /\ edges \subseteq Node \X Node

ActorTypes ==
  /\ actor \in [Node -> {"none", "open", "closed"}]
  /\ holder \in [Node -> {"nobody", "worker", "teardown", "planner"}]
  /\ attempts \in [Node -> Nat]
  /\ workers \subseteq WorkerRecord

PlanTypes ==
  /\ planner \in Caller \cup {Nobody}
  /\ stack \in Seq(FrameRecord)
  /\ doomed \in Seq(Node)
  /\ closing \in BOOLEAN

CallerTypes ==
  /\ pc \in [Caller -> {"idle", "planning", "evicting", "submitting", "waiting", "done"}]
  /\ call \in [Caller -> Call]
  /\ look \in [Caller -> SUBSET CellObject]

Shape == CellTypes /\ ActorTypes /\ PlanTypes /\ CallerTypes

AllRefused(n) == \A w \in workers : w.on = n => w.pc = "refused"

\* Who plans or evicts holds the semaphore, nobody else has nodes to visit or to
\* take down, and a caller whose submission was accepted does neither.
Semaphore ==
  /\ \A c \in Caller : pc[c] \in {"planning", "evicting"} <=> planner = c
  /\ stack # <<>> => planner # Nobody /\ pc[planner] = "planning"
  /\ doomed # <<>> => planner # Nobody
  /\ \A w \in workers : w.by \in Caller => pc[w.by] \in {"waiting", "done"}

\* A shutdown is somebody's, of the first node doomed, whose actor is closed: or
\* gone, when the teardown of an earlier invalidation has ended meanwhile.
Shutdown ==
  closing =>
    /\ planner # Nobody /\ doomed # <<>>
    /\ actor[Head(doomed)] # "open"
    /\ actor[Head(doomed)] = "none" => phase[Head(doomed)] = "Invalid"

\* A teardown and a cleanup hold the permit of an actor that takes no work, and
\* every worker it had has gone.
Permit ==
  \A n \in Node :
    /\ holder[n] = "planner" => closing /\ n = Head(doomed) /\ AllRefused(n)
    /\ holder[n] = "teardown" => actor[n] = "closed" /\ phase[n] = "Invalid" /\ AllRefused(n)

\* A node without an actor has no work.
Unowned == \A n \in Node : actor[n] = "none" => AllRefused(n)

IInv == Shape /\ Semaphore /\ Shutdown /\ Permit /\ Unowned

-----------------------------------------------------------------------------
(* What kinds of steps keep *)

\* Work that was there goes on or ends.
LEMMA WorkGoesOn ==
  ASSUME IInv, Shape', UNCHANGED <<planVars, actor>>,
         \A v \in workers' : \E u \in workers :
           v.on = u.on /\ v.by = u.by /\ (u.pc = "refused" => v.pc = "refused"),
         \A c \in Caller : \/ pc'[c] = pc[c]
                           \/ pc[c] \in {"waiting", "done"} /\ pc'[c] = "done",
         \A n \in Node : holder'[n] = holder[n] \/ holder'[n] \in {"nobody", "worker"},
         \A n \in Node : phase'[n] = phase[n] \/ ~AllRefused(n)
  PROVE  IInv'
  <1>1. \A n \in Node : AllRefused(n) => AllRefused(n)'
    BY DEF AllRefused
  <1>2. Semaphore'
    <2>1. \A c \in Caller : (pc[c] \in {"planning", "evicting"} <=> planner = c)'
      BY DEF IInv, Semaphore, planVars
    <2>2. ASSUME NEW w \in workers', w.by \in Caller PROVE pc'[w.by] \in {"waiting", "done"}
      BY <2>2 DEF IInv, Semaphore
    <2>3. /\ (stack # <<>> => planner # Nobody /\ pc[planner] = "planning")'
          /\ (doomed # <<>> => planner # Nobody)'
      BY DEF IInv, Semaphore, Shape, PlanTypes, planVars
    <2> QED
      BY <2>1, <2>2, <2>3 DEF Semaphore
  <1>3. Shutdown'
    <2> SUFFICES ASSUME closing PROVE Shutdown'
      BY DEF Shutdown, planVars
    <2>1. Head(doomed) \in Node
      BY DEF IInv, Shutdown, Shape, PlanTypes
    <2>2. actor[Head(doomed)] = "none" => AllRefused(Head(doomed))
      BY <2>1 DEF IInv, Unowned
    <2> QED
      BY <2>1, <2>2 DEF IInv, Shutdown, planVars
  <1>4. Permit'
    <2> SUFFICES ASSUME NEW n \in Node
                 PROVE  /\ (holder[n] = "planner" => closing /\ n = Head(doomed) /\ AllRefused(n))'
                        /\ (holder[n] = "teardown" =>
                             actor[n] = "closed" /\ phase[n] = "Invalid" /\ AllRefused(n))'
      BY DEF Permit
    <2> QED
      BY <1>1 DEF IInv, Permit, planVars
  <1>5. Unowned'
    BY <1>1 DEF IInv, Unowned
  <1> QED
    BY <1>2, <1>3, <1>4, <1>5 DEF IInv

\* Work is added while nobody shuts an actor down.
LEMMA WorkIsAdded ==
  ASSUME IInv, Shape', UNCHANGED <<phase, holder, doomed, closing>>, ~closing,
         NEW on \in Node,
         \A n \in Node : actor'[n] = IF n = on /\ actor[n] = "none" THEN "open" ELSE actor[n],
         \A v \in workers' :
           \/ \E u \in workers : v.on = u.on /\ (u.pc = "refused" => v.pc = "refused")
           \/ v.on = on /\ (actor[on] = "closed" => v.pc = "refused"),
         Semaphore'
  PROVE  IInv'
  <1>1. \A n \in Node : AllRefused(n) /\ (n = on => actor[n] = "closed") => AllRefused(n)'
    BY DEF AllRefused
  <1>2. Permit'
    <2> SUFFICES ASSUME NEW n \in Node
                 PROVE  /\ (holder[n] = "planner" => closing /\ n = Head(doomed) /\ AllRefused(n))'
                        /\ (holder[n] = "teardown" =>
                             actor[n] = "closed" /\ phase[n] = "Invalid" /\ AllRefused(n))'
      BY DEF Permit
    <2> QED
      BY <1>1 DEF IInv, Permit
  <1>3. Unowned'
    <2> SUFFICES ASSUME NEW n \in Node, actor'[n] = "none" PROVE AllRefused(n)'
      BY DEF Unowned
    <2>1. n # on /\ actor[n] = "none"
      OBVIOUS
    <2> QED
      BY <1>1, <2>1 DEF IInv, Unowned
  <1> QED
    BY <1>2, <1>3 DEF IInv, Shutdown

\* A planner, or a caller that begins, leaves the actors alone.
LEMMA ActorsRest ==
  ASSUME IInv, Shape', UNCHANGED actorVars, ~closing, ~closing',
         \A n \in Node : phase[n] = "Invalid" => phase'[n] = "Invalid",
         Semaphore'
  PROVE  IInv'
  <1>1. \A n \in Node : AllRefused(n)' <=> AllRefused(n)
    BY DEF AllRefused, actorVars
  <1>2. Permit'
    <2> SUFFICES ASSUME NEW n \in Node
                 PROVE  /\ (holder[n] = "planner" => closing /\ n = Head(doomed) /\ AllRefused(n))'
                        /\ (holder[n] = "teardown" =>
                             actor[n] = "closed" /\ phase[n] = "Invalid" /\ AllRefused(n))'
      BY DEF Permit
    <2> QED
      BY <1>1 DEF IInv, Permit, actorVars
  <1>3. Unowned'
    BY <1>1 DEF IInv, Unowned, actorVars
  <1> QED
    BY <1>2, <1>3 DEF IInv, Shutdown

-----------------------------------------------------------------------------
(* Answers and commits of workers *)

LEMMA WorkerType ==
  ASSUME Shape, NEW w \in workers
  PROVE  /\ w \in WorkerRecord /\ w.on \in Node /\ w.by \in Node \cup Caller
         /\ w.todo \subseteq CellObject /\ w.life \in {0, 1}
  BY DEF Shape, ActorTypes, WorkerRecord

LEMMA CellType ==
  ASSUME Shape, NEW n \in Node
  PROVE  Cell(n) \in CellObject
  <1>1. (n \in Planned) \in BOOLEAN /\ deps[n] \in SUBSET Node /\ Life(n) \in {0, 1}
    BY DEF Life, Shape, CellTypes
  <1> QED
    BY <1>1 DEF Cell, CellObject

LEMMA Answers ==
  ASSUME IInv, NEW w \in workers, NEW isReady \in BOOLEAN, Answer(w, isReady)
  PROVE  /\ workers' \subseteq WorkerRecord
         /\ \A v \in workers' : \E u \in workers :
              v.on = u.on /\ v.by = u.by /\ (u.pc = "refused" => v.pc = "refused")
         /\ CallerTypes'
         /\ \A c \in Caller : \/ pc'[c] = pc[c]
                              \/ pc[c] \in {"waiting", "done"} /\ pc'[c] = "done"
         /\ UNCHANGED <<actor, attempts, call, look>>
  <1>1. ASSUME NEW v \in workers'
        PROVE  /\ v \in WorkerRecord
               /\ \E u \in workers :
                    v.on = u.on /\ v.by = u.by /\ (u.pc = "refused" => v.pc = "refused")
    <2>1. PICK p \in workers \ {w} :
            v = IF Awaits(p, w) /\ ~isReady THEN [p EXCEPT !.failed = TRUE] ELSE p
      BY DEF Answer
    <2>2. p \in WorkerRecord
      BY WorkerType DEF IInv
    <2>3. /\ [p EXCEPT !.failed = TRUE] \in WorkerRecord
          /\ [p EXCEPT !.failed = TRUE].on = p.on /\ [p EXCEPT !.failed = TRUE].by = p.by
          /\ [p EXCEPT !.failed = TRUE].pc = p.pc
      BY <2>2 DEF WorkerRecord
    <2> QED
      BY <2>1, <2>2, <2>3
  <1>2. CallerTypes'
    BY DEF Answer, IInv, Shape, CallerTypes
  <1>3. \A c \in Caller : \/ pc'[c] = pc[c]
                          \/ pc[c] \in {"waiting", "done"} /\ pc'[c] = "done"
    BY DEF Answer, IInv, Semaphore
  <1> QED
    BY <1>1, <1>2, <1>3 DEF Answer

LEMMA Continues ==
  ASSUME IInv, NEW w \in workers, NEW next \in WorkerRecord, Continue(w, next),
         next.on = w.on, next.by = w.by, w.pc # "refused"
  PROVE  /\ workers' \subseteq WorkerRecord
         /\ \A v \in workers' : \E u \in workers :
              v.on = u.on /\ v.by = u.by /\ (u.pc = "refused" => v.pc = "refused")
         /\ UNCHANGED <<actor, callerVars>>
  BY DEF Continue, IInv, Shape, ActorTypes

LEMMA Commits ==
  ASSUME IInv, NEW w \in workers, NEW p \in Phase, Commit(w, p)
  PROVE  /\ CellTypes'
         /\ \A n \in Node : phase'[n] = phase[n] \/ (n = w.on /\ phase'[n] = p /\ ~Outdated(w))
  <1>1. w.on \in Node
    BY WorkerType DEF IInv
  <1>2. CASE Outdated(w)
    BY <1>1, <1>2 DEF Commit, IInv, Shape, CellTypes
  <1>3. CASE ~Outdated(w)
    BY <1>1, <1>3 DEF Commit, Become, IInv, Shape, CellTypes
  <1> QED
    BY <1>2, <1>3

LEMMA Holds ==
  ASSUME IInv, NEW n \in Node, NEW who \in {"nobody", "worker"}, Hold(n, who)
  PROVE  /\ holder' \in [Node -> {"nobody", "worker", "teardown", "planner"}]
         /\ \A m \in Node : holder'[m] = holder[m] \/ holder'[m] \in {"nobody", "worker"}
  BY DEF Hold, IInv, Shape, ActorTypes

\* Interrupted before it began its attempt, a worker commits what it read.
LEMMA CommitsNothing ==
  ASSUME IInv, NEW w \in workers, Commit(w, PhaseOf(w))
  PROVE  CellTypes' /\ phase' = phase
  <1>1. w.on \in Node
    BY WorkerType DEF IInv
  <1>2. CASE Outdated(w)
    BY <1>1, <1>2 DEF Commit, PhaseOf, IInv, Shape, CellTypes
  <1>3. CASE ~Outdated(w)
    BY <1>1, <1>3 DEF Commit, Become, PhaseOf, IInv, Shape, CellTypes
  <1> QED
    BY <1>2, <1>3

-----------------------------------------------------------------------------
(* Workers *)

LEMMA ReadinessReadKeeps ==
  ASSUME IInv, NEW w \in workers, ReadinessRead(w)
  PROVE  IInv'
  <1>1. UNCHANGED <<holder, phase, ghost, deps, edges, planVars>>
    BY DEF ReadinessRead, cellVars
  <1>2. Answer(w, PhaseOf(w) = "Ready") /\ (PhaseOf(w) = "Ready") \in BOOLEAN
    BY DEF ReadinessRead
  <1>3. Shape'
    BY <1>1, <1>2, Answers DEF IInv, Shape, CellTypes, ActorTypes, PlanTypes, planVars
  <1> QED
    BY <1>1, <1>2, <1>3, Answers, WorkGoesOn

LEMMA BeginAttemptKeeps ==
  ASSUME IInv, NEW w \in workers, BeginAttempt(w)
  PROVE  IInv'
  <1> DEFINE next == [w EXCEPT !.pc = "acquiring"]
  <1>1. w \in WorkerRecord /\ w.on \in Node
    BY WorkerType DEF IInv
  <1>2. next \in WorkerRecord /\ next.on = w.on /\ next.by = w.by
    BY <1>1 DEF WorkerRecord
  <1>3. w.pc = "queued" /\ Continue(w, next) /\ UNCHANGED planVars
    BY DEF BeginAttempt, TakesPermit
  <1> HIDE DEF next
  <1>4. /\ workers' \subseteq WorkerRecord
        /\ \A v \in workers' : \E u \in workers :
             v.on = u.on /\ v.by = u.by /\ (u.pc = "refused" => v.pc = "refused")
        /\ UNCHANGED <<actor, callerVars>>
    BY <1>2, <1>3, Continues
  <1>5. CellTypes' /\ \A n \in Node : phase'[n] = phase[n] \/ n = w.on
    BY Commits DEF BeginAttempt, Phase
  <1>6. /\ holder' \in [Node -> {"nobody", "worker", "teardown", "planner"}]
        /\ \A m \in Node : holder'[m] = holder[m] \/ holder'[m] \in {"nobody", "worker"}
    BY <1>1, Holds DEF BeginAttempt
  <1>7. attempts' \in [Node -> Nat]
    BY <1>1 DEF BeginAttempt, IInv, Shape, ActorTypes
  <1>8. Shape'
    BY <1>3, <1>4, <1>5, <1>6, <1>7
      DEF IInv, Shape, ActorTypes, PlanTypes, CallerTypes, planVars, callerVars
  <1>9. ~AllRefused(w.on)
    BY <1>3 DEF AllRefused
  <1> QED
    BY <1>3, <1>4, <1>5, <1>6, <1>8, <1>9, WorkGoesOn DEF callerVars

LEMMA LookUpDependenciesKeeps ==
  ASSUME IInv, NEW w \in workers, LookUpDependencies(w)
  PROVE  IInv'
  <1> DEFINE next == [w EXCEPT !.pc = "dependencies", !.todo = {Cell(d) : d \in w.deps}]
  <1>1. w \in WorkerRecord
    BY WorkerType DEF IInv
  <1>2. {Cell(d) : d \in w.deps} \subseteq CellObject
    BY <1>1, CellType DEF WorkerRecord, IInv
  <1>3. next \in WorkerRecord /\ next.on = w.on /\ next.by = w.by
    BY <1>1, <1>2 DEF WorkerRecord
  <1>4. /\ w.pc # "refused" /\ Continue(w, next)
        /\ UNCHANGED <<holder, attempts, phase, ghost, deps, edges, planVars>>
    BY DEF LookUpDependencies, cellVars
  <1> HIDE DEF next
  <1>5. /\ workers' \subseteq WorkerRecord
        /\ \A v \in workers' : \E u \in workers :
             v.on = u.on /\ v.by = u.by /\ (u.pc = "refused" => v.pc = "refused")
        /\ UNCHANGED <<actor, callerVars>>
    BY <1>3, <1>4, Continues
  <1>6. Shape'
    BY <1>4, <1>5
      DEF IInv, Shape, CellTypes, ActorTypes, PlanTypes, CallerTypes, planVars, callerVars
  <1> QED
    BY <1>4, <1>5, <1>6, WorkGoesOn DEF callerVars

LEMMA AcquireStartsKeeps ==
  ASSUME IInv, NEW w \in workers, AcquireStarts(w)
  PROVE  IInv'
  <1> DEFINE next == [w EXCEPT !.pc = "driving"]
  <1>1. w \in WorkerRecord
    BY WorkerType DEF IInv
  <1>2. next \in WorkerRecord /\ next.on = w.on /\ next.by = w.by
    BY <1>1 DEF WorkerRecord
  <1>3. /\ w.pc # "refused" /\ Continue(w, next)
        /\ UNCHANGED <<holder, attempts, phase, ghost, deps, edges, planVars>>
    BY DEF AcquireStarts, DependenciesAnswered, cellVars
  <1> HIDE DEF next
  <1>4. /\ workers' \subseteq WorkerRecord
        /\ \A v \in workers' : \E u \in workers :
             v.on = u.on /\ v.by = u.by /\ (u.pc = "refused" => v.pc = "refused")
        /\ UNCHANGED <<actor, callerVars>>
    BY <1>2, <1>3, Continues
  <1>5. Shape'
    BY <1>3, <1>4
      DEF IInv, Shape, CellTypes, ActorTypes, PlanTypes, CallerTypes, planVars, callerVars
  <1> QED
    BY <1>3, <1>4, <1>5, WorkGoesOn DEF callerVars

\* A worker that ends with a commit, whoever holds its permit afterwards.
LEMMA EndKeeps ==
  ASSUME IInv, NEW w \in workers, NEW isReady \in BOOLEAN, Answer(w, isReady),
         w.pc # "refused", UNCHANGED planVars,
         CellTypes', \A n \in Node : phase'[n] = phase[n] \/ n = w.on,
         holder' \in [Node -> {"nobody", "worker", "teardown", "planner"}],
         \A n \in Node : holder'[n] = holder[n] \/ holder'[n] \in {"nobody", "worker"}
  PROVE  IInv'
  <1>1. ~AllRefused(w.on)
    BY DEF AllRefused
  <1>2. Shape'
    BY Answers DEF IInv, Shape, ActorTypes, PlanTypes, planVars
  <1> QED
    BY <1>1, <1>2, Answers, WorkGoesOn

LEMMA EndsKeep ==
  ASSUME IInv, NEW w \in workers, DependenciesFail(w) \/ AcquireEnds(w) \/ Release(w)
  PROVE  IInv'
  <1>1. w.on \in Node
    BY WorkerType DEF IInv
  <1>2. CASE DependenciesFail(w)
    <2>1. /\ Commit(w, "Error") /\ "Error" \in Phase /\ Hold(w.on, "nobody") /\ Answer(w, FALSE)
          /\ w.pc # "refused" /\ UNCHANGED planVars
      BY <1>2 DEF DependenciesFail, DependenciesAnswered, Phase
    <2> QED
      BY <1>1, <2>1, Commits, Holds, EndKeeps
  <1>3. CASE AcquireEnds(w)
    <2>1. PICK p \in {"Ready", "Error"} : Commit(w, p) /\ Answer(w, p = "Ready")
      BY <1>3 DEF AcquireEnds
    <2>2. /\ p \in Phase /\ (p = "Ready") \in BOOLEAN /\ Hold(w.on, "nobody")
          /\ w.pc # "refused" /\ UNCHANGED planVars
      BY <1>3 DEF AcquireEnds, Phase
    <2> QED
      BY <1>1, <2>1, <2>2, Commits, Holds, EndKeeps
  <1>4. CASE Release(w)
    <2>1. /\ Commit(w, "Idle") /\ "Idle" \in Phase /\ Answer(w, TRUE)
          /\ w.pc # "refused" /\ UNCHANGED <<holder, planVars>>
      BY <1>4 DEF Release, TakesPermit, Phase
    <2>2. holder' \in [Node -> {"nobody", "worker", "teardown", "planner"}]
      BY <2>1 DEF IInv, Shape, ActorTypes
    <2> QED
      BY <2>1, <2>2, Commits, EndKeeps
  <1> QED
    BY <1>2, <1>3, <1>4

LEMMA InterruptedKeeps ==
  ASSUME IInv, NEW w \in workers, Interrupted(w)
  PROVE  IInv'
  <1>1. w.on \in Node /\ w.pc # "refused" /\ Answer(w, FALSE) /\ UNCHANGED planVars
    BY WorkerType DEF IInv, Interrupted
  <1>2. CASE w.pc \in {"acquiring", "dependencies", "driving"}
    <2>1. Commit(w, "Error") /\ "Error" \in Phase /\ Hold(w.on, "nobody")
      BY <1>2 DEF Interrupted, Phase
    <2> QED
      BY <1>1, <2>1, Commits, Holds, EndKeeps
  <1>3. CASE w.pc \notin {"acquiring", "dependencies", "driving"}
    <2>1. Commit(w, PhaseOf(w)) /\ Hold(w.on, holder[w.on])
      BY <1>3 DEF Interrupted
    <2>2. /\ holder' \in [Node -> {"nobody", "worker", "teardown", "planner"}]
          /\ \A n \in Node : holder'[n] = holder[n]
      BY <1>1, <2>1 DEF Hold, IInv, Shape, ActorTypes
    <2> QED
      BY <1>1, <2>1, <2>2, CommitsNothing, EndKeeps
  <1> QED
    BY <1>2, <1>3

LEMMA RefusedKeeps ==
  ASSUME IInv, NEW w \in workers, Refused(w)
  PROVE  IInv'
  <1>1. /\ Answer(w, FALSE)
        /\ UNCHANGED <<holder, phase, ghost, deps, edges, planVars>>
    BY DEF Refused, cellVars
  <1>2. Shape'
    BY <1>1, Answers DEF IInv, Shape, CellTypes, ActorTypes, PlanTypes, planVars
  <1> QED
    BY <1>1, <1>2, Answers, WorkGoesOn

-----------------------------------------------------------------------------
(* Submissions *)

\* What a submission adds to the workers, and does to the actor.
LEMMA Submits ==
  ASSUME IInv, NEW cell \in CellObject, NEW by \in Node \cup Caller, NEW nth \in Nat,
         NEW kind \in {"ensure", "release"}, NEW others \in SUBSET WorkerRecord,
         Submit(cell, by, nth, kind, others)
  PROVE  /\ workers' \subseteq WorkerRecord
         /\ actor' \in [Node -> {"none", "open", "closed"}]
         /\ \A n \in Node : actor'[n] = IF n = cell.on /\ actor[n] = "none" THEN "open" ELSE actor[n]
         /\ \A v \in workers' :
              v \in others \/ (v.on = cell.on /\ v.by = by
                               /\ (actor[cell.on] = "closed" => v.pc = "refused"))
  <1> DEFINE new == Submitted(cell, by, nth, kind)
  <1>1. cell.on \in Node /\ cell.life \in {0, 1} /\ cell.deps \subseteq Node
    BY DEF CellObject
  <1>2. /\ new \in WorkerRecord /\ new.on = cell.on /\ new.by = by
        /\ actor[cell.on] = "closed" => new.pc = "refused"
    BY <1>1 DEF Submitted, WorkerRecord
  <1>3. workers' = others \cup {new}
    BY DEF Submit
  <1>4. /\ actor' \in [Node -> {"none", "open", "closed"}]
        /\ \A n \in Node : actor'[n] = IF n = cell.on /\ actor[n] = "none" THEN "open" ELSE actor[n]
    BY <1>1 DEF Submit, IInv, Shape, ActorTypes
  <1> QED
    BY <1>2, <1>3, <1>4

LEMMA SubmitDependencyKeeps ==
  ASSUME IInv, NEW w \in workers, NEW d \in w.todo, SubmitDependency(w, d)
  PROVE  IInv'
  <1> DEFINE next == [w EXCEPT !.todo = @ \ {d}, !.failed = @ \/ ~d.found]
             others == (workers \ {w}) \cup {next}
  <1>1. w \in WorkerRecord /\ w.on \in Node /\ d \in CellObject
    BY WorkerType DEF IInv
  <1>2. next \in WorkerRecord /\ next.on = w.on /\ next.by = w.by /\ next.pc = w.pc
    <2>1. w.todo \ {d} \in SUBSET CellObject /\ (w.failed \/ ~d.found) \in BOOLEAN
      BY <1>1 DEF WorkerRecord
    <2> QED
      BY <1>1, <2>1 DEF WorkerRecord
  <1>3. /\ planner = Nobody /\ w.pc = "dependencies"
        /\ UNCHANGED <<holder, attempts, phase, ghost, deps, edges, planVars, callerVars>>
        /\ IF d.found THEN Submit(d, w.on, attempts[w.on], "ensure", others)
           ELSE workers' = others /\ UNCHANGED actor
    BY DEF SubmitDependency, cellVars
  <1>4. others \in SUBSET WorkerRecord
    BY <1>2 DEF IInv, Shape, ActorTypes
  <1>5. \A v \in others : \E u \in workers : v.on = u.on /\ v.by = u.by /\ v.pc = u.pc
    BY <1>2
  <1> HIDE DEF next, others
  <1>6. ~closing
    BY <1>3 DEF IInv, Shutdown
  <1>7. CASE d.found
    <2>1. Submit(d, w.on, attempts[w.on], "ensure", others) /\ attempts[w.on] \in Nat
      BY <1>1, <1>3, <1>7 DEF IInv, Shape, ActorTypes
    <2>2. /\ workers' \subseteq WorkerRecord
          /\ actor' \in [Node -> {"none", "open", "closed"}]
          /\ \A n \in Node : actor'[n] = IF n = d.on /\ actor[n] = "none" THEN "open" ELSE actor[n]
          /\ \A v \in workers' :
               v \in others \/ (v.on = d.on /\ v.by = w.on
                                /\ (actor[d.on] = "closed" => v.pc = "refused"))
      BY <1>1, <1>4, <2>1, Submits
    <2>3. Shape'
      BY <1>3, <2>2
        DEF IInv, Shape, CellTypes, ActorTypes, PlanTypes, CallerTypes, planVars, callerVars
    <2>4. Semaphore'
      BY <1>1, <1>3, <1>5, <2>2, PartyAssumption DEF IInv, Semaphore, planVars, callerVars
    <2>5. d.on \in Node
      BY <1>1 DEF CellObject
    <2> QED
      BY <1>3, <1>5, <1>6, <2>2, <2>3, <2>4, <2>5, WorkIsAdded DEF planVars
  <1>8. CASE ~d.found
    <2>1. workers' = others /\ UNCHANGED actor
      BY <1>3, <1>8
    <2>2. Shape'
      BY <1>3, <1>4, <2>1
        DEF IInv, Shape, CellTypes, ActorTypes, PlanTypes, CallerTypes, planVars, callerVars
    <2> QED
      BY <1>3, <1>5, <2>1, <2>2, WorkGoesOn DEF callerVars
  <1> QED
    BY <1>7, <1>8

\* A caller's submission, once the caller has left the semaphore.
LEMMA CallerSubmits ==
  ASSUME IInv, NEW c \in Caller, NEW cell \in CellObject, NEW kind \in {"ensure", "release"},
         Submit(cell, c, 0, kind, workers),
         pc' = [pc EXCEPT ![c] = "waiting"], planner' = Nobody, ~closing,
         planner \in {c, Nobody}, pc[c] \in {"planning", "submitting"},
         stack = <<>>, doomed = <<>>,
         UNCHANGED <<phase, ghost, deps, edges, holder, attempts, stack, doomed, closing, call>>,
         look' \in [Caller -> SUBSET CellObject]
  PROVE  IInv'
  <1>1. /\ workers' \subseteq WorkerRecord
        /\ actor' \in [Node -> {"none", "open", "closed"}]
        /\ \A n \in Node : actor'[n] = IF n = cell.on /\ actor[n] = "none" THEN "open" ELSE actor[n]
        /\ \A v \in workers' :
             v \in workers \/ (v.on = cell.on /\ v.by = c
                               /\ (actor[cell.on] = "closed" => v.pc = "refused"))
    <2>1. workers \in SUBSET WorkerRecord
      BY DEF IInv, Shape, ActorTypes
    <2> QED
      BY <2>1, Submits
  <1>2. Shape'
    BY <1>1 DEF IInv, Shape, CellTypes, ActorTypes, PlanTypes, CallerTypes
  <1>3. Semaphore'
    <2>1. ASSUME NEW e \in Caller
          PROVE  (pc[e] \in {"planning", "evicting"} <=> planner = e)'
      BY PartyAssumption DEF IInv, Semaphore, Shape, CallerTypes
    <2>2. ASSUME NEW w \in workers', w.by \in Caller PROVE pc'[w.by] \in {"waiting", "done"}
      BY <1>1, <2>2 DEF IInv, Semaphore, Shape, CallerTypes
    <2> QED
      BY <2>1, <2>2 DEF Semaphore
  <1>4. cell.on \in Node
    BY DEF CellObject
  <1> QED
    BY <1>1, <1>2, <1>3, <1>4, WorkIsAdded

LEMMA SubmitByIdKeeps ==
  ASSUME IInv, NEW c \in Caller, SubmitById(c)
  PROVE  IInv'
  <1>1. PICK cell \in look[c] :
          IF cell.found
            THEN /\ pc' = [pc EXCEPT ![c] = "waiting"]
                 /\ Submit(cell, c, 0, IF call[c].kind = "release" THEN "release" ELSE "ensure",
                           workers)
            ELSE pc' = [pc EXCEPT ![c] = "done"] /\ UNCHANGED <<workers, actor>>
    BY DEF SubmitById
  <1>2. cell \in CellObject /\ look' \in [Caller -> SUBSET CellObject]
    BY DEF SubmitById, IInv, Shape, CallerTypes
  <1>3. /\ pc[c] = "submitting" /\ planner = Nobody
        /\ UNCHANGED <<phase, ghost, deps, edges, holder, attempts, planner, stack, doomed,
                       closing, call>>
    BY DEF SubmitById, cellVars, planVars
  <1>4. ~closing /\ stack = <<>> /\ doomed = <<>>
    BY <1>3 DEF IInv, Shutdown, Semaphore
  <1>5. CASE cell.found
    BY <1>1, <1>2, <1>3, <1>4, <1>5, CallerSubmits
  <1>6. CASE ~cell.found
    <2>1. pc' = [pc EXCEPT ![c] = "done"] /\ UNCHANGED <<workers, actor>>
      BY <1>1, <1>6
    <2>2. Shape'
      BY <1>2, <1>3, <2>1 DEF IInv, Shape, CellTypes, ActorTypes, PlanTypes, CallerTypes
    <2>3. Semaphore'
      BY <1>3, <2>1 DEF IInv, Semaphore, Shape, CallerTypes
    <2> QED
      BY <1>3, <1>4, <2>1, <2>2, <2>3, ActorsRest DEF actorVars
  <1> QED
    BY <1>5, <1>6

LEMMA PlanEndsKeeps ==
  ASSUME IInv, NEW c \in Caller, PlanEnds(c)
  PROVE  IInv'
  <1>1. /\ pc[c] = "planning" /\ stack = <<>> /\ doomed = <<>> /\ planner' = Nobody
        /\ UNCHANGED <<phase, ghost, deps, edges, holder, attempts, stack, doomed, closing, call,
                       look>>
    BY DEF PlanEnds, cellVars
  <1>2. ~closing /\ planner = c
    BY <1>1 DEF IInv, Shutdown, Semaphore
  <1>3. CASE call[c].kind = "plan"
    <2>1. pc' = [pc EXCEPT ![c] = "done"] /\ UNCHANGED <<workers, actor>>
      BY <1>3 DEF PlanEnds
    <2>2. Shape'
      BY <1>1, <2>1 DEF IInv, Shape, CellTypes, ActorTypes, PlanTypes, CallerTypes
    <2>3. Semaphore'
      BY <1>1, <1>2, <2>1, PartyAssumption DEF IInv, Semaphore, Shape, CallerTypes
    <2> QED
      BY <1>1, <1>2, <2>1, <2>2, <2>3, ActorsRest DEF actorVars
  <1>4. CASE call[c].kind # "plan"
    <2>1. /\ pc' = [pc EXCEPT ![c] = "waiting"]
          /\ Submit(Cell(call[c].request[1]), c, 0, "ensure", workers)
      BY <1>4 DEF PlanEnds
    <2>2. call[c].request[1] \in Node
      BY DEF IInv, Shape, CallerTypes, Call, Request
    <2>3. Cell(call[c].request[1]) \in CellObject
      BY <2>2, CellType DEF IInv
    <2>4. look' \in [Caller -> SUBSET CellObject]
      BY <1>1 DEF IInv, Shape, CallerTypes
    <2> QED
      BY <1>1, <1>2, <2>1, <2>3, <2>4, CallerSubmits
  <1> QED
    BY <1>3, <1>4

LEMMA LookUpKeeps ==
  ASSUME IInv, NEW c \in Caller, LookUp(c)
  PROVE  IInv'
  <1>1. /\ pc[c] = "idle" /\ pc' = [pc EXCEPT ![c] = "submitting"]
        /\ look' = [look EXCEPT ![c] = {Cell(call[c].request[1])}]
        /\ UNCHANGED <<phase, ghost, deps, edges, actorVars, planVars, call>>
    BY DEF LookUp, cellVars
  <1>2. Cell(call[c].request[1]) \in CellObject
    <2>1. call[c].request[1] \in Node
      BY DEF IInv, Shape, CallerTypes, Call, Request
    <2> QED
      BY <2>1, CellType DEF IInv
  <1>3. CallerTypes'
    BY <1>1, <1>2 DEF IInv, Shape, CallerTypes
  <1>4. Shape'
    BY <1>1, <1>3 DEF IInv, Shape, CellTypes, ActorTypes, PlanTypes, actorVars, planVars
  <1>5. Semaphore'
    BY <1>1 DEF IInv, Semaphore, Shape, CallerTypes, actorVars, planVars
  <1>6. \A n \in Node : AllRefused(n)' <=> AllRefused(n)
    BY <1>1 DEF AllRefused, actorVars
  <1>7. Shutdown' /\ Permit' /\ Unowned'
    BY <1>1, <1>6 DEF IInv, Shutdown, Permit, Unowned, actorVars, planVars
  <1> QED
    BY <1>4, <1>5, <1>7 DEF IInv

-----------------------------------------------------------------------------
(* Planning *)

LEMMA FrameType ==
  ASSUME NEW r \in Request
  PROVE  Frame(r) \in FrameRecord
  <1>1. Wiring[r] \in Seq(Request)
    BY WiringAssumption
  <1> QED
    BY <1>1 DEF Frame, FrameRecord

LEMMA ReturnedType ==
  ASSUME NEW s \in Seq(FrameRecord), s # <<>> => s[Len(s)].rest # <<>>
  PROVE  Returned(s) \in Seq(FrameRecord)
  <1>1. CASE s = <<>>
    BY <1>1 DEF Returned
  <1>2. CASE s # <<>>
    <2>1. Len(s) \in 1 .. Len(s) /\ s[Len(s)] \in FrameRecord
      BY <1>2
    <2>2. [s[Len(s)] EXCEPT !.returned = TRUE] \in FrameRecord
      BY <1>2, <2>1 DEF FrameRecord
    <2>3. Returned(s) = [s EXCEPT ![Len(s)] = [s[Len(s)] EXCEPT !.returned = TRUE]]
      BY <1>2 DEF Returned
    <2> QED
      BY <2>1, <2>2, <2>3
  <1> QED
    BY <1>1, <1>2

LEMMA CycleType ==
  ASSUME Shape, NEW n \in Visiting
  PROVE  CyclePath(n) \in Seq(Node)
  <1> DEFINE first == CHOOSE i \in DOMAIN stack : NodeAt(i) = n
             length == Len(stack) - first + 1
  <1>1. first \in DOMAIN stack
    BY DEF Visiting
  <1>2. stack \in Seq(FrameRecord)
    BY DEF Shape, PlanTypes
  <1>3. first \in 1 .. Len(stack) /\ length \in Nat
    BY <1>1, <1>2
  <1>4. \A i \in 1 .. Len(stack) : NodeAt(i) \in Node
    <2> SUFFICES ASSUME NEW i \in 1 .. Len(stack) PROVE NodeAt(i) \in Node
      OBVIOUS
    <2>1. stack[i] \in FrameRecord
      BY <1>2
    <2>2. stack[i].request \in Node \X Args
      BY <2>1 DEF FrameRecord, Request
    <2> QED
      BY <2>2 DEF NodeAt
  <1>5. CyclePath(n) = [i \in 1 .. length |-> NodeAt(first + i - 1)]
    BY DEF CyclePath
  <1> HIDE DEF first
  <1>6. \A i \in 1 .. length : NodeAt(first + i - 1) \in Node
    BY <1>2, <1>3, <1>4
  <1>7. CyclePath(n) \in [1 .. length -> Node]
    BY <1>5, <1>6
  <1> QED
    BY <1>3, <1>7

\* A visit changes the phase of the node it comes to only.
LEMMA VisitKeeps ==
  ASSUME IInv, NEW r \in Request, Visit(r), stack # <<>> => Top.rest # <<>>
  PROVE  /\ phase' \in [Node -> Phase]
         /\ \A n \in Node : phase[n] = "Invalid" => phase'[n] = "Invalid"
         /\ \A n \in Node : phase'[n] = "Missing" => phase[n] = "Missing"
         /\ stack' \in Seq(FrameRecord)
         /\ doomed' \in Seq(Node)
  <1>1. r[1] \in Node
    BY DEF Request
  <1>2. stack \in Seq(FrameRecord) /\ doomed \in Seq(Node) /\ phase \in [Node -> Phase]
    BY DEF IInv, Shape, PlanTypes, CellTypes
  <1>3. Returned(stack) \in Seq(FrameRecord)
    BY <1>2, ReturnedType DEF Top
  <1>4. /\ Materialised(r[1]) \in [Node -> Phase]
        /\ \A n \in Node : phase[n] = "Invalid" => Materialised(r[1])[n] = "Invalid"
        /\ \A n \in Node : Materialised(r[1])[n] = "Missing" => phase[n] = "Missing"
    BY <1>1, <1>2 DEF Materialised, Phase
  <1>5. <<r[1]>> \in Seq(Node)
    BY <1>1
  <1>6. CASE VisitRejected(r)
    <2>1. CASE r[1] \in Planned
      BY <1>2, <1>3, <1>5, <1>6, <2>1 DEF VisitRejected
    <2>2. CASE r[1] \notin Planned
      <3>1. /\ phase' = [phase EXCEPT ![r[1]] = "Invalid"]
            /\ doomed' = <<>> /\ stack' = Returned(stack)
        BY <1>6, <2>2 DEF VisitRejected
      <3>2. "Invalid" \in Phase
        BY DEF Phase
      <3> QED
        BY <1>1, <1>2, <1>3, <3>1, <3>2
    <2> QED
      BY <2>1, <2>2
  <1>7. CASE VisitInvalid(r)
    BY <1>2, <1>3, <1>7 DEF VisitInvalid
  <1>8. CASE VisitCycle(r)
    <2>1. CyclePath(r[1]) \in Seq(Node)
      BY <1>8, CycleType DEF VisitCycle, IInv
    <2> QED
      BY <1>2, <1>3, <1>8, <2>1 DEF VisitCycle
  <1>9. CASE VisitMisdeclared(r)
    BY <1>3, <1>4, <1>5, <1>9 DEF VisitMisdeclared
  <1>10. CASE VisitDependencies(r)
    <2>1. Append(Returned(stack), Frame(r)) \in Seq(FrameRecord)
      BY <1>3, FrameType
    <2> QED
      BY <1>2, <1>4, <1>10, <2>1 DEF VisitDependencies
  <1> QED
    BY <1>6, <1>7, <1>8, <1>9, <1>10 DEF Visit

LEMMA PlanBeginsKeeps ==
  ASSUME IInv, NEW c \in Caller, PlanBegins(c)
  PROVE  IInv'
  <1>1. /\ pc[c] = "idle" /\ planner = Nobody /\ planner' = c
        /\ pc' = [pc EXCEPT ![c] = "planning"] /\ Visit(call[c].request)
        /\ UNCHANGED <<ghost, deps, edges, actorVars, closing, call, look>>
    BY DEF PlanBegins
  <1>2. call[c].request \in Request
    BY DEF IInv, Shape, CallerTypes, Call
  <1>3. /\ phase' \in [Node -> Phase]
        /\ \A n \in Node : phase[n] = "Invalid" => phase'[n] = "Invalid"
        /\ stack' \in Seq(FrameRecord)
        /\ doomed' \in Seq(Node)
    <2>1. stack = <<>>
      BY <1>1 DEF IInv, Semaphore
    <2> QED
      BY <1>1, <1>2, <2>1, VisitKeeps
  <1>4. Shape'
    BY <1>1, <1>3 DEF IInv, Shape, CellTypes, ActorTypes, PlanTypes, CallerTypes, actorVars
  <1>5. Semaphore'
    BY <1>1, PartyAssumption DEF IInv, Semaphore, Shape, CallerTypes, actorVars
  <1>6. ~closing
    BY <1>1 DEF IInv, Shutdown
  <1> QED
    BY <1>1, <1>3, <1>4, <1>5, <1>6, ActorsRest

LEMMA TopType ==
  ASSUME Shape, stack # <<>>
  PROVE  Len(stack) \in 1 .. Len(stack) /\ Top \in FrameRecord
  <1>1. stack \in Seq(FrameRecord)
    BY DEF Shape, PlanTypes
  <1> QED
    BY <1>1 DEF Top

LEMMA RequestAhead ==
  ASSUME NEW f \in FrameRecord, f.rest # <<>>
  PROVE  Head(f.rest) \in Request /\ Tail(f.rest) \in Seq(Request)
  <1>1. f.rest \in Seq(Request)
    BY DEF FrameRecord
  <1> QED
    BY <1>1

LEMMA VisitNextKeeps ==
  ASSUME IInv, VisitNext
  PROVE  IInv'
  <1>1. /\ doomed = <<>> /\ Visit(Head(Top.rest)) /\ Top.rest # <<>> /\ stack # <<>>
        /\ UNCHANGED <<ghost, deps, edges, actorVars, planner, closing, callerVars>>
    BY DEF VisitNext
  <1>2. Head(Top.rest) \in Request
    BY <1>1, TopType, RequestAhead DEF IInv
  <1>3. /\ phase' \in [Node -> Phase]
        /\ \A n \in Node : phase[n] = "Invalid" => phase'[n] = "Invalid"
        /\ stack' \in Seq(FrameRecord)
        /\ doomed' \in Seq(Node)
    BY <1>1, <1>2, VisitKeeps
  <1>4. Shape'
    BY <1>1, <1>3
      DEF IInv, Shape, CellTypes, ActorTypes, PlanTypes, CallerTypes, actorVars, callerVars
  <1>5. Semaphore'
    BY <1>1 DEF IInv, Semaphore, actorVars, callerVars
  <1>6. ~closing
    BY <1>1 DEF IInv, Shutdown
  <1> QED
    BY <1>1, <1>3, <1>4, <1>5, <1>6, ActorsRest

LEMMA RecordEdgeKeeps ==
  ASSUME IInv, RecordEdge
  PROVE  IInv'
  <1> DEFINE top == [Top EXCEPT !.returned = FALSE, !.rest = Tail(@)]
  <1>1. /\ doomed = <<>> /\ stack # <<>> /\ Top.returned
        /\ edges' = edges \cup {<<Top.request[1], Head(Top.rest)[1]>>}
        /\ UNCHANGED <<phase, ghost, deps, actorVars, planner, doomed, closing, callerVars>>
    BY DEF RecordEdge
  <1>2. ~closing
    BY <1>1 DEF IInv, Shutdown
  <1>3. Top \in FrameRecord /\ Top.rest # <<>>
    BY <1>1, TopType DEF IInv, FrameRecord
  <1>4. Head(Top.rest) \in Request /\ Tail(Top.rest) \in Seq(Request)
    BY <1>3, RequestAhead
  <1>5. edges' \subseteq Node \X Node
    <2>1. Top.request[1] \in Node /\ Head(Top.rest)[1] \in Node
      BY <1>3, <1>4 DEF FrameRecord, Request
    <2> QED
      BY <1>1, <2>1 DEF IInv, Shape, CellTypes
  <1>6. stack' \in Seq(FrameRecord) /\ stack' # <<>>
    <2>1. stack \in Seq(FrameRecord) /\ Len(stack) \in 1 .. Len(stack)
      BY <1>1, TopType DEF IInv, Shape, PlanTypes
    <2>2. top \in FrameRecord
      BY <1>3, <1>4 DEF FrameRecord
    <2>3. stack' = [stack EXCEPT ![Len(stack)] = top]
      BY <2>1 DEF RecordEdge, Top
    <2> QED
      BY <2>1, <2>2, <2>3
  <1>7. Shape'
    BY <1>1, <1>5, <1>6
      DEF IInv, Shape, CellTypes, ActorTypes, PlanTypes, CallerTypes, actorVars, callerVars
  <1>8. Semaphore'
    BY <1>1 DEF IInv, Semaphore, actorVars, callerVars
  <1> QED
    BY <1>1, <1>2, <1>7, <1>8, ActorsRest

LEMMA RecordDependenciesKeeps ==
  ASSUME IInv, RecordDependencies
  PROVE  IInv'
  <1>1. /\ doomed = <<>> /\ stack # <<>>
        /\ deps' = [deps EXCEPT ![Top.request[1]] = Targets(Top.request)]
        /\ stack' = Front(stack)
        /\ UNCHANGED <<phase, ghost, edges, actorVars, planner, doomed, closing, callerVars>>
    BY DEF RecordDependencies
  <1>2. ~closing
    BY <1>1 DEF IInv, Shutdown
  <1>3. Top \in FrameRecord /\ Top.request \in Request
    BY <1>1, TopType DEF IInv, FrameRecord
  <1>4. Targets(Top.request) \subseteq Node
    <2>1. Wiring[Top.request] \in Seq(Request)
      BY <1>3, WiringAssumption
    <2>2. ToSet(Wiring[Top.request]) \subseteq Request
      BY <2>1 DEF ToSet
    <2> QED
      BY <2>2 DEF Targets, Request
  <1>5. stack' \in Seq(FrameRecord)
    <2>1. stack \in Seq(FrameRecord) /\ Len(stack) \in Nat \ {0}
      BY <1>1 DEF IInv, Shape, PlanTypes
    <2> QED
      BY <1>1, <2>1 DEF Front
  <1>6. Shape'
    BY <1>1, <1>3, <1>4, <1>5
      DEF IInv, Shape, CellTypes, ActorTypes, PlanTypes, CallerTypes, actorVars, callerVars
  <1>7. Semaphore'
    BY <1>1 DEF IInv, Semaphore, actorVars, callerVars
  <1> QED
    BY <1>1, <1>2, <1>6, <1>7, ActorsRest

-----------------------------------------------------------------------------
(* Shutdowns of invalidated nodes *)

LEMMA DoomedType ==
  ASSUME Shape, doomed # <<>>
  PROVE  Head(doomed) \in Node /\ Tail(doomed) \in Seq(Node)
  <1>1. doomed \in Seq(Node)
    BY DEF Shape, PlanTypes
  <1> QED
    BY <1>1

LEMMA CloseActorKeeps ==
  ASSUME IInv, CloseActor
  PROVE  IInv'
  <1>1. /\ doomed # <<>> /\ ~closing /\ actor[Head(doomed)] # "none"
        /\ actor' = [actor EXCEPT ![Head(doomed)] = "closed"] /\ closing' = TRUE
        /\ UNCHANGED <<phase, ghost, deps, edges, holder, attempts, workers, planner, stack,
                       doomed, pc, call, look>>
    BY DEF CloseActor, cellVars, callerVars
  <1>2. Head(doomed) \in Node
    BY <1>1, DoomedType DEF IInv
  <1>3. actor' \in [Node -> {"none", "open", "closed"}]
    BY <1>1, <1>2 DEF IInv, Shape, ActorTypes
  <1>4. Shape'
    BY <1>1, <1>3 DEF IInv, Shape, CellTypes, ActorTypes, PlanTypes, CallerTypes
  <1>5. Semaphore'
    BY <1>1 DEF IInv, Semaphore
  <1>6. \A n \in Node : actor'[n] = IF n = Head(doomed) THEN "closed" ELSE actor[n]
    BY <1>1, <1>2 DEF IInv, Shape, ActorTypes
  <1>10. \A n \in Node : AllRefused(n)' <=> AllRefused(n)
    BY <1>1 DEF AllRefused
  <1>7. Shutdown'
    <2>1. actor'[Head(doomed)] = "closed" /\ planner # Nobody
      BY <1>1, <1>2, <1>6 DEF IInv, Semaphore
    <2> QED
      BY <1>1, <2>1 DEF Shutdown
  <1>8. Permit'
    <2> SUFFICES ASSUME NEW n \in Node
                 PROVE  /\ (holder[n] = "planner" => closing /\ n = Head(doomed) /\ AllRefused(n))'
                        /\ (holder[n] = "teardown" =>
                             actor[n] = "closed" /\ phase[n] = "Invalid" /\ AllRefused(n))'
      BY DEF Permit
    <2> QED
      BY <1>1, <1>6, <1>10 DEF IInv, Permit
  <1>9. Unowned'
    <2> SUFFICES ASSUME NEW n \in Node, actor'[n] = "none" PROVE AllRefused(n)'
      BY DEF Unowned
    <2>1. actor[n] = "none"
      BY <1>6
    <2> QED
      BY <1>10, <2>1 DEF IInv, Unowned
  <1> QED
    BY <1>4, <1>5, <1>7, <1>8, <1>9 DEF IInv

LEMMA InvalidateUnownedKeeps ==
  ASSUME IInv, InvalidateUnowned
  PROVE  IInv'
  <1>1. /\ doomed # <<>> /\ planner # Nobody /\ ~closing
        /\ phase' = [phase EXCEPT ![Head(doomed)] = "Invalid"] /\ doomed' = Tail(doomed)
        /\ UNCHANGED <<ghost, deps, edges, actorVars, planner, stack, closing, pc, call, look>>
    BY DEF InvalidateUnowned, Dooms, Become, callerVars
  <1>2. Head(doomed) \in Node /\ Tail(doomed) \in Seq(Node)
    BY <1>1, DoomedType DEF IInv
  <1>3. /\ phase' \in [Node -> Phase]
        /\ \A n \in Node : phase[n] = "Invalid" => phase'[n] = "Invalid"
    BY <1>1, <1>2 DEF IInv, Shape, CellTypes, Phase
  <1>4. Shape'
    BY <1>1, <1>2, <1>3
      DEF IInv, Shape, CellTypes, ActorTypes, PlanTypes, CallerTypes, actorVars
  <1>5. Semaphore'
    BY <1>1 DEF IInv, Semaphore, actorVars
  <1> QED
    BY <1>1, <1>3, <1>4, <1>5, ActorsRest

\* What an exclusive section finds: nobody holds a permit it does not know of.
LEMMA ExclusiveFinds ==
  ASSUME IInv, doomed # <<>>, Exclusive(Head(doomed))
  PROVE  /\ closing /\ planner # Nobody /\ Head(doomed) \in Node
         /\ AllRefused(Head(doomed))
         /\ actor[Head(doomed)] \in {"none", "closed"}
         /\ actor[Head(doomed)] = "none" => phase[Head(doomed)] = "Invalid"
         /\ \A m \in Node : holder[m] # "planner"
  <1>1. Head(doomed) \in Node
    BY DoomedType DEF IInv
  <1>2. closing /\ holder[Head(doomed)] = "nobody" /\ AllRefused(Head(doomed))
    BY DEF Exclusive, AllRefused
  <1>3. /\ planner # Nobody /\ actor[Head(doomed)] \in {"none", "closed"}
        /\ actor[Head(doomed)] = "none" => phase[Head(doomed)] = "Invalid"
    BY <1>1, <1>2 DEF IInv, Shutdown, Shape, ActorTypes
  <1>4. \A m \in Node : holder[m] # "planner"
    BY <1>2 DEF IInv, Permit
  <1> QED
    BY <1>1, <1>2, <1>3, <1>4

LEMMA InvalidateKeeps ==
  ASSUME IInv, Invalidate
  PROVE  IInv'
  <1> DEFINE n == Head(doomed)
  <1>1. /\ doomed # <<>> /\ Exclusive(n)
        /\ phase' = [phase EXCEPT ![n] = "Invalid"]
        /\ doomed' = Tail(doomed) /\ closing' = FALSE
        /\ UNCHANGED <<ghost, deps, edges, attempts, workers, planner, stack, pc, call, look>>
    BY DEF Invalidate, Dooms, Become, callerVars
  <1>2. /\ closing /\ planner # Nobody /\ n \in Node /\ AllRefused(n)
        /\ actor[n] \in {"none", "closed"} /\ (actor[n] = "none" => phase[n] = "Invalid")
        /\ \A m \in Node : holder[m] # "planner"
    BY <1>1, ExclusiveFinds
  <1>3. Tail(doomed) \in Seq(Node)
    BY <1>1, DoomedType DEF IInv
  <1>4. \/ /\ holder' = [holder EXCEPT ![n] = "teardown"]
           /\ actor[n] = "closed" /\ UNCHANGED actor
        \/ actor' = [actor EXCEPT ![n] = "none"] /\ UNCHANGED holder
    <2>1. IF phase[n] = "Ready"
            THEN Hold(n, "teardown") /\ UNCHANGED actor
            ELSE actor' = [actor EXCEPT ![n] = "none"] /\ UNCHANGED holder
      BY DEF Invalidate
    <2> QED
      BY <1>2, <2>1 DEF Hold
  <1> HIDE DEF n
  <1>5. CellTypes' /\ \A m \in Node : phase'[m] = IF m = n THEN "Invalid" ELSE phase[m]
    BY <1>1, <1>2 DEF IInv, Shape, CellTypes, Phase
  <1>6. ActorTypes'
    BY <1>1, <1>2, <1>4 DEF IInv, Shape, ActorTypes
  <1>7. Shape'
    BY <1>1, <1>3, <1>5, <1>6 DEF IInv, Shape, PlanTypes, CallerTypes
  <1>8. Semaphore'
    BY <1>1, <1>2 DEF IInv, Semaphore
  <1>9. \A m \in Node : AllRefused(m)' <=> AllRefused(m)
    BY <1>1 DEF AllRefused
  <1>10. Permit'
    <2> SUFFICES ASSUME NEW m \in Node
                 PROVE  /\ holder'[m] # "planner"
                        /\ holder'[m] = "teardown" =>
                             actor'[m] = "closed" /\ phase'[m] = "Invalid" /\ AllRefused(m)'
      BY DEF Permit
    <2>1. holder[n] = "nobody"
      BY <1>1 DEF Exclusive
    <2>2. CASE m = n
      BY <1>2, <1>4, <1>5, <1>9, <2>1, <2>2 DEF IInv, Shape, ActorTypes
    <2>3. CASE m # n
      <3>1. holder'[m] = holder[m] /\ actor'[m] = actor[m] /\ phase'[m] = phase[m]
        BY <1>2, <1>4, <1>5, <2>3 DEF IInv, Shape, ActorTypes
      <3> QED
        BY <1>2, <1>9, <3>1 DEF IInv, Permit
    <2> QED
      BY <2>2, <2>3
  <1>11. Unowned'
    <2> SUFFICES ASSUME NEW m \in Node, actor'[m] = "none" PROVE AllRefused(m)
      BY <1>9 DEF Unowned
    <2>1. m = n \/ actor[m] = "none"
      BY <1>2, <1>4 DEF IInv, Shape, ActorTypes
    <2> QED
      BY <1>2, <2>1 DEF IInv, Unowned
  <1> QED
    BY <1>1, <1>7, <1>8, <1>10, <1>11 DEF IInv, Shutdown

\* The end of a teardown removes an actor whose node is invalid.
LEMMA TeardownEndsKeeps ==
  ASSUME IInv, NEW n \in Node, TeardownEnds(n)
  PROVE  IInv'
  <1>1. /\ holder[n] = "teardown" /\ holder' = [holder EXCEPT ![n] = "nobody"]
        /\ actor' = [actor EXCEPT ![n] = "none"]
        /\ UNCHANGED <<phase, ghost, deps, edges, attempts, workers, planner, stack, doomed,
                       closing, pc, call, look>>
    BY DEF TeardownEnds, Hold, cellVars, planVars, callerVars
  <1>2. AllRefused(n) /\ phase[n] = "Invalid"
    BY <1>1 DEF IInv, Permit
  <1>3. Shape'
    BY <1>1 DEF IInv, Shape, CellTypes, ActorTypes, PlanTypes, CallerTypes
  <1>4. \A m \in Node : /\ actor'[m] = IF m = n THEN "none" ELSE actor[m]
                       /\ holder'[m] = IF m = n THEN "nobody" ELSE holder[m]
    BY <1>1 DEF IInv, Shape, ActorTypes
  <1>9. \A m \in Node : AllRefused(m)' <=> AllRefused(m)
    BY <1>1 DEF AllRefused
  <1>5. Semaphore'
    BY <1>1 DEF IInv, Semaphore
  <1>6. Shutdown'
    <2>1. doomed # <<>> => Head(doomed) \in Node
      BY DoomedType DEF IInv
    <2> QED
      BY <1>1, <1>2, <1>4, <2>1 DEF IInv, Shutdown
  <1>7. Permit'
    <2> SUFFICES ASSUME NEW m \in Node
                 PROVE  /\ (holder[m] = "planner" => closing /\ m = Head(doomed) /\ AllRefused(m))'
                        /\ (holder[m] = "teardown" =>
                             actor[m] = "closed" /\ phase[m] = "Invalid" /\ AllRefused(m))'
      BY DEF Permit
    <2> QED
      BY <1>1, <1>4, <1>9 DEF IInv, Permit
  <1>8. Unowned'
    <2> SUFFICES ASSUME NEW m \in Node, actor'[m] = "none" PROVE AllRefused(m)'
      BY DEF Unowned
    <2>1. m = n \/ actor[m] = "none"
      BY <1>4
    <2> QED
      BY <1>2, <1>9, <2>1 DEF IInv, Unowned
  <1> QED
    BY <1>3, <1>5, <1>6, <1>7, <1>8 DEF IInv

-----------------------------------------------------------------------------
(* Evictions and interrupted planners *)

LEMMA OrdersType ==
  ASSUME NEW S \in SUBSET Node, NEW s \in EvictionOrders(S)
  PROVE  s \in Seq(Node)
  <1>1. IsFiniteSet(S) /\ Cardinality(S) \in Nat
    BY FS_Subset, FS_CardinalityType, WiringAssumption
  <1>2. s \in [1 .. Cardinality(S) -> S]
    BY DEF EvictionOrders, SetToSeqs
  <1> QED
    BY <1>1, <1>2

LEMMA EvictBeginsKeeps ==
  ASSUME IInv, NEW c \in Caller, EvictBegins(c)
  PROVE  IInv'
  <1>1. /\ pc[c] = "idle" /\ planner = Nobody /\ planner' = c
        /\ pc' = [pc EXCEPT ![c] = "evicting"]
        /\ UNCHANGED <<phase, ghost, deps, edges, actorVars, stack, closing, call, look>>
    BY DEF EvictBegins, cellVars
  <1>2. doomed' \in Seq(Node)
    <2>1. PICK S \in SUBSET Node : doomed' \in EvictionOrders(S)
      BY DEF EvictBegins, Planned
    <2> QED
      BY <2>1, OrdersType
  <1>3. ~closing /\ stack = <<>>
    BY <1>1 DEF IInv, Shutdown, Semaphore
  <1>4. Shape'
    BY <1>1, <1>2 DEF IInv, Shape, CellTypes, ActorTypes, PlanTypes, CallerTypes, actorVars
  <1>5. Semaphore'
    BY <1>1, <1>3, PartyAssumption DEF IInv, Semaphore, Shape, CallerTypes, actorVars
  <1> QED
    BY <1>1, <1>3, <1>4, <1>5, ActorsRest

LEMMA EvictEndsKeeps ==
  ASSUME IInv, NEW c \in Caller, EvictEnds(c)
  PROVE  IInv'
  <1>1. /\ pc[c] = "evicting" /\ doomed = <<>> /\ planner' = Nobody
        /\ pc' = [pc EXCEPT ![c] = "done"]
        /\ UNCHANGED <<phase, ghost, deps, edges, actorVars, stack, doomed, closing, call, look>>
    BY DEF EvictEnds, cellVars
  <1>2. ~closing /\ planner = c
    BY <1>1 DEF IInv, Shutdown, Semaphore
  <1>3. stack = <<>>
    BY <1>1, <1>2 DEF IInv, Semaphore
  <1>4. Shape'
    BY <1>1 DEF IInv, Shape, CellTypes, ActorTypes, PlanTypes, CallerTypes, actorVars
  <1>5. Semaphore'
    BY <1>1, <1>2, <1>3, PartyAssumption DEF IInv, Semaphore, Shape, CallerTypes, actorVars
  <1> QED
    BY <1>1, <1>2, <1>4, <1>5, ActorsRest

\* What is forgotten is the first node doomed.
LEMMA Forgets ==
  ASSUME Shape, doomed # <<>>, Forget(Head(doomed))
  PROVE  /\ CellTypes'
         /\ \A n \in Node : phase'[n] = IF n = Head(doomed) THEN "Missing" ELSE phase[n]
         /\ doomed' \in Seq(Node)
  <1>1. Head(doomed) \in Node /\ Tail(doomed) \in Seq(Node)
    BY DoomedType
  <1>2. doomed' \in Seq(Node)
    BY <1>1 DEF Forget
  <1>3. \A n \in Node : phase'[n] = IF n = Head(doomed) THEN "Missing" ELSE phase[n]
    BY <1>1 DEF Forget, Shape, CellTypes
  <1>4. ghost' \in [Node -> Phase \cup {"none"}] /\ phase' \in [Node -> Phase]
    BY <1>1 DEF Forget, Shape, CellTypes, Phase
  <1>5. deps' \in [Node -> SUBSET Node]
    BY <1>1 DEF Forget, Shape, CellTypes
  <1>6. edges' \subseteq Node \X Node
    BY DEF Forget, Shape, CellTypes
  <1> QED
    BY <1>2, <1>3, <1>4, <1>5, <1>6 DEF CellTypes

LEMMA EvictUnownedKeeps ==
  ASSUME IInv, EvictUnowned
  PROVE  IInv'
  <1>1. /\ doomed # <<>> /\ planner # Nobody /\ ~closing /\ actor[Head(doomed)] = "none"
        /\ Forget(Head(doomed))
        /\ UNCHANGED <<actorVars, planner, stack, closing, pc, call, look>>
    BY DEF EvictUnowned, Dooms, callerVars
  <1>2. /\ CellTypes' /\ doomed' \in Seq(Node)
        /\ \A n \in Node : phase'[n] = IF n = Head(doomed) THEN "Missing" ELSE phase[n]
    BY <1>1, Forgets DEF IInv
  <1>3. Shape'
    BY <1>1, <1>2 DEF IInv, Shape, ActorTypes, PlanTypes, CallerTypes, actorVars
  <1>4. Semaphore'
    BY <1>1 DEF IInv, Semaphore, actorVars
  <1>5. \A n \in Node : AllRefused(n)' <=> AllRefused(n)
    BY <1>1 DEF AllRefused, actorVars
  <1>6. Permit'
    <2> SUFFICES ASSUME NEW n \in Node
                 PROVE  /\ holder[n] # "planner"
                        /\ holder[n] = "teardown" =>
                             actor[n] = "closed" /\ phase'[n] = "Invalid" /\ AllRefused(n)
      BY <1>1, <1>5 DEF Permit, actorVars
    <2> QED
      BY <1>1, <1>2 DEF IInv, Permit
  <1>7. Unowned'
    BY <1>1, <1>5 DEF IInv, Unowned, actorVars
  <1> QED
    BY <1>1, <1>3, <1>4, <1>6, <1>7 DEF IInv, Shutdown

LEMMA CleanupBeginsKeeps ==
  ASSUME IInv, CleanupBegins
  PROVE  IInv'
  <1>1. /\ doomed # <<>> /\ Exclusive(Head(doomed))
        /\ holder' = [holder EXCEPT ![Head(doomed)] = "planner"]
        /\ UNCHANGED <<phase, ghost, deps, edges, actor, attempts, workers, planner, stack,
                       doomed, closing, pc, call, look>>
    BY DEF CleanupBegins, Dooms, Hold, cellVars, planVars, callerVars
  <1>2. closing /\ Head(doomed) \in Node /\ AllRefused(Head(doomed))
    BY <1>1, ExclusiveFinds
  <1>3. Shape'
    BY <1>1, <1>2 DEF IInv, Shape, CellTypes, ActorTypes, PlanTypes, CallerTypes
  <1>4. Semaphore'
    BY <1>1 DEF IInv, Semaphore
  <1>5. \A n \in Node : AllRefused(n)' <=> AllRefused(n)
    BY <1>1 DEF AllRefused
  <1>6. \A n \in Node : holder'[n] = IF n = Head(doomed) THEN "planner" ELSE holder[n]
    BY <1>1, <1>2 DEF IInv, Shape, ActorTypes
  <1>7. Permit'
    <2> SUFFICES ASSUME NEW n \in Node
                 PROVE  /\ holder'[n] = "planner" => closing /\ n = Head(doomed) /\ AllRefused(n)
                        /\ holder'[n] = "teardown" =>
                             actor[n] = "closed" /\ phase[n] = "Invalid" /\ AllRefused(n)
      BY <1>1, <1>5 DEF Permit
    <2> QED
      BY <1>2, <1>6 DEF IInv, Permit
  <1>8. Shutdown' /\ Unowned'
    BY <1>1, <1>5 DEF IInv, Shutdown, Unowned
  <1> QED
    BY <1>3, <1>4, <1>7, <1>8 DEF IInv

LEMMA CleanupEndsKeeps ==
  ASSUME IInv, CleanupEnds
  PROVE  IInv'
  <1> DEFINE n == Head(doomed)
  <1>1. /\ doomed # <<>> /\ planner # Nobody /\ holder[n] = "planner" /\ Forget(n)
        /\ holder' = [holder EXCEPT ![n] = "nobody"] /\ actor' = [actor EXCEPT ![n] = "none"]
        /\ closing' = FALSE
        /\ UNCHANGED <<attempts, workers, planner, stack, pc, call, look>>
    BY DEF CleanupEnds, Dooms, Hold, callerVars
  <1>2. n \in Node
    BY <1>1, DoomedType DEF IInv
  <1>3. AllRefused(n) /\ \A m \in Node : holder[m] = "planner" => m = n
    BY <1>1, <1>2 DEF IInv, Permit
  <1>4. /\ CellTypes' /\ doomed' \in Seq(Node)
        /\ \A m \in Node : phase'[m] = IF m = n THEN "Missing" ELSE phase[m]
    BY <1>1, Forgets DEF IInv
  <1> HIDE DEF n
  <1>5. Shape'
    BY <1>1, <1>4 DEF IInv, Shape, ActorTypes, PlanTypes, CallerTypes
  <1>6. Semaphore'
    BY <1>1 DEF IInv, Semaphore
  <1>7. \A m \in Node : AllRefused(m)' <=> AllRefused(m)
    BY <1>1 DEF AllRefused
  <1>8. \A m \in Node : /\ holder'[m] = IF m = n THEN "nobody" ELSE holder[m]
                       /\ actor'[m] = IF m = n THEN "none" ELSE actor[m]
    BY <1>1 DEF IInv, Shape, ActorTypes
  <1>9. Permit'
    <2> SUFFICES ASSUME NEW m \in Node
                 PROVE  /\ holder'[m] # "planner"
                        /\ holder'[m] = "teardown" =>
                             actor'[m] = "closed" /\ phase'[m] = "Invalid" /\ AllRefused(m)
      BY <1>7 DEF Permit
    <2> QED
      BY <1>3, <1>4, <1>8 DEF IInv, Permit
  <1>10. Unowned'
    <2> SUFFICES ASSUME NEW m \in Node, actor'[m] = "none" PROVE AllRefused(m)
      BY <1>7 DEF Unowned
    <2> QED
      BY <1>3, <1>8 DEF IInv, Unowned
  <1> QED
    BY <1>1, <1>5, <1>6, <1>9, <1>10 DEF IInv, Shutdown

\* A planner that leaves gives back the permit of the cleanup it was in.
LEMMA LeaveKeeps ==
  ASSUME IInv, NEW c \in Caller, Leave(c)
  PROVE  IInv'
  <1>1. /\ planner = c /\ planner' = Nobody /\ stack' = <<>> /\ doomed' = <<>>
        /\ closing' = FALSE /\ pc' = [pc EXCEPT ![c] = "done"]
        /\ holder' = [n \in Node |-> IF holder[n] = "planner" THEN "nobody" ELSE holder[n]]
        /\ UNCHANGED <<phase, ghost, deps, edges, actor, attempts, workers, call, look>>
    BY DEF Leave, cellVars
  <1>2. Shape'
    <2>1. ActorTypes'
      BY <1>1 DEF IInv, Shape, ActorTypes
    <2>2. PlanTypes'
      <3>1. <<>> \in Seq(FrameRecord) /\ <<>> \in Seq(Node)
        OBVIOUS
      <3> QED
        BY <1>1, <3>1 DEF PlanTypes
    <2>3. CellTypes' /\ CallerTypes'
      BY <1>1 DEF IInv, Shape, CellTypes, CallerTypes
    <2> QED
      BY <2>1, <2>2, <2>3 DEF Shape
  <1>3. Semaphore'
    BY <1>1, PartyAssumption DEF IInv, Semaphore, Shape, CallerTypes
  <1>4. \A n \in Node : AllRefused(n)' <=> AllRefused(n)
    BY <1>1 DEF AllRefused
  <1>5. Permit'
    <2> SUFFICES ASSUME NEW n \in Node
                 PROVE  /\ holder'[n] # "planner"
                        /\ holder'[n] = "teardown" =>
                             actor[n] = "closed" /\ phase[n] = "Invalid" /\ AllRefused(n)
      BY <1>1, <1>4 DEF Permit
    <2> QED
      BY <1>1 DEF IInv, Permit
  <1>6. Unowned'
    BY <1>1, <1>4 DEF IInv, Unowned
  <1> QED
    BY <1>1, <1>2, <1>3, <1>5, <1>6 DEF IInv, Shutdown

-----------------------------------------------------------------------------
(* The invariant and the theorems *)

LEMMA InitIInv == Init => IInv
  <1> SUFFICES ASSUME Init PROVE IInv
    OBVIOUS
  <1>1. CellTypes
    BY DEF Init, CellTypes, Phase
  <1>2. ActorTypes
    BY DEF Init, ActorTypes
  <1>3. PlanTypes
    <2>1. <<>> \in Seq(FrameRecord) /\ <<>> \in Seq(Node)
      OBVIOUS
    <2> QED
      BY <2>1 DEF Init, PlanTypes
  <1>4. CallerTypes
    BY CallAssumption DEF Init, CallerTypes
  <1>5. Semaphore
    BY PartyAssumption DEF Init, Semaphore
  <1>6. Shutdown /\ Permit /\ Unowned
    BY DEF Init, Shutdown, Permit, Unowned, AllRefused
  <1> QED
    BY <1>1, <1>2, <1>3, <1>4, <1>5, <1>6 DEF IInv, Shape

LEMMA WorkerKeeps ==
  ASSUME IInv, NEW w \in workers, Worker(w)
  PROVE  IInv'
  <1>1. CASE ReadinessRead(w) \/ BeginAttempt(w) \/ LookUpDependencies(w)
    BY <1>1, ReadinessReadKeeps, BeginAttemptKeeps, LookUpDependenciesKeeps
  <1>2. CASE \E d \in w.todo : SubmitDependency(w, d)
    BY <1>2, SubmitDependencyKeeps
  <1>3. CASE DependenciesFail(w) \/ AcquireStarts(w) \/ AcquireEnds(w) \/ Release(w)
    BY <1>3, EndsKeep, AcquireStartsKeeps
  <1>4. CASE Refused(w) \/ Interrupted(w)
    BY <1>4, RefusedKeeps, InterruptedKeeps
  <1> QED
    BY <1>1, <1>2, <1>3, <1>4 DEF Worker

LEMMA PlannerKeeps ==
  ASSUME IInv, Planner
  PROVE  IInv'
  <1>1. CASE VisitNext \/ RecordEdge \/ RecordDependencies
    BY <1>1, VisitNextKeeps, RecordEdgeKeeps, RecordDependenciesKeeps
  <1>2. CASE CloseActor \/ InvalidateUnowned \/ Invalidate
    BY <1>2, CloseActorKeeps, InvalidateUnownedKeeps, InvalidateKeeps
  <1>3. CASE EvictUnowned \/ CleanupBegins \/ CleanupEnds
    BY <1>3, EvictUnownedKeeps, CleanupBeginsKeeps, CleanupEndsKeeps
  <1>4. CASE \E c \in Caller : PlanEnds(c) \/ EvictEnds(c)
    BY <1>4, PlanEndsKeeps, EvictEndsKeeps
  <1> QED
    BY <1>1, <1>2, <1>3, <1>4 DEF Planner

LEMMA StandsStill ==
  ASSUME IInv, UNCHANGED vars
  PROVE  IInv'
  <1>1. \A n \in Node : AllRefused(n)' <=> AllRefused(n)
    BY DEF AllRefused, vars, actorVars
  <1>2. Shape' /\ Semaphore'
    BY DEF IInv, Shape, CellTypes, ActorTypes, PlanTypes, CallerTypes, Semaphore, vars, cellVars,
           actorVars, planVars, callerVars
  <1>3. Shutdown' /\ Permit' /\ Unowned'
    BY <1>1 DEF IInv, Shutdown, Permit, Unowned, vars, cellVars, actorVars, planVars
  <1> QED
    BY <1>2, <1>3 DEF IInv

LEMMA StepKeeps ==
  ASSUME IInv, [Next]_vars
  PROVE  IInv'
  <1>1. CASE UNCHANGED vars
    BY <1>1, StandsStill
  <1>2. CASE Runtime
    BY <1>2, PlannerKeeps, WorkerKeeps, TeardownEndsKeeps, SubmitByIdKeeps DEF Runtime
  <1>3. CASE \E c \in Caller : Begins(c) \/ Leave(c)
    BY <1>3, PlanBeginsKeeps, LookUpKeeps, EvictBeginsKeeps, LeaveKeeps DEF Begins
  <1> QED
    BY <1>1, <1>2, <1>3 DEF Next

\* The inductive invariant holds in every reachable state.
THEOREM Invariance == Spec => []IInv
  <1>1. IInv /\ [Next]_vars => IInv'
    BY StepKeeps
  <1> QED
    BY <1>1, InitIInv, PTL DEF Spec

\* The graph, its actors and its planner always have their types, for every
\* wiring and every scenario of calls.
THEOREM TypeCorrect == Spec => []TypeOK
  <1>1. IInv => TypeOK
    <2> SUFFICES ASSUME IInv PROVE TypeOK
      OBVIOUS
    <2>1. \A w \in workers :
            /\ w.on \in Node /\ w.by \in Node \cup Caller /\ w.nth \in Nat
            /\ w.kind \in {"ensure", "release"}
            /\ w.deps \subseteq Node /\ w.todo \subseteq CellObject /\ w.failed \in BOOLEAN
            /\ w.pc \in {"queued", "refused", "acquiring", "dependencies", "driving"}
      BY DEF IInv, Shape, ActorTypes, WorkerRecord
    <2>2. \A i \in DOMAIN stack : stack[i].request \in Request /\ stack[i].returned \in BOOLEAN
      <3> SUFFICES ASSUME NEW i \in DOMAIN stack PROVE stack[i] \in FrameRecord
        BY DEF FrameRecord
      <3> QED
        BY DEF IInv, Shape, PlanTypes
    <2>3. \A i \in DOMAIN doomed : doomed[i] \in Node
      BY DEF IInv, Shape, PlanTypes
    <2>4. \A c \in Caller : look[c] \subseteq CellObject
      BY DEF IInv, Shape, CallerTypes
    <2> QED
      BY <2>1, <2>2, <2>3, <2>4
        DEF TypeOK, IInv, Shape, CellTypes, ActorTypes, PlanTypes, CallerTypes
  <1> QED
    BY <1>1, Invariance, PTL

\* Workers give a cell a phase, never none.
LEMMA WorkersForgetNothing ==
  ASSUME IInv, NEW w \in workers, Worker(w), NEW n \in Node
  PROVE  phase'[n] = phase[n] \/ phase'[n] # "Missing"
  <1>1. CASE \/ ReadinessRead(w) \/ LookUpDependencies(w) \/ AcquireStarts(w) \/ Refused(w)
            \/ \E d \in w.todo : SubmitDependency(w, d)
    BY <1>1 DEF ReadinessRead, LookUpDependencies, AcquireStarts, Refused, SubmitDependency, cellVars
  <1>2. ASSUME NEW p \in {"Acquiring", "Error", "Ready", "Idle"}, Commit(w, p)
        PROVE  phase'[n] = phase[n] \/ phase'[n] # "Missing"
    BY <1>2, Commits DEF Phase
  <1>3. CASE BeginAttempt(w) \/ DependenciesFail(w) \/ AcquireEnds(w) \/ Release(w)
    BY <1>2, <1>3 DEF BeginAttempt, DependenciesFail, AcquireEnds, Release
  <1>4. CASE Interrupted(w)
    <2>1. Commit(w, "Error") \/ Commit(w, PhaseOf(w))
      BY <1>4 DEF Interrupted
    <2> QED
      BY <1>2, <2>1, CommitsNothing
  <1> QED
    BY <1>1, <1>3, <1>4 DEF Worker

\* A node is forgotten by an eviction alone, which finds no work of it.
LEMMA ForgottenIsIdle ==
  ASSUME IInv, Next, NEW n \in Node, phase[n] # "Missing", phase'[n] = "Missing"
  PROVE  AllRefused(n)'
  <1>1. CASE \E w \in workers : Worker(w)
    BY <1>1, WorkersForgetNothing
  <1>2. CASE \/ \E c \in Caller : \/ PlanEnds(c) \/ EvictEnds(c) \/ SubmitById(c)
                                 \/ LookUp(c) \/ EvictBegins(c) \/ Leave(c)
            \/ RecordEdge \/ RecordDependencies \/ CloseActor \/ CleanupBegins
            \/ \E m \in Node : TeardownEnds(m)
    BY <1>2 DEF PlanEnds, EvictEnds, SubmitById, LookUp, EvictBegins, Leave, RecordEdge,
                RecordDependencies, CloseActor, CleanupBegins, TeardownEnds, cellVars
  <1>3. CASE VisitNext
    <2>1. Head(Top.rest) \in Request
      BY <1>3, TopType, RequestAhead DEF VisitNext, IInv
    <2> QED
      BY <1>3, <2>1, VisitKeeps DEF VisitNext
  <1>4. CASE \E c \in Caller : PlanBegins(c)
    <2>1. PICK c \in Caller : PlanBegins(c)
      BY <1>4
    <2>2. call[c].request \in Request /\ stack = <<>>
      BY <2>1 DEF PlanBegins, IInv, Shape, CallerTypes, Call, Semaphore
    <2> QED
      BY <2>1, <2>2, VisitKeeps DEF PlanBegins
  <1>5. CASE InvalidateUnowned \/ Invalidate
    <2>1. phase' = [phase EXCEPT ![Head(doomed)] = "Invalid"]
      BY <1>5 DEF InvalidateUnowned, Invalidate, Become
    <2> QED
      BY <2>1 DEF IInv, Shape, CellTypes
  <1>6. CASE EvictUnowned \/ CleanupEnds
    <2>1. doomed # <<>> /\ Forget(Head(doomed)) /\ workers' = workers
      BY <1>6 DEF EvictUnowned, CleanupEnds, Dooms, actorVars
    <2>2. n = Head(doomed)
      BY <2>1, Forgets DEF IInv
    <2>3. AllRefused(n)
      BY <1>6, <2>2 DEF EvictUnowned, CleanupEnds, IInv, Permit, Unowned
    <2> QED
      BY <2>1, <2>3 DEF AllRefused
  <1> QED
    BY <1>1, <1>2, <1>3, <1>4, <1>5, <1>6 DEF Next, Runtime, Planner, Begins

\* An eviction leaves no work behind (test "eviction during dependency readiness
\* does not leave orphan dependency work"), whatever the graph, whoever calls
\* and wherever planners are interrupted.
THEOREM EvictionsLeaveNoWork == Spec => NoOrphanWork
  <1>1. IInv /\ [Next]_vars =>
          [\A n \in Node :
             phase[n] # "Missing" /\ phase'[n] = "Missing" =>
               \A w \in workers' : w.on = n => w.pc = "refused"]_vars
    BY ForgottenIsIdle DEF AllRefused
  <1> QED
    BY <1>1, Invariance, PTL DEF Spec, NoOrphanWork
-----------------------------------------------------------------------------
(* What an eviction takes *)

\* Induction over the numbers, in the form the provers can use.
LEMMA Induction ==
  ASSUME NEW P, 0 \in P, \A n \in Nat : n \in P => n + 1 \in P
  PROVE  Nat \subseteq P
  <1> SUFFICES ASSUME ~(Nat \subseteq P) PROVE FALSE
    OBVIOUS
  <1> DEFINE R == OpToRel(<, Nat)
             Others == {n \in Nat : n \notin P}
  <1>1. IsWellFoundedOn(R, Nat)
    BY NatLessThanWellFounded
  <1>2. \A x, y \in Nat : <<y, x>> \in R <=> y < x
    BY DEF OpToRel
  <1>3. Others \subseteq Nat /\ Others # {}
    OBVIOUS
  <1> HIDE DEF R, Others
  <1>4. PICK x \in Others : \A y \in Others : ~(<<y, x>> \in R)
    BY <1>1, <1>3, WFMin
  <1>5. x \in Nat /\ x \notin P /\ \A y \in Nat : y \notin P => ~(y < x)
    BY <1>2, <1>4 DEF Others
  <1>6. x # 0
    BY <1>5
  <1>7. x - 1 \in Nat /\ x - 1 < x /\ (x - 1) + 1 = x
    BY <1>5, <1>6
  <1> QED
    BY <1>5, <1>7

Dependents(S) == {n \in Node : \E m \in S : <<n, m>> \in edges}

Nearer(f, S, k) == IF k = 0 THEN S ELSE f[k - 1] \cup Dependents(f[k - 1])

LEMMA NodesAreFinite == Cardinality(Node) \in Nat
  BY FS_CardinalityType, WiringAssumption

LEMMA WithinUnfolds ==
  ASSUME NEW S
  PROVE  DependentsWithin(S) =
           CHOOSE f : f = [k \in 0 .. Cardinality(Node) |-> Nearer(f, S, k)]
  BY DEF DependentsWithin, Nearer, Dependents

LEMMA WithinExists ==
  ASSUME NEW S
  PROVE  \E f : f = [k \in 0 .. Cardinality(Node) |-> Nearer(f, S, k)]
  <1> DEFINE n == Cardinality(Node)
             Solves(f, m) == \A k \in 0 .. m : f[k] = Nearer(f, S, k)
             P == {m \in Nat : \E f : Solves(f, m)}
  <1>1. n \in Nat
    BY NodesAreFinite
  <1> HIDE DEF n
  <1>2. 0 \in P
    <2> DEFINE f == [k \in {0} |-> S]
    <2>1. Solves(f, 0)
      BY DEF Nearer
    <2> QED
      BY <2>1
  <1>3. ASSUME NEW m \in Nat, m \in P PROVE m + 1 \in P
    <2>1. PICK f : Solves(f, m)
      BY <1>3
    <2> DEFINE g == [k \in 0 .. m + 1 |-> IF k <= m THEN f[k] ELSE Nearer(f, S, k)]
    <2>2. ASSUME NEW k \in 0 .. m + 1 PROVE g[k] = Nearer(g, S, k)
      <3>1. k = 0 \/ k - 1 \in 0 .. m
        OBVIOUS
      <3>2. k # 0 => g[k - 1] = f[k - 1]
        BY <3>1
      <3>3. Nearer(g, S, k) = Nearer(f, S, k)
        BY <3>2 DEF Nearer
      <3>4. g[k] = Nearer(f, S, k)
        BY <2>1
      <3> QED
        BY <3>3, <3>4
    <2>3. Solves(g, m + 1)
      BY <2>2
    <2> HIDE DEF g, Solves
    <2>4. \E h : Solves(h, m + 1)
      BY <2>3
    <2> QED
      BY <2>4
  <1>4. n \in P
    <2> HIDE DEF P
    <2> QED
      BY <1>1, <1>2, <1>3, Induction
  <1>5. PICK f : Solves(f, n)
    BY <1>4
  <1> DEFINE g == [k \in 0 .. n |-> Nearer(f, S, k)]
  <1>6. \A k \in 0 .. n : g[k] = f[k]
    BY <1>5
  <1>7. ASSUME NEW k \in 0 .. n PROVE Nearer(g, S, k) = Nearer(f, S, k)
    <2>1. k # 0 => k - 1 \in 0 .. n
      BY <1>1
    <2> HIDE DEF g
    <2> QED
      BY <1>6, <2>1 DEF Nearer
  <1>8. g = [k \in 0 .. n |-> Nearer(g, S, k)]
    <2> DEFINE h == [k \in 0 .. n |-> Nearer(g, S, k)]
    <2>1. \A k \in 0 .. n : h[k] = g[k]
      BY <1>7
    <2> QED
      BY <2>1
  <1> HIDE DEF g
  <1> QED
    BY <1>8 DEF n

\* The nodes within k steps are those within k - 1 and their dependents.
LEMMA Within ==
  ASSUME NEW S, NEW k \in 0 .. Cardinality(Node)
  PROVE  DependentsWithin(S)[k] = Nearer(DependentsWithin(S), S, k)
  <1> DEFINE D == DependentsWithin(S)
  <1>1. D = [j \in 0 .. Cardinality(Node) |-> Nearer(D, S, j)]
    BY WithinUnfolds, WithinExists
  <1> HIDE DEF D
  <1>2. D[k] = Nearer(D, S, k)
    BY <1>1
  <1> QED
    BY <1>2 DEF D

\* A set that the edges do not leave is reached by no eviction from outside it.
LEMMA ClosureAvoids ==
  ASSUME NEW S, NEW A, S \cap A = {},
         \A e \in edges : e[1] \in A => e[2] \in A
  PROVE  Closure(S) \cap A = {}
  <1> DEFINE D == DependentsWithin(S)
             n == Cardinality(Node)
             P == {k \in Nat : k <= n => D[k] \cap A = {}}
  <1>1. n \in Nat
    BY NodesAreFinite
  <1>2. \A k \in 0 .. n : D[k] = Nearer(D, S, k)
    BY Within
  <1> HIDE DEF D, n
  <1>3. 0 \in P
    <2>1. 0 \in 0 .. n
      BY <1>1
    <2>2. D[0] = S
      BY <1>2, <2>1 DEF Nearer
    <2> QED
      BY <2>2
  <1>4. ASSUME NEW k \in Nat, k \in P PROVE k + 1 \in P
    <2> SUFFICES ASSUME k + 1 <= n PROVE D[k + 1] \cap A = {}
      OBVIOUS
    <2>1. k <= n /\ k + 1 \in 0 .. n /\ (k + 1) - 1 = k /\ k + 1 # 0
      BY <1>1
    <2>2. D[k] \cap A = {}
      BY <1>4, <2>1
    <2>3. D[k + 1] = D[k] \cup Dependents(D[k])
      BY <1>2, <2>1 DEF Nearer
    <2>4. ASSUME NEW d \in Dependents(D[k]) PROVE d \notin A
      <3>1. PICK m \in D[k] : <<d, m>> \in edges
        BY DEF Dependents
      <3>2. <<d, m>>[1] = d /\ <<d, m>>[2] = m
        OBVIOUS
      <3> QED
        BY <2>2, <3>1, <3>2
    <2> QED
      BY <2>2, <2>3, <2>4
  <1>5. n \in P
    <2> HIDE DEF P
    <2> QED
      BY <1>1, <1>3, <1>4, Induction
  <1>6. D[n] \cap A = {}
    BY <1>1, <1>5
  <1> QED
    BY <1>6 DEF Closure, D, n

\* An eviction takes every dependent of what it takes: as many steps as there
\* are nodes lead everywhere, since each but the last finds one node more.
LEMMA ClosureIsClosed ==
  ASSUME NEW root \in Node, NEW m \in Closure({root}), NEW d \in Node, <<d, m>> \in edges
  PROVE  d \in Closure({root})
  <1> DEFINE S == {root}
             D == DependentsWithin(S)
             n == Cardinality(Node)
             Closed(X) == Dependents(X) \subseteq X
             P == {k \in Nat : k <= n => D[k] \subseteq Node
                                         /\ (Closed(D[k]) \/ Cardinality(D[k]) >= k + 1)}
  <1>1. n \in Nat /\ IsFiniteSet(Node)
    BY NodesAreFinite, WiringAssumption
  <1>2. \A k \in 0 .. n : D[k] = Nearer(D, S, k)
    BY Within
  <1>3. Cardinality(S) = 1 /\ S \subseteq Node
    BY FS_Singleton
  <1> HIDE DEF D, n, S
  <1>4. 0 \in P
    <2>1. 0 \in 0 .. n
      BY <1>1
    <2>2. D[0] = S
      BY <1>2, <2>1 DEF Nearer
    <2> QED
      BY <1>3, <2>2
  <1>5. ASSUME NEW k \in Nat, k \in P PROVE k + 1 \in P
    <2> SUFFICES ASSUME k + 1 <= n
                 PROVE  D[k + 1] \subseteq Node
                        /\ (Closed(D[k + 1]) \/ Cardinality(D[k + 1]) >= (k + 1) + 1)
      OBVIOUS
    <2>1. k <= n /\ k + 1 \in 0 .. n /\ (k + 1) - 1 = k /\ k + 1 # 0
      BY <1>1
    <2>2. D[k] \subseteq Node /\ (Closed(D[k]) \/ Cardinality(D[k]) >= k + 1)
      BY <1>5, <2>1
    <2>3. D[k + 1] = D[k] \cup Dependents(D[k])
      BY <1>2, <2>1 DEF Nearer
    <2>4. D[k + 1] \subseteq Node /\ D[k] \subseteq D[k + 1]
      BY <2>2, <2>3 DEF Dependents
    <2>5. CASE Closed(D[k])
      <3>1. D[k + 1] = D[k]
        BY <2>3, <2>5
      <3> QED
        BY <2>4, <2>5, <3>1
    <2>6. CASE ~Closed(D[k])
      <3>1. D[k] # D[k + 1]
        BY <2>3, <2>6
      <3>2. IsFiniteSet(D[k + 1]) /\ IsFiniteSet(D[k])
        BY <1>1, <2>2, <2>4, FS_Subset
      <3>3. /\ Cardinality(D[k]) <= Cardinality(D[k + 1])
            /\ Cardinality(D[k]) # Cardinality(D[k + 1])
        BY <2>4, <3>1, <3>2, FS_Subset
      <3>4. Cardinality(D[k]) \in Nat /\ Cardinality(D[k + 1]) \in Nat
        BY <3>2, FS_CardinalityType
      <3>5. Cardinality(D[k]) >= k + 1
        BY <2>2, <2>6
      <3>6. Cardinality(D[k + 1]) >= (k + 1) + 1
        BY <3>3, <3>4, <3>5
      <3> QED
        BY <2>4, <3>6
    <2> QED
      BY <2>5, <2>6
  <1>6. n \in P
    <2> HIDE DEF P
    <2> QED
      BY <1>1, <1>4, <1>5, Induction
  <1>7. D[n] \subseteq Node /\ (Closed(D[n]) \/ Cardinality(D[n]) >= n + 1)
    BY <1>1, <1>6
  <1>8. Closed(D[n])
    <2>1. Cardinality(D[n]) <= n
      BY <1>1, <1>7, FS_Subset DEF n
    <2>2. Cardinality(D[n]) \in Nat
      BY <1>1, <1>7, FS_Subset, FS_CardinalityType
    <2>3. ~(Cardinality(D[n]) >= n + 1)
      BY <1>1, <2>1, <2>2
    <2> QED
      BY <1>7, <2>3
  <1>9. Closure({root}) = D[n]
    BY DEF Closure, D, S, n
  <1>10. m \in D[n]
    BY <1>9
  <1>11. d \in Dependents(D[n])
    BY <1>10 DEF Dependents
  <1> QED
    BY <1>8, <1>9, <1>11

-----------------------------------------------------------------------------
(* Edges and dependencies, when evictions are whole *)

Evicting == planner # Nobody /\ pc[planner] = "evicting"

Evictions == {"evict", "evictDependents"}

\* Who evicts was called to.
Called ==
  call \in Calls /\ \A c \in Caller : pc[c] = "evicting" => call[c].kind \in Evictions

\* Edges join nodes of the graph, as somebody declared them.
Ends ==
  /\ edges \subseteq Planned \X Planned
  /\ \A e \in edges : e[2] \in Declares(e[1])

\* What an activation has left to plan is all it has no edge to yet.
Sound(f) ==
  /\ f.request[1] \in Planned
  /\ ToSet(f.rest) \subseteq ToSet(Wiring[f.request])
  /\ \A t \in Targets(f.request) :
       <<f.request[1], t>> \in edges \/ \E d \in ToSet(f.rest) : d[1] = t
  /\ f.returned => Head(f.rest)[1] \in Planned

Frames == \A f \in ToSet(stack) : Sound(f)

\* A node that no eviction is about to forget has an edge to each dependency,
\* and whoever depends on one that will be forgotten will be, too.
Covered ==
  \A n \in Node : (Evicting => n \notin ToSet(doomed)) => \A d \in deps[n] : <<n, d>> \in edges

Upward ==
  Evicting => \A e \in edges : e[2] \in ToSet(doomed) => e[1] \in ToSet(doomed)

EInv == Called /\ Ends /\ Frames /\ Covered /\ Upward

LEMMA SoundStays ==
  ASSUME NEW f, Sound(f), Planned \subseteq Planned', edges \subseteq edges'
  PROVE  Sound(f)'
  BY DEF Sound

\* Nothing is planned, wired or forgotten: workers, teardowns, callers and
\* invalidations.
LEMMA WiringRests ==
  ASSUME EInv, Planned \subseteq Planned', UNCHANGED <<deps, edges, stack, call>>,
         \A c \in Caller : pc'[c] = "evicting" => pc[c] = "evicting",
         Evicting' <=> Evicting, Evicting => doomed' = doomed
  PROVE  EInv'
  <1>1. Called'
    BY DEF EInv, Called
  <1>2. Ends'
    BY DEF EInv, Ends, Declares, Targets
  <1>3. Frames'
    <2> SUFFICES ASSUME NEW f \in ToSet(stack) PROVE Sound(f)'
      BY DEF Frames
    <2> QED
      BY SoundStays DEF EInv, Frames
  <1>4. Covered' /\ Upward'
    BY DEF EInv, Covered, Upward
  <1> QED
    BY <1>1, <1>2, <1>3, <1>4 DEF EInv

LEMMA PlannedStays ==
  ASSUME Shape, Shape', \A n \in Node : phase'[n] = phase[n] \/ phase'[n] # "Missing"
  PROVE  Planned \subseteq Planned'
  BY DEF Planned

LEMMA WorkersWireNothing ==
  ASSUME IInv, EInv, NEW w \in workers, Worker(w)
  PROVE  EInv'
  <1>1. Planned \subseteq Planned'
    <2>1. Shape /\ Shape'
      BY WorkerKeeps DEF IInv
    <2> QED
      BY <2>1, WorkersForgetNothing, PlannedStays
  <1>2. UNCHANGED <<deps, edges, planner, stack, doomed, call>>
    BY DEF Worker, ReadinessRead, BeginAttempt, LookUpDependencies, SubmitDependency,
           DependenciesFail, AcquireStarts, AcquireEnds, Release, Refused, Interrupted, Commit,
           Become, Answer, Continue, cellVars, planVars, callerVars
  <1>3. pc' = pc \/ \E v \in workers : pc' = [c \in Caller |-> IF c = v.by THEN "done" ELSE pc[c]]
    BY DEF Worker, ReadinessRead, BeginAttempt, LookUpDependencies, SubmitDependency,
           DependenciesFail, AcquireStarts, AcquireEnds, Release, Refused, Interrupted,
           Answer, Continue, callerVars
  <1>4. \A c \in Caller : pc'[c] = "evicting" <=> pc[c] = "evicting"
    <2>1. CASE pc' = pc
      BY <2>1
    <2>2. CASE pc' # pc
      <3>1. PICK v \in workers : pc' = [c \in Caller |-> IF c = v.by THEN "done" ELSE pc[c]]
        BY <1>3, <2>2
      <3>2. v.by \in Caller => pc[v.by] \in {"waiting", "done"}
        BY DEF IInv, Semaphore
      <3> QED
        BY <3>1, <3>2
    <2> QED
      BY <2>1, <2>2
  <1>5. Evicting' <=> Evicting
    BY <1>2, <1>4 DEF Evicting, IInv, Shape, PlanTypes
  <1> QED
    BY <1>1, <1>2, <1>4, <1>5, WiringRests

LEMMA OthersWireNothing ==
  ASSUME IInv, EInv,
         \/ \E n \in Node : TeardownEnds(n)
         \/ \E c \in Caller : SubmitById(c) \/ LookUp(c)
         \/ CloseActor \/ CleanupBegins \/ UNCHANGED vars
  PROVE  EInv'
  <1>1. UNCHANGED <<phase, deps, edges, planner, stack, doomed, call>>
    BY DEF TeardownEnds, SubmitById, LookUp, CloseActor, CleanupBegins, vars, cellVars, planVars,
           callerVars
  <1>2. \/ pc' = pc
        \/ \E c \in Caller : /\ pc[c] \in {"idle", "submitting"}
                             /\ \E p \in {"submitting", "waiting", "done"} :
                                  pc' = [pc EXCEPT ![c] = p]
    BY DEF TeardownEnds, SubmitById, LookUp, CloseActor, CleanupBegins, vars, callerVars
  <1>3. \A c \in Caller : pc'[c] = "evicting" <=> pc[c] = "evicting"
    BY <1>2 DEF IInv, Shape, CallerTypes
  <1>4. Evicting' <=> Evicting
    BY <1>1, <1>3 DEF Evicting, IInv, Shape, PlanTypes
  <1>5. Planned' = Planned
    BY <1>1 DEF Planned
  <1> QED
    BY <1>1, <1>3, <1>4, <1>5, WiringRests

LEMMA InvalidationsWireNothing ==
  ASSUME IInv, EInv, InvalidateUnowned \/ Invalidate
  PROVE  EInv'
  <1>1. /\ phase' = [phase EXCEPT ![Head(doomed)] = "Invalid"]
        /\ UNCHANGED <<deps, edges, planner, stack, call, pc>> /\ pc[planner] = "planning"
    BY DEF InvalidateUnowned, Invalidate, Become, Dooms, callerVars
  <1>2. Planned \subseteq Planned'
    BY <1>1 DEF Planned, IInv, Shape, CellTypes
  <1>3. ~Evicting /\ ~Evicting'
    BY <1>1 DEF Evicting
  <1> QED
    BY <1>1, <1>2, <1>3, WiringRests

LEMMA PlansEndWired ==
  ASSUME IInv, EInv, NEW c \in Caller, PlanEnds(c)
  PROVE  EInv'
  <1>1. /\ pc[c] = "planning" /\ planner' = Nobody
        /\ UNCHANGED <<phase, deps, edges, stack, call>>
        /\ \E p \in {"waiting", "done"} : pc' = [pc EXCEPT ![c] = p]
    BY DEF PlanEnds, cellVars
  <1>2. planner = c
    BY <1>1 DEF IInv, Semaphore
  <1>3. ~Evicting /\ ~Evicting'
    BY <1>1, <1>2 DEF Evicting
  <1>4. \A d \in Caller : pc'[d] = "evicting" => pc[d] = "evicting"
    BY <1>1 DEF IInv, Shape, CallerTypes
  <1>5. Planned' = Planned
    BY <1>1 DEF Planned
  <1> QED
    BY <1>1, <1>3, <1>4, <1>5, WiringRests

\* The activations after one of them has its dependency planned.
LEMMA ReturnedMembers ==
  ASSUME NEW s \in Seq(FrameRecord), NEW f \in ToSet(Returned(s))
  PROVE  f \in ToSet(s) \/ (s # <<>> /\ f = [s[Len(s)] EXCEPT !.returned = TRUE])
  <1> DEFINE last == [s[Len(s)] EXCEPT !.returned = TRUE]
  <1>1. Returned(s) = IF s = <<>> THEN s ELSE [s EXCEPT ![Len(s)] = last]
    BY DEF Returned
  <1> HIDE DEF last
  <1>2. PICK i \in DOMAIN Returned(s) : f = Returned(s)[i]
    BY DEF ToSet
  <1>3. i \in DOMAIN s /\ (f = s[i] \/ (s # <<>> /\ f = last))
    <2>1. CASE s = <<>>
      BY <1>1, <1>2, <2>1
    <2>2. CASE s # <<>>
      <3>1. Returned(s) = [s EXCEPT ![Len(s)] = last]
        BY <1>1, <2>2
      <3>2. i \in DOMAIN s
        BY <1>2, <3>1
      <3>3. f = last \/ f = s[i]
        BY <1>2, <3>1, <3>2
      <3> QED
        BY <2>2, <3>2, <3>3
    <2> QED
      BY <2>1, <2>2
  <1>4. f \in ToSet(s) \/ (s # <<>> /\ f = last)
    BY <1>3 DEF ToSet
  <1> QED
    BY <1>4 DEF last

LEMMA AppendMembers ==
  ASSUME NEW T, NEW s \in Seq(T), NEW e, NEW f \in ToSet(Append(s, e))
  PROVE  f \in ToSet(s) \/ f = e
  <1>1. PICK i \in DOMAIN Append(s, e) : f = Append(s, e)[i]
    BY DEF ToSet
  <1>2. i \in 1 .. Len(s) + 1
    BY <1>1
  <1> QED
    BY <1>1, <1>2 DEF ToSet

LEMMA TailMembers ==
  ASSUME NEW T, NEW s \in Seq(T), s # <<>>
  PROVE  /\ ToSet(Tail(s)) \subseteq ToSet(s)
         /\ \A x \in ToSet(s) : x = Head(s) \/ x \in ToSet(Tail(s))
         /\ Head(s) \in ToSet(s)
  <1>1. Len(s) \in Nat /\ Len(s) > 0 /\ DOMAIN s = 1 .. Len(s) /\ Head(s) = s[1]
    OBVIOUS
  <1>2. DOMAIN Tail(s) = 1 .. Len(s) - 1 /\ \A i \in 1 .. Len(s) - 1 : Tail(s)[i] = s[i + 1]
    BY <1>1
  <1>3. \A x \in ToSet(Tail(s)) : x \in ToSet(s)
    <2> SUFFICES ASSUME NEW x \in ToSet(Tail(s)) PROVE x \in ToSet(s)
      OBVIOUS
    <2>1. PICK i \in 1 .. Len(s) - 1 : x = s[i + 1]
      BY <1>2 DEF ToSet
    <2>2. i + 1 \in DOMAIN s
      BY <1>1
    <2> QED
      BY <2>1, <2>2 DEF ToSet
  <1>4. \A x \in ToSet(s) : x = Head(s) \/ x \in ToSet(Tail(s))
    <2> SUFFICES ASSUME NEW x \in ToSet(s), x # Head(s) PROVE x \in ToSet(Tail(s))
      OBVIOUS
    <2>1. PICK i \in 1 .. Len(s) : x = s[i]
      BY <1>1 DEF ToSet
    <2>2. i # 1
      BY <2>1
    <2>3. i - 1 \in 1 .. Len(s) - 1 /\ (i - 1) + 1 = i
      BY <1>1, <2>2
    <2>4. Tail(s)[i - 1] = x
      BY <1>2, <2>1, <2>3
    <2> QED
      BY <1>2, <2>3, <2>4 DEF ToSet
  <1>5. Head(s) \in ToSet(s)
    BY <1>1 DEF ToSet
  <1> QED
    BY <1>3, <1>4, <1>5

LEMMA FrontMembers ==
  ASSUME NEW T, NEW s \in Seq(T), s # <<>>, NEW f \in ToSet(Front(s))
  PROVE  f \in ToSet(s)
  <1>1. PICK i \in DOMAIN Front(s) : f = Front(s)[i]
    BY DEF ToSet
  <1>2. i \in 1 .. Len(s) - 1 /\ Front(s)[i] = s[i]
    BY <1>1 DEF Front
  <1>3. i \in DOMAIN s
    BY <1>2
  <1> QED
    BY <1>1, <1>2, <1>3 DEF ToSet

LEMMA TopIsIn ==
  ASSUME Shape, stack # <<>>
  PROVE  Top \in ToSet(stack) /\ Top \in FrameRecord
  BY TopType DEF Top, ToSet

LEMMA RequestParts ==
  ASSUME NEW r \in Request
  PROVE  r[1] \in Node /\ r[2] \in Args /\ r = <<r[1], r[2]>>
  BY DEF Request

\* A visit leaves its node in the graph, and every activation sound.
LEMMA VisitWires ==
  ASSUME IInv, EInv, NEW r \in Request, Visit(r), UNCHANGED edges,
         stack # <<>> => Top.rest # <<>> /\ r = Head(Top.rest)
  PROVE  Planned \subseteq Planned' /\ Frames'
  <1>1. r[1] \in Node /\ phase \in [Node -> Phase] /\ stack \in Seq(FrameRecord)
    BY RequestParts DEF IInv, Shape, CellTypes, PlanTypes
  <1>2. Planned \subseteq Planned'
    BY VisitKeeps DEF Planned
  <1>3. r[1] \in Planned'
    <2>1. CASE VisitRejected(r)
      BY <1>1, <2>1 DEF VisitRejected, Planned
    <2>2. CASE VisitInvalid(r)
      BY <1>1, <2>2 DEF VisitInvalid, Planned
    <2>3. CASE VisitCycle(r)
      <3>1. PICK i \in DOMAIN stack : NodeAt(i) = r[1]
        BY <2>3 DEF VisitCycle, Visiting
      <3>2. Sound(stack[i])
        BY DEF EInv, Frames, ToSet
      <3> QED
        BY <1>2, <3>1, <3>2 DEF Sound, NodeAt
    <2>4. CASE VisitMisdeclared(r) \/ VisitDependencies(r)
      BY <1>1, <2>4 DEF VisitMisdeclared, VisitDependencies, Materialised, Planned
    <2> QED
      BY <2>1, <2>2, <2>3, <2>4 DEF Visit
  <1>4. \A f \in ToSet(stack) : Sound(f)'
    <2> SUFFICES ASSUME NEW f \in ToSet(stack) PROVE Sound(f)'
      OBVIOUS
    <2> QED
      BY <1>2, SoundStays DEF EInv, Frames
  <1>5. ASSUME stack # <<>>, NEW g, g = [Top EXCEPT !.returned = TRUE] PROVE Sound(g)'
    <2>1. PICK top : top = Top
      OBVIOUS
    <2>2. top \in FrameRecord /\ Sound(top)'
      BY <1>4, <1>5, <2>1, TopIsIn DEF IInv
    <2>3. g.request = top.request /\ g.rest = top.rest /\ Head(g.rest) = r
      BY <1>5, <2>1, <2>2 DEF FrameRecord
    <2> QED
      BY <1>3, <2>2, <2>3 DEF Sound
  <1>6. \A f \in ToSet(Returned(stack)) : Sound(f)'
    <2> SUFFICES ASSUME NEW f \in ToSet(Returned(stack)) PROVE Sound(f)'
      OBVIOUS
    <2> QED
      BY <1>1, <1>4, <1>5, ReturnedMembers DEF Top
  <1>7. Sound(Frame(r))'
    BY <1>3 DEF Sound, Frame, Targets
  <1>8. Returned(stack) \in Seq(FrameRecord)
    BY <1>1, ReturnedType DEF Top
  <1>9. stack' = Returned(stack) \/ stack' = Append(Returned(stack), Frame(r))
    BY DEF Visit, VisitRejected, VisitInvalid, VisitCycle, VisitMisdeclared, VisitDependencies
  <1>10. Frames'
    <2> SUFFICES ASSUME NEW f \in ToSet(stack') PROVE Sound(f)'
      BY DEF Frames
    <2>1. f \in ToSet(Returned(stack)) \/ f = Frame(r)
      BY <1>8, <1>9, AppendMembers
    <2> QED
      BY <1>6, <1>7, <2>1
  <1> QED
    BY <1>2, <1>10

LEMMA PlanBeginsWires ==
  ASSUME IInv, EInv, NEW c \in Caller, PlanBegins(c)
  PROVE  EInv'
  <1>1. /\ planner = Nobody /\ planner' = c /\ pc' = [pc EXCEPT ![c] = "planning"]
        /\ Visit(call[c].request) /\ UNCHANGED <<deps, edges, call>>
    BY DEF PlanBegins
  <1>2. call[c].request \in Request /\ stack = <<>> /\ DOMAIN pc = Caller
    BY <1>1 DEF IInv, Shape, CallerTypes, Call, Semaphore
  <1>3. Planned \subseteq Planned' /\ Frames'
    BY <1>1, <1>2, VisitWires
  <1>4. ~Evicting /\ ~Evicting'
    BY <1>1, <1>2 DEF Evicting
  <1>5. Called'
    BY <1>1, <1>2 DEF EInv, Called
  <1>6. Ends'
    BY <1>1, <1>3 DEF EInv, Ends, Declares, Targets
  <1>7. Covered' /\ Upward'
    BY <1>1, <1>4 DEF EInv, Covered, Upward
  <1> QED
    BY <1>3, <1>5, <1>6, <1>7 DEF EInv

LEMMA VisitNextWires ==
  ASSUME IInv, EInv, VisitNext
  PROVE  EInv'
  <1>1. /\ stack # <<>> /\ Top.rest # <<>> /\ Visit(Head(Top.rest))
        /\ UNCHANGED <<deps, edges, planner, call, pc>>
    BY DEF VisitNext, callerVars
  <1>2. Head(Top.rest) \in Request
    BY <1>1, TopType, RequestAhead DEF IInv
  <1>3. Planned \subseteq Planned' /\ Frames'
    BY <1>1, <1>2, VisitWires
  <1>4. ~Evicting /\ ~Evicting'
    BY <1>1 DEF Evicting, IInv, Semaphore
  <1>5. Called'
    BY <1>1 DEF EInv, Called
  <1>6. Ends'
    BY <1>1, <1>3 DEF EInv, Ends, Declares, Targets
  <1>7. Covered' /\ Upward'
    BY <1>1, <1>4 DEF EInv, Covered, Upward
  <1> QED
    BY <1>3, <1>5, <1>6, <1>7 DEF EInv

\* The edge that is recorded joins two nodes of the graph, as the dependent
\* declared it.
LEMMA RecordEdgeWires ==
  ASSUME IInv, EInv, RecordEdge
  PROVE  EInv'
  <1>1. PICK f : f = Top
    OBVIOUS
  <1> DEFINE g == [f EXCEPT !.returned = FALSE, !.rest = Tail(@)]
             a == f.request[1]
             b == Head(f.rest)[1]
  <1>2. /\ stack # <<>> /\ f.returned /\ edges' = edges \cup {<<a, b>>}
        /\ UNCHANGED <<phase, deps, planner, call, pc>>
    BY <1>1 DEF RecordEdge, callerVars
  <1>3. f \in FrameRecord /\ f \in ToSet(stack) /\ Sound(f) /\ f.rest # <<>>
    BY <1>1, <1>2, TopIsIn DEF IInv, EInv, Frames, FrameRecord
  <1>4. f.request \in Request /\ f.rest \in Seq(Request)
    BY <1>3 DEF FrameRecord
  <1>5. /\ Head(f.rest) \in ToSet(f.rest)
        /\ \A d \in ToSet(f.rest) : d = Head(f.rest) \/ d \in ToSet(Tail(f.rest))
    BY <1>3, <1>4, TailMembers
  <1>6. ToSet(Tail(f.rest)) \subseteq ToSet(f.rest)
    BY <1>3, <1>4, TailMembers
  <1>7. a \in Planned /\ b \in Planned /\ b \in Targets(f.request)
    BY <1>2, <1>3, <1>5 DEF Sound, Targets
  <1>8. b \in Declares(a)
    BY <1>4, <1>7, RequestParts DEF Declares
  <1>9. Planned' = Planned
    BY <1>2 DEF Planned
  <1>10. Ends'
    <2>1. edges' \subseteq Planned \X Planned
      BY <1>2, <1>7 DEF EInv, Ends
    <2>2. \A e \in edges' : e[2] \in Declares(e[1])
      BY <1>2, <1>8 DEF EInv, Ends
    <2> QED
      BY <1>9, <2>1, <2>2 DEF Ends, Declares, Targets
  <1>11. g.request = f.request /\ g.rest = Tail(f.rest) /\ g.returned = FALSE
    BY <1>3 DEF FrameRecord
  <1> HIDE DEF g
  <1>12. Sound(g)'
    <2>1. ASSUME NEW t \in Targets(f.request)
          PROVE  <<a, t>> \in edges' \/ \E d \in ToSet(Tail(f.rest)) : d[1] = t
      <3>1. CASE <<a, t>> \in edges
        BY <1>2, <3>1
      <3>2. CASE \E d \in ToSet(f.rest) : d[1] = t
        BY <1>2, <1>5, <3>2
      <3> QED
        BY <1>3, <3>1, <3>2 DEF Sound
    <2>2. ToSet(Tail(f.rest)) \subseteq ToSet(Wiring[f.request])
      BY <1>3, <1>6 DEF Sound
    <2> QED
      BY <1>7, <1>9, <1>11, <2>1, <2>2 DEF Sound, Targets
  <1>13. Frames'
    <2> SUFFICES ASSUME NEW h \in ToSet(stack') PROVE Sound(h)'
      BY DEF Frames
    <2>1. stack \in Seq(FrameRecord) /\ Len(stack) \in DOMAIN stack
      BY <1>2, TopType DEF IInv, Shape, PlanTypes
    <2>2. stack' = [stack EXCEPT ![Len(stack)] = g]
      BY <1>1, <2>1 DEF RecordEdge, Top, g
    <2>3. h \in ToSet(stack) \/ h = g
      <3>1. PICK i \in DOMAIN stack' : h = stack'[i]
        BY DEF ToSet
      <3> QED
        BY <2>1, <2>2, <3>1 DEF ToSet
    <2>4. h \in ToSet(stack) => Sound(h)'
      BY <1>2, <1>9, SoundStays DEF EInv, Frames
    <2> QED
      BY <1>12, <2>3, <2>4
  <1>14. ~Evicting /\ ~Evicting'
    BY <1>2 DEF Evicting, IInv, Semaphore
  <1>15. Called' /\ Covered' /\ Upward'
    BY <1>2, <1>14 DEF EInv, Called, Covered, Upward
  <1> QED
    BY <1>10, <1>13, <1>15 DEF EInv

LEMMA RecordDependenciesWires ==
  ASSUME IInv, EInv, RecordDependencies
  PROVE  EInv'
  <1>1. PICK f : f = Top
    OBVIOUS
  <1>2. /\ stack # <<>> /\ f.rest = <<>> /\ stack' = Front(stack)
        /\ deps' = [deps EXCEPT ![f.request[1]] = Targets(f.request)]
        /\ UNCHANGED <<phase, edges, planner, call, pc>>
    BY <1>1 DEF RecordDependencies, callerVars
  <1>3. f \in FrameRecord /\ Sound(f) /\ f.request[1] \in Node
    BY <1>1, <1>2, TopIsIn, RequestParts DEF IInv, EInv, Frames, FrameRecord
  <1>4. \A t \in Targets(f.request) : <<f.request[1], t>> \in edges
    BY <1>2, <1>3 DEF Sound, ToSet
  <1>5. Planned' = Planned
    BY <1>2 DEF Planned
  <1>6. Frames'
    <2> SUFFICES ASSUME NEW h \in ToSet(stack') PROVE Sound(h)'
      BY DEF Frames
    <2>1. h \in ToSet(stack)
      BY <1>2, FrontMembers DEF IInv, Shape, PlanTypes
    <2> QED
      BY <1>2, <1>5, <2>1, SoundStays DEF EInv, Frames
  <1>7. ~Evicting /\ ~Evicting'
    BY <1>2 DEF Evicting, IInv, Semaphore
  <1>8. Covered'
    BY <1>2, <1>3, <1>4, <1>7 DEF EInv, Covered, IInv, Shape, CellTypes
  <1>9. Called' /\ Ends' /\ Upward'
    BY <1>2, <1>5, <1>7 DEF EInv, Called, Ends, Upward, Declares, Targets
  <1> QED
    BY <1>6, <1>8, <1>9 DEF EInv

\* An order names everything it orders: it names as many nodes, each once.
LEMMA OrderTakesAll ==
  ASSUME NEW S \in SUBSET Node, NEW s \in EvictionOrders(S)
  PROVE  ToSet(s) = S
  <1> DEFINE n == Cardinality(S)
  <1>1. IsFiniteSet(S) /\ n \in Nat
    BY FS_Subset, FS_CardinalityType, WiringAssumption
  <1>2. s \in [1 .. n -> S] /\ \A i, j \in 1 .. n : i # j => s[i] # s[j]
    BY DEF EvictionOrders, SetToSeqs
  <1> HIDE DEF n
  <1>3. s \in Injection(1 .. n, S)
    BY <1>2 DEF Injection, IsInjective
  <1>4. Cardinality(1 .. n) = n
    BY <1>1, FS_Interval
  <1>5. s \in Surjection(1 .. n, S)
    BY <1>1, <1>3, <1>4, FS_Injection DEF n
  <1>6. \A x \in S : \E i \in 1 .. n : s[i] = x
    BY <1>5 DEF Surjection
  <1> QED
    BY <1>2, <1>6 DEF ToSet

\* What an eviction dooms is closed under dependents, also when it keeps its
\* root, which is then no dependent of them.
LEMMA EvictBeginsWires ==
  ASSUME IInv, EInv, WholeEvictions, NEW c \in Caller, EvictBegins(c)
  PROVE  EInv'
  <1> DEFINE root == call[c].request[1]
             kept == IF call[c].kind = "evict" THEN {} ELSE {root}
             taken == (Planned \cap Closure({root})) \ kept
  <1>1. /\ planner = Nobody /\ planner' = c /\ pc' = [pc EXCEPT ![c] = "evicting"]
        /\ call[c].kind \in Evictions /\ doomed' \in EvictionOrders(taken)
        /\ UNCHANGED <<phase, deps, edges, stack, call>>
    BY DEF EvictBegins, Evictions, cellVars
  <1>2. root \in Node /\ call \in Calls
    BY RequestParts DEF IInv, Shape, CallerTypes, Call, EInv, Called
  <1>3. ToSet(doomed') = taken
    <2>1. taken \in SUBSET Node
      BY DEF Planned
    <2> HIDE DEF taken
    <2> QED
      BY <1>1, <2>1, OrderTakesAll
  <1>4. Planned' = Planned /\ ~Evicting
    BY <1>1 DEF Planned, Evicting
  <1>5. ASSUME NEW e \in edges, e[2] \in taken PROVE e[1] \in taken
    <2>1. e[1] \in Planned /\ e[2] \in Planned /\ e = <<e[1], e[2]>> /\ e[1] \in Node
      BY DEF EInv, Ends, Planned
    <2>2. e[1] \in Closure({root})
      BY <1>2, <1>5, <2>1, ClosureIsClosed
    <2>3. e[1] \notin kept
      <3> SUFFICES ASSUME call[c].kind = "evictDependents", e[1] = root PROVE FALSE
        BY <1>1 DEF Evictions
      <3>1. PICK A \in SUBSET Node :
              root \notin A /\ Declares(root) \subseteq A /\ \A m \in A : Declares(m) \subseteq A
        BY <1>2 DEF WholeEvictions, OnNoCycle
      <3>2. Closure({root}) \cap A = {}
        BY <3>1, ClosureAvoids DEF EInv, Ends
      <3>3. e[2] \in A
        BY <3>1 DEF EInv, Ends
      <3> QED
        BY <1>5, <3>2, <3>3
    <2> QED
      BY <2>1, <2>2, <2>3
  <1> HIDE DEF taken
  <1>6. Upward'
    BY <1>1, <1>3, <1>5 DEF Upward
  <1>7. Covered'
    BY <1>1, <1>4 DEF EInv, Covered
  <1>8. Called'
    BY <1>1 DEF EInv, Called, IInv, Shape, CallerTypes
  <1>9. Ends'
    BY <1>1, <1>4 DEF EInv, Ends, Declares, Targets
  <1>10. Frames'
    BY <1>1, <1>4 DEF EInv, Frames, Sound, Targets
  <1> QED
    BY <1>6, <1>7, <1>8, <1>9, <1>10 DEF EInv

\* Who depended on the forgotten node is still to be forgotten, too.
LEMMA ForgetsWhole ==
  ASSUME IInv, EInv, EvictUnowned \/ CleanupEnds
  PROVE  EInv'
  <1>1. PICK n : n = Head(doomed)
    OBVIOUS
  <1>2. /\ doomed # <<>> /\ planner # Nobody /\ pc[planner] = "evicting" /\ Forget(n)
        /\ UNCHANGED <<planner, stack, pc, call>>
    BY <1>1 DEF EvictUnowned, CleanupEnds, Dooms, callerVars
  <1>3. /\ phase' = [phase EXCEPT ![n] = "Missing"] /\ deps' = [deps EXCEPT ![n] = {}]
        /\ edges' = {e \in edges : n \notin {e[1], e[2]}} /\ doomed' = Tail(doomed)
    BY <1>2 DEF Forget
  <1>4. doomed \in Seq(Node) /\ n \in Node
    BY <1>1, <1>2, DoomedType DEF IInv, Shape, PlanTypes
  <1>5. /\ ToSet(doomed') \subseteq ToSet(doomed) /\ n \in ToSet(doomed)
        /\ \A x \in ToSet(doomed) : x = n \/ x \in ToSet(doomed')
    BY <1>1, <1>2, <1>3, <1>4, TailMembers
  <1>6. Evicting /\ Evicting'
    BY <1>2 DEF Evicting
  <1>7. Planned' = Planned \ {n}
    BY <1>3, <1>4 DEF Planned, IInv, Shape, CellTypes
  <1>8. stack = <<>>
    BY <1>2 DEF IInv, Semaphore
  <1>9. Called'
    BY <1>2 DEF EInv, Called
  <1>10. Ends'
    BY <1>3, <1>7 DEF EInv, Ends, Declares, Targets
  <1>11. Frames'
    BY <1>2, <1>8 DEF Frames, ToSet
  <1>12. Upward'
    BY <1>3, <1>5, <1>6 DEF EInv, Upward
  <1>13. Covered'
    <2> SUFFICES ASSUME NEW m \in Node, m \notin ToSet(doomed'), NEW d \in deps'[m]
                 PROVE  <<m, d>> \in edges'
      BY <1>6 DEF Covered
    <2>1. m # n /\ d \in deps[m]
      BY <1>3, <1>4 DEF IInv, Shape, CellTypes
    <2>2. m \notin ToSet(doomed)
      BY <1>5, <2>1
    <2>3. <<m, d>> \in edges
      BY <2>1, <2>2 DEF EInv, Covered
    <2>4. d # n
      BY <1>5, <1>6, <2>2, <2>3 DEF EInv, Upward
    <2> QED
      BY <1>3, <2>1, <2>3, <2>4
  <1> QED
    BY <1>9, <1>10, <1>11, <1>12, <1>13 DEF EInv

LEMMA EvictEndsWhole ==
  ASSUME IInv, EInv, NEW c \in Caller, EvictEnds(c)
  PROVE  EInv'
  <1>1. /\ doomed = <<>> /\ planner' = Nobody /\ pc' = [pc EXCEPT ![c] = "done"]
        /\ UNCHANGED <<phase, deps, edges, stack, call>>
    BY DEF EvictEnds, cellVars
  <1>2. Planned' = Planned /\ ~Evicting'
    BY <1>1 DEF Planned, Evicting
  <1>3. Covered' /\ Upward'
    BY <1>1, <1>2 DEF EInv, Covered, Upward, ToSet
  <1>4. Called'
    BY <1>1 DEF EInv, Called, IInv, Shape, CallerTypes
  <1>5. Ends' /\ Frames'
    BY <1>1, <1>2 DEF EInv, Ends, Frames, Sound, Declares, Targets
  <1> QED
    BY <1>3, <1>4, <1>5 DEF EInv

\* Only plans are left: what they had recorded, they had recorded edges for.
LEMMA LeavesWhole ==
  ASSUME IInv, EInv, WholeEvictions, NEW c \in Caller, Leave(c)
  PROVE  EInv'
  <1>1. /\ c \in Impatient /\ planner = c /\ planner' = Nobody /\ stack' = <<>>
        /\ pc' = [pc EXCEPT ![c] = "done"] /\ UNCHANGED <<phase, deps, edges, call>>
    BY DEF Leave, cellVars
  <1>2. pc[c] # "evicting"
    BY <1>1 DEF WholeEvictions, EInv, Called, Evictions
  <1>3. Planned' = Planned /\ ~Evicting' /\ ~Evicting
    BY <1>1, <1>2 DEF Planned, Evicting
  <1>4. Covered' /\ Upward'
    BY <1>1, <1>3 DEF EInv, Covered, Upward
  <1>5. Called'
    BY <1>1 DEF EInv, Called, IInv, Shape, CallerTypes
  <1>6. Ends'
    BY <1>1, <1>3 DEF EInv, Ends, Declares, Targets
  <1>7. Frames'
    BY <1>1 DEF Frames, ToSet
  <1> QED
    BY <1>4, <1>5, <1>6, <1>7 DEF EInv

LEMMA EInvInitially == Init => EInv
  <1> SUFFICES ASSUME Init PROVE EInv
    OBVIOUS
  <1>1. Called /\ Ends
    BY DEF Init, Called, Ends
  <1>2. Frames /\ Covered /\ Upward
    BY DEF Init, Frames, Covered, Upward, ToSet, Evicting
  <1> QED
    BY <1>1, <1>2 DEF EInv

LEMMA StepWires ==
  ASSUME WholeEvictions, IInv, EInv, [Next]_vars
  PROVE  EInv'
  <1>1. CASE \E w \in workers : Worker(w)
    BY <1>1, WorkersWireNothing
  <1>2. CASE \/ \E n \in Node : TeardownEnds(n)
             \/ \E c \in Caller : SubmitById(c) \/ LookUp(c)
             \/ CloseActor \/ CleanupBegins \/ UNCHANGED vars
    BY <1>2, OthersWireNothing
  <1>3. CASE InvalidateUnowned \/ Invalidate
    BY <1>3, InvalidationsWireNothing
  <1>4. CASE VisitNext \/ RecordEdge \/ RecordDependencies
    BY <1>4, VisitNextWires, RecordEdgeWires, RecordDependenciesWires
  <1>5. CASE EvictUnowned \/ CleanupEnds
    BY <1>5, ForgetsWhole
  <1>6. CASE \E c \in Caller : PlanEnds(c) \/ EvictEnds(c)
    BY <1>6, PlansEndWired, EvictEndsWhole
  <1>7. CASE \E c \in Caller : PlanBegins(c) \/ EvictBegins(c) \/ Leave(c)
    BY <1>7, PlanBeginsWires, EvictBeginsWires, LeavesWhole
  <1> QED
    BY <1>1, <1>2, <1>3, <1>4, <1>5, <1>6, <1>7 DEF Next, Runtime, Planner, Begins

\* Whatever plans, invalidations, readiness and interrupted planners do to the
\* graph, an eviction finds every node by the dependencies it has recorded, and
\* no edge outlives its ends, when evictions are whole (plan.ts:210-236,
\* eviction.ts:71-76).
THEOREM EvictionsFindDependents == WholeEvictions => (Spec => []EdgesCoverDependencies)
  <1> SUFFICES ASSUME WholeEvictions PROVE Spec => []EdgesCoverDependencies
    OBVIOUS
  <1>1. IInv /\ EInv /\ [Next]_vars => EInv'
    BY StepWires
  <1>2. EInv => EdgesCoverDependencies
    BY DEF EInv, Ends, Covered, Evicting, EdgesCoverDependencies, Alive, Planned
  <1> QED
    BY <1>1, <1>2, EInvInitially, Invariance, PTL DEF Spec

-----------------------------------------------------------------------------
(* No circles, when releases are sound as well *)

\* Nodes that may be on a cycle, and those of them that can be acquired.
Tied == {n \in Node : ~OnNoCycle(n)}
Risky == Alive \cap Tied

\* Nodes being planned whose dependencies are still to be recorded.
Fresh ==
  {n \in Risky : \E f \in ToSet(stack) : f.request[1] = n /\ deps[n] # Targets(f.request)}

\* The cell was found in an incarnation that there was.
Dated(cell) == cell.life = 1 => ghost[cell.on] # "none"

Busy(w) == w.pc \in {"acquiring", "dependencies", "driving"}

\* Only nodes on no cycle are released, and who acquires a node that was not
\* evicted meanwhile acquires one that may be.
Fit(w) ==
  /\ w.kind = "release" => w.on \notin Tied
  /\ Busy(w) => Outdated(w) \/ w.on \in Alive
  /\ Dated(w) /\ \A cell \in w.todo : Dated(cell)

Looks == \A c \in Caller : \A cell \in look[c] : cell.on = call[c].request[1] /\ Dated(cell)

Fitting == (\A w \in workers : Fit(w)) /\ Looks

Declared == \A n \in Node : deps[n] \subseteq Declares(n)

\* The activations are of different nodes, each for the next one's.
Simple(s) == \A i, j \in 1 .. Len(s) : s[i].request[1] = s[j].request[1] => i = j
Linked(s) ==
  \A i \in 1 .. Len(s) - 1 : s[i].returned /\ Head(s[i].rest)[1] = s[i + 1].request[1]

Path == Simple(stack) /\ Linked(stack)

Acyclic == \A S \in SUBSET Risky : ~Circle(S)

\* Nobody depends on a node whose dependencies are still to be recorded ...
Unfounded == \A n \in Risky : deps[n] \cap Fresh = {}

\* ... nor will an activation, on what it has planned already ...
Behind ==
  \A f \in ToSet(stack) : f.request[1] \in Risky =>
    \A t \in Targets(f.request) : (\E d \in ToSet(f.rest) : d[1] = t) \/ t \notin Fresh

\* ... for when a visit comes back to one, it is about to be invalidated.
Turned ==
  stack # <<>> /\ Top.returned =>
    \A f \in ToSet(stack) :
      f.request[1] = Head(Top.rest)[1] /\ f.request[1] \in Risky => f.request[1] \in ToSet(doomed)

AInv == Fitting /\ Declared /\ Path /\ Acyclic /\ Unfounded /\ Behind /\ Turned

LEMMA RiskyThen == Risky' = Alive' \cap Tied
  BY DEF Risky, Tied, OnNoCycle, Declares, Targets

LEMMA FreshThen ==
  Fresh' = {n \in Risky' :
              \E f \in ToSet(stack') : f.request[1] = n /\ deps'[n] # Targets(f.request)}
  BY DEF Fresh, Targets

\* A smallest circle has no node that is on no cycle: those below it would be
\* a smaller one.
LEMMA CirclesAreTied ==
  ASSUME Declared, Acyclic
  PROVE  AcyclicWiring
  <1> DEFINE P == {k \in Nat : \A S \in SUBSET Alive : Cardinality(S) <= k => ~Circle(S)}
  <1>1. \A S \in SUBSET Alive : IsFiniteSet(S) /\ Cardinality(S) \in Nat
    <2>1. Alive \subseteq Node
      BY DEF Alive, Planned
    <2> QED
      BY <2>1, FS_Subset, FS_CardinalityType, WiringAssumption
  <1>2. 0 \in P
    <2> SUFFICES ASSUME NEW S \in SUBSET Alive, Cardinality(S) <= 0 PROVE ~Circle(S)
      OBVIOUS
    <2>1. Cardinality(S) = 0
      BY <1>1
    <2> QED
      BY <1>1, <2>1, FS_EmptySet DEF Circle
  <1>3. ASSUME NEW k \in Nat, k \in P PROVE k + 1 \in P
    <2> SUFFICES ASSUME NEW S \in SUBSET Alive, Cardinality(S) <= k + 1, Circle(S) PROVE FALSE
      OBVIOUS
    <2>1. PICK n \in S : n \notin Tied
      BY DEF Acyclic, Risky
    <2>2. PICK A \in SUBSET Node :
            n \notin A /\ Declares(n) \subseteq A /\ \A m \in A : Declares(m) \subseteq A
      BY <2>1 DEF Tied, OnNoCycle, Alive, Planned
    <2>3. \A m \in A : deps[m] \subseteq A
      BY <2>2 DEF Declared
    <2>4. deps[n] \subseteq A
      BY <2>1, <2>2 DEF Declared, Alive, Planned
    <2>5. Circle(S \cap A)
      BY <2>1, <2>3, <2>4 DEF Circle
    <2>6. Cardinality(S \cap A) <= k
      <3>1. Cardinality(S \ {n}) = Cardinality(S) - 1 /\ IsFiniteSet(S \ {n})
        BY <1>1, <2>1, FS_RemoveElement
      <3>2. S \cap A \subseteq S \ {n}
        BY <2>2
      <3>3. Cardinality(S \cap A) <= Cardinality(S \ {n})
        BY <3>1, <3>2, FS_Subset
      <3>4. Cardinality(S) \in Nat /\ Cardinality(S \cap A) \in Nat
        BY <1>1
      <3> QED
        BY <3>1, <3>3, <3>4
    <2> QED
      BY <1>3, <2>5, <2>6
  <1>4. \A k \in Nat : k \in P
    <2> HIDE DEF P
    <2> QED
      BY <1>2, <1>3, Induction
  <1> QED
    BY <1>1, <1>4 DEF AcyclicWiring

\* Nothing is planned or wired, and what was doomed is, or is invalid.
LEMMA RiskShrinks ==
  ASSUME AInv, UNCHANGED <<deps, stack>>, Risky' \subseteq Risky,
         \A n \in ToSet(doomed) : n \in ToSet(doomed') \/ n \notin Risky',
         Fitting'
  PROVE  AInv'
  <1>1. Fresh' \subseteq Fresh
    BY FreshThen DEF Fresh
  <1>2. Declared' /\ Path'
    BY DEF AInv, Declared, Path, Simple, Linked, Declares, Targets
  <1>3. Acyclic'
    BY DEF AInv, Acyclic, Circle
  <1>4. Unfounded'
    BY <1>1 DEF AInv, Unfounded
  <1>5. Behind'
    BY <1>1 DEF AInv, Behind, Targets
  <1>6. Turned'
    BY DEF AInv, Turned, Top
  <1> QED
    BY <1>2, <1>3, <1>4, <1>5, <1>6 DEF AInv

\* Nothing is being planned, and nothing depends on more than it did.
LEMMA RiskRests ==
  ASSUME AInv, stack' = <<>>, \A n \in Node : deps'[n] \subseteq deps[n], Risky' \subseteq Risky,
         Fitting'
  PROVE  AInv'
  <1>1. ToSet(stack') = {} /\ Fresh' = {}
    BY FreshThen DEF ToSet
  <1>2. Risky' \subseteq Node
    BY DEF Risky, Tied
  <1>3. Declared'
    BY DEF AInv, Declared, Declares, Targets
  <1>4. Path'
    BY DEF Path, Simple, Linked
  <1>5. Acyclic'
    <2> SUFFICES ASSUME NEW S \in SUBSET Risky', Circle(S)' PROVE FALSE
      BY DEF Acyclic
    <2>1. Circle(S)
      BY <1>2 DEF Circle
    <2> QED
      BY <2>1 DEF AInv, Acyclic
  <1>6. Unfounded'
    BY <1>1 DEF Unfounded
  <1>7. Behind' /\ Turned'
    BY <1>1 DEF Behind, Turned
  <1> QED
    BY <1>3, <1>4, <1>5, <1>6, <1>7 DEF AInv

\* A worker goes on: what it knew stands.
LEMMA FitStays ==
  ASSUME NEW u \in WorkerRecord, Fit(u), NEW v,
         v.on = u.on /\ v.life = u.life /\ v.kind = u.kind /\ v.todo = u.todo,
         Busy(v) => Busy(u),
         Busy(u) => Life(u.on)' = Life(u.on) /\ (u.on \in Alive => u.on \in Alive'),
         \A n \in Node : ghost[n] # "none" => ghost'[n] # "none"
  PROVE  Fit(v)'
  <1>1. \A x \in CellObject : Dated(x) => Dated(x)'
    BY DEF Dated, CellObject
  <1>2. v.kind = "release" => v.on \notin Tied'
    BY DEF Fit, Tied, OnNoCycle, Declares, Targets
  <1>3. Busy(v) => Outdated(v)' \/ v.on \in Alive'
    BY DEF Fit, Outdated
  <1>4. Dated(v)'
    BY DEF Fit, Dated, WorkerRecord
  <1>5. \A cell \in v.todo : Dated(cell)'
    BY <1>1 DEF Fit, WorkerRecord
  <1> QED
    BY <1>2, <1>3, <1>4, <1>5 DEF Fit, Busy

LEMMA LooksStay ==
  ASSUME Shape, Looks, UNCHANGED <<look, call>>, \A n \in Node : ghost[n] # "none" => ghost'[n] # "none"
  PROVE  Looks'
  <1>1. \A c \in Caller : \A cell \in look[c] : cell.on \in Node
    BY DEF Shape, CallerTypes, CellObject
  <1> QED
    BY <1>1 DEF Looks, Dated

\* No worker begins or is submitted, and none is busy at a node that is
\* invalidated or forgotten.
LEMMA FittingRests ==
  ASSUME IInv, Fitting, UNCHANGED <<workers, look, call>>,
         \A n \in Node : ghost[n] # "none" => ghost'[n] # "none",
         \A n \in Node : AllRefused(n) \/ (Life(n)' = Life(n) /\ (n \in Alive => n \in Alive'))
  PROVE  Fitting'
  <1>1. ASSUME NEW w \in workers PROVE Fit(w)'
    <2>1. w.on \in Node /\ w \in WorkerRecord
      BY WorkerType DEF IInv
    <2>2. Busy(w) => ~AllRefused(w.on)
      BY DEF Busy, AllRefused
    <2> QED
      BY <2>1, <2>2, FitStays DEF Fitting
  <1>2. Looks'
    BY LooksStay DEF Fitting, IInv
  <1> QED
    BY <1>1, <1>2 DEF Fitting

\* What a commit does to the cell a worker captured.
LEMMA CommitsRisk ==
  ASSUME IInv, NEW w \in workers, Fit(w),
         NEW p \in Phase \ {"Missing", "Invalid"}, Commit(w, p),
         Outdated(w) \/ w.on \in Alive \/ w.on \notin Tied
  PROVE  /\ Alive \subseteq Alive' /\ Risky' \subseteq Risky
         /\ Outdated(w) \/ w.on \in Alive'
         /\ \A n \in Node : ghost[n] # "none" => ghost'[n] # "none"
         /\ \A n \in Node : Life(n)' = Life(n)
         /\ UNCHANGED <<deps, edges>>
  <1>1. w.on \in Node /\ w.life \in {0, 1}
    BY WorkerType DEF IInv
  <1>2. /\ phase \in [Node -> Phase] /\ ghost \in [Node -> Phase \cup {"none"}]
        /\ p # "none" /\ p # "Missing" /\ p # "Invalid"
    BY DEF IInv, Shape, CellTypes, Phase
  <1>3. CASE Outdated(w)
    <2>1. ghost' = [ghost EXCEPT ![w.on] = p] /\ UNCHANGED <<phase, deps, edges>>
      BY <1>3 DEF Commit
    <2>2. ghost[w.on] # "none"
      BY <1>1, <1>3 DEF Outdated, Life, Fit, Dated
    <2>3. \A n \in Node : Life(n)' = Life(n)
      BY <1>1, <1>2, <2>1, <2>2 DEF Life
    <2>4. Alive' = Alive
      BY <2>1 DEF Alive, Planned
    <2>5. \A n \in Node : ghost[n] # "none" => ghost'[n] # "none"
      BY <1>1, <1>2, <2>1
    <2> QED
      BY <1>3, <2>1, <2>3, <2>4, <2>5, RiskyThen DEF Risky
  <1>4. CASE ~Outdated(w)
    <2>1. phase' = [phase EXCEPT ![w.on] = p] /\ UNCHANGED <<ghost, deps, edges>>
      BY <1>4 DEF Commit, Become
    <2>2. Alive' = Alive \cup {w.on}
      BY <1>1, <1>2, <2>1 DEF Alive, Planned
    <2>3. \A n \in Node : Life(n)' = Life(n)
      BY <2>1 DEF Life
    <2> QED
      BY <1>4, <2>1, <2>2, <2>3, RiskyThen DEF Risky
  <1> QED
    BY <1>3, <1>4

\* A worker ends, and what it awaited may have failed.
LEMMA AnswersFit ==
  ASSUME IInv, Fitting, NEW w \in workers, NEW isReady, Answer(w, isReady),
         Alive \subseteq Alive', \A n \in Node : ghost[n] # "none" => ghost'[n] # "none",
         \A n \in Node : Life(n)' = Life(n)
  PROVE  Fitting'
  <1>1. UNCHANGED <<look, call>>
    BY DEF Answer
  <1>2. ASSUME NEW v \in workers' PROVE Fit(v)'
    <2>1. PICK p \in workers \ {w} :
            v = IF Awaits(p, w) /\ ~isReady THEN [p EXCEPT !.failed = TRUE] ELSE p
      BY DEF Answer
    <2>2. p \in WorkerRecord /\ p.on \in Node /\ Fit(p)
      BY WorkerType DEF IInv, Fitting
    <2>3. /\ v.on = p.on /\ v.life = p.life /\ v.kind = p.kind /\ v.todo = p.todo
          /\ v.pc = p.pc
      BY <2>1, <2>2 DEF WorkerRecord
    <2> QED
      BY <2>2, <2>3, FitStays DEF Busy
  <1> QED
    BY <1>1, <1>2, LooksStay DEF Fitting, IInv

\* A worker goes on, others stay as they are.
LEMMA ContinuesFit ==
  ASSUME IInv, Fitting, NEW w \in workers, NEW next, Continue(w, next), Fit(next)',
         Alive \subseteq Alive', \A n \in Node : ghost[n] # "none" => ghost'[n] # "none",
         \A n \in Node : Life(n)' = Life(n)
  PROVE  Fitting'
  <1>1. UNCHANGED <<look, call>> /\ workers' = (workers \ {w}) \cup {next}
    BY DEF Continue, callerVars
  <1>2. ASSUME NEW v \in workers PROVE Fit(v)'
    <2>1. v \in WorkerRecord /\ v.on \in Node /\ Fit(v)
      BY WorkerType DEF IInv, Fitting
    <2> QED
      BY <2>1, FitStays
  <1> QED
    BY <1>1, <1>2, LooksStay DEF Fitting, IInv

\* An accepted submission is not busy.
LEMMA SubmittedFits ==
  ASSUME NEW cell, Dated(cell), NEW by, NEW nth, NEW kind,
         kind = "release" => cell.on \notin Tied,
         UNCHANGED ghost, NEW v, v = Submitted(cell, by, nth, kind)
  PROVE  Fit(v)'
  <1>1. /\ v.on = cell.on /\ v.life = cell.life /\ v.kind = kind /\ v.todo = {}
        /\ v.pc \in {"refused", "queued"}
    BY DEF Submitted
  <1>2. v.kind = "release" => v.on \notin Tied'
    BY <1>1 DEF Tied, OnNoCycle, Declares, Targets
  <1> QED
    BY <1>1, <1>2 DEF Fit, Busy, Dated

\* A cell that is looked up is of an incarnation that there was.
LEMMA CellIsDated == \A n : Dated(Cell(n)) /\ Cell(n).on = n
  BY DEF Dated, Cell, Life

LEMMA WorkersRiskNothing ==
  ASSUME IInv, AInv, NEW w \in workers, Worker(w)
  PROVE  AInv'
  <1>1. w \in WorkerRecord /\ w.on \in Node /\ Fit(w) /\ Fitting
    BY WorkerType DEF IInv, AInv, Fitting
  <1>2. UNCHANGED <<deps, stack, doomed>>
    BY DEF Worker, ReadinessRead, BeginAttempt, LookUpDependencies, SubmitDependency,
           DependenciesFail, AcquireStarts, AcquireEnds, Release, Refused, Interrupted, Commit,
           Become, cellVars, planVars
  <1> DEFINE Rests == /\ Alive \subseteq Alive' /\ Risky' \subseteq Risky
                      /\ \A n \in Node : ghost[n] # "none" => ghost'[n] # "none"
                      /\ \A n \in Node : Life(n)' = Life(n)
  <1>3. UNCHANGED <<phase, ghost>> => Rests
    BY RiskyThen DEF Alive, Planned, Life, Risky
  <1>4. ASSUME NEW p \in Phase \ {"Missing", "Invalid"}, Commit(w, p),
               Outdated(w) \/ w.on \in Alive \/ w.on \notin Tied
        PROVE  Rests
    BY <1>1, <1>4, CommitsRisk
  <1>5. Busy(w) => Outdated(w) \/ w.on \in Alive
    BY <1>1 DEF Fit
  <1>6. SUFFICES Rests /\ Fitting'
    <2> HIDE DEF Rests
    <2>1. Rests => Risky' \subseteq Risky
      BY DEF Rests
    <2> QED
      BY <1>2, <2>1, RiskShrinks
  <1>7. Rests /\ (\E isReady \in BOOLEAN : Answer(w, isReady)) => Fitting'
    BY <1>1, AnswersFit
  <1>8. ASSUME Rests, NEW next, Continue(w, next), next.on = w.on, next.life = w.life,
               next.kind = w.kind, next.todo = w.todo, Busy(w)
        PROVE  Fitting'
    <2>1. Fit(next)'
      BY <1>1, <1>8, FitStays
    <2> QED
      BY <1>1, <1>8, <2>1, ContinuesFit
  <1> HIDE DEF Rests
  <1>9. CASE ReadinessRead(w) \/ Refused(w)
    <2>1. UNCHANGED <<phase, ghost>>
      BY <1>9 DEF ReadinessRead, Refused, cellVars
    <2>2. \E isReady \in BOOLEAN : Answer(w, isReady)
      BY <1>9 DEF ReadinessRead, Refused
    <2> QED
      BY <1>3, <1>7, <2>1, <2>2
  <1>10. CASE BeginAttempt(w)
    <2> DEFINE next == [w EXCEPT !.pc = "acquiring"]
    <2>1. PhaseOf(w) \in {"Idle", "Error"} /\ Commit(w, "Acquiring") /\ Continue(w, next)
      BY <1>10 DEF BeginAttempt
    <2>2. Outdated(w) \/ w.on \in Alive
      BY <1>1, <2>1 DEF PhaseOf, Alive, Planned
    <2>3. Rests /\ (Outdated(w) \/ w.on \in Alive')
      BY <1>1, <1>4, <2>1, <2>2, CommitsRisk DEF Phase
    <2>4. /\ next.on = w.on /\ next.life = w.life /\ next.kind = w.kind /\ next.todo = w.todo
      BY <1>1 DEF WorkerRecord
    <2> HIDE DEF next
    <2>5. Outdated(next)' <=> Outdated(w)
      BY <1>1, <2>3, <2>4 DEF Outdated, Rests
    <2>6. Fit(next)'
      <3>1. next.kind = "release" => next.on \notin Tied'
        BY <1>1, <2>4 DEF Fit, Tied, OnNoCycle, Declares, Targets
      <3>2. Outdated(next)' \/ next.on \in Alive'
        BY <2>3, <2>4, <2>5
      <3>3. Dated(next)' /\ \A cell \in next.todo : Dated(cell)'
        <4>1. w.todo \subseteq CellObject /\ \A cell \in CellObject : cell.on \in Node
          BY <1>1 DEF WorkerRecord, CellObject
        <4> QED
          BY <1>1, <2>3, <2>4, <4>1 DEF Fit, Dated, Rests
      <3> QED
        BY <3>1, <3>2, <3>3 DEF Fit
    <2> QED
      BY <1>1, <2>1, <2>3, <2>6, ContinuesFit DEF Rests
  <1>11. CASE LookUpDependencies(w)
    <2>0. PICK next :
            next = [w EXCEPT !.pc = "dependencies", !.todo = {Cell(d) : d \in w.deps}]
      OBVIOUS
    <2>1. w.pc = "acquiring" /\ Continue(w, next) /\ UNCHANGED <<phase, ghost>>
      BY <1>11, <2>0 DEF LookUpDependencies, cellVars
    <2>2. /\ next.on = w.on /\ next.life = w.life /\ next.kind = w.kind
          /\ next.todo = {Cell(d) : d \in w.deps}
      BY <1>1, <2>0 DEF WorkerRecord
    <2>3. Rests
      BY <1>3, <2>1
    <2>4. Fit(next)'
      <3>1. next.kind = "release" => next.on \notin Tied'
        BY <1>1, <2>2 DEF Fit, Tied, OnNoCycle, Declares, Targets
      <3>2. Outdated(next)' \/ next.on \in Alive'
        BY <1>1, <1>5, <2>1, <2>2, <2>3 DEF Outdated, Rests, Busy
      <3>3. Dated(next)'
        BY <1>1, <2>1, <2>2 DEF Fit, Dated
      <3>4. ASSUME NEW cell \in next.todo PROVE Dated(cell)'
        <4>1. Dated(cell)
          BY <2>2, CellIsDated
        <4> QED
          BY <2>1, <4>1 DEF Dated
      <3> QED
        BY <3>1, <3>2, <3>3, <3>4 DEF Fit
    <2> QED
      BY <1>1, <2>1, <2>3, <2>4, ContinuesFit DEF Rests
  <1>12. CASE \E d \in w.todo : SubmitDependency(w, d)
    <2>1. PICK d \in w.todo : SubmitDependency(w, d)
      BY <1>12
    <2> DEFINE next == [w EXCEPT !.todo = @ \ {d}, !.failed = @ \/ ~d.found]
    <2>0. PICK sent : sent = Submitted(d, w.on, attempts[w.on], "ensure")
      OBVIOUS
    <2>2. /\ w.pc = "dependencies" /\ UNCHANGED <<phase, ghost, look, call>>
          /\ \/ workers' = ((workers \ {w}) \cup {next}) \cup {sent}
             \/ workers' = (workers \ {w}) \cup {next}
      BY <2>0, <2>1 DEF SubmitDependency, Submit, cellVars, callerVars
    <2>3. /\ next.on = w.on /\ next.life = w.life /\ next.kind = w.kind /\ next.pc = w.pc
          /\ next.todo \subseteq w.todo
      BY <1>1 DEF WorkerRecord
    <2>4. Rests /\ Dated(d)
      BY <1>1, <1>3, <2>2 DEF Fit
    <2>5. Fit(sent)'
      <3>1. "ensure" = "release" => d.on \notin Tied
        OBVIOUS
      <3> QED
        BY <2>0, <2>2, <2>4, <3>1, SubmittedFits
    <2> HIDE DEF next
    <2>6. Fit(next)'
      <3>1. next.kind = "release" => next.on \notin Tied'
        BY <1>1, <2>3 DEF Fit, Tied, OnNoCycle, Declares, Targets
      <3>2. Outdated(next)' \/ next.on \in Alive'
        BY <1>1, <1>5, <2>2, <2>3, <2>4 DEF Outdated, Rests, Busy
      <3>3. Dated(next)' /\ \A cell \in next.todo : Dated(cell)'
        BY <1>1, <2>2, <2>3 DEF Fit, Dated
      <3> QED
        BY <3>1, <3>2, <3>3 DEF Fit
    <2>7. ASSUME NEW v \in workers PROVE Fit(v)'
      <3>1. v \in WorkerRecord /\ v.on \in Node /\ Fit(v)
        BY <1>1, WorkerType DEF IInv, Fitting
      <3> QED
        BY <2>4, <3>1, FitStays DEF Rests
    <2>8. Looks'
      BY <1>1, <2>2, LooksStay DEF IInv, Fitting
    <2>9. Fitting'
      BY <2>2, <2>5, <2>6, <2>7, <2>8 DEF Fitting
    <2> QED
      BY <2>4, <2>9
  <1>13. CASE AcquireStarts(w)
    <2> DEFINE next == [w EXCEPT !.pc = "driving"]
    <2>1. Continue(w, next) /\ Busy(w) /\ UNCHANGED <<phase, ghost>>
      BY <1>13 DEF AcquireStarts, DependenciesAnswered, Busy, cellVars
    <2>2. /\ next.on = w.on /\ next.life = w.life /\ next.kind = w.kind /\ next.todo = w.todo
      BY <1>1 DEF WorkerRecord
    <2> HIDE DEF next
    <2> QED
      BY <1>3, <1>8, <2>1, <2>2
  <1>14. CASE DependenciesFail(w) \/ AcquireEnds(w)
    <2>1. Busy(w)
      BY <1>14 DEF DependenciesFail, DependenciesAnswered, AcquireEnds, Busy
    <2>2. \E p \in {"Ready", "Error"}, isReady \in BOOLEAN : Commit(w, p) /\ Answer(w, isReady)
      BY <1>14 DEF DependenciesFail, AcquireEnds
    <2> QED
      BY <1>4, <1>5, <1>7, <2>1, <2>2 DEF Phase
  <1>15. CASE Release(w)
    <2>1. Commit(w, "Idle") /\ Answer(w, TRUE) /\ w.on \notin Tied
      BY <1>1, <1>15 DEF Release, Fit
    <2> QED
      BY <1>4, <1>7, <2>1 DEF Phase
  <1>16. CASE Interrupted(w)
    <2>1. Answer(w, FALSE)
      BY <1>16 DEF Interrupted
    <2>2. CASE Busy(w)
      <3>1. Commit(w, "Error")
        BY <1>16, <2>2 DEF Interrupted, Busy
      <3> QED
        BY <1>4, <1>5, <1>7, <2>1, <2>2, <3>1 DEF Phase
    <2>3. CASE ~Busy(w)
      <3>1. Commit(w, PhaseOf(w))
        BY <1>16, <2>3 DEF Interrupted, Busy
      <3>2. phase' = phase /\ ghost' = ghost
        <4>1. ghost' = ghost
          BY <1>1, <3>1 DEF Commit, Become, PhaseOf, IInv, Shape, CellTypes
        <4> QED
          BY <3>1, <4>1, CommitsNothing
      <3> QED
        BY <1>3, <1>7, <2>1, <3>2
    <2> QED
      BY <2>2, <2>3
  <1> QED
    BY <1>9, <1>10, <1>11, <1>12, <1>13, <1>14, <1>15, <1>16 DEF Worker

LEMMA OthersRiskNothing ==
  ASSUME IInv, AInv,
         \/ \E n \in Node : TeardownEnds(n)
         \/ \E c \in Caller : EvictBegins(c) \/ EvictEnds(c)
         \/ CloseActor \/ CleanupBegins \/ UNCHANGED vars
  PROVE  AInv'
  <1>1. UNCHANGED <<phase, ghost, deps, stack, workers, look, call>>
    BY DEF TeardownEnds, EvictBegins, EvictEnds, CloseActor, CleanupBegins, vars, cellVars,
           actorVars, planVars, callerVars
  <1>2. doomed' = doomed \/ doomed = <<>>
    BY DEF TeardownEnds, EvictBegins, EvictEnds, CloseActor, CleanupBegins, vars, planVars, IInv,
           Semaphore
  <1>3. Alive' = Alive
    BY <1>1 DEF Alive, Planned
  <1>4. \A n \in Node : Life(n)' = Life(n)
    BY <1>1 DEF Life
  <1>5. Fitting'
    BY <1>1, <1>3, <1>4, FittingRests DEF AInv
  <1>6. Risky' \subseteq Risky
    BY <1>3, RiskyThen DEF Risky
  <1>7. \A n \in ToSet(doomed) : n \in ToSet(doomed')
    BY <1>2 DEF ToSet
  <1> QED
    BY <1>1, <1>5, <1>6, <1>7, RiskShrinks

\* What a caller submits it had looked up, or planned.
LEMMA CallersRiskNothing ==
  ASSUME IInv, EInv, AInv, SoundReleases, NEW c \in Caller, PlanEnds(c) \/ LookUp(c) \/ SubmitById(c)
  PROVE  AInv'
  <1>1. UNCHANGED <<phase, ghost, deps, stack, doomed, call>>
    BY DEF PlanEnds, LookUp, SubmitById, cellVars, planVars
  <1>2. Alive' = Alive /\ \A n \in Node : Life(n)' = Life(n)
    BY <1>1 DEF Alive, Planned, Life
  <1>3. Risky' \subseteq Risky
    BY <1>2, RiskyThen DEF Risky
  <1>4. ASSUME NEW w \in workers PROVE Fit(w)'
    <2>1. w \in WorkerRecord /\ w.on \in Node /\ Fit(w)
      BY WorkerType DEF IInv, AInv, Fitting
    <2> QED
      BY <1>1, <1>2, <2>1, FitStays
  <1>5. Looks /\ DOMAIN look = Caller
    BY DEF AInv, Fitting, IInv, Shape, CallerTypes
  <1>6. Fitting'
    <2>1. CASE PlanEnds(c)
      <3>1. PICK v : v = Submitted(Cell(call[c].request[1]), c, 0, "ensure")
        OBVIOUS
      <3>2. UNCHANGED look /\ (workers' = workers \/ workers' = workers \cup {v})
        BY <2>1, <3>1 DEF PlanEnds, Submit
      <3>3. PICK cell : cell = Cell(call[c].request[1])
        OBVIOUS
      <3>4. Dated(cell)
        BY <3>3, CellIsDated
      <3>5. "ensure" = "release" => cell.on \notin Tied
        OBVIOUS
      <3>6. Fit(v)'
        BY <1>1, <3>1, <3>3, <3>4, <3>5, SubmittedFits
      <3>7. Looks'
        BY <1>1, <1>5, <3>2, LooksStay DEF IInv
      <3> QED
        BY <1>4, <3>2, <3>6, <3>7 DEF Fitting
    <2>2. CASE LookUp(c)
      <3>1. PICK cell : cell = Cell(call[c].request[1])
        OBVIOUS
      <3>2. workers' = workers /\ look' = [look EXCEPT ![c] = {cell}]
        BY <2>2, <3>1 DEF LookUp, actorVars
      <3>3. Dated(cell) /\ cell.on = call[c].request[1]
        BY <3>1, CellIsDated
      <3>4. Looks'
        BY <1>1, <1>5, <3>2, <3>3 DEF Looks, Dated
      <3> QED
        BY <1>4, <3>2, <3>4 DEF Fitting
    <2>3. CASE SubmitById(c)
      <3>1. PICK cell \in look[c] :
              IF cell.found
                THEN Submit(cell, c, 0, IF call[c].kind = "release" THEN "release" ELSE "ensure",
                            workers)
                ELSE UNCHANGED workers
        BY <2>3 DEF SubmitById
      <3>2. PICK kind : kind = IF call[c].kind = "release" THEN "release" ELSE "ensure"
        OBVIOUS
      <3>3. PICK v : v = Submitted(cell, c, 0, kind)
        OBVIOUS
      <3>4. workers' = workers \/ workers' = workers \cup {v}
        BY <3>1, <3>2, <3>3 DEF Submit
      <3>5. cell.on = call[c].request[1] /\ Dated(cell)
        BY <1>5 DEF Looks
      <3>6. kind = "release" => cell.on \notin Tied
        BY <3>2, <3>5 DEF SoundReleases, EInv, Called, Tied
      <3>7. Fit(v)'
        BY <1>1, <3>3, <3>5, <3>6, SubmittedFits
      <3>8. look' = [look EXCEPT ![c] = {}]
        BY <2>3 DEF SubmitById
      <3>9. Looks'
        BY <1>1, <1>5, <3>8 DEF Looks, Dated
      <3> QED
        BY <1>4, <3>4, <3>7, <3>9 DEF Fitting
    <2> QED
      BY <2>1, <2>2, <2>3
  <1> QED
    BY <1>1, <1>3, <1>6, RiskShrinks

\* What was doomed is invalid.
LEMMA InvalidationsRiskNothing ==
  ASSUME IInv, AInv, InvalidateUnowned \/ Invalidate
  PROVE  AInv'
  <1>1. PICK n : n = Head(doomed)
    OBVIOUS
  <1>2. /\ doomed # <<>> /\ phase' = [phase EXCEPT ![n] = "Invalid"] /\ doomed' = Tail(doomed)
        /\ UNCHANGED <<ghost, deps, stack, workers, look, call>>
    BY <1>1 DEF InvalidateUnowned, Invalidate, Become, Dooms, actorVars, callerVars
  <1>3. n \in Node /\ doomed \in Seq(Node)
    BY <1>1, <1>2, DoomedType DEF IInv, Shape, PlanTypes
  <1>4. AllRefused(n)
    <2>1. CASE InvalidateUnowned
      BY <1>1, <1>3, <2>1 DEF InvalidateUnowned, IInv, Unowned
    <2>2. CASE Invalidate
      BY <1>1, <1>2, <2>2, ExclusiveFinds DEF Invalidate
    <2> QED
      BY <2>1, <2>2
  <1>5. Alive' = Alive \ {n} /\ \A m \in Node : Life(m)' = Life(m)
    BY <1>2, <1>3 DEF Alive, Planned, Life, IInv, Shape, CellTypes
  <1>6. Fitting'
    BY <1>2, <1>4, <1>5, FittingRests DEF AInv
  <1>7. Risky' \subseteq Risky /\ n \notin Risky'
    BY <1>5, RiskyThen DEF Risky
  <1>8. \A m \in ToSet(doomed) : m = n \/ m \in ToSet(doomed')
    BY <1>1, <1>2, <1>3, TailMembers
  <1> QED
    BY <1>2, <1>6, <1>7, <1>8, RiskShrinks

LEMMA ForgetsRiskNothing ==
  ASSUME IInv, AInv, EvictUnowned \/ CleanupEnds
  PROVE  AInv'
  <1>1. PICK n : n = Head(doomed)
    OBVIOUS
  <1>2. /\ doomed # <<>> /\ planner # Nobody /\ pc[planner] = "evicting" /\ Forget(n)
        /\ UNCHANGED <<stack, workers, look, call>>
    BY <1>1 DEF EvictUnowned, CleanupEnds, Dooms, actorVars, callerVars
  <1>3. /\ phase' = [phase EXCEPT ![n] = "Missing"] /\ deps' = [deps EXCEPT ![n] = {}]
        /\ ghost' = [ghost EXCEPT ![n] = "Idle"]
    BY <1>2 DEF Forget
  <1>4. n \in Node /\ stack = <<>>
    BY <1>1, <1>2, DoomedType DEF IInv, Semaphore
  <1>5. AllRefused(n)
    <2>1. CASE EvictUnowned
      BY <1>1, <1>4, <2>1 DEF EvictUnowned, IInv, Unowned
    <2>2. CASE CleanupEnds
      BY <1>1, <1>4, <2>2 DEF CleanupEnds, IInv, Permit
    <2> QED
      BY <2>1, <2>2
  <1>6. Alive' = Alive \ {n}
    BY <1>3, <1>4 DEF Alive, Planned, IInv, Shape, CellTypes
  <1>7. \A m \in Node : ghost[m] # "none" => ghost'[m] # "none"
    BY <1>3, <1>4 DEF IInv, Shape, CellTypes
  <1>8. Fitting'
    <2>1. ASSUME NEW m \in Node
          PROVE  AllRefused(m) \/ (Life(m)' = Life(m) /\ (m \in Alive => m \in Alive'))
      <3>1. CASE m = n
        BY <1>5, <3>1
      <3>2. CASE m # n
        <4>1. Life(m)' = Life(m)
          BY <1>3, <3>2 DEF Life, IInv, Shape, CellTypes
        <4> QED
          BY <1>6, <3>2, <4>1
      <3> QED
        BY <3>1, <3>2
    <2> QED
      BY <1>2, <1>7, <2>1, FittingRests DEF AInv
  <1>9. Risky' \subseteq Risky
    BY <1>6, RiskyThen DEF Risky
  <1>10. \A m \in Node : deps'[m] \subseteq deps[m]
    BY <1>3, <1>4 DEF IInv, Shape, CellTypes
  <1> QED
    BY <1>2, <1>4, <1>8, <1>9, <1>10, RiskRests

LEMMA LeavesRiskNothing ==
  ASSUME IInv, AInv, NEW c \in Caller, Leave(c)
  PROVE  AInv'
  <1>1. stack' = <<>> /\ UNCHANGED <<phase, ghost, deps, workers, look, call>>
    BY DEF Leave, cellVars
  <1>2. Alive' = Alive /\ \A n \in Node : Life(n)' = Life(n)
    BY <1>1 DEF Alive, Planned, Life
  <1>3. Fitting'
    BY <1>1, <1>2, FittingRests DEF AInv
  <1>4. Risky' \subseteq Risky
    BY <1>2, RiskyThen DEF Risky
  <1> QED
    BY <1>1, <1>3, <1>4, RiskRests

\* Paths through an activation that has its dependency planned, or an edge
\* recorded, and through a new one.
LEMMA ReturnedItems ==
  ASSUME NEW s \in Seq(FrameRecord), s # <<>>
  PROVE  /\ Len(Returned(s)) = Len(s)
         /\ \A i \in 1 .. Len(s) : /\ Returned(s)[i].request = s[i].request
                                   /\ Returned(s)[i].rest = s[i].rest
                                   /\ s[i].returned => Returned(s)[i].returned
         /\ Returned(s)[Len(s)].returned
  <1> DEFINE last == [s[Len(s)] EXCEPT !.returned = TRUE]
  <1>1. Len(s) \in Nat \ {0} /\ DOMAIN s = 1 .. Len(s) /\ Len(s) \in DOMAIN s
    OBVIOUS
  <1>2. \A i \in 1 .. Len(s) : s[i] \in FrameRecord
    BY <1>1
  <1>3. last.request = s[Len(s)].request /\ last.rest = s[Len(s)].rest /\ last.returned
    BY <1>1, <1>2 DEF FrameRecord
  <1>4. Returned(s) = [s EXCEPT ![Len(s)] = last]
    BY DEF Returned
  <1> HIDE DEF last
  <1>5. /\ Len(Returned(s)) = Len(s)
        /\ \A i \in 1 .. Len(s) : Returned(s)[i] = IF i = Len(s) THEN last ELSE s[i]
    BY <1>1, <1>4
  <1> QED
    BY <1>1, <1>3, <1>5

LEMMA PathReturns ==
  ASSUME NEW s \in Seq(FrameRecord), s # <<>>, NEW z, Len(z) = Len(s),
         \A i \in 1 .. Len(s) : /\ z[i].request = s[i].request
                                /\ i # Len(s) => z[i].rest = s[i].rest
                                /\ i # Len(s) /\ s[i].returned => z[i].returned,
         Simple(s), Linked(s)
  PROVE  Simple(z) /\ Linked(z)
  <1>1. Len(s) \in Nat /\ \A i \in 1 .. Len(s) - 1 : i \in 1 .. Len(s) /\ i # Len(s) /\ i + 1 \in 1 .. Len(s)
    OBVIOUS
  <1>2. Simple(z)
    BY DEF Simple
  <1>3. Linked(z)
    <2> SUFFICES ASSUME NEW i \in 1 .. Len(s) - 1
                 PROVE  z[i].returned /\ Head(z[i].rest)[1] = z[i + 1].request[1]
      BY DEF Linked
    <2>1. s[i].returned /\ Head(s[i].rest)[1] = s[i + 1].request[1]
      BY DEF Linked
    <2> QED
      BY <1>1, <2>1
  <1> QED
    BY <1>2, <1>3

LEMMA PathGrows ==
  ASSUME NEW T, NEW s \in Seq(T), NEW f, Simple(s), Linked(s),
         \A i \in 1 .. Len(s) : s[i].request[1] # f.request[1],
         s # <<>> => s[Len(s)].returned /\ Head(s[Len(s)].rest)[1] = f.request[1]
  PROVE  Simple(Append(s, f)) /\ Linked(Append(s, f))
  <1> DEFINE z == Append(s, f)
  <1>1. /\ Len(s) \in Nat /\ Len(z) = Len(s) + 1 /\ z[Len(s) + 1] = f
        /\ \A i \in 1 .. Len(s) : z[i] = s[i]
    OBVIOUS
  <1> HIDE DEF z
  <1>2. Simple(z)
    <2> SUFFICES ASSUME NEW i \in 1 .. Len(s) + 1, NEW j \in 1 .. Len(s) + 1,
                        z[i].request[1] = z[j].request[1]
                 PROVE  i = j
      BY <1>1 DEF Simple
    <2>1. \A k \in 1 .. Len(s) + 1 : k \in 1 .. Len(s) \/ k = Len(s) + 1
      BY <1>1
    <2>2. CASE i \in 1 .. Len(s) /\ j \in 1 .. Len(s)
      BY <1>1, <2>2 DEF Simple
    <2>3. CASE i = Len(s) + 1 /\ j \in 1 .. Len(s)
      BY <1>1, <2>3
    <2>4. CASE j = Len(s) + 1 /\ i \in 1 .. Len(s)
      BY <1>1, <2>4
    <2> QED
      BY <2>1, <2>2, <2>3, <2>4
  <1>3. Linked(z)
    <2> SUFFICES ASSUME NEW i \in 1 .. Len(s)
                 PROVE  z[i].returned /\ Head(z[i].rest)[1] = z[i + 1].request[1]
      BY <1>1 DEF Linked
    <2>1. CASE i = Len(s)
      BY <1>1, <2>1
    <2>2. CASE i # Len(s)
      <3>1. i \in 1 .. Len(s) - 1 /\ i + 1 \in 1 .. Len(s)
        BY <1>1, <2>2
      <3> QED
        BY <1>1, <3>1 DEF Linked
    <2> QED
      BY <2>1, <2>2
  <1> QED
    BY <1>2, <1>3 DEF z

LEMMA PathShrinks ==
  ASSUME NEW T, NEW s \in Seq(T), s # <<>>, Simple(s), Linked(s)
  PROVE  /\ Simple(Front(s)) /\ Linked(Front(s))
         /\ \A f \in ToSet(Front(s)) : f.request[1] # s[Len(s)].request[1]
         /\ Front(s) # <<>> =>
              Head(Front(s)[Len(Front(s))].rest)[1] = s[Len(s)].request[1]
  <1>1. Len(s) \in Nat \ {0} /\ Len(s) \in 1 .. Len(s)
    OBVIOUS
  <1>2. /\ Len(Front(s)) = Len(s) - 1 /\ DOMAIN Front(s) = 1 .. Len(s) - 1
        /\ \A i \in 1 .. Len(s) - 1 : Front(s)[i] = s[i]
    BY <1>1 DEF Front
  <1>3. \A i \in 1 .. Len(s) - 1 : i \in 1 .. Len(s) /\ i # Len(s)
    BY <1>1
  <1>4. Simple(Front(s))
    BY <1>2, <1>3 DEF Simple
  <1>5. Linked(Front(s))
    <2>1. \A i \in 1 .. (Len(s) - 1) - 1 : i \in 1 .. Len(s) - 1 /\ i + 1 \in 1 .. Len(s) - 1
      BY <1>1
    <2> QED
      BY <1>2, <2>1 DEF Linked
  <1>6. \A f \in ToSet(Front(s)) : f.request[1] # s[Len(s)].request[1]
    <2> SUFFICES ASSUME NEW i \in 1 .. Len(s) - 1 PROVE s[i].request[1] # s[Len(s)].request[1]
      BY <1>2 DEF ToSet
    <2> QED
      BY <1>1, <1>3 DEF Simple
  <1>7. ASSUME Front(s) # <<>>
        PROVE  Head(Front(s)[Len(Front(s))].rest)[1] = s[Len(s)].request[1]
    <2>1. Len(s) - 1 # 0
      <3>1. Front(s) \in Seq(T)
        BY <1>1 DEF Front
      <3> QED
        BY <1>2, <1>7, <3>1
    <2>2. Len(s) - 1 \in 1 .. Len(s) - 1 /\ (Len(s) - 1) + 1 = Len(s)
      <3>1. PICK n \in Nat \ {0} : n = Len(s)
        BY <1>1
      <3>2. n - 1 # 0
        BY <2>1, <3>1
      <3>3. n - 1 \in 1 .. n - 1 /\ (n - 1) + 1 = n
        BY <3>2
      <3> QED
        BY <3>1, <3>3
    <2> QED
      BY <1>2, <2>2 DEF Linked
  <1> QED
    BY <1>4, <1>5, <1>6, <1>7

LEMMA VisitingIs ==
  ASSUME NEW n
  PROVE  n \in Visiting <=> \E f \in ToSet(stack) : f.request[1] = n
  BY DEF Visiting, NodeAt, ToSet

\* A visit may put its node into the graph, and an activation on the path.
LEMMA VisitDoes ==
  ASSUME IInv, NEW r \in Request, Visit(r), stack # <<>> => Top.rest # <<>>
  PROVE  /\ \A n \in Node : phase'[n] = phase[n] \/ (n = r[1] /\ n \notin Planned)
         /\ \A f \in ToSet(stack') :
              \/ \E g \in ToSet(stack) : f.request = g.request /\ f.rest = g.rest
              \/ f = Frame(r) /\ (r[1] \in Planned => deps[r[1]] = Targets(r))
  <1>1. r[1] \in Node /\ phase \in [Node -> Phase] /\ stack \in Seq(FrameRecord)
    BY RequestParts DEF IInv, Shape, CellTypes, PlanTypes
  <1>2. \A n \in Node : Materialised(r[1])[n] = phase[n] \/ (n = r[1] /\ n \notin Planned)
    BY <1>1 DEF Materialised, Planned
  <1>3. \A n \in Node : phase'[n] = phase[n] \/ (n = r[1] /\ n \notin Planned)
    <2>1. CASE VisitRejected(r)
      BY <1>1, <2>1 DEF VisitRejected
    <2>2. CASE VisitInvalid(r) \/ VisitCycle(r)
      BY <2>2 DEF VisitInvalid, VisitCycle
    <2>3. CASE VisitMisdeclared(r) \/ VisitDependencies(r)
      BY <1>2, <2>3 DEF VisitMisdeclared, VisitDependencies
    <2> QED
      BY <2>1, <2>2, <2>3 DEF Visit
  <1>4. Returned(stack) \in Seq(FrameRecord)
    BY <1>1, ReturnedType DEF Top
  <1>5. ASSUME NEW f \in ToSet(Returned(stack))
        PROVE  \E g \in ToSet(stack) : f.request = g.request /\ f.rest = g.rest
    <2>1. f \in ToSet(stack) \/ (stack # <<>> /\ f = [Top EXCEPT !.returned = TRUE])
      BY <1>1, ReturnedMembers DEF Top
    <2>2. CASE stack # <<>> /\ f = [Top EXCEPT !.returned = TRUE]
      <3>1. PICK top : top = Top
        OBVIOUS
      <3>2. top \in ToSet(stack) /\ top \in FrameRecord
        BY <2>2, <3>1, TopIsIn DEF IInv
      <3>3. f.request = top.request /\ f.rest = top.rest
        BY <2>2, <3>1, <3>2 DEF FrameRecord
      <3> QED
        BY <3>2, <3>3
    <2> QED
      BY <2>1, <2>2
  <1>6. \/ stack' = Returned(stack)
        \/ /\ stack' = Append(Returned(stack), Frame(r))
           /\ r[1] \in Planned => deps[r[1]] = Targets(r)
    BY DEF Visit, VisitRejected, VisitInvalid, VisitCycle, VisitMisdeclared, VisitDependencies,
           SameDependencies
  <1>7. ASSUME NEW f \in ToSet(stack')
        PROVE  \/ \E g \in ToSet(stack) : f.request = g.request /\ f.rest = g.rest
               \/ f = Frame(r) /\ (r[1] \in Planned => deps[r[1]] = Targets(r))
    <2>1. CASE f \in ToSet(Returned(stack))
      BY <1>5, <2>1
    <2>2. CASE f \notin ToSet(Returned(stack))
      BY <1>4, <1>6, <2>2, AppendMembers
    <2> QED
      BY <2>1, <2>2
  <1> QED
    BY <1>3, <1>7

LEMMA VisitKeepsPath ==
  ASSUME IInv, Path, NEW r \in Request, Visit(r),
         stack # <<>> => Top.rest # <<>> /\ r = Head(Top.rest)
  PROVE  Path'
  <1> DEFINE z == Returned(stack)
  <1>1. stack \in Seq(FrameRecord) /\ Simple(stack) /\ Linked(stack)
    BY DEF IInv, Shape, PlanTypes, Path
  <1>2. /\ z \in Seq(FrameRecord) /\ Simple(z) /\ Linked(z)
        /\ \A i \in 1 .. Len(z) : \E g \in ToSet(stack) : z[i].request = g.request
        /\ z # <<>> => z[Len(z)].returned /\ Head(z[Len(z)].rest)[1] = r[1]
    <2>1. CASE stack = <<>>
      BY <1>1, <2>1 DEF Returned
    <2>2. CASE stack # <<>>
      <3>1. Len(stack) \in 1 .. Len(stack) /\ Top.rest # <<>> /\ r = Head(Top.rest)
        BY <1>1, <2>2
      <3>2. z \in Seq(FrameRecord)
        BY <1>1, <3>1, ReturnedType DEF Top
      <3>3. /\ Len(z) = Len(stack)
            /\ \A i \in 1 .. Len(stack) : /\ z[i].request = stack[i].request
                                          /\ z[i].rest = stack[i].rest
                                          /\ stack[i].returned => z[i].returned
            /\ z[Len(stack)].returned
        BY <1>1, <2>2, ReturnedItems
      <3> HIDE DEF z
      <3>4. Simple(z) /\ Linked(z)
        BY <1>1, <2>2, <3>3, PathReturns
      <3>5. \A i \in 1 .. Len(z) : \E g \in ToSet(stack) : z[i].request = g.request
        BY <1>1, <3>3 DEF ToSet
      <3>6. z[Len(z)].returned /\ Head(z[Len(z)].rest)[1] = r[1]
        BY <3>1, <3>3 DEF Top
      <3> QED
        BY <3>2, <3>4, <3>5, <3>6
    <2> QED
      BY <2>1, <2>2
  <1>3. \/ stack' = z
        \/ stack' = Append(z, Frame(r)) /\ r[1] \notin Visiting
    BY DEF Visit, VisitRejected, VisitInvalid, VisitCycle, VisitMisdeclared, VisitDependencies
  <1> HIDE DEF z
  <1>4. ASSUME stack' = Append(z, Frame(r)), r[1] \notin Visiting PROVE Path'
    <2>1. PICK f : f = Frame(r)
      OBVIOUS
    <2>2. f.request = r
      BY <2>1 DEF Frame
    <2>3. \A i \in 1 .. Len(z) : z[i].request[1] # f.request[1]
      BY <1>2, <1>4, <2>2, VisitingIs
    <2>4. Simple(Append(z, f)) /\ Linked(Append(z, f))
      BY <1>2, <2>2, <2>3, PathGrows
    <2> QED
      BY <1>4, <2>1, <2>4 DEF Path
  <1>5. ASSUME stack' = z PROVE Path'
    BY <1>2, <1>5 DEF Path
  <1> QED
    BY <1>3, <1>4, <1>5

\* A visit that comes back to an activation dooms it.
LEMMA VisitTurns ==
  ASSUME IInv, EInv, NEW r \in Request, Visit(r),
         stack # <<>> => Top.rest # <<>> /\ r = Head(Top.rest)
  PROVE  Turned'
  <1>1. SUFFICES ASSUME stack' # <<>>, Top'.returned, NEW f \in ToSet(stack'),
                        f.request[1] = Head(Top'.rest)[1], f.request[1] \in Risky'
                 PROVE  f.request[1] \in ToSet(doomed')
    BY DEF Turned
  <1>2. stack \in Seq(FrameRecord) /\ r[1] \in Node
    BY RequestParts DEF IInv, Shape, PlanTypes
  <1>3. stack' = Returned(stack)
    <2>1. SUFFICES ASSUME stack' = Append(Returned(stack), Frame(r)) PROVE FALSE
      BY DEF Visit, VisitRejected, VisitInvalid, VisitCycle, VisitMisdeclared, VisitDependencies
    <2>2. Returned(stack) \in Seq(FrameRecord)
      BY <1>2, ReturnedType DEF Top
    <2>3. Top' = Frame(r)
      BY <2>1, <2>2 DEF Top
    <2> QED
      BY <1>1, <2>3 DEF Frame
  <1>4. stack # <<>>
    BY <1>1, <1>3 DEF Returned
  <1>5. Head(Top'.rest) = r
    <2>1. Len(stack') = Len(stack) /\ stack'[Len(stack)].rest = stack[Len(stack)].rest
      <3>1. Len(stack) \in 1 .. Len(stack)
        BY <1>2, <1>4
      <3> QED
        BY <1>2, <1>3, <1>4, <3>1, ReturnedItems
    <2> QED
      BY <1>4, <2>1 DEF Top
  <1>6. f.request[1] = r[1]
    BY <1>1, <1>5
  <1>7. r[1] \in Visiting /\ r[1] \in Planned
    <2>1. \/ \E g \in ToSet(stack) : f.request = g.request
          \/ stack # <<>> /\ f = [Top EXCEPT !.returned = TRUE]
      BY <1>2, <1>3, ReturnedMembers DEF Top
    <2>2. \E g \in ToSet(stack) : f.request = g.request
      <3>1. PICK top : top = Top
        OBVIOUS
      <3>2. top \in ToSet(stack) /\ top \in FrameRecord
        BY <1>4, <3>1, TopIsIn DEF IInv
      <3>3. [top EXCEPT !.returned = TRUE].request = top.request
        BY <3>2 DEF FrameRecord
      <3> QED
        BY <2>1, <3>1, <3>2, <3>3
    <2> QED
      BY <1>6, <2>2, VisitingIs DEF EInv, Frames, Sound
  <1>8. r[1] \in Alive'
    BY <1>1, <1>6, RiskyThen
  <1>9. CASE VisitRejected(r)
    BY <1>6, <1>7, <1>9 DEF VisitRejected, ToSet
  <1>10. CASE VisitInvalid(r)
    BY <1>8, <1>10 DEF VisitInvalid, Alive
  <1>11. CASE VisitCycle(r)
    <2> DEFINE first == CHOOSE i \in DOMAIN stack : NodeAt(i) = r[1]
    <2>1. first \in DOMAIN stack /\ NodeAt(first) = r[1]
      BY <1>7 DEF Visiting
    <2>2. CyclePath(r[1]) = [i \in 1 .. (Len(stack) - first + 1) |-> NodeAt(first + i - 1)]
      BY DEF CyclePath
    <2> HIDE DEF first
    <2>3. 1 \in 1 .. (Len(stack) - first + 1) /\ first + 1 - 1 = first
      BY <1>2, <2>1
    <2>4. CyclePath(r[1])[1] = r[1] /\ 1 \in DOMAIN CyclePath(r[1])
      BY <2>1, <2>2, <2>3
    <2>5. doomed' = CyclePath(r[1])
      BY <1>11 DEF VisitCycle
    <2> QED
      BY <1>6, <2>4, <2>5 DEF ToSet
  <1>12. CASE VisitMisdeclared(r) \/ VisitDependencies(r)
    BY <1>7, <1>12 DEF VisitMisdeclared, VisitDependencies
  <1> QED
    BY <1>9, <1>10, <1>11, <1>12 DEF Visit

\* Nothing depends on a node that is not in the graph, and it on nothing.
LEMMA UnplannedIsApart ==
  ASSUME IInv, EInv, ~Evicting, NEW n \in Node, NEW d \in deps[n]
  PROVE  n \in Planned /\ d \in Planned
  BY DEF EInv, Covered, Ends

LEMMA VisitRisksNothing ==
  ASSUME IInv, EInv, AInv, ~Evicting, NEW r \in Request, Visit(r),
         UNCHANGED <<ghost, deps, workers, look, call>>,
         stack # <<>> => Top.rest # <<>> /\ r = Head(Top.rest)
  PROVE  AInv'
  <1>1. /\ \A n \in Node : phase'[n] = phase[n] \/ (n = r[1] /\ n \notin Planned)
        /\ \A f \in ToSet(stack') :
             \/ \E g \in ToSet(stack) : f.request = g.request /\ f.rest = g.rest
             \/ f = Frame(r) /\ (r[1] \in Planned => deps[r[1]] = Targets(r))
    BY VisitDoes
  <1>2. \A n \in Planned : n \in Node /\ (n \in Alive' <=> n \in Alive)
    BY <1>1 DEF Alive, Planned
  <1>3. \A n \in Planned : n \in Risky' <=> n \in Risky
    BY <1>2, RiskyThen DEF Risky
  <1>4. \A n \in Risky' : n \in Node
    BY RiskyThen DEF Tied
  <1>5. \A g \in ToSet(stack) : g.request[1] \in Planned
    BY DEF EInv, Frames, Sound
  <1>6. \A d \in Planned : d \in Fresh' => d \in Fresh
    <2> SUFFICES ASSUME NEW d \in Planned, d \in Fresh' PROVE d \in Fresh
      OBVIOUS
    <2>1. PICK f \in ToSet(stack') : f.request[1] = d /\ deps'[d] # Targets(f.request)
      BY FreshThen
    <2>2. d \in Risky
      BY <1>3, FreshThen
    <2>3. CASE \E g \in ToSet(stack) : f.request = g.request
      BY <2>1, <2>2, <2>3 DEF Fresh
    <2>4. CASE f = Frame(r) /\ (r[1] \in Planned => deps[r[1]] = Targets(r))
      BY <2>1, <2>4 DEF Frame
    <2> QED
      BY <1>1, <2>3, <2>4
  <1>7. Fitting'
    <2>1. \A n \in Node : (n \in Alive => n \in Alive') /\ Life(n)' = Life(n)
      BY <1>2 DEF Alive, Life
    <2> QED
      BY <2>1, FittingRests DEF AInv
  <1>8. Declared'
    BY DEF AInv, Declared, Declares, Targets
  <1>9. Path'
    BY VisitKeepsPath DEF AInv
  <1>10. Acyclic'
    <2> SUFFICES ASSUME NEW S \in SUBSET Risky', Circle(S)' PROVE FALSE
      BY DEF Acyclic
    <2>1. Circle(S)
      BY DEF Circle
    <2>2. S \subseteq Risky
      BY <1>3, <1>4, <2>1, UnplannedIsApart DEF Circle
    <2> QED
      BY <2>1, <2>2 DEF AInv, Acyclic
  <1>11. Unfounded'
    <2> SUFFICES ASSUME NEW n \in Risky', NEW d \in deps[n], d \in Fresh' PROVE FALSE
      BY DEF Unfounded
    <2>1. n \in Planned /\ d \in Planned
      BY <1>4, UnplannedIsApart
    <2>2. n \in Risky /\ d \in Fresh
      BY <1>3, <1>6, <2>1
    <2> QED
      BY <2>2 DEF AInv, Unfounded
  <1>12. Behind'
    <2> SUFFICES ASSUME NEW f \in ToSet(stack'), f.request[1] \in Risky',
                        NEW t \in Targets(f.request), t \in Fresh'
                 PROVE  \E d \in ToSet(f.rest) : d[1] = t
      BY DEF Behind, Targets
    <2>1. CASE f = Frame(r)
      BY <2>1 DEF Frame, Targets
    <2>2. CASE \E g \in ToSet(stack) : f.request = g.request /\ f.rest = g.rest
      <3>1. PICK g \in ToSet(stack) : f.request = g.request /\ f.rest = g.rest
        BY <2>2
      <3>2. <<g.request[1], t>> \in edges \/ \E d \in ToSet(g.rest) : d[1] = t
        BY <3>1 DEF EInv, Frames, Sound
      <3>3. CASE <<g.request[1], t>> \in edges
        <4>1. t \in Planned /\ t \in Fresh
          BY <1>6, <3>3 DEF EInv, Ends
        <4>2. g.request[1] \in Risky
          BY <1>3, <1>5, <3>1
        <4> QED
          BY <3>1, <4>1, <4>2 DEF AInv, Behind
      <3> QED
        BY <3>1, <3>2, <3>3
    <2> QED
      BY <1>1, <2>1, <2>2
  <1>13. Turned'
    BY VisitTurns
  <1> QED
    BY <1>7, <1>8, <1>9, <1>10, <1>11, <1>12, <1>13 DEF AInv

LEMMA VisitsRiskNothing ==
  ASSUME IInv, EInv, AInv, VisitNext \/ \E c \in Caller : PlanBegins(c)
  PROVE  AInv'
  <1>1. CASE VisitNext
    <2>1. /\ stack # <<>> /\ Top.rest # <<>> /\ Visit(Head(Top.rest))
          /\ UNCHANGED <<ghost, deps, workers, look, call>>
      BY <1>1 DEF VisitNext, actorVars, callerVars
    <2>2. Head(Top.rest) \in Request
      BY <2>1, TopType, RequestAhead DEF IInv
    <2>3. ~Evicting
      BY <2>1 DEF Evicting, IInv, Semaphore
    <2> QED
      BY <2>1, <2>2, <2>3, VisitRisksNothing
  <1>2. CASE \E c \in Caller : PlanBegins(c)
    <2>1. PICK c \in Caller : PlanBegins(c)
      BY <1>2
    <2>2. /\ planner = Nobody /\ Visit(call[c].request)
          /\ UNCHANGED <<ghost, deps, workers, look, call>>
      BY <2>1 DEF PlanBegins, actorVars
    <2>3. call[c].request \in Request /\ stack = <<>> /\ ~Evicting
      BY <2>2 DEF IInv, Shape, CallerTypes, Call, Semaphore, Evicting
    <2> QED
      BY <2>2, <2>3, VisitRisksNothing
  <1> QED
    BY <1>1, <1>2

\* The dependency whose edge is recorded is no longer being planned, unless a
\* visit came back to it and it is invalid now.
LEMMA RecordEdgeRisksNothing ==
  ASSUME IInv, AInv, RecordEdge
  PROVE  AInv'
  <1>1. PICK f : f = Top
    OBVIOUS
  <1>2. PICK g : g = [f EXCEPT !.returned = FALSE, !.rest = Tail(@)]
    OBVIOUS
  <1>3. /\ stack # <<>> /\ f.returned /\ doomed = <<>>
        /\ UNCHANGED <<phase, ghost, deps, doomed, workers, look, call>>
    BY <1>1 DEF RecordEdge, actorVars, callerVars
  <1>4. f \in FrameRecord /\ f \in ToSet(stack) /\ f.rest # <<>> /\ stack \in Seq(FrameRecord)
    BY <1>1, <1>3, TopIsIn DEF IInv, Shape, PlanTypes, FrameRecord
  <1>5. Len(stack) \in 1 .. Len(stack) /\ f = stack[Len(stack)]
    BY <1>1, <1>3, <1>4 DEF Top
  <1>6. g.request = f.request /\ g.rest = Tail(f.rest) /\ g.returned = FALSE
    BY <1>2, <1>4 DEF FrameRecord
  <1>7. stack' = [stack EXCEPT ![Len(stack)] = g]
    BY <1>2, <1>4, <1>5 DEF RecordEdge
  <1>8. /\ Len(stack') = Len(stack) /\ DOMAIN stack' = 1 .. Len(stack)
        /\ \A i \in 1 .. Len(stack) : stack'[i] = IF i = Len(stack) THEN g ELSE stack[i]
    BY <1>4, <1>5, <1>7
  <1>9. \A h \in ToSet(stack') : h = g \/ h \in ToSet(stack)
    <2> SUFFICES ASSUME NEW i \in DOMAIN stack', stack'[i] # g PROVE stack'[i] \in ToSet(stack)
      BY DEF ToSet
    <2>1. i \in 1 .. Len(stack)
      BY <1>8
    <2>2. stack'[i] = stack[i]
      BY <1>8, <2>1
    <2>3. i \in DOMAIN stack
      BY <1>4, <2>1
    <2> QED
      BY <2>2, <2>3 DEF ToSet
  <1>10. Alive' = Alive /\ \A n \in Node : Life(n)' = Life(n)
    BY <1>3 DEF Alive, Planned, Life
  <1>11. Risky' = Risky
    BY <1>10, RiskyThen DEF Risky
  <1>12. Fresh' \subseteq Fresh
    BY <1>3, <1>4, <1>6, <1>9, <1>11, FreshThen DEF Fresh
  <1>13. Fitting'
    BY <1>3, <1>10, FittingRests DEF AInv
  <1>14. Declared'
    BY <1>3 DEF AInv, Declared, Declares, Targets
  <1>15. Path'
    <2>1. \A i \in 1 .. Len(stack) : /\ stack'[i].request = stack[i].request
                                     /\ i # Len(stack) => stack'[i].rest = stack[i].rest
                                     /\ i # Len(stack) /\ stack[i].returned => stack'[i].returned
      BY <1>5, <1>6, <1>8
    <2>2. PICK z : z = stack'
      OBVIOUS
    <2>3. Simple(z) /\ Linked(z)
      BY <1>3, <1>4, <1>8, <2>1, <2>2, PathReturns DEF AInv, Path
    <2> QED
      BY <2>2, <2>3 DEF Path
  <1>16. Acyclic'
    BY <1>3, <1>11 DEF AInv, Acyclic, Circle
  <1>17. Unfounded'
    BY <1>3, <1>11, <1>12 DEF AInv, Unfounded
  <1>18. Behind'
    <2> SUFFICES ASSUME NEW h \in ToSet(stack'), h.request[1] \in Risky,
                        NEW t \in Targets(h.request), t \in Fresh'
                 PROVE  \E d \in ToSet(h.rest) : d[1] = t
      BY <1>11 DEF Behind, Targets
    <2>1. CASE h \in ToSet(stack)
      BY <1>12, <2>1 DEF AInv, Behind
    <2>2. CASE h = g
      <3>1. PICK d \in ToSet(f.rest) : d[1] = t
        BY <1>4, <1>6, <1>12, <2>2 DEF AInv, Behind
      <3>2. d # Head(f.rest)
        <4>1. \E e \in ToSet(stack) : e.request[1] = t /\ t \in Risky
          BY <1>12 DEF Fresh
        <4>2. t \notin ToSet(doomed)
          BY <1>3 DEF ToSet
        <4> QED
          BY <1>1, <1>3, <3>1, <4>1, <4>2 DEF AInv, Turned
      <3>3. d \in ToSet(Tail(f.rest))
        <4>1. f.rest \in Seq(Request)
          BY <1>4 DEF FrameRecord
        <4> QED
          BY <1>4, <3>1, <3>2, <4>1, TailMembers
      <3> QED
        BY <1>6, <2>2, <3>1, <3>3
    <2> QED
      BY <1>9, <2>1, <2>2
  <1>19. Turned'
    <2>1. Top' = g
      BY <1>5, <1>8 DEF Top
    <2> QED
      BY <1>6, <2>1 DEF Turned
  <1> QED
    BY <1>13, <1>14, <1>15, <1>16, <1>17, <1>18, <1>19 DEF AInv

\* The node whose dependencies are recorded closes no circle: it does not
\* depend on a node being planned, so not on itself, and nothing depends on it.
LEMMA RecordDependenciesRisksNothing ==
  ASSUME IInv, AInv, RecordDependencies
  PROVE  AInv'
  <1>1. PICK f : f = Top
    OBVIOUS
  <1>2. PICK n : n = f.request[1]
    OBVIOUS
  <1>3. /\ stack # <<>> /\ f.rest = <<>> /\ stack' = Front(stack) /\ doomed = <<>>
        /\ deps' = [deps EXCEPT ![n] = Targets(f.request)]
        /\ UNCHANGED <<phase, ghost, doomed, workers, look, call>>
    BY <1>1, <1>2 DEF RecordDependencies, actorVars, callerVars
  <1>4. /\ f \in FrameRecord /\ f \in ToSet(stack) /\ f = stack[Len(stack)]
        /\ stack \in Seq(FrameRecord) /\ f.request \in Request /\ n \in Node
    BY <1>1, <1>2, <1>3, TopIsIn, RequestParts DEF IInv, Shape, PlanTypes, FrameRecord, Top
  <1>5. \A m \in Node : deps'[m] = IF m = n THEN Targets(f.request) ELSE deps[m]
    BY <1>3, <1>4 DEF IInv, Shape, CellTypes
  <1>6. Alive' = Alive /\ \A m \in Node : Life(m)' = Life(m)
    BY <1>3 DEF Alive, Planned, Life
  <1>7. Risky' = Risky /\ Risky \subseteq Node
    BY <1>6, RiskyThen DEF Risky, Tied
  <1>8. /\ Simple(stack)' /\ Linked(stack)'
        /\ \A h \in ToSet(stack') : h.request[1] # n /\ h \in ToSet(stack)
        /\ stack' # <<>> => Head(Top'.rest)[1] = n
    <2>1. PICK z : z = stack'
      OBVIOUS
    <2>2. /\ Simple(z) /\ Linked(z) /\ \A h \in ToSet(z) : h.request[1] # n
          /\ z # <<>> => Head(z[Len(z)].rest)[1] = n
      BY <1>2, <1>3, <1>4, <2>1, PathShrinks DEF AInv, Path
    <2>3. \A h \in ToSet(z) : h \in ToSet(stack)
      BY <1>3, <1>4, <2>1, FrontMembers
    <2> QED
      BY <2>1, <2>2, <2>3 DEF Top, Simple, Linked
  <1>9. Fresh' \subseteq Fresh
    BY <1>5, <1>7, <1>8, FreshThen DEF Fresh
  <1>10. n \in Risky => Targets(f.request) \cap Fresh = {}
    BY <1>2, <1>3, <1>4 DEF AInv, Behind, ToSet
  <1>11. n \in Risky /\ deps[n] # Targets(f.request) => n \in Fresh
    BY <1>2, <1>4 DEF Fresh
  <1>12. Fitting'
    BY <1>3, <1>6, FittingRests DEF AInv
  <1>13. Declared'
    <2>1. Targets(f.request) \subseteq Declares(n)
      BY <1>2, <1>4, RequestParts DEF Declares
    <2>2. \A m \in Node : deps'[m] \subseteq Declares(m)
      BY <1>5, <2>1 DEF AInv, Declared
    <2> QED
      BY <2>2 DEF Declared, Declares, Targets
  <1>14. Path'
    BY <1>8 DEF Path
  <1>15. Acyclic'
    <2> SUFFICES ASSUME NEW S \in SUBSET Risky, Circle(S)' PROVE FALSE
      BY <1>7 DEF Acyclic
    <2>1. S # {} /\ \A m \in S : m \in Node /\ deps'[m] \cap S # {}
      BY <1>7 DEF Circle
    <2>2. CASE n \notin S \/ deps[n] = Targets(f.request)
      <3>1. Circle(S)
        BY <1>5, <2>1, <2>2 DEF Circle
      <3> QED
        BY <3>1 DEF AInv, Acyclic
    <2>3. CASE n \in S /\ deps[n] # Targets(f.request)
      <3>1. n \in Fresh /\ n \notin Targets(f.request)
        BY <1>10, <1>11, <2>3
      <3>2. \A m \in S : n \notin deps'[m]
        BY <1>5, <2>1, <3>1 DEF AInv, Unfounded
      <3>3. Circle(S \ {n})
        <4>1. S \ {n} # {}
          BY <2>1, <2>3, <3>2
        <4>2. ASSUME NEW m \in S \ {n} PROVE deps[m] \cap (S \ {n}) # {}
          BY <1>5, <2>1, <3>2
        <4> QED
          BY <4>1, <4>2 DEF Circle
      <3> QED
        BY <3>3 DEF AInv, Acyclic
    <2> QED
      BY <2>2, <2>3
  <1>16. Unfounded'
    <2> SUFFICES ASSUME NEW m \in Risky PROVE deps'[m] \cap Fresh = {}
      BY <1>7, <1>9 DEF Unfounded
    <2> QED
      BY <1>5, <1>7, <1>10 DEF AInv, Unfounded
  <1>17. Behind'
    BY <1>7, <1>8, <1>9 DEF AInv, Behind, Targets
  <1>18. Turned'
    BY <1>8 DEF Turned
  <1> QED
    BY <1>12, <1>13, <1>14, <1>15, <1>16, <1>17, <1>18 DEF AInv

LEMMA AInvInitially == Init => AInv
  <1> SUFFICES ASSUME Init PROVE AInv
    OBVIOUS
  <1>1. Alive = {}
    BY DEF Init, Alive, Planned
  <1>2. Risky = {}
    BY <1>1 DEF Risky
  <1>3. Fitting /\ Declared
    BY DEF Init, Fitting, Looks, Declared
  <1>4. Path /\ Turned
    BY DEF Init, Path, Simple, Linked, Turned
  <1>5. Acyclic /\ Unfounded
    BY <1>2 DEF Acyclic, Circle, Unfounded
  <1>6. Behind
    BY <1>2 DEF Behind
  <1> QED
    BY <1>3, <1>4, <1>5, <1>6 DEF AInv

LEMMA StepRisksNothing ==
  ASSUME SoundReleases, IInv, EInv, AInv, [Next]_vars
  PROVE  AInv'
  <1>1. CASE \E w \in workers : Worker(w)
    BY <1>1, WorkersRiskNothing
  <1>2. CASE \/ \E n \in Node : TeardownEnds(n)
             \/ \E c \in Caller : EvictBegins(c) \/ EvictEnds(c)
             \/ CloseActor \/ CleanupBegins \/ UNCHANGED vars
    BY <1>2, OthersRiskNothing
  <1>3. CASE \E c \in Caller : PlanEnds(c) \/ LookUp(c) \/ SubmitById(c)
    BY <1>3, CallersRiskNothing
  <1>4. CASE InvalidateUnowned \/ Invalidate
    BY <1>4, InvalidationsRiskNothing
  <1>5. CASE EvictUnowned \/ CleanupEnds
    BY <1>5, ForgetsRiskNothing
  <1>6. CASE \E c \in Caller : Leave(c)
    BY <1>6, LeavesRiskNothing
  <1>7. CASE VisitNext \/ \E c \in Caller : PlanBegins(c)
    BY <1>7, VisitsRiskNothing
  <1>8. CASE RecordEdge \/ RecordDependencies
    BY <1>8, RecordEdgeRisksNothing, RecordDependenciesRisksNothing
  <1> QED
    BY <1>1, <1>2, <1>3, <1>4, <1>5, <1>6, <1>7, <1>8 DEF Next, Runtime, Planner, Begins

\* Whatever plans declare, and wherever they are interrupted, nodes that can be
\* acquired never depend on each other in a circle, when evictions are whole and
\* only nodes on no cycle are released (plan.ts: markCycleInvalid, the order in
\* which planNode records dependencies).
THEOREM CirclesAreInvalid == WholeEvictions /\ SoundReleases => (Spec => []AcyclicWiring)
  <1> SUFFICES ASSUME WholeEvictions, SoundReleases PROVE Spec => []AcyclicWiring
    OBVIOUS
  <1>1. IInv /\ EInv /\ [Next]_vars => EInv'
    BY StepWires
  <1>2. IInv /\ EInv /\ AInv /\ [Next]_vars => AInv'
    BY StepRisksNothing
  <1>3. AInv => AcyclicWiring
    BY CirclesAreTied DEF AInv
  <1> QED
    BY <1>1, <1>2, <1>3, EInvInitially, AInvInitially, Invariance, PTL DEF Spec

\* What the graph_wiring run checks, for every graph and every calls that the
\* two hypotheses admit: dependents are found by evictions and none waits for
\* itself (eviction.ts:71-100, plan.ts: planNode, markCycleInvalid).
THEOREM WiringStaysSound == WholeEvictions /\ SoundReleases => (Spec => []SoundWiring)
  <1>1. EdgesCoverDependencies /\ AcyclicWiring => SoundWiring
    BY DEF SoundWiring
  <1> QED
    BY <1>1, EvictionsFindDependents, CirclesAreInvalid, PTL
=============================================================================
