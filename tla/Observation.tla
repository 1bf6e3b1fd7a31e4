----------------------------- MODULE Observation -----------------------------
(***************************************************************************)
(* Liveness demand that follows MobX observation, composed with the live   *)
(* resource it drives.  Every ready node tells a reporter of its own       *)
(* (liveness/resultObservationBridge.ts) which of its fields are observed. *)
(* Reports arrive synchronously and back to back; the reporter takes them  *)
(* one at a time and turns each into the acquisition or the release of a   *)
(* lease, an operation of LiveResource that waits for the permit like any  *)
(* other.  The node of one incarnation may still be reporting when the     *)
(* node of the next is observed.                                           *)
(*                                                                         *)
(* The field "result" is reported by NodeBase (node/runtime.ts), the other *)
(* fields by hooks the author registers and the runtime removes before it  *)
(* closes the node.                                                        *)
(***************************************************************************)
EXTENDS LiveResource, Sequences

CONSTANTS
  Reports,      \* the operations that reporters submit, the rest are direct
  Mixes,        \* who meets whom: operations, and why the actor closes
  Before,       \* pairs of operations that are submitted in this order
  ResultScope,  \* {field: "result"}
  MaxNodes      \* bound on incarnations

Node == 1..MaxNodes
None == "none"

ASSUME ReportsAssumption ==
  /\ Reports \subseteq DOMAIN LeaseOf
  /\ \A m \in Mixes : m.ops \subseteq Op /\ m.closes \subseteq CloseReasons
  /\ None \notin Op
\* Every acquisition makes a lease of its own, which only its reporter gives back.
ASSUME LeasesAssumption ==
  /\ IsFiniteSet(Reports)
  /\ \A o, p \in DOMAIN LeaseOf :
       KindOf[o] = "hold" /\ KindOf[p] = "hold" /\ LeaseOf[o] = LeaseOf[p] => o = p
  /\ \A o \in DOMAIN LeaseOf \ Reports : \A p \in Reports : LeaseOf[o] # LeaseOf[p]
  /\ \A o \in Reports : \E p \in Reports : KindOf[p] = "drop" /\ LeaseOf[p] = LeaseOf[o]
ASSUME NodesAssumption == MaxNodes \in Nat /\ ResultScope \in Scope

VARIABLES
  mix,
  node,      \* how many nodes were constructed
  open,      \* the last of them is not closed
  observed,  \* its fields that MobX observes
  reported,  \* _resultObservationReported
  sync,      \* reports each reporter has not come to
  task,      \* the report it is at, and the operation it awaits
  held       \* the leases it knows it holds

nodeVars == <<node, open, observed, reported>>
reporterVars == <<sync, task, held>>
allVars == <<mix, vars, nodeVars, reporterVars>>

Report(scope, isObserved) == [scope |-> scope, observed |-> isObserved]
NoTask == [op |-> None, report |-> Report(ResultScope, FALSE)]

ObservationInit ==
  /\ Init
  /\ mix \in Mixes
  /\ node = 0 /\ open = FALSE
  /\ observed = {} /\ reported = FALSE
  /\ sync = [n \in Node |-> <<>>]
  /\ task = [n \in Node |-> NoTask]
  /\ held = [n \in Node |-> {}]

-----------------------------------------------------------------------------
(* The node and what observes it *)

\* Operations a reporter has left for the scope: a bound of the instance.
Holds(scope) ==
  {o \in Reports \cap mix.ops : KindOf[o] = "hold" /\ pc[o] = "none" /\ ScopeOf[LeaseOf[o]] = scope}
\* The reports of it that are on their way, each by its reporter and its place.
Pending(scope) ==
  UNION {{n} \X {i \in DOMAIN sync[n] : sync[n][i] = Report(scope, TRUE)} : n \in Node}
Room(scope) == Cardinality(Pending(scope)) < Cardinality(Holds(scope))

Enqueue(scope, isObserved) ==
  sync' = [sync EXCEPT ![node] = Append(@, Report(scope, isObserved))]

\* onBecomeObserved: an open node reports what became observed.
BecomesObserved(scope) ==
  /\ open /\ scope \notin observed /\ Room(scope)
  /\ observed' = observed \cup {scope}
  /\ reported' = (reported \/ scope = ResultScope)
  /\ Enqueue(scope, TRUE)
  /\ UNCHANGED <<mix, vars, node, open, task, held>>

BecomesUnobserved(scope) ==
  /\ open /\ scope \in observed
  /\ observed' = observed \ {scope}
  /\ reported' = (reported /\ scope # ResultScope)
  /\ Enqueue(scope, FALSE)
  /\ UNCHANGED <<mix, vars, node, open, task, held>>

\* The commit of an acquire constructs a node with a reporter of its own.
Constructed ==
  /\ node < MaxNodes
  /\ node' = node + 1
  /\ open' = TRUE /\ observed' = {} /\ reported' = FALSE
  /\ UNCHANGED sync

\* _closeRuntimeNode gives the observation of the result back; the hooks of the
\* other fields are gone by then.
CloseRuntimeNode ==
  /\ open' = FALSE /\ observed' = {} /\ reported' = FALSE
  /\ IF reported THEN Enqueue(ResultScope, FALSE) ELSE UNCHANGED sync
  /\ UNCHANGED node

\* A step of the live resource makes or closes the node when it commits or
\* discards ready data.
NodeFollows ==
  /\ \/ phase # "Ready" /\ phase' = "Ready" /\ Constructed
     \/ phase = "Ready" /\ phase' # "Ready" /\ CloseRuntimeNode
     \/ (phase = "Ready" <=> phase' = "Ready") /\ UNCHANGED <<nodeVars, sync>>
  /\ UNCHANGED <<mix, task, held>>

-----------------------------------------------------------------------------
(* Reporters *)

HeldFor(n, scope) == {l \in held[n] : ScopeOf[l] = scope}

\* The operations a report comes down to, none if the lease is as reported.
AcquireObserved(n, scope) == IF HeldFor(n, scope) = {} THEN Holds(scope) ELSE {}
ReleaseObserved(n, scope) ==
  {o \in Reports : KindOf[o] = "drop" /\ LeaseOf[o] \in HeldFor(n, scope)}

Submissions(n, report) ==
  IF report.observed THEN AcquireObserved(n, report.scope)
                     ELSE ReleaseObserved(n, report.scope)

\* reportResultObserved: an operation of its own, which waits for the planning
\* semaphore while the actor is being closed.
ReportSubmits(n) ==
  /\ task[n].op = None /\ sync[n] # <<>>
  /\ LET report == Head(sync[n])
         o == CHOOSE any \in Submissions(n, report) : TRUE
     IN  /\ Submissions(n, report) # {}
         /\ Submit(o)
         /\ task' = [task EXCEPT ![n] = [op |-> o, report |-> report]]
  /\ sync' = [sync EXCEPT ![n] = Tail(@)]
  /\ UNCHANGED <<mix, nodeVars, held>>

\* A mutant: a report looks for its lease before the last one has answered.
ReportSkipsAtOnce(n) ==
  /\ sync[n] # <<>>
  /\ Submissions(n, Head(sync[n])) = {}
  /\ sync' = [sync EXCEPT ![n] = Tail(@)]
  /\ UNCHANGED <<mix, vars, nodeVars, task, held>>

\* Nothing to do: the lease is held already, or there is none.
ReportSkips(n) ==
  /\ task[n].op = None /\ sync[n] # <<>>
  /\ Submissions(n, Head(sync[n])) = {}
  /\ sync' = [sync EXCEPT ![n] = Tail(@)]
  /\ UNCHANGED <<mix, vars, nodeVars, task, held>>

\* An evicted node is missing: the reporter forgets the lease.
ReportMisses(n) ==
  /\ task[n].op = None /\ sync[n] # <<>>
  /\ closed /\ reason = "closed" /\ phase = "Idle" /\ holder = "nobody"
  /\ held' = [held EXCEPT ![n] = @ \ HeldFor(n, Head(sync[n]).scope)]
  /\ sync' = [sync EXCEPT ![n] = Tail(@)]
  /\ UNCHANGED <<mix, vars, nodeVars, task>>

\* The awaited operation has ended: it answers with the lease, or with none
\* when it was interrupted or gave the lease back.
ReportEnds(n) ==
  LET o == task[n].op IN
  /\ o # None /\ pc[o] = "done"
  /\ held' = [held EXCEPT ![n] =
       IF task[n].report.observed /\ handler[o] = "idle"
         THEN @ \cup {LeaseOf[o]}
         ELSE @ \ HeldFor(n, task[n].report.scope)]
  /\ task' = [task EXCEPT ![n] = NoTask]
  /\ UNCHANGED <<mix, vars, nodeVars, sync>>

-----------------------------------------------------------------------------
(* Specification *)

InTurn(o) == \A p \in mix.ops : <<p, o>> \in Before => pc[p] # "none"

Resources ==
  /\ \/ \E o \in mix.ops \ Reports : Submit(o) /\ InTurn(o)
     \/ \E r \in Resource : OrphanAnswers(r) \/ DetachedStopEnds(r)
     \/ \E why \in mix.closes : Close(why)
  /\ NodeFollows

Reporter(n) == ReportSubmits(n) \/ ReportSkips(n) \/ ReportMisses(n) \/ ReportEnds(n)

Progresses ==
  \/ Progress /\ NodeFollows
  \/ \E n \in Node : Reporter(n)

ObservationNext ==
  \/ Resources \/ Progresses
  \/ \E s \in Scope : BecomesObserved(s) \/ BecomesUnobserved(s)

ObservationSpec == ObservationInit /\ [][ObservationNext]_allVars

\* The scheduler does not idle while a fiber can run, live hooks end because the
\* live timeout bounds them, and promise chains go on by themselves.
ObservationFairSpec == ObservationSpec /\ WF_allVars(Progresses)

-----------------------------------------------------------------------------
(* Properties *)

ObservationTypeOK ==
  /\ TypeOK
  /\ node \in 0..MaxNodes
  /\ open \in BOOLEAN /\ reported \in BOOLEAN
  /\ observed \subseteq Scope
  /\ held \in [Node -> SUBSET Lease]
  /\ \A n \in Node : task[n].op \in Reports \cup {None}

\* No report is on its way.
Settled == \A n \in Node : sync[n] = <<>> /\ task[n].op = None

Reported == {LeaseOf[o] : o \in Reports}

\* However fast the result of a node is observed and let go, and the node is
\* released and acquired again: once the reports have been taken, every lease
\* they led to is known to its reporter, and there is one for the result exactly
\* when somebody observes the node that is there (resultObservationBridge.ts:58).
ResultDemandFollows ==
  Settled /\ ~closed =>
    /\ leases \cap Reported = UNION {held[n] : n \in Node}
    /\ ResultScope \in Demand(leases \cap Reported) <=> open /\ ResultScope \in observed

\* The same of every field, as fine-liveness-composition.test.ts observes of a
\* node that is never released.
FieldDemandFollows ==
  Settled /\ ~closed => Demand(leases \cap Reported) = IF open THEN observed ELSE {}
=============================================================================
