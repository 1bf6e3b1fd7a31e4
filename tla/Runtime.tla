------------------------------ MODULE Runtime -------------------------------
(***************************************************************************)
(* The runtime host (runtime/host.ts) over one node of its graph: commands *)
(* are admitted by the host's status, registered by the operation starts   *)
(* (operationStarts.ts), admitted to the node's actor by policy            *)
(* (systemCommands.ts, admissionRegistration.ts), reported in the event    *)
(* log, and ended by an interruption of their caller or by a stop.         *)
(*                                                                         *)
(* Commands are admitted before and after a start alike, so start is left  *)
(* out.  The node stays ready: CellActor and NodeCell say more about the   *)
(* actor and the cell.  An event is recorded together with its observer's  *)
(* bookkeeping; sinks then suspend whoever emitted it.                     *)
(***************************************************************************)
EXTENDS Naturals, SequencesExt

CONSTANTS
  Command,   \* the commands submitted to the node
  Stopper,   \* the callers of stop
  Key,       \* what a command asks for: the node's actions, its refresh, its args
  KindOf,    \* "action" | "refresh" | "args"
  PolicyOf,  \* "queue" | "join" | "reject"
  Scenario,  \* each command's key and whether the node's own code submits it, who
             \* calls at all, and whether the node is found
  None,
  Fresh      \* work made for an event whose command is not known: the work of a
             \* command is made as it is submitted, and the command stands for it

ASSUME RuntimeAssumption ==
  /\ KindOf \in [Key -> {"action", "refresh", "args"}]
  /\ PolicyOf \in [Key -> {"queue", "join", "reject"}]
  /\ \A k \in Key : /\ KindOf[k] = "refresh" => PolicyOf[k] = "join"
                    /\ KindOf[k] = "args" => PolicyOf[k] = "queue"
  /\ Scenario \subseteq [key : [Command -> Key], own : SUBSET Command,
                          calls : SUBSET (Command \cup Stopper), found : BOOLEAN]
  /\ \A s \in Scenario : \A c \in s.own : KindOf[s.key[c]] = "action"
  /\ {None, Fresh} \cap Command = {} /\ None # Fresh

VARIABLES
  call,         \* the scenario
  status,       \* the host's status: "open" until it is "stopped"
  stopping,     \* the owner of the stop, see Stops
  stopper,      \* the callers of stop: "new" | "waiting" | "answered"
  subscribed,   \* the host still observes the graph
  closed,       \* the registry and the node's actor are closed
  caller,       \* the commands' callers, see Callers
  task,         \* the command whose reply a caller awaits
  worker,       \* the commands' workers in the actor, see Workers
  handler,      \* who interrupts a command: "none" | "caller" | "stop"
  settled,      \* the latch: the command's reply is given
  pending,      \* the registered starts of each key, first come first served
  active,       \* the work recorded for the operation a worker runs
  admitted,     \* the task a keyed admission holds, for each key
  startedAs,    \* the work the started event of a command's operation carries
  completedAs   \* the works its completion events carry

host == <<status, stopping, stopper, subscribed, closed>>
work == <<pending, active, startedAs, completedAs>>
vars == <<call, host, caller, task, worker, handler, settled, admitted, work>>

Callers == {"new", "registered", "waiting", "reporting", "leaving", "returned", "refused"}
Workers == {"none", "queued", "operating", "settling", "reported", "ended"}
Stops == {"none", "claimed", "closing", "reporting", "done"}

Init ==
  /\ call \in Scenario
  /\ status = "open" /\ stopping = "none"
  /\ stopper = [s \in Stopper |-> "new"]
  /\ subscribed = TRUE /\ closed = FALSE
  /\ caller = [c \in Command |-> "new"]
  /\ task = [c \in Command |-> None]
  /\ worker = [c \in Command |-> "none"]
  /\ handler = [c \in Command |-> "none"]
  /\ settled = [c \in Command |-> FALSE]
  /\ pending = [k \in Key |-> <<>>]
  /\ active = [c \in Command |-> None]
  /\ admitted = [k \in Key |-> None]
  /\ startedAs = [c \in Command |-> None]
  /\ completedAs = [c \in Command |-> {}]

KeyOf(c) == call.key[c]
IsAction(c) == KindOf[KeyOf(c)] = "action"
Keyed(c) == PolicyOf[KeyOf(c)] # "queue"

\* Only these may be aborted by their awaiter: nobody else awaits them.
Interruptible(c) == IsAction(c) /\ PolicyOf[KeyOf(c)] # "join"

Live(c) == worker[c] \notin {"none", "ended"}
Holding(c) == worker[c] \in {"operating", "settling", "reported"}
PermitFree == \A c \in Command : ~Holding(c)

-----------------------------------------------------------------------------
(* operationStarts.ts *)

\* The first registered start of a key, and its queue without it.
Foremost(k) == IF pending[k] = <<>> THEN Fresh ELSE Head(pending[k])
Taken(k) == [pending EXCEPT ![k] = IF @ = <<>> THEN @ ELSE Tail(@)]

Registered(c) == [pending EXCEPT ![KeyOf(c)] = Append(@, c)]

\* By the registration's id, which no other has.
Withdrawn(c) ==
  LET places == {i \in DOMAIN pending[KeyOf(c)] : pending[KeyOf(c)][i] = c}
  IN  IF places = {} THEN pending
      ELSE [pending EXCEPT ![KeyOf(c)] = RemoveAt(@, CHOOSE i \in places : TRUE)]

takeActiveAction(op) == [active EXCEPT ![op] = None]

RecordStarted(c) ==
  IF subscribed
  THEN /\ startedAs' = [startedAs EXCEPT ![c] = Foremost(KeyOf(c))]
       /\ pending' = Taken(KeyOf(c))
       /\ active' = IF IsAction(c) THEN [active EXCEPT ![c] = Foremost(KeyOf(c))] ELSE active
       /\ UNCHANGED completedAs
  ELSE UNCHANGED work

\* The completion of c, reported with operation op: an operation that is not
\* known, or not given, is answered with the first start still registered.
RecordActionCompleted(c, op) ==
  LET known == op # None /\ active[op] # None
  IN  IF subscribed
      THEN /\ completedAs' = [completedAs EXCEPT ![c] =
                @ \cup {IF known THEN active[op] ELSE Foremost(KeyOf(c))}]
           /\ active' = IF known THEN takeActiveAction(op) ELSE active
           /\ pending' = IF known THEN pending ELSE Taken(KeyOf(c))
           /\ UNCHANGED startedAs
      ELSE UNCHANGED work

-----------------------------------------------------------------------------
(* Interruption *)

\* The node's phase is Operating with an action.
CurrentAction ==
  LET running == {c \in Command : worker[c] = "operating" /\ IsAction(c)}
  IN  IF running = {} THEN None ELSE CHOOSE c \in running : TRUE

Settle(c) == settled' = [settled EXCEPT ![c] = TRUE]

\* The admission registered for c ends with it, whoever settles it.
Cleared(c) == [k \in Key |-> IF admitted[k] = c THEN None ELSE admitted[k]]

\* A mutant: an interrupted action is not reported.
CompleteInterruptedQuietly(c) ==
  /\ Settle(c)
  /\ UNCHANGED work

\* A command's interruption gives its reply and reports an action completed:
\* with the operation the node runs, whoever's it is.
CompleteInterrupted(c) ==
  /\ Settle(c)
  /\ IF IsAction(c) THEN RecordActionCompleted(c, CurrentAction) ELSE UNCHANGED work

\* interruptOnce by whoever gets the latch first.
InterruptOnce(c, by) ==
  /\ Live(c) /\ ~settled[c]
  /\ handler' = [handler EXCEPT ![c] = by]
  /\ CompleteInterrupted(c)

\* The handler's event has passed the sinks: clear the admission and interrupt
\* the worker, whose operation fails without a word.
Cut(c) ==
  /\ handler[c] \in {"caller", "stop"}
  /\ handler' = [handler EXCEPT ![c] = "none"]
  /\ admitted' = Cleared(c)
  /\ worker' = [worker EXCEPT ![c] = "ended"]
  /\ UNCHANGED <<call, host, caller, task, settled, work>>

-----------------------------------------------------------------------------
(* Commands *)

Call(c, becomes) ==
  /\ caller[c] = "new" /\ c \in call.calls
  /\ caller' = [caller EXCEPT ![c] = becomes]
  /\ UNCHANGED <<call, host, task, worker, handler, settled, admitted, active, startedAs,
                 completedAs>>

Submit(c) ==
  /\ c \notin call.own /\ status # "stopped"
  /\ Call(c, "registered")
  /\ pending' = Registered(c)

Refuse(c) ==
  /\ c \notin call.own /\ status = "stopped"
  /\ Call(c, "refused")
  /\ UNCHANGED pending

\* The node's own code passes the host's admission unasked, and nobody registers
\* its start.
SubmitOwn(c) ==
  /\ c \in call.own
  /\ Call(c, "registered")
  /\ UNCHANGED pending

Await(c, t) ==
  /\ caller[c] = "registered"
  /\ caller' = [caller EXCEPT ![c] = "waiting"]
  /\ task' = [task EXCEPT ![c] = t]
  /\ UNCHANGED <<call, host, handler>>

\* The target has no cell. An action is reported completed all the same.
ActionMissing(c) ==
  /\ IsAction(c)
  /\ RecordActionCompleted(c, None)

RefreshMissing(c) ==
  /\ KindOf[KeyOf(c)] = "refresh"
  /\ pending' = Withdrawn(c)
  /\ UNCHANGED <<active, startedAs, completedAs>>

\* Or its args are those of another node.
ArgsMissing(c) ==
  /\ KindOf[KeyOf(c)] = "args"
  /\ UNCHANGED work

FindMissing(c) ==
  /\ ~call.found
  /\ Await(c, c)
  /\ Settle(c)
  /\ ActionMissing(c) \/ RefreshMissing(c) \/ ArgsMissing(c)
  /\ UNCHANGED <<worker, admitted>>

Busy(c) == Keyed(c) /\ admitted[KeyOf(c)] # None
Accepts(c) == call.found /\ ~Busy(c)

\* Within the planning permit. A joined refresh withdraws its start, a joined
\* action does not.
Join(c) ==
  /\ Busy(c) /\ PolicyOf[KeyOf(c)] = "join"
  /\ Await(c, admitted[KeyOf(c)])
  /\ pending' = IF KindOf[KeyOf(c)] = "refresh" THEN Withdrawn(c) ELSE pending
  /\ UNCHANGED <<worker, settled, admitted, active, startedAs, completedAs>>

\* A concurrent request is rejected: completed at once, without an operation.
Reject(c) ==
  /\ Busy(c) /\ PolicyOf[KeyOf(c)] = "reject"
  /\ Await(c, c)
  /\ Settle(c)
  /\ RecordActionCompleted(c, None)
  /\ UNCHANGED <<worker, admitted>>

\* A mutant: a keyed action is admitted without a look at what runs.
EnterBeside(c) ==
  /\ call.found /\ ~closed
  /\ Await(c, c)
  /\ worker' = [worker EXCEPT ![c] = "queued"]
  /\ admitted' = IF Keyed(c) THEN [admitted EXCEPT ![KeyOf(c)] = c] ELSE admitted
  /\ UNCHANGED <<settled, work>>

Enter(c) ==
  /\ Accepts(c) /\ ~closed
  /\ Await(c, c)
  /\ worker' = [worker EXCEPT ![c] = "queued"]
  /\ admitted' = IF Keyed(c) THEN [admitted EXCEPT ![KeyOf(c)] = c] ELSE admitted
  /\ UNCHANGED <<settled, work>>

\* A mutant: the closed registry's task is never interrupted.
FindSilence(c) ==
  /\ Accepts(c) /\ closed
  /\ Await(c, c)
  /\ UNCHANGED <<worker, settled, admitted, work>>

\* closedCellTask: the task is interrupted where it would have been accepted,
\* and its admission is cleared before it is registered.
FindClosed(c) ==
  /\ Accepts(c) /\ closed
  /\ Await(c, c)
  /\ CompleteInterrupted(c)
  /\ UNCHANGED <<worker, admitted>>

ActionAnswered(c) ==
  /\ IsAction(c)
  /\ caller' = [caller EXCEPT ![c] = "returned"]
  /\ pending' = Withdrawn(c)

\* Who started a refresh reports its end before the registration ends.
RefreshAnswered(c) ==
  /\ KindOf[KeyOf(c)] = "refresh"
  /\ IF call.found /\ task[c] = c
     THEN caller' = [caller EXCEPT ![c] = "reporting"] /\ UNCHANGED pending
     ELSE caller' = [caller EXCEPT ![c] = "returned"] /\ pending' = Withdrawn(c)

\* The end of an args update is reported after it.
ArgsAnswered(c) ==
  /\ KindOf[KeyOf(c)] = "args"
  /\ caller' = [caller EXCEPT ![c] = "reporting"]
  /\ pending' = Withdrawn(c)

Resume(c) ==
  /\ caller[c] = "waiting" /\ settled[task[c]]
  /\ ActionAnswered(c) \/ RefreshAnswered(c) \/ ArgsAnswered(c)
  /\ UNCHANGED <<call, host, task, worker, handler, settled, admitted, active, startedAs,
                 completedAs>>

AtEnd(c) ==
  \/ caller[c] = "reporting"
  \/ caller[c] = "leaving" /\ handler[c] # "caller"

\* `ensuring`: however the command ended, its registration goes.
Return(c) ==
  /\ AtEnd(c)
  /\ caller' = [caller EXCEPT ![c] = "returned"]
  /\ pending' = Withdrawn(c)
  /\ UNCHANGED <<call, host, task, worker, handler, settled, admitted, active, startedAs,
                 completedAs>>

\* The caller is interrupted. A task that is its own dies with it.
Leave(c) ==
  /\ caller[c] \in {"registered", "waiting", "reporting"}
  /\ caller' = [caller EXCEPT ![c] = "leaving"]
  /\ \/ caller[c] = "waiting" /\ Interruptible(c) /\ InterruptOnce(c, "caller")
     \/ /\ caller[c] # "waiting" \/ ~Interruptible(c) \/ settled[c]
        /\ UNCHANGED <<handler, settled, work>>
  /\ UNCHANGED <<call, host, task, worker, admitted>>

-----------------------------------------------------------------------------
(* Workers *)

\* The worker takes the permit: its operation begins, and is reported.
Begin(c) ==
  /\ worker[c] = "queued" /\ PermitFree /\ ~closed
  /\ worker' = [worker EXCEPT ![c] = "operating"]
  /\ RecordStarted(c)
  /\ UNCHANGED <<call, host, caller, task, handler, settled, admitted>>

\* The worker takes the permit of a closed actor, and settles what close has
\* not come to yet.
Withdraw(c) ==
  /\ worker[c] = "queued" /\ PermitFree /\ closed
  /\ worker' = [worker EXCEPT ![c] = "ended"]
  /\ IF settled[c]
     THEN UNCHANGED <<settled, admitted, work>>
     ELSE CompleteInterrupted(c) /\ admitted' = Cleared(c)
  /\ UNCHANGED <<call, host, caller, task, handler>>

\* The body answers: the operation leaves the phase, and the sinks hear of it.
\* Only an action's end is reported by its worker.
Finish(c) ==
  /\ worker[c] = "operating"
  /\ worker' = [worker EXCEPT ![c] = IF IsAction(c) THEN "settling" ELSE "reported"]
  /\ UNCHANGED <<call, host, caller, task, handler, settled, admitted, work>>

Report(c) ==
  /\ worker[c] = "settling"
  /\ worker' = [worker EXCEPT ![c] = "reported"]
  /\ RecordActionCompleted(c, c)
  /\ UNCHANGED <<call, host, caller, task, handler, settled, admitted>>

Answer(c) ==
  /\ worker[c] = "reported"
  /\ worker' = [worker EXCEPT ![c] = "ended"]
  /\ IF settled[c]
     THEN UNCHANGED <<settled, admitted>>
     ELSE Settle(c) /\ admitted' = Cleared(c)
  /\ UNCHANGED <<call, host, caller, task, handler, work>>

-----------------------------------------------------------------------------
(* Stop *)

rest == <<call, caller, task, worker, handler, settled, admitted, work>>

\* The first caller's stop is detached: it goes on if that caller leaves. Every
\* caller awaits it.
Stop(s) ==
  /\ stopper[s] = "new" /\ s \in call.calls
  /\ stopper' = [stopper EXCEPT ![s] = "waiting"]
  /\ stopping' = IF stopping = "none" THEN "claimed" ELSE stopping
  /\ status' = "stopped"
  /\ UNCHANGED <<subscribed, closed, rest>>

\* A mutant: a stop that is under way is acknowledged at once.
StopAnsweredEarly(s) ==
  /\ stopper[s] = "waiting" /\ stopping # "claimed"
  /\ stopper' = [stopper EXCEPT ![s] = "answered"]
  /\ UNCHANGED <<status, stopping, subscribed, closed, rest>>

StopAnswered(s) ==
  /\ stopper[s] = "waiting" /\ stopping = "done"
  /\ stopper' = [stopper EXCEPT ![s] = "answered"]
  /\ UNCHANGED <<status, stopping, subscribed, closed, rest>>

\* Within the planning permit the registry closes, and with it the actor.
CloseActors ==
  /\ stopping = "claimed"
  /\ stopping' = "closing"
  /\ closed' = TRUE
  /\ UNCHANGED <<status, stopper, subscribed, rest>>

\* close interrupts whatever the actor had accepted.
CloseInterrupts(c) ==
  /\ stopping = "closing"
  /\ InterruptOnce(c, "stop")
  /\ UNCHANGED <<call, host, caller, task, worker, admitted>>

\* close has returned, the cleanup has had the permit and the actor's scope has
\* closed, so its workers are gone: the host unsubscribes.
CleanUp ==
  /\ stopping = "closing"
  /\ \A c \in Command : ~Live(c) /\ handler[c] # "stop"
  /\ stopping' = "reporting"
  /\ subscribed' = FALSE
  /\ UNCHANGED <<status, stopper, closed, rest>>

\* Cleanup failures, GraphSystemStopped and RuntimeStopped have been emitted.
ReportStopped ==
  /\ stopping = "reporting"
  /\ stopping' = "done"
  /\ UNCHANGED <<status, stopper, subscribed, closed, rest>>

-----------------------------------------------------------------------------

Admit(c) == FindMissing(c) \/ Join(c) \/ Reject(c) \/ Enter(c) \/ FindClosed(c)
Work(c) == Begin(c) \/ Withdraw(c) \/ Finish(c) \/ Report(c) \/ Answer(c)

\* What the scheduler runs once it has been called for.
Run ==
  \/ \E c \in Command :
       Admit(c) \/ Resume(c) \/ Return(c) \/ Work(c) \/ Cut(c) \/ CloseInterrupts(c)
  \/ \E s \in Stopper : StopAnswered(s)
  \/ CloseActors \/ CleanUp \/ ReportStopped

Next ==
  \/ \E c \in Command : Submit(c) \/ Refuse(c) \/ SubmitOwn(c) \/ Leave(c)
  \/ \E s \in Stopper : Stop(s)
  \/ Run

Spec == Init /\ [][Next]_vars

\* Bodies, sinks and cleanups end and everything that can run does: each call
\* has finitely many steps, so that one condition is enough. Nobody has to call
\* or to leave.
FairSpec == Spec /\ WF_vars(Run)

-----------------------------------------------------------------------------
(* Properties *)

TypeOK ==
  /\ call \in Scenario
  /\ status \in {"open", "stopped"}
  /\ stopping \in Stops
  /\ stopper \in [Stopper -> {"new", "waiting", "answered"}]
  /\ subscribed \in BOOLEAN /\ closed \in BOOLEAN
  /\ caller \in [Command -> Callers]
  /\ task \in [Command -> Command \cup {None}]
  /\ worker \in [Command -> Workers]
  /\ handler \in [Command -> {"none", "caller", "stop"}]
  /\ settled \in [Command -> BOOLEAN]
  /\ pending \in [Key -> Seq(Command)]
  /\ active \in [Command -> Command \cup {Fresh, None}]
  /\ admitted \in [Key -> Command \cup {None}]
  /\ startedAs \in [Command -> Command \cup {Fresh, None}]
  /\ completedAs \in [Command -> SUBSET (Command \cup {Fresh})]

InFlight(c) == caller[c] \in {"registered", "waiting", "reporting", "leaving"}

\* No event can take the work of a command that is over: a registered start
\* belongs to a command in flight, of that key, and is registered once.
RegisteredIsInFlight ==
  \A k \in Key :
    /\ IsInjective(pending[k])
    /\ \A c \in Range(pending[k]) : InFlight(c) /\ KeyOf(c) = k

\* Of the commands that join or reject one another at most one is unanswered:
\* whoever starts beside another has seen that one answered.
OneRunPerKey ==
  \A c, d \in Command :
    /\ Keyed(c) /\ KeyOf(c) = KeyOf(d)
    /\ Live(c) /\ Live(d) /\ ~settled[c] /\ ~settled[d]
    => c = d

\* Whoever is told that the runtime has stopped finds it stopped: the graph is
\* at rest and stays so, and every event of the stop is recorded.
StopMeansStopped ==
  (\E s \in Stopper : stopper[s] = "answered") =>
    /\ stopping = "done" /\ status = "stopped"
    /\ \A c \in Command : ~Live(c)

\* An action whose start was reported is reported completed, though its caller
\* or a stop ends it.
StartsAreCompleted ==
  \A c \in Command :
    IsAction(c) /\ worker[c] = "ended" /\ startedAs[c] # None => completedAs[c] # {}

\* Every command returns to its caller, and every caller of stop is answered,
\* whatever was joined, rejected, interrupted or stopped: calls are finitely
\* many, so in the end nobody waits.
EveryCallerReturns ==
  <>[](/\ \A c \in Command : ~InFlight(c)
       /\ \A s \in Stopper : stopper[s] # "waiting")

\* "Every event belonging to one workId, which is one whole acquire/refresh/action
\* cascade" (apps/hub/README.md): an action is reported completed as the work of
\* the command that asked for it; one that the node's own code asked for has work
\* of its own.
CompletionsCarryTheirWork ==
  \A c \in Command : completedAs[c] \subseteq {IF c \in call.own THEN Fresh ELSE c}
=============================================================================
