------------------------------- MODULE Disposers -------------------------------
(***************************************************************************)
(* Who owns a disposer, and who runs it.  Driver code registers cleanup    *)
(* functions through the bag of its operation (operationDisposers.ts); an  *)
(* acquire hands its bag to the registry of the ready incarnation it       *)
(* commits (disposers.ts), a refresh or an action appends to that registry *)
(* when it settles, and the release hook has a registry of its own.  Code  *)
(* that outlives its operation may still add: such an add must run.        *)
(*                                                                         *)
(* One node; incarnations are numbered as they are acquired, and each runs *)
(* at most one operation.  A disposer that throws and one that returns are *)
(* alike for ownership: a failure is reported and the drain goes on.       *)
(***************************************************************************)
EXTENDS Naturals, SequencesExt

CONSTANTS
  Disposer,      \* function objects: the same one may be added twice
  MaxGen,        \* bound on incarnations
  MaxAdds,       \* bound on registrations
  MaxInterrupts  \* bound on interruptions of the worker

Gen == 1..MaxGen
Bag == Gen \X {"acquire", "operation"}

ASSUME BoundsAssumption == MaxGen \in Nat /\ MaxAdds \in Nat /\ MaxInterrupts \in Nat

VARIABLES
  stage,      \* what the worker of the cell does
  gen,        \* the latest incarnation
  bag,        \* the operation bags
  list, settled, \* the registry of each incarnation
  lifetime,   \* its nodeSignal
  hook,       \* the release hook's registry: its list, and whether it is drained
  invoked,    \* the once-only set of each incarnation
  drain,      \* the batch being run: what is left, and the promise awaited
  running,    \* disposers whose promise is pending
  calls, added, forgotten, \* history: invocations, registrations, losses
  adds, interrupts

registry == <<list, settled, lifetime, hook>>
history == <<calls, added, forgotten>>
vars == <<stage, gen, bag, registry, invoked, drain, running, history, adds, interrupts>>

Stage == {"idle", "acquiring", "cleaning", "committed", "ready", "operating",
          "interrupting", "releasing", "hookDrain", "teardown", "torn"}
NoDrain == [rest |-> <<>>, awaits |-> {}]
Drain(batch) == [rest |-> Reverse(batch), awaits |-> {}]
Members(s) == {s[i] : i \in DOMAIN s}

Init ==
  /\ stage = "idle" /\ gen = 0
  /\ bag = [b \in Bag |-> [pending |-> <<>>, reason |-> "none", handedOff |-> FALSE]]
  /\ list = [g \in Gen |-> <<>>] /\ settled = [g \in Gen |-> FALSE]
  /\ lifetime = [g \in Gen |-> "none"]
  /\ hook = [g \in Gen |-> [list |-> <<>>, is |-> "none"]]
  /\ invoked = [g \in Gen |-> {}]
  /\ drain = NoDrain /\ running = {}
  /\ calls = [g \in Gen |-> [d \in Disposer |-> 0]]
  /\ added = {} /\ forgotten = {}
  /\ adds = 0 /\ interrupts = 0

-----------------------------------------------------------------------------
(* Invocation *)

\* A mutant: the once-only set is not consulted.
InvokeAgain(g, d, promise) ==
  /\ invoked' = [invoked EXCEPT ![g] = @ \cup {d}]
  /\ calls' = [calls EXCEPT ![g][d] = @ + 1]
  /\ running' = IF promise THEN running \cup {<<g, d>>} ELSE running

\* invokeDisposerOnce: skipped when the incarnation already ran it; otherwise
\* it returns (or throws) at once or leaves a promise behind.
Invoke(g, d, promise) ==
  IF d \in invoked[g]
  THEN UNCHANGED <<invoked, calls, running>>
  ELSE /\ invoked' = [invoked EXCEPT ![g] = @ \cup {d}]
       /\ calls' = [calls EXCEPT ![g][d] = @ + 1]
       /\ running' = IF promise THEN running \cup {<<g, d>>} ELSE running

\* The next disposer of the batch; its promise is awaited.
RunNext(promise) ==
  /\ drain.rest # <<>> /\ drain.awaits = {}
  /\ LET d == Head(drain.rest)
         waits == promise /\ d \notin invoked[gen]
     IN /\ Invoke(gen, d, promise)
        /\ drain' = [rest |-> Tail(drain.rest),
                     awaits |-> IF waits THEN {d} ELSE {}]
  /\ UNCHANGED <<stage, gen, bag, registry, added, forgotten, adds, interrupts>>

\* The promise settles; the drain goes on if it was waiting for it.
Settle(g, d) ==
  /\ <<g, d>> \in running
  /\ running' = running \ {<<g, d>>}
  /\ drain' = IF g = gen THEN [drain EXCEPT !.awaits = @ \ {d}] ELSE drain
  /\ UNCHANGED <<stage, gen, bag, registry, invoked, history, adds, interrupts>>

\* A mutant: the drain waits for the disposer without a bound.
TimeOutNever == FALSE /\ UNCHANGED vars

\* driverTimeouts.release: the disposer keeps running, the drain goes on.
TimeOut ==
  /\ drain.awaits # {}
  /\ drain' = [drain EXCEPT !.awaits = {}]
  /\ UNCHANGED <<stage, gen, bag, registry, invoked, running, history, adds, interrupts>>

BatchDone == drain.rest = <<>> /\ drain.awaits = {}

-----------------------------------------------------------------------------
(* Registration *)

\* The bag exists: its operation has begun.
Made(b) ==
  /\ b[1] <= gen
  /\ \/ b[2] = "acquire" \/ bag[b].reason # "none"
     \/ b[1] = gen /\ stage = "operating"

\* An add runs the disposer at once if it comes too late to be collected.
Collect(b, d, promise, late) ==
  LET g == b[1] IN
  /\ adds < MaxAdds /\ adds' = adds + 1
  /\ Made(b)
  /\ added' = added \cup {<<b, d>>}
  /\ IF late THEN Invoke(g, d, promise) ELSE UNCHANGED <<invoked, calls, running>>
  /\ bag' = IF late \/ bag[b].handedOff THEN bag
            ELSE [bag EXCEPT ![b].pending = Append(@, d)]
  /\ list' = IF bag[b].handedOff /\ ~late THEN [list EXCEPT ![g] = Append(@, d)] ELSE list
  /\ UNCHANGED <<stage, gen, settled, lifetime, hook, drain, forgotten, interrupts>>

\* A mutant: a handed-off bag does not ask whether the registry has settled.
AddToDeadList(b, d, promise) ==
  Collect(b, d, promise, bag[b].reason # "none")

\* ctx.disposers.add of an operation's bag, by driver code that may have
\* outlived the operation.
Add(b, d, promise) ==
  Collect(b, d, promise,
          \/ bag[b].reason # "none"
          \/ bag[b].handedOff /\ settled[b[1]])

\* The release hook adds to its own list, which is not asked whether it has
\* settled: an add after its drain, from a hook that timed out, is lost.
HookAdd(g, d) ==
  /\ adds < MaxAdds /\ adds' = adds + 1
  /\ hook[g].is # "none"
  /\ added' = added \cup {<<<<g, "hook">>, d>>}
  /\ IF hook[g].is = "open"
     THEN hook' = [hook EXCEPT ![g].list = Append(@, d)] /\ UNCHANGED forgotten
     ELSE UNCHANGED hook /\ forgotten' = forgotten \cup {<<g, d>>}
  /\ UNCHANGED <<stage, gen, bag, list, settled, lifetime, invoked, drain, running,
                 calls, interrupts>>

-----------------------------------------------------------------------------
(* Acquire *)

Current(kind) == <<gen, kind>>

BeginAcquire ==
  /\ stage = "idle" /\ gen < MaxGen
  /\ stage' = "acquiring" /\ gen' = gen + 1
  /\ lifetime' = [lifetime EXCEPT ![gen + 1] = "live"]
  /\ UNCHANGED <<bag, list, settled, hook, invoked, drain, running, history, adds, interrupts>>

\* The ready commit: bag and lifetime go to the ready data.
HandOff ==
  /\ stage = "acquiring" /\ stage' = "committed"
  /\ LET b == Current("acquire") IN
       /\ list' = [list EXCEPT ![gen] = @ \o bag[b].pending]
       /\ bag' = [bag EXCEPT ![b] = [pending |-> <<>>, reason |-> "none", handedOff |-> TRUE]]
  /\ UNCHANGED <<gen, settled, lifetime, hook, invoked, drain, running, history, adds, interrupts>>

\* The attempt answers once demand has been delivered.
AcquireEnds ==
  /\ stage = "committed" /\ stage' = "ready"
  /\ UNCHANGED <<gen, bag, registry, invoked, drain, running, history, adds, interrupts>>

\* drain(reason) of a bag: nothing after a hand-off.
StartDrain(b, why) ==
  IF bag[b].handedOff THEN drain' = NoDrain /\ UNCHANGED bag
  ELSE /\ drain' = Drain(bag[b].pending)
       /\ bag' = [bag EXCEPT ![b].pending = <<>>, ![b].reason = why]

AbortIfUnowned ==
  lifetime' = IF bag[Current("acquire")].handedOff THEN lifetime
              ELSE [lifetime EXCEPT ![gen] = "aborted"]

\* A failed, expired or stale acquire: the signal aborts, then the bag drains.
AcquireFails ==
  /\ stage = "acquiring" /\ stage' = "cleaning"
  /\ AbortIfUnowned
  /\ StartDrain(Current("acquire"), "acquire")
  /\ UNCHANGED <<gen, list, settled, hook, invoked, running, history, adds, interrupts>>

CleaningEnds ==
  /\ stage = "cleaning" /\ BatchDone
  /\ stage' = "idle"
  /\ UNCHANGED <<gen, bag, registry, invoked, drain, running, history, adds, interrupts>>

Losing(s) == forgotten \cup {<<gen, d>> : d \in Members(s)}

\* The worker is interrupted while it acquires, cleans up after a failed
\* acquire, or reports a commit.  Draining already took the bag's contents, so
\* the rest of an interrupted drain is in nobody's hands.
InterruptAcquire ==
  /\ interrupts < MaxInterrupts /\ interrupts' = interrupts + 1
  /\ stage \in {"acquiring", "cleaning", "committed"}
  /\ stage' = "interrupting"
  /\ AbortIfUnowned
  /\ forgotten' = Losing(drain.rest)
  /\ StartDrain(Current("acquire"), "interrupt")
  /\ UNCHANGED <<gen, list, settled, hook, invoked, running, calls, added, adds>>

-----------------------------------------------------------------------------
(* A refresh or an action on the ready node *)

BeginOperation ==
  /\ stage = "ready" /\ bag[Current("operation")].reason = "none"
  /\ stage' = "operating"
  /\ UNCHANGED <<gen, bag, registry, invoked, drain, running, history, adds, interrupts>>

\* It settles, with a result or a failure: take, then append.
OperationEnds ==
  /\ stage = "operating" /\ stage' = "ready"
  /\ LET b == Current("operation") IN
       /\ list' = [list EXCEPT ![gen] = @ \o bag[b].pending]
       /\ bag' = [bag EXCEPT ![b].pending = <<>>, ![b].reason = "settled"]
  /\ UNCHANGED <<gen, settled, lifetime, hook, invoked, drain, running, history, adds, interrupts>>

InterruptOperation ==
  /\ interrupts < MaxInterrupts /\ interrupts' = interrupts + 1
  /\ stage = "operating" /\ stage' = "interrupting"
  /\ StartDrain(Current("operation"), "interrupt")
  /\ UNCHANGED <<gen, registry, invoked, running, history, adds>>

\* The interruption finalizer is done: the node is what it was.
InterruptEnds ==
  /\ stage = "interrupting" /\ BatchDone
  /\ stage' = IF bag[Current("acquire")].handedOff THEN "ready" ELSE "idle"
  /\ UNCHANGED <<gen, bag, registry, invoked, drain, running, history, adds, interrupts>>

-----------------------------------------------------------------------------
(* Teardown *)

\* The signal aborts, the live resource stops, the release hook starts with a
\* fresh list.
StartTeardown ==
  /\ stage \in {"ready", "torn"} /\ stage' = "releasing"
  /\ lifetime' = [lifetime EXCEPT ![gen] = "aborted"]
  /\ hook' = [hook EXCEPT ![gen] = [list |-> <<>>, is |-> "open"]]
  /\ UNCHANGED <<gen, bag, list, settled, invoked, drain, running, history, adds, interrupts>>

\* It ends, fails or times out: its list drains.
ReleaseEnds ==
  /\ stage = "releasing" /\ stage' = "hookDrain"
  /\ drain' = Drain(hook[gen].list)
  /\ hook' = [hook EXCEPT ![gen].list = <<>>]
  /\ UNCHANGED <<gen, bag, list, settled, lifetime, invoked, running, history, adds, interrupts>>

HookLoops ==
  /\ stage = "hookDrain" /\ BatchDone /\ hook[gen].list # <<>>
  /\ drain' = Drain(hook[gen].list)
  /\ hook' = [hook EXCEPT ![gen].list = <<>>]
  /\ UNCHANGED <<stage, gen, bag, list, settled, lifetime, invoked, running, history, adds, interrupts>>

HookDrained ==
  /\ stage = "hookDrain" /\ BatchDone /\ hook[gen].list = <<>>
  /\ stage' = "teardown"
  /\ hook' = [hook EXCEPT ![gen].is = "closed"]
  /\ drain' = Drain(list[gen])
  /\ list' = [list EXCEPT ![gen] = <<>>]
  /\ UNCHANGED <<gen, bag, settled, lifetime, invoked, running, history, adds, interrupts>>

\* Cleanup registered during the drain still runs.
TeardownLoops ==
  /\ stage = "teardown" /\ BatchDone /\ list[gen] # <<>>
  /\ drain' = Drain(list[gen])
  /\ list' = [list EXCEPT ![gen] = <<>>]
  /\ UNCHANGED <<stage, gen, bag, settled, lifetime, hook, invoked, running, history, adds, interrupts>>

TeardownEnds ==
  /\ stage = "teardown" /\ BatchDone /\ list[gen] = <<>>
  /\ settled' = [settled EXCEPT ![gen] = TRUE]
  /\ stage' = "idle"
  /\ UNCHANGED <<gen, bag, list, lifetime, hook, invoked, drain, running, history, adds, interrupts>>

\* The worker or the caller that tears down is interrupted: the cell keeps its
\* ready data, and a later teardown starts again with what the registry has
\* left.
InterruptTeardown ==
  /\ interrupts < MaxInterrupts /\ interrupts' = interrupts + 1
  /\ stage \in {"releasing", "hookDrain", "teardown"}
  /\ stage' = "torn"
  /\ forgotten' = Losing(drain.rest \o hook[gen].list)
  /\ drain' = NoDrain
  /\ hook' = [hook EXCEPT ![gen] = [list |-> <<>>, is |-> "closed"]]
  /\ UNCHANGED <<gen, bag, list, settled, lifetime, invoked, running, calls, added, adds>>

-----------------------------------------------------------------------------
Draining ==
  \/ \E promise \in BOOLEAN : RunNext(promise)
  \/ TimeOut
Worker ==
  \/ Draining \/ CleaningEnds \/ InterruptEnds
  \/ AcquireEnds \/ OperationEnds
  \/ ReleaseEnds \/ HookLoops \/ HookDrained \/ TeardownLoops \/ TeardownEnds
Driver ==
  \/ BeginAcquire \/ HandOff \/ AcquireFails \/ BeginOperation \/ StartTeardown
  \/ \E d \in Disposer : \/ \E b \in Bag, promise \in BOOLEAN : Add(b, d, promise)
                         \/ \E g \in Gen : HookAdd(g, d) \/ Settle(g, d)
Interruption == InterruptAcquire \/ InterruptOperation \/ InterruptTeardown
Next == Worker \/ Driver \/ Interruption

\* The runtime runs what is ready to run and its timers fire; hooks end
\* because each has a deadline.  Nothing forces a driver to settle a promise.
Spec == Init /\ [][Next]_vars /\ WF_vars(Worker)

-----------------------------------------------------------------------------
(* Properties *)

\* Every population holds disposers, and only a disposer that was called has a
\* pending promise.
TypeOK ==
  /\ stage \in Stage /\ gen \in 0..MaxGen
  /\ bag \in [Bag -> [pending : Seq(Disposer), handedOff : BOOLEAN,
                      reason : {"none", "acquire", "interrupt", "settled"}]]
  /\ list \in [Gen -> Seq(Disposer)] /\ settled \in [Gen -> BOOLEAN]
  /\ lifetime \in [Gen -> {"none", "live", "aborted"}]
  /\ hook \in [Gen -> [list : Seq(Disposer), is : {"none", "open", "closed"}]]
  /\ invoked \in [Gen -> SUBSET Disposer]
  /\ drain \in [rest : Seq(Disposer), awaits : SUBSET Disposer]
  /\ running \subseteq {p \in Gen \X Disposer : p[2] \in invoked[p[1]]}
  /\ calls \in [Gen -> [Disposer -> Nat]]
  /\ added \subseteq (Gen \X {"acquire", "operation", "hook"}) \X Disposer
  /\ forgotten \subseteq Gen \X Disposer
  /\ adds \in 0..MaxAdds /\ interrupts \in 0..MaxInterrupts

\* The registry's guarantee (disposers.ts:7): over the bags of the acquire and
\* of the operations, the registry, the release hook's and the late adds, a
\* function runs at most once in one incarnation, and again in the next.
OnceOnly == \A g \in Gen, d \in Disposer : calls[g][d] <= 1

\* Somebody will still run d for incarnation g.
Awaits(g, d) ==
  \/ \E kind \in {"acquire", "operation"} :
       d \in Members(bag[<<g, kind>>].pending) /\ bag[<<g, kind>>].reason = "none"
  \/ d \in Members(list[g]) /\ ~settled[g]
  \/ d \in Members(hook[g].list) /\ hook[g].is = "open"
  \/ g = gen /\ d \in Members(drain.rest)

\* No disposer lands in a list nobody reads again (operationDisposers.ts:243):
\* each registration has been run or is still held by somebody who will, apart
\* from the rest of a drain that was interrupted and the late adds of a release
\* hook, which the code does lose.
NothingLost ==
  \A a \in added :
    LET g == a[1][1] IN
      \/ a[2] \in invoked[g]
      \/ Awaits(g, a[2])
      \/ <<g, a[2]>> \in forgotten

\* Callbacks bound to ctx.nodeSignal quiesce before the incarnation's cleanup
\* runs (acquireOperation.ts:470, cleanup.ts:37), and a committed node keeps its
\* disposers until teardown: only a function an operation registered too, or
\* nothing, runs under a live signal.
QuiescedFirst ==
  \A g \in Gen : \A d \in invoked[g] :
    <<<<g, "operation">>, d>> \notin added => lifetime[g] = "aborted"

\* A drain ends whatever its disposers do (disposers.ts:84): each is bounded.
DrainsEnd ==
  stage \in {"cleaning", "interrupting", "releasing", "hookDrain", "teardown"}
    ~> stage \in {"idle", "ready", "torn"}
================================================================================
