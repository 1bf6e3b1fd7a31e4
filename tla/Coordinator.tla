---------------------------- MODULE Coordinator -----------------------------
(***************************************************************************)
(* The runtime coordinator (runtimeCoordinator.ts): overlapping calls of   *)
(* start and dispose are chained behind one another, and a generation      *)
(* number tells a boot whether a later call has superseded it.             *)
(*                                                                         *)
(* A call's body runs to its next await as one step.  createLease and a    *)
(* lease's dispose are the host's: each begins, takes any time, and ends   *)
(* or rejects.  A lease is named by the start that created it.             *)
(***************************************************************************)
EXTENDS Naturals, FiniteSets

CONSTANTS
  Start,    \* the calls of start
  Dispose,  \* the calls of dispose
  None      \* "undefined"; also the promise the chain begins with

Call == Start \cup Dispose

ASSUME CoordinatorAssumption == Start \cap Dispose = {} /\ None \notin Call

VARIABLES
  generation,  \* the counter both calls advance
  current,     \* the active lease
  transition,  \* the call at the end of the chain
  gen,         \* the generation a call claimed, 0 before the call
  after,       \* the call a call is chained behind
  pc,          \* "idle" | "queued" | "creating" | "disposing" | "settled"
  outcome,     \* how the call's promise settled
  lease,       \* "none" | "creating" | "live" | "disposing" | "disposed" | "broken"
  target,      \* the lease a disposing call disposes
  seen         \* what was active when the call was made: history only

vars == <<generation, current, transition, gen, after, pc, outcome, lease, target, seen>>

Init ==
  /\ generation = 0
  /\ current = None
  /\ transition = None
  /\ gen = [c \in Call |-> 0]
  /\ after = [c \in Call |-> None]
  /\ pc = [c \in Call |-> "idle"]
  /\ outcome = [c \in Call |-> "pending"]
  /\ lease = [c \in Start |-> "none"]
  /\ target = [c \in Call |-> None]
  /\ seen = [c \in Call |-> None]

\* start() or dispose() up to its return: claims a generation, joins the chain.
Claim(c) ==
  /\ pc[c] = "idle"
  /\ generation' = generation + 1
  /\ gen' = [gen EXCEPT ![c] = generation + 1]
  /\ after' = [after EXCEPT ![c] = transition]
  /\ transition' = c
  /\ pc' = [pc EXCEPT ![c] = "queued"]
  /\ seen' = [seen EXCEPT ![c] = current]
  /\ UNCHANGED <<current, outcome, lease, target>>

Settled == {c \in Call : pc[c] = "settled"}

\* Mutants: a dispose that does not wait for the chain, and a chain that
\* passes a rejection on.
Unchained(c) == c \in Dispose \/ after[c] \in Settled \cup {None}
Rejecting(c) == after[c] \in {None} \cup {d \in Settled : outcome[d] \in {"value", "disposed"}}

\* `transition` swallows rejections: the next body runs however the last ended.
Turn(c) == after[c] \in Settled \cup {None}

Settle(c, how) ==
  /\ pc' = [pc EXCEPT ![c] = "settled"]
  /\ outcome' = [outcome EXCEPT ![c] = how]

BeginDisposing(c, l) ==
  /\ pc' = [pc EXCEPT ![c] = "disposing"]
  /\ target' = [target EXCEPT ![c] = l]
  /\ lease' = [lease EXCEPT ![l] = "disposing"]

Boot(c) ==
  /\ c \in Start
  /\ pc[c] = "queued"
  /\ Turn(c)
  /\ \/ /\ current # None
        /\ Settle(c, "active")
        /\ UNCHANGED lease
     \/ /\ current = None
        /\ pc' = [pc EXCEPT ![c] = "creating"]
        /\ lease' = [lease EXCEPT ![c] = "creating"]
        /\ UNCHANGED outcome
  /\ UNCHANGED <<generation, current, transition, gen, after, target, seen>>

\* A mutant: the boot keeps its lease whoever has called meanwhile.
CreatedStale(c) ==
  /\ pc[c] = "creating"
  /\ current' = c
  /\ lease' = [lease EXCEPT ![c] = "live"]
  /\ Settle(c, "value")
  /\ UNCHANGED <<generation, transition, gen, after, target, seen>>

\* The body resumes with its lease.
Created(c) ==
  /\ pc[c] = "creating"
  /\ \/ /\ generation = gen[c]
        /\ current' = c
        /\ lease' = [lease EXCEPT ![c] = "live"]
        /\ Settle(c, "value")
        /\ UNCHANGED target
     \/ /\ generation # gen[c]
        /\ BeginDisposing(c, c)
        /\ UNCHANGED <<current, outcome>>
  /\ UNCHANGED <<generation, transition, gen, after, seen>>

\* createLease rejects: there is no lease.
CreateFails(c) ==
  /\ pc[c] = "creating"
  /\ lease' = [lease EXCEPT ![c] = "none"]
  /\ Settle(c, "failed")
  /\ UNCHANGED <<generation, current, transition, gen, after, target, seen>>

TearDown(c) ==
  /\ c \in Dispose
  /\ pc[c] = "queued"
  /\ Turn(c)
  /\ current' = None
  /\ \/ current = None /\ Settle(c, "disposed") /\ UNCHANGED <<lease, target>>
     \/ current # None /\ BeginDisposing(c, current) /\ UNCHANGED outcome
  /\ UNCHANGED <<generation, transition, gen, after, seen>>

\* lease.dispose() resolves or rejects.
Disposed(c) ==
  /\ pc[c] = "disposing"
  /\ \/ /\ lease' = [lease EXCEPT ![target[c]] = "disposed"]
        /\ Settle(c, IF c \in Start THEN "superseded" ELSE "disposed")
     \/ /\ lease' = [lease EXCEPT ![target[c]] = "broken"]
        /\ Settle(c, "failed")
  /\ UNCHANGED <<generation, current, transition, gen, after, target, seen>>

Body(c) == Boot(c) \/ Created(c) \/ CreateFails(c) \/ TearDown(c) \/ Disposed(c)

Next == \E c \in Call : Claim(c) \/ Body(c)

Spec == Init /\ [][Next]_vars

\* The host's createLease and dispose end; callers need not call.
FairSpec == Spec /\ \A c \in Call : WF_vars(Body(c))

-----------------------------------------------------------------------------
(* Properties *)

TypeOK ==
  /\ generation \in Nat
  /\ current \in {c \in Start : lease[c] = "live"} \cup {None}
  /\ transition \in Call \cup {None}
  /\ gen \in [Call -> Nat]
  /\ after \in [Call -> Call \cup {None}]
  /\ pc \in [Call -> {"idle", "queued", "creating", "disposing", "settled"}]
  /\ outcome \in [Call -> {"pending", "value", "active", "superseded", "failed", "disposed"}]
  /\ lease \in [Start -> {"none", "creating", "live", "disposing", "disposed", "broken"}]
  /\ target \in [Call -> Start \cup {None}]
  /\ seen \in [Call -> Start \cup {None}]

\* A lease whose generation holds or may hold resources.
Up(c) == lease[c] \in {"creating", "live", "disposing"}

\* "Two graph generations never overlap": while a lease is created, active or
\* being disposed, no other is.
NoOverlap == \A c, d \in Start : Up(c) /\ Up(d) => c = d

\* A call that settles leaves nothing of the generations before it behind,
\* unless it found one active and left it alone: what is still up was created
\* by that one or by a later call.
SettledLeavesNothing ==
  \A c \in Call, d \in Start :
    pc[c] = "settled" /\ Up(d) /\ gen[d] < gen[c] => outcome[c] = "active"

\* A start is turned away only by a runtime that was already active when it was
\* called: never by a boot that it superseded itself.
NewestWins == \A c \in Start : outcome[c] = "active" => seen[c] # None

\* A lease is disposed at most once, and never comes back.
DisposedStays ==
  [][\A c \in Start : lease[c] \in {"disposed", "broken"} => lease'[c] = lease[c]]_vars

\* Every call settles, whatever the calls before it did.
EveryCallSettles == \A c \in Call : pc[c] = "queued" ~> pc[c] = "settled"
=============================================================================
