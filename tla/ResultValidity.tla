---------------------------- MODULE ResultValidity ----------------------------
(***************************************************************************)
(* The result of one node: what a driver hook stages through its context,  *)
(* what the operation commits, and how a time-bound policy ages what was   *)
(* committed.  The policy is evaluated when something asks: time passes    *)
(* between and during the steps of a hook, and nobody is told.             *)
(*                                                                         *)
(* A validity is its tag, a time a small number.  Of the result itself     *)
(* only its identity matters: whether what a hook patches is the object    *)
(* the node has committed.  NodeCell has the operations' own protocol.     *)
(***************************************************************************)
EXTENDS Integers

CONSTANTS
  Policies,  \* [tag, stale, expire]: how results age
  MaxTime    \* bound on the clock

Never == 2 * MaxTime + 1
Time == 0..MaxTime
Tag == {"Current", "Stale", "Expired"}

\* What normalizeResultValidityPolicy lets through: a result that goes stale
\* before it expires, or one nobody ages.
Normalized(p) ==
  /\ p \in [tag : {"Manual", "TimeBound"}, stale : Nat, expire : Nat]
  /\ p.stale <= p.expire

ASSUME PoliciesAssumption == MaxTime \in Nat /\ \A p \in Policies : Normalized(p)

VARIABLES
  policy,
  now,
  readiness, \* "Idle", "Acquiring", "Ready", "Operating" or "Error"
  ready,     \* what the node has committed
  op,        \* the hook that runs, and what it has staged; history (vouched): the
             \* hook handed over a loaded result, or said how valid what there is is
  churned,   \* history: a result returned by an acquire had expired on arrival
  torn       \* history: a hook that failed has changed the committed result

resultVars == <<policy, now, readiness, ready, op, churned, torn>>

\* A result state.
State(validity, loaded, explicit) ==
  [validity |-> validity, loaded |-> loaded, explicit |-> explicit]

NoOp == [kind |-> "none", staged |-> State("Current", 0, FALSE), said |-> "none",
         shares |-> FALSE, cloned |-> FALSE, wrote |-> FALSE, back |-> FALSE,
         vouched |-> FALSE]

ResultInit ==
  /\ policy \in Policies
  /\ now = 0 /\ readiness = "Idle"
  /\ ready = [validity |-> "Current", loaded |-> 0, said |-> "none", vouched |-> FALSE]
  /\ op = NoOp
  /\ churned = FALSE /\ torn = FALSE

-----------------------------------------------------------------------------
(* Ageing *)

\* Only a Current result of a time-bound policy ages.
Effective(validity, loaded, at) ==
  IF policy.tag # "TimeBound" \/ validity # "Current" THEN validity
  ELSE IF at - loaded >= policy.expire THEN "Expired"
  ELSE IF at - loaded >= policy.stale THEN "Stale" ELSE "Current"

\* What a hook passes to setResult or returns: a plain value, or a value with
\* the validity and the time of its load, each of which may be left out.
Plain == [form |-> "plain", validity |-> "none", loaded |-> Never]
Commits == [form : {"commit"}, validity : Tag \cup {"none"}, loaded : Time \cup {Never}]

\* A mutant: a plain value is dated now, whoever passes it.
LoadedNow(next, previous, default) ==
  IF next.form = "commit" /\ next.loaded # Never THEN next.loaded
  ELSE IF next.form = "commit" THEN previous.loaded ELSE now

Loaded(next, previous, default) ==
  IF next.form = "commit"
  THEN IF next.loaded # Never THEN next.loaded ELSE previous.loaded
  ELSE IF default = "preserve" THEN previous.loaded ELSE now

Asserted(next, previous, default) ==
  IF next.form = "commit"
  THEN IF next.validity # "none" THEN next.validity ELSE "Current"
  ELSE IF default = "preserve" THEN previous.validity ELSE "Current"

\* commitResultState
CommitState(next, previous, default) ==
  State(Effective(Asserted(next, previous, default), Loaded(next, previous, default), now),
        Loaded(next, previous, default),
        IF next.form = "commit" THEN next.validity # "none" \/ next.loaded # Never
        ELSE default = "preserve" /\ previous.explicit)

\* commitDriverOperationResult: a validity staged explicitly outlives the value
\* that is returned.
Committed(returned, staged) ==
  LET state == CommitState(returned, staged, "current") IN
  IF staged.explicit THEN [state EXCEPT !.validity = staged.validity, !.explicit = TRUE]
  ELSE state

-----------------------------------------------------------------------------
(* Operations *)

\* An acquire stages an empty result, loaded when it starts.
Acquire ==
  /\ readiness' = "Acquiring"
  /\ op' = [NoOp EXCEPT !.kind = "acquire", !.staged = CommitState(Plain, NoOp.staged, "current")]

\* An expired result is not operated on: a refresh is refused, the caller of an
\* action, which ensures readiness, acquires it again.
Admitted == Effective(ready.validity, ready.loaded, now) # "Expired"

\* ensureReady: an expired result is torn down and acquired again.
EnsureReady ==
  /\ readiness \in {"Idle", "Error"} \/ (readiness = "Ready" /\ ~Admitted)
  /\ Acquire
  /\ UNCHANGED <<policy, now, ready, churned, torn>>

\* A refresh or an action stages what the node has.
Operate(kind) ==
  /\ readiness = "Ready" /\ Admitted
  /\ readiness' = "Operating"
  /\ op' = [NoOp EXCEPT !.kind = kind, !.shares = TRUE,
                        !.staged = State(ready.validity, ready.loaded, FALSE)]
  /\ UNCHANGED <<policy, now, ready, churned, torn>>

Running == readiness \in {"Acquiring", "Operating"}

\* Only a commit, or a hook whose purpose is to load, vouches for the result it
\* passes: what an action passes is what there was, changed.
Vouches(kind, next) == next.form = "commit" \/ kind # "action"

\* setResult; a hook may hand back the object the node has.
SetResult(next, back) ==
  /\ Running
  /\ back => op.kind # "acquire"
  /\ op' = [op EXCEPT
       !.staged = CommitState(next, @, IF op.kind = "action" THEN "preserve" ELSE "current"),
       !.said = "none", !.vouched = @ \/ Vouches(op.kind, next),
       !.shares = back, !.back = @ \/ (back /\ op.cloned)]
  /\ UNCHANGED <<policy, now, readiness, ready, churned, torn>>

SetResultValidity(tag) ==
  /\ Running
  /\ op' = [op EXCEPT !.staged.validity = tag, !.staged.explicit = TRUE, !.said = tag,
                        !.vouched = TRUE]
  /\ UNCHANGED <<policy, now, readiness, ready, churned, torn>>

\* A mutant: nothing is cloned.
ClonedNever(o) == o

\* The first patch of an operation clones what is staged.
Cloned(o) == IF o.kind # "acquire" /\ ~o.cloned
             THEN [o EXCEPT !.shares = FALSE, !.cloned = TRUE] ELSE o
PatchResult ==
  /\ Running
  /\ op' = [Cloned(op) EXCEPT !.wrote = @ \/ Cloned(op).shares]
  /\ UNCHANGED <<policy, now, readiness, ready, churned, torn>>

Commit(state, vouched) ==
  /\ ready' = [validity |-> state.validity, loaded |-> state.loaded, said |-> op.said,
               vouched |-> vouched]
  /\ readiness' = "Ready" /\ op' = NoOp
  /\ UNCHANGED <<policy, now, torn>>

\* The state an operation commits: what was staged when the hook returned
\* nothing; what an action returns is its answer and no result.
Loads(returned) == op.kind # "action" /\ returned.form # "nothing"
Outcome(returned) == IF Loads(returned) THEN Committed(returned, op.staged) ELSE op.staged

OperationReturns(returned) ==
  /\ readiness = "Operating"
  /\ Commit(Outcome(returned), op.vouched \/ Loads(returned))
  /\ UNCHANGED churned

\* An acquire whose result is expired when it commits fails.
AcquireReturns(returned) ==
  /\ readiness = "Acquiring"
  /\ LET state == Outcome(returned) IN
       /\ churned' = (churned \/ (/\ returned = Plain /\ ~op.staged.explicit
                                  /\ policy.expire > 0
                                  /\ Effective(state.validity, state.loaded, now) = "Expired"))
       /\ IF state.validity # "Expired" THEN Commit(state, op.vouched \/ Loads(returned))
          ELSE /\ readiness' = "Error" /\ op' = NoOp
               /\ UNCHANGED <<policy, now, ready, torn>>

Fails ==
  /\ Running
  /\ readiness' = IF op.kind = "acquire" THEN "Error" ELSE "Ready"
  /\ torn' = (torn \/ (op.wrote /\ ~op.back))
  /\ op' = NoOp
  /\ UNCHANGED <<policy, now, ready, churned>>

ReleaseResult ==
  /\ readiness = "Ready" /\ readiness' = "Idle"
  /\ UNCHANGED <<policy, now, ready, op, churned, torn>>

Tick ==
  /\ now < MaxTime /\ now' = now + 1
  /\ UNCHANGED <<policy, readiness, ready, op, churned, torn>>

ResultNext ==
  \/ Tick \/ EnsureReady \/ Fails \/ ReleaseResult \/ PatchResult
  \/ \E kind \in {"refresh", "action"} : Operate(kind)
  \/ \E next \in Commits \cup {Plain}, back \in BOOLEAN : SetResult(next, back)
  \/ \E tag \in Tag : SetResultValidity(tag)
  \/ \E returned \in Commits \cup {Plain, [Plain EXCEPT !.form = "nothing"]} :
       OperationReturns(returned) \/ AcquireReturns(returned)

ResultSpec == ResultInit /\ [][ResultNext]_resultVars

-----------------------------------------------------------------------------
(* Who asks *)

\* What a snapshot says of the result, and what a handle's read makes of it.
Snapshot == Effective(ready.validity, ready.loaded, now)
PublicRead ==
  CASE readiness \in {"Ready", "Operating"} -> IF Snapshot = "Expired" THEN "Idle" ELSE "Ready"
    [] readiness = "Acquiring" -> "Pending"
    [] OTHER -> readiness

\* What a reader is shown of a result that is there.
HasResult == readiness \in {"Ready", "Operating"}
Shown == IF PublicRead = "Ready" THEN Snapshot ELSE PublicRead

-----------------------------------------------------------------------------
(* Properties *)

ResultTypeOK ==
  /\ policy \in Policies /\ now \in Time
  /\ readiness \in {"Idle", "Acquiring", "Ready", "Operating", "Error"}
  /\ ready \in [validity : Tag, loaded : Time, said : Tag \cup {"none"}, vouched : BOOLEAN]
  /\ op \in [kind : {"none", "acquire", "refresh", "action"},
             staged : [validity : Tag, loaded : Time, explicit : BOOLEAN],
             said : Tag \cup {"none"}, shares : BOOLEAN, cloned : BOOLEAN,
             wrote : BOOLEAN, back : BOOLEAN, vouched : BOOLEAN]
  /\ churned \in BOOLEAN /\ torn \in BOOLEAN

\* An acquire that returns its result is never expired on arrival, however slow
\* it was (acquireOperation.ts:136): otherwise every reader would acquire again
\* for ever.  It speaks of plain values: one that is staged, or returned with a
\* commit that leaves out the time, is loaded earlier.
NoChurn == ~churned

\* What a hook says of the validity with its last word is what the node commits
\* (commitDriverOperationResult), whatever the hook returns and however long it
\* takes.
ExplicitSurvives ==
  readiness \in {"Ready", "Operating"} /\ ready.said # "none" => ready.validity = ready.said

\* An operation that fails has not changed the result the node has committed
\* (driverContext.ts:107), unless the hook itself put that object back on its
\* stage after a first patch: the code does not clone a second time.
StagingIsolated == ~torn

\* Only what loads renews a result.  While a node has its result, readers see
\* it dated anew, or current again after it was stale or expired, only when an
\* operation commits a result it loaded or said itself how valid it is.  An
\* action that changes the result (actionOperation.ts:114), and a refresh that
\* hands nothing over (resultValidity/index.ts:114), do not, though a threshold
\* of the policy passes between any two steps of their hooks.  (That what had
\* expired is not shown as stale again is not claimed: a result staged when it
\* was stale never expires.)
OnlyLoadsRenew ==
  [][HasResult /\ HasResult' /\ (ready' = ready \/ ~ready'.vouched) =>
       /\ ready'.loaded = ready.loaded
       /\ Shown' = "Current" => Shown = "Current"]_resultVars
================================================================================
