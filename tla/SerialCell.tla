----------------------------- MODULE SerialCell -----------------------------
(***************************************************************************)
(* What a graph cell actor promises the graph system, with no permit, no   *)
(* fibers and no interruption protocol.  Operations are accepted, run one  *)
(* at a time and never beside an exclusive section, and end with exactly   *)
(* one outcome.  Once the cell is shut no operation begins any more.  An   *)
(* operation may be cancelled at any moment; its effect can still be       *)
(* running (or even begin) while the cancellation is being reported.       *)
(***************************************************************************)
CONSTANT Submission

VARIABLES
  stage,      \* "new" | "pending" | "active" | "gone", per submission
  outcome,    \* "none" | "cancelling" | "interrupted" | "result"
  exclusive,  \* an exclusive section (mark, teardown, cleanup) is running
  shut        \* the cell accepts no further starts

vars == <<stage, outcome, exclusive, shut>>

Init ==
  /\ stage = [s \in Submission |-> "new"]
  /\ outcome = [s \in Submission |-> "none"]
  /\ exclusive = FALSE
  /\ shut = FALSE

Quiet == ~exclusive /\ \A s \in Submission : stage[s] # "active"

Begin(s) ==
  /\ ~shut
  /\ Quiet
  /\ stage[s] \in {"new", "pending"}
  /\ stage' = [stage EXCEPT ![s] = "active"]
  /\ UNCHANGED <<outcome, exclusive, shut>>

\* A cell that is already shut may refuse a submission as it accepts it.
Accept(s) ==
  /\ stage[s] = "new"
  /\ stage' = [stage EXCEPT ![s] = "pending"]
  /\ \/ UNCHANGED outcome
     \/ /\ shut
        /\ outcome[s] = "none"
        /\ outcome' = [outcome EXCEPT ![s] = "cancelling"]
  /\ UNCHANGED <<exclusive, shut>>

\* The effect ends by itself: it supplies the outcome unless a cancellation
\* was there first.
End(s) ==
  /\ stage[s] = "active"
  /\ stage' = [stage EXCEPT ![s] = "gone"]
  /\ outcome' = [outcome EXCEPT ![s] = IF @ = "none" THEN "result" ELSE @]
  /\ UNCHANGED <<exclusive, shut>>

Cancel(s) ==
  /\ outcome[s] = "none"
  /\ stage[s] # "gone"
  /\ outcome' = [outcome EXCEPT ![s] = "cancelling"]
  /\ UNCHANGED <<stage, exclusive, shut>>

Report(s) ==
  /\ outcome[s] = "cancelling"
  /\ outcome' = [outcome EXCEPT ![s] = "interrupted"]
  /\ UNCHANGED <<stage, exclusive, shut>>

\* A submission leaves without having run, or unwinds, only once cancelled.
Leave(s) ==
  /\ stage[s] \in {"pending", "active"}
  /\ outcome[s] \in {"cancelling", "interrupted"}
  /\ stage' = [stage EXCEPT ![s] = "gone"]
  /\ UNCHANGED <<outcome, exclusive, shut>>

Shut == shut' = TRUE /\ UNCHANGED <<stage, outcome, exclusive>>

EnterExclusive ==
  /\ shut
  /\ Quiet
  /\ exclusive' = TRUE
  /\ UNCHANGED <<stage, outcome, shut>>

LeaveExclusive == exclusive' = FALSE /\ UNCHANGED <<stage, outcome, shut>>

Next ==
  \/ \E s \in Submission :
       \/ Accept(s) \/ Begin(s) \/ End(s) \/ Cancel(s) \/ Report(s) \/ Leave(s)
  \/ Shut \/ EnterExclusive \/ LeaveExclusive

Spec == Init /\ [][Next]_vars
=============================================================================
