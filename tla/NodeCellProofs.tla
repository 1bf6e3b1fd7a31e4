--------------------------- MODULE NodeCellProofs ---------------------------
(***************************************************************************)
(* The lifecycle of a node, for any operations, any scenario and any       *)
(* number of attempts: nothing stale is committed, no incarnation leaks,   *)
(* what a resting Ready node shows is intact and agrees, and a release is  *)
(* repeated only by a close.                                               *)
(***************************************************************************)
EXTENDS NodeCell, TLAPS

Tearing == {"stopping", "releasing", "draining"}

\* Where a party does not hold the permit.
Free == {"none", "queued", "closing", "done"}

\* The cell's incarnation is g.
InPhase(g) == HasReadyData /\ phase.gen = g

-----------------------------------------------------------------------------
(* The inductive invariant *)

\* Who holds the permit.
Permit ==
  /\ \A x \in Party : holder = x <=> pc[x] \notin Free
  /\ holder = Closer => pc[Closer] \in Tearing

\* The attempt in the phase is open, the committed one did not fail, and an
\* operation on its way through an attempt finds the phase it left, unless a
\* handler has answered the attempt meanwhile.
Attempts ==
  /\ phase.tag = "Acquiring" => outcome[phase.attempt] = "pending"
  /\ HasReadyData => outcome[phase.gen] # "Error"
  /\ \A o \in Op :
       /\ pc[o] \in {"dependencies", "acquiring", "discarding"} =>
            attempt[o] \in Attempt /\ phase \in {Acquiring(attempt[o]), ReadinessError}
       /\ pc[o] \in {"failing", "stale"} => attempt[o] \in Attempt /\ phase = ReadinessError
       /\ pc[o] = "awaiting" => attempt[o] \in Attempt
       /\ pc[o] = "delivering" => attempt[o] \in Attempt /\ phase = Ready(attempt[o])

\* An incarnation that is not over is in the phase, or somebody's.
Open == {"acquiring", "committed", "closing", "discarding"}
Owner(g) ==
  \/ /\ holder \in Op /\ attempt[holder] = g
     /\ \/ pc[holder] \in {"acquiring", "discarding", "stale"}
        \/ pc[holder] = "unwinding" /\ incarnation[g] = "discarding"
  \/ holder = Closer /\ captured = g
Owned == \A g \in Attempt : incarnation[g] \in Open => InPhase(g) \/ Owner(g)

\* What is torn down is the incarnation in the phase; planning has marked the
\* phase first.
Teardown ==
  /\ \A o \in Op :
       /\ pc[o] \in Tearing => captured \in Attempt /\ InPhase(captured)
       /\ pc[o] = "expired" => HasReadyData /\ incarnation[phase.gen] = "closed"
  /\ pc[Closer] \in Tearing =>
       /\ captured \in Attempt
       /\ reason = "evict" => InPhase(captured)
       /\ reason = "invalidate" => phase = Invalid

\* A closed actor stays closed until the node is invalid and nobody is left;
\* only what a caller may abort is interrupted before that.
Closing ==
  /\ pc[Closer] \in Tearing \cup {"closing"} => closed
  /\ closed => pc[Closer] # "none"
  /\ closed => reason \in {"invalidate", "evict"}
  /\ closed /\ pc[Closer] = "done" =>
       holder = "nobody" /\ (reason = "invalidate" => phase = Invalid)
  /\ \A o \in Op : handler[o] # "idle" /\ Live(o) /\ ~closed => o \in Abortable
  /\ \A o \in Op : pc[o] = "none" => handler[o] = "idle"

\* The ready incarnation is alive, except while an operation tears it down.
Intact ==
  Abortable = {} /\ ~closed /\ HasReadyData =>
    \/ holder \in Op /\ pc[holder] \in Tearing \cup {"expired"}
    \/ incarnation[phase.gen] = "committed"

\* Node and cell agree on the args and on the result loaded for them, except
\* while an args update loads its result: then what it rolls back to agrees.
Updating(o) == KindOf[o] = "args" /\ pc[o] \in {"refreshing", "driving"}
Agree ==
  /\ HasRefresh /\ ~closed /\ HasReadyData =>
       \/ holder \in Op /\ Updating(holder)
       \/ nodeArgs = args /\ nodeResult = result /\ result = args
  /\ \A o \in Op : /\ Updating(o) /\ ~closed => HasRefresh /\ saved.result = saved.args
                   /\ pc[o] = "acquiring" => saved.args = args

\* An operation in the phase is the one of somebody who is about to settle it.
Running ==
  Abortable = {} /\ ~closed /\ phase.tag = "Operating" =>
    /\ holder \in Op /\ operation[holder] = phase.operation
    /\ pc[holder] \in {"starting", "refreshing", "driving", "committed"}

\* With sinks that do not suspend an action that was reported is beyond its
\* report, or interrupted.
Once ==
  ~SinksSuspend =>
    \A o \in Op :
      /\ completions[o] <= 1
      /\ handler[o] = "idle" /\ pc[o] \notin {"notifying", "done"} => completions[o] = 0

IInv ==
  /\ TypeOK /\ scenario \in Scenario
  /\ Permit /\ Attempts /\ Owned /\ Teardown /\ Closing
  /\ Intact /\ Agree /\ Running /\ Once
-----------------------------------------------------------------------------
(* Phases and parties *)

LEMMA Parties ==
  /\ "nobody" \notin Party /\ Closer \notin Op /\ Closer \in Party /\ Op \subseteq Party
  /\ \A x \in Party : x # Closer => x \in Op
BY OpAssumption DEF Party, Closer

LEMMA Places ==
  Place = {"none", "queued", "entered", "beginning", "refreshing", "expired", "failing",
           "starting", "committed", "settled", "notifying", "awaiting", "dependencies",
           "delivering", "stopping", "releasing", "draining", "acquiring", "discarding",
           "stale", "driving", "unwinding", "closing", "done"}
BY DEF Place, Unguarded, InAcquire, InOperation

\* The fields of the phases.
LEMMA Fields ==
  /\ Idle.tag = "Idle" /\ ReadinessError.tag = "ReadinessError" /\ Invalid.tag = "Invalid"
  /\ \A n : /\ Acquiring(n).tag = "Acquiring" /\ Acquiring(n).attempt = n
            /\ Ready(n).tag = "Ready" /\ Ready(n).gen = n
  /\ \A n, k : /\ Operating(n, k).tag = "Operating"
               /\ Operating(n, k).gen = n /\ Operating(n, k).operation = k
BY DEF Idle, ReadinessError, Invalid, Acquiring, Ready, Operating

\* What the tag of a phase says about it.
LEMMA Shape ==
  ASSUME phase \in CellPhase
  PROVE  /\ phase.tag = "Idle" => phase = Idle
         /\ phase.tag = "ReadinessError" => phase = ReadinessError
         /\ phase.tag = "Invalid" => phase = Invalid
         /\ phase.tag = "Acquiring" =>
              phase.attempt \in Attempt /\ phase = Acquiring(phase.attempt)
         /\ phase.tag = "Ready" => phase.gen \in Attempt /\ phase = Ready(phase.gen)
         /\ phase.tag = "Operating" =>
              /\ phase.gen \in Attempt /\ phase.operation \in Nat
              /\ phase = Operating(phase.gen, phase.operation)
         /\ phase.tag \in {"Idle", "ReadinessError", "Invalid", "Acquiring", "Ready", "Operating"}
BY DEF CellPhase, Idle, ReadinessError, Invalid, Acquiring, Ready, Operating

LEMMA Phases ==
  /\ Idle \in CellPhase /\ ReadinessError \in CellPhase /\ Invalid \in CellPhase
  /\ \A n \in Attempt : Acquiring(n) \in CellPhase /\ Ready(n) \in CellPhase
  /\ \A n \in Attempt, k \in Nat : Operating(n, k) \in CellPhase
BY DEF CellPhase, Operating

\* Settling changes the phase only from an operation to its ready data.
LEMMA Settling ==
  ASSUME phase \in CellPhase, NEW o \in Op
  PROVE  /\ SettledPhase(o) \in CellPhase
         /\ phase.tag = "Operating" /\ phase.operation = operation[o] =>
              SettledPhase(o) = Ready(phase.gen)
         /\ ~(phase.tag = "Operating" /\ phase.operation = operation[o]) =>
              SettledPhase(o) = phase
BY Shape, Phases DEF SettledPhase

\* Whoever tears an incarnation down holds the permit and knows its number.
LEMMA Tearer ==
  ASSUME IInv, NEW x \in Party, NEW at \in Tearing, Tears(x, at)
  PROVE  holder = x /\ pc[x] = at /\ captured \in Attempt
BY Parties DEF IInv, Tears, Runs, Teardown

-----------------------------------------------------------------------------
(* One lemma for each action *)

LEMMA SubmitKeeps ==
  ASSUME IInv, UNCHANGED scenario, NEW o \in Op, Submit(o)
  PROVE  IInv'
  <1> USE Parties DEF IInv, TypeOK, CellTypes, DataTypes, ActorTypes, OperationTypes,
        Permit, Free, Submit, Goto, cellVars, incarnationVars, dataVars,
        actorVars, operationVars, handlerVars
  <1>1. TypeOK'
    BY Places DEF AttemptOutcome, IncarnationState
  <1>2. Permit' /\ Closing'
    BY DEF Tearing, Closing, Abortable, Live
  <1>3. Attempts' /\ Teardown'
    BY DEF Attempts, HasReadyData, Closing, Teardown, Tearing, InPhase
  <1>4. Owned'
    BY DEF Tearing, Attempts, Teardown, Owned, Open, Owner, InPhase, HasReadyData
  <1>5. Intact' /\ Agree' /\ Running' /\ Once'
    BY DEF Attempts, Owned, Teardown, Closing, Intact, Abortable, Tearing,
       HasReadyData, InPhase, Open, Owner, Live, Agree, Updating, Running, Once,
       SinksSuspend, Synchronous, Quiet
  <1> QED
    BY <1>1, <1>2, <1>3, <1>4, <1>5

LEMMA TakePermitKeeps ==
  ASSUME IInv, UNCHANGED scenario, NEW o \in Op, TakePermit(o)
  PROVE  IInv'
  <1> USE Parties DEF IInv, TypeOK, CellTypes, DataTypes, ActorTypes, OperationTypes,
        Permit, Free, TakePermit, Undisturbed, Goto, cellVars, incarnationVars,
        dataVars, operationVars, handlerVars
  <1>1. TypeOK'
    BY Places DEF AttemptOutcome, IncarnationState
  <1>2. Permit' /\ Closing'
    BY DEF Tearing, Closing, Abortable, Live
  <1>3. Attempts' /\ Teardown'
    BY DEF Attempts, HasReadyData, Closing, Teardown, Tearing, InPhase
  <1>4. Owned'
    BY DEF Tearing, Attempts, Teardown, Owned, Open, Owner, InPhase, HasReadyData
  <1>5. Intact' /\ Agree' /\ Running' /\ Once'
    BY DEF Attempts, Owned, Teardown, Closing, Intact, Abortable, Tearing,
       HasReadyData, InPhase, Open, Owner, Live, Agree, Updating, Running, Once,
       SinksSuspend, Synchronous, Quiet
  <1> QED
    BY <1>1, <1>2, <1>3, <1>4, <1>5

LEMMA LiveStopEndsKeeps ==
  ASSUME IInv, UNCHANGED scenario, NEW x \in Party, LiveStopEnds(x)
  PROVE  IInv'
  <1> USE Parties DEF IInv, TypeOK, CellTypes, DataTypes, ActorTypes, OperationTypes,
        Permit, Free, LiveStopEnds, Goto, Tears, Runs, Undisturbed, cellVars,
        dataVars, actorVars, operationVars, handlerVars
  <1>0. holder = x /\ pc[x] = "stopping" /\ captured \in Attempt
    BY Tearer DEF Tearing
  <1>1. TypeOK'
    BY <1>0, Places DEF AttemptOutcome, IncarnationState
  <1>2. Permit' /\ Closing'
    BY <1>0 DEF Tearing, Closing, Abortable, Live
  <1>3. Attempts' /\ Teardown'
    BY <1>0 DEF Attempts, HasReadyData, Closing, Teardown, Tearing, InPhase
  <1>4. Owned'
    BY <1>0 DEF Tearing, Attempts, Teardown, Owned, Open, Owner, InPhase,
       HasReadyData
  <1>5. Intact' /\ Agree' /\ Running' /\ Once'
    BY <1>0 DEF Attempts, Owned, Teardown, Closing, Intact, Abortable, Tearing,
       HasReadyData, InPhase, Open, Owner, Live, Agree, Updating, Running, Once,
       SinksSuspend, Synchronous, Quiet
  <1> QED
    BY <1>1, <1>2, <1>3, <1>4, <1>5

LEMMA ReleaseHookEndsKeeps ==
  ASSUME IInv, UNCHANGED scenario, NEW x \in Party, ReleaseHookEnds(x)
  PROVE  IInv'
  <1> USE Parties DEF IInv, TypeOK, CellTypes, DataTypes, ActorTypes, OperationTypes,
        Permit, Free, ReleaseHookEnds, Goto, Tears, Runs, Undisturbed, cellVars,
        incarnationVars, dataVars, actorVars, operationVars, handlerVars
  <1>0. holder = x /\ pc[x] = "releasing" /\ captured \in Attempt
    BY Tearer DEF Tearing
  <1>1. TypeOK'
    BY <1>0, Places DEF AttemptOutcome, IncarnationState
  <1>2. Permit' /\ Closing'
    BY <1>0 DEF Tearing, Closing, Abortable, Live
  <1>3. Attempts' /\ Teardown'
    BY <1>0 DEF Attempts, HasReadyData, Closing, Teardown, Tearing, InPhase
  <1>4. Owned'
    BY <1>0 DEF Tearing, Attempts, Teardown, Owned, Open, Owner, InPhase,
       HasReadyData
  <1>5. Intact' /\ Agree' /\ Running' /\ Once'
    BY <1>0 DEF Attempts, Owned, Teardown, Closing, Intact, Abortable, Tearing,
       HasReadyData, InPhase, Open, Owner, Live, Agree, Updating, Running, Once,
       SinksSuspend, Synchronous, Quiet
  <1> QED
    BY <1>1, <1>2, <1>3, <1>4, <1>5

LEMMA DisposersEndKeeps ==
  ASSUME IInv, UNCHANGED scenario, NEW x \in Party, DisposersEnd(x)
  PROVE  IInv'
  <1> USE Parties DEF IInv, TypeOK, CellTypes, DataTypes, ActorTypes, OperationTypes,
        Permit, Free, DisposersEnd, Goto, Finish, Tears, Runs, Undisturbed,
        dataVars, actorVars, operationVars, handlerVars
  <1>0. holder = x /\ pc[x] = "draining" /\ captured \in Attempt
    BY Tearer DEF Tearing
  <1>1. TypeOK'
    BY Shape, Phases, <1>0, Places DEF AttemptOutcome, IncarnationState
  <1>2. Permit' /\ Closing'
    BY <1>0, Fields, Shape DEF Tearing, Closing, Abortable, Live, Teardown
  <1>3. Attempts' /\ Teardown'
    BY Fields, Shape, <1>0 DEF Attempts, HasReadyData, Closing, Teardown, Tearing,
       InPhase
  <1>4. Owned'
    BY Fields, Shape, <1>0 DEF Tearing, Attempts, Teardown, Owned, Open, Owner,
       InPhase, HasReadyData
  <1>5. Intact' /\ Agree' /\ Running' /\ Once'
    BY Fields, Shape, <1>0 DEF Attempts, Owned, Teardown, Closing, Intact,
       Abortable, Tearing, HasReadyData, InPhase, Open, Owner, Live, Agree,
       Updating, Running, Once, SinksSuspend, Synchronous, Quiet
  <1> QED
    BY <1>1, <1>2, <1>3, <1>4, <1>5

LEMMA ReadyOrInvalidReadKeeps ==
  ASSUME IInv, UNCHANGED scenario, NEW o \in Op, ReadyOrInvalidRead(o)
  PROVE  IInv'
  <1> USE Parties DEF IInv, TypeOK, CellTypes, DataTypes, ActorTypes, OperationTypes,
        Permit, Free, ReadyOrInvalidRead, Runs, Undisturbed, Delivered, Goto,
        Finish, actorVars, HasReadyData, cellVars, incarnationVars, dataVars,
        handlerVars
  <1>1. TypeOK'
    BY Places DEF AttemptOutcome, IncarnationState
  <1>2. Permit' /\ Closing'
    BY DEF Tearing, Closing, Abortable, Live
  <1>3. Attempts' /\ Teardown'
    BY DEF Attempts, Closing, Teardown, Tearing, InPhase
  <1>4. Owned'
    BY DEF Tearing, Attempts, Teardown, Owned, Open, Owner, InPhase
  <1>5. Intact' /\ Agree' /\ Running' /\ Once'
    BY DEF Attempts, Owned, Teardown, Closing, Intact, Abortable, Tearing, InPhase,
       Open, Owner, Live, Agree, Updating, Running, Once, SinksSuspend, Synchronous,
       Quiet
  <1> QED
    BY <1>1, <1>2, <1>3, <1>4, <1>5

LEMMA DiscardExpiredKeeps ==
  ASSUME IInv, UNCHANGED scenario, NEW o \in Op, DiscardExpired(o)
  PROVE  IInv'
  <1> USE Parties DEF IInv, TypeOK, CellTypes, DataTypes, ActorTypes, OperationTypes,
        Permit, Free, DiscardExpired, Runs, Undisturbed, StartTeardown, Goto,
        cellVars, dataVars, actorVars, operationVars, handlerVars
  <1>1. TypeOK'
    BY Places, Shape, ParameterAssumption DEF AttemptOutcome, IncarnationState,
       Attempt
  <1>2. Permit' /\ Closing'
    BY DEF Tearing, Closing, Abortable, Live
  <1>3. Attempts'
    BY DEF Attempts, HasReadyData
  <1>4. Teardown'
    BY Fields, Shape DEF Closing, Attempts, Teardown, Tearing, InPhase, HasReadyData
  <1>5. Owned'
    BY DEF Tearing, Attempts, Teardown, Owned, Open, Owner, InPhase, HasReadyData
  <1>6. Intact' /\ Agree' /\ Running' /\ Once'
    BY DEF Attempts, Owned, Teardown, Closing, Intact, Abortable, Tearing,
       HasReadyData, InPhase, Open, Owner, Live, Agree, Updating, Running, Once,
       SinksSuspend, Synchronous, Quiet
  <1> QED
    BY <1>1, <1>2, <1>3, <1>4, <1>5, <1>6

LEMMA AwaitAttemptKeeps ==
  ASSUME IInv, UNCHANGED scenario, NEW o \in Op, AwaitAttempt(o)
  PROVE  IInv'
  <1> USE Parties DEF IInv, TypeOK, CellTypes, DataTypes, ActorTypes, OperationTypes,
        Permit, Free, AwaitAttempt, Runs, Undisturbed, Goto, cellVars,
        incarnationVars, dataVars, actorVars, handlerVars
  <1>1. TypeOK'
    BY Places, Shape, ParameterAssumption DEF AttemptOutcome, IncarnationState,
       Attempt
  <1>2. Permit' /\ Closing'
    BY DEF Tearing, Closing, Abortable, Live
  <1>3. Attempts'
    BY Fields, Shape DEF Attempts, HasReadyData
  <1>4. Teardown'
    BY DEF Closing, Attempts, Teardown, Tearing, InPhase, HasReadyData
  <1>5. Owned'
    BY DEF Tearing, Attempts, Teardown, Owned, Open, Owner, InPhase, HasReadyData
  <1>6. Intact' /\ Agree' /\ Running' /\ Once'
    BY DEF Attempts, Owned, Teardown, Closing, Intact, Abortable, Tearing,
       HasReadyData, InPhase, Open, Owner, Live, Agree, Updating, Running, Once,
       SinksSuspend, Synchronous, Quiet
  <1> QED
    BY <1>1, <1>2, <1>3, <1>4, <1>5, <1>6

LEMMA AttemptAnswersKeeps ==
  ASSUME IInv, UNCHANGED scenario, NEW o \in Op, AttemptAnswers(o)
  PROVE  IInv'
  <1> USE Parties DEF IInv, TypeOK, CellTypes, DataTypes, ActorTypes, OperationTypes,
        Permit, Free, AttemptAnswers, Runs, Undisturbed, Delivered, Goto,
        Finish, actorVars, cellVars, incarnationVars, dataVars, handlerVars
  <1>1. TypeOK'
    BY Places DEF AttemptOutcome, IncarnationState
  <1>2. Permit' /\ Closing'
    BY DEF Tearing, Closing, Abortable, Live
  <1>3. Attempts' /\ Teardown'
    BY DEF Attempts, HasReadyData, Closing, Teardown, Tearing, InPhase
  <1>4. Owned'
    BY DEF Tearing, Attempts, Teardown, Owned, Open, Owner, InPhase, HasReadyData
  <1>5. Intact' /\ Agree' /\ Running' /\ Once'
    BY DEF Attempts, Owned, Teardown, Closing, Intact, Abortable, Tearing,
       HasReadyData, InPhase, Open, Owner, Live, Agree, Updating, Running, Once,
       SinksSuspend, Synchronous, Quiet
  <1> QED
    BY <1>1, <1>2, <1>3, <1>4, <1>5

LEMMA BeginAttemptKeeps ==
  ASSUME IInv, UNCHANGED scenario, NEW o \in Op, BeginAttempt(o)
  PROVE  IInv'
  <1> USE Parties DEF IInv, TypeOK, CellTypes, DataTypes, ActorTypes, OperationTypes,
        Permit, Free, BeginAttempt, Runs, Undisturbed, Goto, incarnationVars,
        dataVars, actorVars, handlerVars
  <1>0. nextAttemptId' \in Attempt
    BY ParameterAssumption DEF Attempt
  <1>1. TypeOK'
    BY Shape, Phases, <1>0, ParameterAssumption, Places DEF AttemptOutcome,
       IncarnationState, Attempt
  <1>2. Permit' /\ Closing'
    BY Fields, Shape DEF Tearing, Closing, Abortable, Live
  <1>3. Attempts' /\ Teardown'
    BY Fields, Shape, <1>0 DEF Attempts, HasReadyData, Closing, Teardown, Tearing,
       InPhase
  <1>4. Owned'
    BY Fields, Shape DEF Tearing, Attempts, Teardown, Owned, Open, Owner, InPhase,
       HasReadyData
  <1>5. Intact' /\ Agree' /\ Running' /\ Once'
    BY Fields, Shape DEF Attempts, Owned, Teardown, Closing, Intact, Abortable,
       Tearing, HasReadyData, InPhase, Open, Owner, Live, Agree, Updating, Running,
       Once, SinksSuspend, Synchronous, Quiet
  <1> QED
    BY <1>1, <1>2, <1>3, <1>4, <1>5

LEMMA DependenciesFailKeeps ==
  ASSUME IInv, UNCHANGED scenario, NEW o \in Op, DependenciesFail(o)
  PROVE  IInv'
  <1> USE Parties DEF IInv, TypeOK, CellTypes, DataTypes, ActorTypes, OperationTypes,
        Permit, Free, DependenciesFail, Runs, Undisturbed, FailAttempt, Goto,
        incarnationVars, dataVars, actorVars, operationVars, handlerVars
  <1>1. TypeOK'
    BY Shape, Phases, Places DEF AttemptOutcome, IncarnationState
  <1>2. Permit' /\ Closing'
    BY Fields, Shape DEF Tearing, Closing, Abortable, Live
  <1>3. Attempts' /\ Teardown'
    BY Fields, Shape DEF Attempts, HasReadyData, Closing, Teardown, Tearing, InPhase
  <1>4. Owned'
    BY Fields, Shape DEF Tearing, Attempts, Teardown, Owned, Open, Owner, InPhase,
       HasReadyData
  <1>5. Intact' /\ Agree' /\ Running' /\ Once'
    BY Fields, Shape DEF Attempts, Owned, Teardown, Closing, Intact, Abortable,
       Tearing, HasReadyData, InPhase, Open, Owner, Live, Agree, Updating, Running,
       Once, SinksSuspend, Synchronous, Quiet
  <1> QED
    BY <1>1, <1>2, <1>3, <1>4, <1>5

LEMMA DependenciesReadyKeeps ==
  ASSUME IInv, UNCHANGED scenario, NEW o \in Op, DependenciesReady(o)
  PROVE  IInv'
  <1> USE Parties DEF IInv, TypeOK, CellTypes, DataTypes, ActorTypes, OperationTypes,
        Permit, Free, DependenciesReady, Runs, Undisturbed, Goto, cellVars,
        actorVars, operationVars, handlerVars
  <1>1. CellTypes'
    BY DEF AttemptOutcome, IncarnationState
  <1>2. DataTypes'
    OBVIOUS
  <1>3. ActorTypes'
    BY Places
  <1>4. OperationTypes'
    OBVIOUS
  <1>5. Permit' /\ Closing'
    BY DEF Tearing, Closing, Abortable, Live
  <1>6. Attempts' /\ Teardown'
    BY DEF Attempts, HasReadyData, Closing, Teardown, Tearing, InPhase
  <1>7. Owned'
    BY DEF Tearing, Attempts, Teardown, Owned, Open, Owner, InPhase, HasReadyData
  <1>8. Intact'
    BY Fields, Shape DEF Attempts, Owned, Teardown, Closing, Intact, Abortable,
       Tearing, HasReadyData, InPhase, Open, Owner, Live
  <1>9. Agree'
    BY DEF Attempts, Closing, Agree, Updating, Tearing, HasReadyData, Live
  <1>10. Running'
    BY DEF Closing, Running, Abortable, Live, Tearing
  <1>11. Once'
    BY DEF Once, SinksSuspend, Live, Synchronous, Quiet
  <1> QED
    BY <1>1, <1>2, <1>3, <1>4, <1>5, <1>6, <1>7, <1>8, <1>9, <1>10, <1>11

LEMMA AcquireSucceedsKeeps ==
  ASSUME IInv, UNCHANGED scenario, NEW o \in Op, AcquireSucceeds(o)
  PROVE  IInv'
  <1> USE Parties DEF IInv, TypeOK, CellTypes, DataTypes, ActorTypes, OperationTypes,
        Permit, Free, AcquireSucceeds, Runs, Undisturbed, Goto, actorVars,
        operationVars, handlerVars
  <1>1. CellTypes'
    <2>1. attempt[o] \in Attempt
      BY DEF Attempts
    <2>2. phase' \in CellPhase
      BY <2>1, Phases
    <2>3. incarnation' \in [Attempt -> IncarnationState]
      BY DEF IncarnationState
    <2> QED
      BY <2>2, <2>3
  <1>2. DataTypes'
    OBVIOUS
  <1>3. ActorTypes'
    BY Places
  <1>4. OperationTypes'
    OBVIOUS
  <1>5. Permit' /\ Closing'
    BY Fields, Shape DEF Tearing, Closing, Abortable, Live
  <1>6. Attempts' /\ Teardown'
    BY Fields, Shape DEF Attempts, HasReadyData, Closing, Teardown, Tearing, InPhase
  <1>7. Owned'
    BY Fields, Shape DEF Tearing, Attempts, Teardown, Owned, Open, Owner, InPhase,
       HasReadyData
  <1>8. Intact' /\ Agree' /\ Running' /\ Once'
    BY Fields, Shape DEF Attempts, Owned, Teardown, Closing, Intact, Abortable,
       Tearing, HasReadyData, InPhase, Open, Owner, Live, Agree, Updating, Running,
       Once, SinksSuspend, Synchronous, Quiet
  <1> QED
    BY <1>1, <1>2, <1>3, <1>4, <1>5, <1>6, <1>7, <1>8

LEMMA AcquireFailsKeeps ==
  ASSUME IInv, UNCHANGED scenario, NEW o \in Op, AcquireFails(o)
  PROVE  IInv'
  <1> USE Parties DEF IInv, TypeOK, CellTypes, DataTypes, ActorTypes, OperationTypes,
        Permit, Free, AcquireFails, Runs, Undisturbed, Goto, cellVars, dataVars,
        actorVars, operationVars, handlerVars
  <1>1. CellTypes'
    BY DEF AttemptOutcome, IncarnationState
  <1>2. DataTypes'
    OBVIOUS
  <1>3. ActorTypes'
    BY Places
  <1>4. OperationTypes'
    OBVIOUS
  <1>5. Permit' /\ Closing'
    BY DEF Tearing, Closing, Abortable, Live
  <1>6. Attempts' /\ Teardown'
    BY DEF Attempts, HasReadyData, Closing, Teardown, Tearing, InPhase
  <1>7. Owned'
    BY DEF Tearing, Attempts, Teardown, Owned, Open, Owner, InPhase, HasReadyData
  <1>8. Intact'
    BY Fields, Shape DEF Attempts, Owned, Teardown, Closing, Intact, Abortable,
       Tearing, HasReadyData, InPhase, Open, Owner, Live
  <1>9. Agree'
    BY DEF Attempts, Closing, Agree, Updating, Tearing, HasReadyData, Live
  <1>10. Running'
    BY DEF Closing, Running, Abortable, Live, Tearing
  <1>11. Once'
    BY DEF Once, SinksSuspend, Live, Synchronous, Quiet
  <1> QED
    BY <1>1, <1>2, <1>3, <1>4, <1>5, <1>6, <1>7, <1>8, <1>9, <1>10, <1>11

LEMMA DiscardedKeeps ==
  ASSUME IInv, UNCHANGED scenario, NEW o \in Op, Discarded(o)
  PROVE  IInv'
  <1> USE Parties DEF IInv, TypeOK, CellTypes, DataTypes, ActorTypes, OperationTypes,
        Permit, Free, Discarded, Runs, Undisturbed, Goto, FailAttempt, dataVars,
        actorVars, operationVars, handlerVars
  <1>1. CellTypes'
    BY Shape, Phases DEF AttemptOutcome, IncarnationState
  <1>2. DataTypes'
    OBVIOUS
  <1>3. ActorTypes'
    BY Places
  <1>4. OperationTypes'
    OBVIOUS
  <1>5. Permit' /\ Closing'
    BY Fields, Shape DEF Tearing, Closing, Abortable, Live
  <1>6. Attempts' /\ Teardown'
    BY Fields, Shape DEF Attempts, HasReadyData, Closing, Teardown, Tearing, InPhase
  <1>7. Owned'
    BY Fields, Shape DEF Tearing, Attempts, Teardown, Owned, Open, Owner, InPhase,
       HasReadyData
  <1>8. Intact' /\ Agree' /\ Running' /\ Once'
    BY Fields, Shape DEF Attempts, Owned, Teardown, Closing, Intact, Abortable,
       Tearing, HasReadyData, InPhase, Open, Owner, Live, Agree, Updating, Running,
       Once, SinksSuspend, Synchronous, Quiet
  <1> QED
    BY <1>1, <1>2, <1>3, <1>4, <1>5, <1>6, <1>7, <1>8

LEMMA AttemptEndsKeeps ==
  ASSUME IInv, UNCHANGED scenario, NEW o \in Op, AttemptEnds(o)
  PROVE  IInv'
  <1> USE Parties DEF IInv, TypeOK, CellTypes, DataTypes, ActorTypes, OperationTypes,
        Permit, Free, AttemptEnds, Runs, Undisturbed, Delivered, Goto, Finish,
        actorVars, Complete, incarnationVars, dataVars, handlerVars
  <1>1. CellTypes'
    BY DEF AttemptOutcome, IncarnationState
  <1>2. DataTypes'
    OBVIOUS
  <1>3. ActorTypes'
    BY Places
  <1>4. OperationTypes'
    OBVIOUS
  <1>5. Permit' /\ Closing'
    BY DEF Tearing, Closing, Abortable, Live
  <1>6. Attempts'
    BY Fields, Shape DEF Attempts, HasReadyData
  <1>7. Teardown'
    BY DEF Closing, Attempts, Teardown, Tearing, InPhase, HasReadyData
  <1>8. Owned'
    BY DEF Tearing, Attempts, Teardown, Owned, Open, Owner, InPhase, HasReadyData
  <1>9. Intact' /\ Agree' /\ Running' /\ Once'
    BY DEF Attempts, Owned, Teardown, Closing, Intact, Abortable, Tearing,
       HasReadyData, InPhase, Open, Owner, Live, Agree, Updating, Running, Once,
       SinksSuspend, Synchronous, Quiet
  <1> QED
    BY <1>1, <1>2, <1>3, <1>4, <1>5, <1>6, <1>7, <1>8, <1>9

LEMMA BeginOperationKeeps ==
  ASSUME IInv, UNCHANGED scenario, NEW o \in Op, BeginOperation(o)
  PROVE  IInv'
  <1> USE Parties DEF IInv, TypeOK, CellTypes, DataTypes, ActorTypes, OperationTypes,
        Permit, Free, BeginOperation, Runs, Undisturbed, Goto, incarnationVars,
        dataVars, actorVars, handlerVars
  <1>1. TypeOK'
    BY Shape, Phases, Places DEF AttemptOutcome, IncarnationState
  <1>2. Permit' /\ Closing'
    BY Fields, Shape DEF Tearing, Closing, Abortable, Live
  <1>3. Attempts' /\ Teardown'
    BY Fields, Shape DEF Attempts, HasReadyData, Closing, Teardown, Tearing, InPhase
  <1>4. Owned'
    BY Fields, Shape DEF Tearing, Attempts, Teardown, Owned, Open, Owner, InPhase,
       HasReadyData
  <1>5. Intact' /\ Agree' /\ Running' /\ Once'
    BY Fields, Shape DEF Attempts, Owned, Teardown, Closing, Intact, Abortable,
       Tearing, HasReadyData, InPhase, Open, Owner, Live, Agree, Updating, Running,
       Once, SinksSuspend, Synchronous, Quiet
  <1> QED
    BY <1>1, <1>2, <1>3, <1>4, <1>5

LEMMA ActionStartsKeeps ==
  ASSUME IInv, UNCHANGED scenario, NEW o \in Op, ActionStarts(o)
  PROVE  IInv'
  <1> USE Parties DEF IInv, TypeOK, CellTypes, DataTypes, ActorTypes, OperationTypes,
        Permit, Free, ActionStarts, Runs, Undisturbed, Goto, Settle,
        HasReadyData, incarnationVars, dataVars, actorVars, operationVars,
        handlerVars
  <1>1. TypeOK'
    BY Shape, Phases, Settling, Places DEF AttemptOutcome, IncarnationState
  <1>2. Permit' /\ Closing'
    BY Fields, Shape, Settling DEF Tearing, Closing, Abortable, Live
  <1>3. Attempts' /\ Teardown'
    BY Fields, Shape, Settling DEF Attempts, Closing, Teardown, Tearing, InPhase
  <1>4. Owned'
    BY Fields, Shape, Settling DEF Tearing, Attempts, Teardown, Owned, Open, Owner,
       InPhase
  <1>5. Intact' /\ Agree' /\ Running' /\ Once'
    BY Fields, Shape, Settling DEF Attempts, Owned, Teardown, Closing, Intact,
       Abortable, Tearing, InPhase, Open, Owner, Live, Agree, Updating, Running,
       Once, SinksSuspend, Synchronous, Quiet
  <1> QED
    BY <1>1, <1>2, <1>3, <1>4, <1>5

LEMMA RefreshStartsKeeps ==
  ASSUME IInv, UNCHANGED scenario, NEW o \in Op, RefreshStarts(o)
  PROVE  IInv'
  <1> USE Parties DEF IInv, TypeOK, CellTypes, DataTypes, ActorTypes, OperationTypes,
        Permit, Free, RefreshStarts, Runs, Undisturbed, Goto, Settle,
        HasReadyData, incarnationVars, dataVars, actorVars, operationVars,
        handlerVars
  <1>1. TypeOK'
    BY Shape, Phases, Settling, Places DEF AttemptOutcome, IncarnationState
  <1>2. Permit' /\ Closing'
    BY Fields, Shape, Settling DEF Tearing, Closing, Abortable, Live
  <1>3. Attempts' /\ Teardown'
    BY Fields, Shape, Settling DEF Attempts, Closing, Teardown, Tearing, InPhase
  <1>4. Owned'
    BY Fields, Shape, Settling DEF Tearing, Attempts, Teardown, Owned, Open, Owner,
       InPhase
  <1>5. Intact' /\ Agree' /\ Running' /\ Once'
    BY Fields, Shape, Settling DEF Attempts, Owned, Teardown, Closing, Intact,
       Abortable, Tearing, InPhase, Open, Owner, Live, Agree, Updating, Running,
       Once, SinksSuspend, Synchronous, Quiet
  <1> QED
    BY <1>1, <1>2, <1>3, <1>4, <1>5

LEMMA ArgsRejectedKeeps ==
  ASSUME IInv, UNCHANGED scenario, NEW o \in Op, ArgsRejected(o)
  PROVE  IInv'
  <1> USE Parties DEF IInv, TypeOK, CellTypes, DataTypes, ActorTypes, OperationTypes,
        Permit, Free, ArgsRejected, Runs, Undisturbed, Settle, Goto,
        incarnationVars, dataVars, actorVars, operationVars, handlerVars
  <1>1. TypeOK'
    BY Shape, Phases, Settling, Places DEF AttemptOutcome, IncarnationState
  <1>2. Permit' /\ Closing'
    BY Fields, Shape, Settling DEF Tearing, Closing, Abortable, Live
  <1>3. Attempts' /\ Teardown'
    BY Fields, Shape, Settling DEF Attempts, HasReadyData, Closing, Teardown,
       Tearing, InPhase
  <1>4. Owned'
    BY Fields, Shape, Settling DEF Tearing, Attempts, Teardown, Owned, Open, Owner,
       InPhase, HasReadyData
  <1>5. Intact' /\ Agree' /\ Running' /\ Once'
    BY Fields, Shape, Settling DEF Attempts, Owned, Teardown, Closing, Intact,
       Abortable, Tearing, HasReadyData, InPhase, Open, Owner, Live, Agree,
       Updating, Running, Once, SinksSuspend, Synchronous, Quiet
  <1> QED
    BY <1>1, <1>2, <1>3, <1>4, <1>5

LEMMA ArgsSetKeeps ==
  ASSUME IInv, UNCHANGED scenario, NEW o \in Op, ArgsSet(o)
  PROVE  IInv'
  <1> USE Parties DEF IInv, TypeOK, CellTypes, DataTypes, ActorTypes, OperationTypes,
        Permit, Free, ArgsSet, Runs, Undisturbed, Goto, Settle, HasReadyData,
        incarnationVars, actorVars, operationVars, handlerVars
  <1>1. TypeOK'
    BY Shape, Phases, Settling, Places DEF AttemptOutcome, IncarnationState
  <1>2. Permit' /\ Closing'
    BY Fields, Shape, Settling DEF Tearing, Closing, Abortable, Live
  <1>3. Attempts' /\ Teardown'
    BY Fields, Shape, Settling DEF Attempts, Closing, Teardown, Tearing, InPhase
  <1>4. Owned'
    BY Fields, Shape, Settling DEF Tearing, Attempts, Teardown, Owned, Open, Owner,
       InPhase
  <1>5. Intact' /\ Agree' /\ Running' /\ Once'
    BY Fields, Shape, Settling DEF Attempts, Owned, Teardown, Closing, Intact,
       Abortable, Tearing, InPhase, Open, Owner, Live, Agree, Updating, Running,
       Once, SinksSuspend, Synchronous, Quiet
  <1> QED
    BY <1>1, <1>2, <1>3, <1>4, <1>5

LEMMA ArgsRefreshStartsKeeps ==
  ASSUME IInv, UNCHANGED scenario, NEW o \in Op, ArgsRefreshStarts(o)
  PROVE  IInv'
  <1> USE Parties DEF IInv, TypeOK, CellTypes, DataTypes, ActorTypes, OperationTypes,
        Permit, Free, ArgsRefreshStarts, Runs, Undisturbed, Goto, cellVars,
        incarnationVars, dataVars, actorVars, operationVars, handlerVars
  <1>1. TypeOK'
    BY Places DEF AttemptOutcome, IncarnationState
  <1>2. Permit' /\ Closing'
    BY DEF Tearing, Closing, Abortable, Live
  <1>3. Attempts' /\ Teardown'
    BY DEF Attempts, HasReadyData, Closing, Teardown, Tearing, InPhase
  <1>4. Owned'
    BY DEF Tearing, Attempts, Teardown, Owned, Open, Owner, InPhase, HasReadyData
  <1>5. Intact' /\ Agree' /\ Running' /\ Once'
    BY DEF Attempts, Owned, Teardown, Closing, Intact, Abortable, Tearing,
       HasReadyData, InPhase, Open, Owner, Live, Agree, Updating, Running, Once,
       SinksSuspend, Synchronous, Quiet
  <1> QED
    BY <1>1, <1>2, <1>3, <1>4, <1>5

LEMMA ArgsRefreshFailsKeeps ==
  ASSUME IInv, UNCHANGED scenario, NEW o \in Op, ArgsRefreshFails(o)
  PROVE  IInv'
  <1> USE Parties DEF IInv, TypeOK, CellTypes, DataTypes, ActorTypes, OperationTypes,
        Permit, Free, ArgsRefreshFails, Runs, Undisturbed, Settle, Goto,
        RollBack, incarnationVars, actorVars, operationVars, handlerVars
  <1>1. TypeOK'
    BY Shape, Phases, Settling, Places DEF AttemptOutcome, IncarnationState
  <1>2. Permit' /\ Closing'
    BY Fields, Shape, Settling DEF Tearing, Closing, Abortable, Live
  <1>3. Attempts' /\ Teardown'
    BY Fields, Shape, Settling DEF Attempts, HasReadyData, Closing, Teardown,
       Tearing, InPhase
  <1>4. Owned'
    BY Fields, Shape, Settling DEF Tearing, Attempts, Teardown, Owned, Open, Owner,
       InPhase, HasReadyData
  <1>5. Intact' /\ Agree' /\ Running' /\ Once'
    BY Fields, Shape, Settling DEF Attempts, Owned, Teardown, Closing, Intact,
       Abortable, Tearing, HasReadyData, InPhase, Open, Owner, Live, Agree,
       Updating, Running, Once, SinksSuspend, Synchronous, Quiet
  <1> QED
    BY <1>1, <1>2, <1>3, <1>4, <1>5

LEMMA DriverSucceedsKeeps ==
  ASSUME IInv, UNCHANGED scenario, NEW o \in Op, DriverSucceeds(o)
  PROVE  IInv'
  <1> USE Parties DEF IInv, TypeOK, CellTypes, DataTypes, ActorTypes, OperationTypes,
        Permit, Free, DriverSucceeds, Runs, Undisturbed, Goto, HasReadyData,
        cellVars, incarnationVars, actorVars, operationVars, handlerVars
  <1>1. CellTypes'
    BY DEF AttemptOutcome, IncarnationState
  <1>2. DataTypes'
    OBVIOUS
  <1>3. ActorTypes'
    BY Places
  <1>4. OperationTypes'
    OBVIOUS
  <1>5. Permit' /\ Closing'
    BY DEF Tearing, Closing, Abortable, Live
  <1>6. Attempts' /\ Teardown'
    BY DEF Attempts, Closing, Teardown, Tearing, InPhase
  <1>7. Owned'
    BY DEF Tearing, Attempts, Teardown, Owned, Open, Owner, InPhase
  <1>8. Intact' /\ Agree' /\ Running' /\ Once'
    BY DEF Attempts, Owned, Teardown, Closing, Intact, Abortable, Tearing, InPhase,
       Open, Owner, Live, Agree, Updating, Running, Once, SinksSuspend, Synchronous,
       Quiet
  <1> QED
    BY <1>1, <1>2, <1>3, <1>4, <1>5, <1>6, <1>7, <1>8

LEMMA DriverFailsKeeps ==
  ASSUME IInv, UNCHANGED scenario, NEW o \in Op, DriverFails(o)
  PROVE  IInv'
  <1> USE Parties DEF IInv, TypeOK, CellTypes, DataTypes, ActorTypes, OperationTypes,
        Permit, Free, DriverFails, Runs, Undisturbed, Settle, Goto,
        incarnationVars, dataVars, actorVars, operationVars, handlerVars
  <1>1. TypeOK'
    BY Shape, Phases, Settling, Places DEF AttemptOutcome, IncarnationState
  <1>2. Permit' /\ Closing'
    BY Fields, Shape, Settling DEF Tearing, Closing, Abortable, Live
  <1>3. Attempts' /\ Teardown'
    BY Fields, Shape, Settling DEF Attempts, HasReadyData, Closing, Teardown,
       Tearing, InPhase
  <1>4. Owned'
    BY Fields, Shape, Settling DEF Tearing, Attempts, Teardown, Owned, Open, Owner,
       InPhase, HasReadyData
  <1>5. Intact' /\ Agree' /\ Running' /\ Once'
    BY Fields, Shape, Settling DEF Attempts, Owned, Teardown, Closing, Intact,
       Abortable, Tearing, HasReadyData, InPhase, Open, Owner, Live, Agree,
       Updating, Running, Once, SinksSuspend, Synchronous, Quiet
  <1> QED
    BY <1>1, <1>2, <1>3, <1>4, <1>5

LEMMA CommitEndsKeeps ==
  ASSUME IInv, UNCHANGED scenario, NEW o \in Op, CommitEnds(o)
  PROVE  IInv'
  <1> USE Parties DEF IInv, TypeOK, CellTypes, DataTypes, ActorTypes, OperationTypes,
        Permit, Free, CommitEnds, Runs, Undisturbed, Settle, Goto,
        incarnationVars, dataVars, actorVars, operationVars, handlerVars
  <1>1. TypeOK'
    BY Shape, Phases, Settling, Places DEF AttemptOutcome, IncarnationState
  <1>2. Permit' /\ Closing'
    BY Fields, Shape, Settling DEF Tearing, Closing, Abortable, Live
  <1>3. Attempts' /\ Teardown'
    BY Fields, Shape, Settling DEF Attempts, HasReadyData, Closing, Teardown,
       Tearing, InPhase
  <1>4. Owned'
    BY Fields, Shape, Settling DEF Tearing, Attempts, Teardown, Owned, Open, Owner,
       InPhase, HasReadyData
  <1>5. Intact' /\ Agree' /\ Running' /\ Once'
    BY Fields, Shape, Settling DEF Attempts, Owned, Teardown, Closing, Intact,
       Abortable, Tearing, HasReadyData, InPhase, Open, Owner, Live, Agree,
       Updating, Running, Once, SinksSuspend, Synchronous, Quiet
  <1> QED
    BY <1>1, <1>2, <1>3, <1>4, <1>5

LEMMA NotifyCompletedKeeps ==
  ASSUME IInv, UNCHANGED scenario, NEW o \in Op, NotifyCompleted(o)
  PROVE  IInv'
  <1> USE Parties DEF IInv, TypeOK, CellTypes, DataTypes, ActorTypes, OperationTypes,
        Permit, Free, NotifyCompleted, Runs, Undisturbed, Goto, cellVars,
        incarnationVars, dataVars, actorVars, operationVars
  <1>1. TypeOK'
    BY Places DEF AttemptOutcome, IncarnationState
  <1>2. Permit' /\ Closing'
    BY DEF Tearing, Closing, Abortable, Live
  <1>3. Attempts' /\ Teardown'
    BY DEF Attempts, HasReadyData, Closing, Teardown, Tearing, InPhase
  <1>4. Owned'
    BY DEF Tearing, Attempts, Teardown, Owned, Open, Owner, InPhase, HasReadyData
  <1>5. Intact' /\ Agree' /\ Running' /\ Once'
    BY DEF Attempts, Owned, Teardown, Closing, Intact, Abortable, Tearing,
       HasReadyData, InPhase, Open, Owner, Live, Agree, Updating, Running, Once,
       SinksSuspend, Synchronous, Quiet
  <1> QED
    BY <1>1, <1>2, <1>3, <1>4, <1>5

LEMMA OperationEndsKeeps ==
  ASSUME IInv, UNCHANGED scenario, NEW o \in Op, OperationEnds(o)
  PROVE  IInv'
  <1> USE Parties DEF IInv, TypeOK, CellTypes, DataTypes, ActorTypes, OperationTypes,
        Permit, Free, OperationEnds, Runs, Undisturbed, Finish, Goto, cellVars,
        incarnationVars, dataVars, operationVars, handlerVars
  <1>1. TypeOK'
    BY Places DEF AttemptOutcome, IncarnationState
  <1>2. Permit' /\ Closing'
    BY DEF Tearing, Closing, Abortable, Live
  <1>3. Attempts' /\ Teardown'
    BY DEF Attempts, HasReadyData, Closing, Teardown, Tearing, InPhase
  <1>4. Owned'
    BY DEF Tearing, Attempts, Teardown, Owned, Open, Owner, InPhase, HasReadyData
  <1>5. Intact' /\ Agree' /\ Running' /\ Once'
    BY DEF Attempts, Owned, Teardown, Closing, Intact, Abortable, Tearing,
       HasReadyData, InPhase, Open, Owner, Live, Agree, Updating, Running, Once,
       SinksSuspend, Synchronous, Quiet
  <1> QED
    BY <1>1, <1>2, <1>3, <1>4, <1>5

LEMMA ReleaseStartsKeeps ==
  ASSUME IInv, UNCHANGED scenario, NEW o \in Op, ReleaseStarts(o)
  PROVE  IInv'
  <1> USE Parties DEF IInv, TypeOK, CellTypes, DataTypes, ActorTypes, OperationTypes,
        Permit, Free, ReleaseStarts, Runs, Undisturbed, Finish, Goto,
        StartTeardown, HasReadyData, dataVars, actorVars, operationVars,
        handlerVars
  <1>1. CellTypes'
    BY Shape, Phases DEF AttemptOutcome, IncarnationState
  <1>2. DataTypes'
    OBVIOUS
  <1>3. ActorTypes'
    BY Places
  <1>4. OperationTypes'
    BY Shape, ParameterAssumption DEF Attempt
  <1>5. Permit' /\ Closing'
    BY Fields, Shape DEF Tearing, Closing, Abortable, Live
  <1>6. Attempts' /\ Teardown'
    BY Fields, Shape DEF Attempts, Closing, Teardown, Tearing, InPhase
  <1>7. Owned'
    BY Fields, Shape DEF Tearing, Attempts, Teardown, Owned, Open, Owner, InPhase
  <1>8. Intact' /\ Agree' /\ Running' /\ Once'
    BY Fields, Shape DEF Attempts, Owned, Teardown, Closing, Intact, Abortable,
       Tearing, InPhase, Open, Owner, Live, Agree, Updating, Running, Once,
       SinksSuspend, Synchronous, Quiet
  <1> QED
    BY <1>1, <1>2, <1>3, <1>4, <1>5, <1>6, <1>7, <1>8

LEMMA HandlerStartsKeeps ==
  ASSUME IInv, UNCHANGED scenario, NEW o \in Op, HandlerStarts(o)
  PROVE  IInv'
  <1> USE Parties DEF IInv, TypeOK, CellTypes, DataTypes, ActorTypes, OperationTypes,
        Permit, Free, HandlerStarts, Complete, Live, incarnationVars, dataVars,
        actorVars, operationVars
  <1>1. TypeOK'
    BY Shape, Phases, Places DEF AttemptOutcome, IncarnationState
  <1>2. Permit' /\ Closing'
    BY Fields, Shape DEF Tearing, Closing, Abortable
  <1>3. Attempts' /\ Teardown'
    BY Fields, Shape DEF Attempts, HasReadyData, Closing, Teardown, Tearing, InPhase
  <1>4. Owned'
    BY Fields, Shape DEF Tearing, Attempts, Teardown, Owned, Open, Owner, InPhase,
       HasReadyData
  <1>5. Intact' /\ Agree' /\ Running' /\ Once'
    BY Fields, Shape DEF Attempts, Owned, Teardown, Closing, Intact, Abortable,
       Tearing, HasReadyData, InPhase, Open, Owner, Agree, Updating, Running, Once,
       SinksSuspend, Synchronous, Quiet
  <1> QED
    BY <1>1, <1>2, <1>3, <1>4, <1>5

LEMMA HandlerEndsKeeps ==
  ASSUME IInv, UNCHANGED scenario, NEW o \in Op, HandlerEnds(o)
  PROVE  IInv'
  <1> USE Parties DEF IInv, TypeOK, CellTypes, DataTypes, ActorTypes, OperationTypes,
        Permit, Free, HandlerEnds, cellVars, incarnationVars, dataVars,
        actorVars, operationVars
  <1>1. TypeOK'
    BY Places DEF AttemptOutcome, IncarnationState
  <1>2. Permit' /\ Closing'
    BY DEF Tearing, Closing, Abortable, Live
  <1>3. Attempts' /\ Teardown'
    BY DEF Attempts, HasReadyData, Closing, Teardown, Tearing, InPhase
  <1>4. Owned'
    BY DEF Tearing, Attempts, Teardown, Owned, Open, Owner, InPhase, HasReadyData
  <1>5. Intact' /\ Agree' /\ Running' /\ Once'
    BY DEF Attempts, Owned, Teardown, Closing, Intact, Abortable, Tearing,
       HasReadyData, InPhase, Open, Owner, Live, Agree, Updating, Running, Once,
       SinksSuspend, Synchronous, Quiet
  <1> QED
    BY <1>1, <1>2, <1>3, <1>4, <1>5

LEMMA InterruptedKeeps ==
  ASSUME IInv, UNCHANGED scenario, NEW o \in Op, Interrupted(o)
  PROVE  IInv'
  <1> USE Parties DEF IInv, TypeOK, CellTypes, DataTypes, ActorTypes, OperationTypes,
        Permit, Free, Interrupted, Goto, Finish, dataVars, actorVars,
        operationVars, handlerVars, Unguarded, InAcquire, InOperation
  <1>1. TypeOK'
    BY Shape, Phases, Settling, Places DEF AttemptOutcome, IncarnationState
  <1>2. Permit' /\ Closing'
    BY Fields, Shape, Settling DEF Tearing, Closing, Abortable, Live
  <1>3. Attempts' /\ Teardown'
    BY Fields, Shape, Settling DEF Attempts, HasReadyData, Closing, Teardown,
       Tearing, InPhase
  <1>4. Owned'
    BY Fields, Shape, Settling DEF Tearing, Attempts, Teardown, Owned, Open, Owner,
       InPhase, HasReadyData
  <1>5. Intact' /\ Agree' /\ Running' /\ Once'
    BY Fields, Shape, Settling, OpAssumption DEF Attempts, Owned, Teardown, Closing,
       Intact, Abortable, Tearing, HasReadyData, InPhase, Open, Owner, Live, Agree,
       Updating, Running, Once, SinksSuspend, Synchronous, Quiet
  <1> QED
    BY <1>1, <1>2, <1>3, <1>4, <1>5

LEMMA UnwoundKeeps ==
  ASSUME IInv, UNCHANGED scenario, NEW o \in Op, Unwound(o)
  PROVE  IInv'
  <1> USE Parties DEF IInv, TypeOK, CellTypes, DataTypes, ActorTypes, OperationTypes,
        Permit, Free, Unwound, Finish, Goto, dataVars, operationVars,
        handlerVars
  <1>1. TypeOK'
    BY Shape, Phases, Settling, Places DEF AttemptOutcome, IncarnationState
  <1>2. Permit' /\ Closing'
    BY Fields, Shape, Settling DEF Tearing, Closing, Abortable, Live
  <1>3. Attempts' /\ Teardown'
    BY Fields, Shape, Settling DEF Attempts, HasReadyData, Closing, Teardown,
       Tearing, InPhase
  <1>4. Owned'
    <2> SUFFICES ASSUME NEW g \in Attempt, incarnation'[g] \in Open
                 PROVE  InPhase(g)' \/ Owner(g)'
      BY DEF Owned
    <2>1. incarnation[g] \in Open /\ ~(attempt[o] = g /\ incarnation[g] = "discarding")
      BY ParameterAssumption DEF Open, Attempt
    <2>2. InPhase(g)
      BY <2>1 DEF Owned, Owner
    <2> QED
      BY <2>2, Fields, Settling DEF InPhase, HasReadyData
  <1>5. Intact' /\ Agree' /\ Running' /\ Once'
    BY Fields, Shape, Settling DEF Attempts, Owned, Teardown, Closing, Intact,
       Abortable, Tearing, HasReadyData, InPhase, Open, Owner, Live, Agree,
       Updating, Running, Once, SinksSuspend, Synchronous, Quiet
  <1> QED
    BY <1>1, <1>2, <1>3, <1>4, <1>5

LEMMA CloseKeeps ==
  ASSUME IInv, UNCHANGED scenario, NEW why \in {"invalidate", "evict"}, Close(why)
  PROVE  IInv'
  <1> USE Parties DEF IInv, TypeOK, CellTypes, DataTypes, ActorTypes, OperationTypes,
        Permit, Free, Close, Goto, cellVars, incarnationVars, dataVars,
        operationVars, handlerVars
  <1>1. TypeOK'
    BY Places DEF AttemptOutcome, IncarnationState
  <1>2. Permit' /\ Closing'
    BY DEF Tearing, Closing, Abortable, Live
  <1>3. Attempts' /\ Teardown'
    BY DEF Attempts, HasReadyData, Closing, Teardown, Tearing, InPhase
  <1>4. Owned'
    BY DEF Tearing, Attempts, Teardown, Owned, Open, Owner, InPhase, HasReadyData
  <1>5. Intact' /\ Agree' /\ Running' /\ Once'
    BY DEF Attempts, Owned, Teardown, Closing, Intact, Abortable, Tearing,
       HasReadyData, InPhase, Open, Owner, Live, Agree, Updating, Running, Once,
       SinksSuspend, Synchronous, Quiet
  <1> QED
    BY <1>1, <1>2, <1>3, <1>4, <1>5

LEMMA CloserTakesPermitKeeps ==
  ASSUME IInv, UNCHANGED scenario, CloserTakesPermit
  PROVE  IInv'
  <1> USE Parties DEF IInv, TypeOK, CellTypes, DataTypes, ActorTypes, OperationTypes,
        Permit, Free, CloserTakesPermit, Goto, StartTeardown, HasReadyData,
        Claimed, Live, dataVars, operationVars, handlerVars
  <1>1. CellTypes'
    BY Shape, Phases DEF AttemptOutcome, IncarnationState
  <1>2. DataTypes'
    OBVIOUS
  <1>3. ActorTypes'
    BY Places
  <1>4. OperationTypes'
    BY Shape, ParameterAssumption DEF Attempt
  <1>5. Permit' /\ Closing'
    BY Fields, Shape DEF Tearing, Closing, Abortable
  <1>6. Attempts' /\ Teardown'
    BY Fields, Shape DEF Attempts, Closing, Teardown, Tearing, InPhase
  <1>7. Owned'
    BY Fields, Shape DEF Tearing, Attempts, Teardown, Owned, Open, Owner, InPhase
  <1>8. Intact' /\ Agree' /\ Running' /\ Once'
    BY Fields, Shape DEF Attempts, Owned, Teardown, Closing, Intact, Abortable,
       Tearing, InPhase, Open, Owner, Agree, Updating, Running, Once, SinksSuspend,
       Synchronous, Quiet
  <1> QED
    BY <1>1, <1>2, <1>3, <1>4, <1>5, <1>6, <1>7, <1>8

LEMMA ActorDeletedKeeps ==
  ASSUME IInv, UNCHANGED scenario, ActorDeleted
  PROVE  IInv'
  <1> USE Parties DEF IInv, TypeOK, CellTypes, DataTypes, ActorTypes, OperationTypes,
        Permit, Free, ActorDeleted, Live, cellVars, incarnationVars, dataVars,
        operationVars, handlerVars
  <1>1. CellTypes'
    BY DEF AttemptOutcome, IncarnationState
  <1>2. DataTypes'
    OBVIOUS
  <1>3. ActorTypes'
    BY Places
  <1>4. OperationTypes'
    OBVIOUS
  <1>5. Permit' /\ Closing'
    BY DEF Tearing, Closing, Abortable
  <1>6. Attempts' /\ Teardown'
    BY DEF Attempts, HasReadyData, Closing, Teardown, Tearing, InPhase
  <1>7. Owned'
    BY DEF Tearing, Attempts, Teardown, Owned, Open, Owner, InPhase, HasReadyData
  <1>8. Intact'
    BY Fields, Shape DEF Attempts, Owned, Teardown, Closing, Intact, Abortable,
       Tearing, HasReadyData, InPhase, Open, Owner
  <1>9. Agree'
    BY Fields, Shape DEF Attempts, Closing, Agree, Updating, Tearing, HasReadyData
  <1>10. Running'
    BY Fields, Shape DEF Closing, Running, Abortable, Tearing
  <1>11. Once'
    BY DEF Once, SinksSuspend, Synchronous, Quiet
  <1> QED
    BY <1>1, <1>2, <1>3, <1>4, <1>5, <1>6, <1>7, <1>8, <1>9, <1>10, <1>11

LEMMA ExpireKeeps ==
  ASSUME IInv, UNCHANGED scenario, Expire
  PROVE  IInv'
  <1> USE Parties DEF IInv, TypeOK, CellTypes, DataTypes, ActorTypes, OperationTypes,
        Permit, Free, Expire, HasReadyData, cellVars, incarnationVars,
        actorVars, operationVars, handlerVars
  <1>1. TypeOK'
    BY Places DEF AttemptOutcome, IncarnationState
  <1>2. Permit' /\ Closing'
    BY DEF Tearing, Closing, Abortable, Live
  <1>3. Attempts' /\ Teardown'
    BY DEF Attempts, Closing, Teardown, Tearing, InPhase
  <1>4. Owned'
    BY DEF Tearing, Attempts, Teardown, Owned, Open, Owner, InPhase
  <1>5. Intact' /\ Agree' /\ Running' /\ Once'
    BY DEF Attempts, Owned, Teardown, Closing, Intact, Abortable, Tearing, InPhase,
       Open, Owner, Live, Agree, Updating, Running, Once, SinksSuspend, Synchronous,
       Quiet
  <1> QED
    BY <1>1, <1>2, <1>3, <1>4, <1>5

-----------------------------------------------------------------------------
(* The invariant *)

LEMMA InitIInv == Init => IInv
  <1> SUFFICES ASSUME Init PROVE IInv
    OBVIOUS
  <1> USE Parties, ParameterAssumption DEF Init
  <1>1. TypeOK
    <2>1. CellTypes
      BY Phases DEF CellTypes, AttemptOutcome, IncarnationState
    <2>2. DataTypes /\ ActorTypes
      BY Places DEF DataTypes, ActorTypes
    <2>3. OperationTypes
      BY DEF OperationTypes
    <2> QED
      BY <2>1, <2>2, <2>3 DEF TypeOK
  <1>2. Permit /\ Closing
    BY DEF Permit, Free, Closing, Tearing, Live, Party
  <1>3. Attempts /\ Owned /\ Teardown /\ Intact /\ Agree /\ Running
    BY Fields DEF Attempts, Owned, Open, Teardown, Intact, Agree, Running, HasReadyData,
       Tearing, Updating, Party
  <1>4. Once
    BY DEF Once
  <1> QED
    BY <1>1, <1>2, <1>3, <1>4 DEF IInv

LEMMA StutterKeeps ==
  ASSUME IInv, UNCHANGED vars  PROVE IInv'
  <1> USE DEF IInv, vars, steps, cellVars, incarnationVars, dataVars, actorVars, operationVars,
              handlerVars
  <1>1. TypeOK'
    BY DEF TypeOK, CellTypes, DataTypes, ActorTypes, OperationTypes
  <1>2. Permit' /\ Attempts' /\ Teardown' /\ Closing'
    BY DEF Permit, Attempts, Teardown, Closing, HasReadyData, InPhase, Abortable, Live
  <1>3. Owned'
    BY DEF Owned, Owner, InPhase, HasReadyData
  <1>4. Intact' /\ Agree' /\ Running' /\ Once'
    BY DEF Intact, Agree, Running, Once, HasReadyData, Updating, Abortable, SinksSuspend
  <1> QED
    BY <1>1, <1>2, <1>3, <1>4

LEMMA StepKeeps ==
  ASSUME IInv, [Next]_vars  PROVE IInv'
  <1>1. CASE UNCHANGED vars
    BY <1>1, StutterKeeps
  <1>2. ASSUME Environment, UNCHANGED scenario PROVE IInv'
    BY <1>2, SubmitKeeps, HandlerStartsKeeps, CloseKeeps, ExpireKeeps DEF Environment
  <1>3. ASSUME CloserSteps, UNCHANGED scenario PROVE IInv'
    BY <1>3, Parties, LiveStopEndsKeeps, ReleaseHookEndsKeeps, DisposersEndKeeps,
       CloserTakesPermitKeeps, ActorDeletedKeeps
    DEF CloserSteps
  <1>4. ASSUME NEW o \in Op, Worker(o), UNCHANGED scenario PROVE IInv'
    <2>1. o \in Party
      BY Parties
    <2> QED
      BY <1>4, <2>1, TakePermitKeeps, LiveStopEndsKeeps, ReleaseHookEndsKeeps, DisposersEndKeeps,
         ReadyOrInvalidReadKeeps, DiscardExpiredKeeps, AwaitAttemptKeeps,
         AttemptAnswersKeeps, BeginAttemptKeeps, DependenciesFailKeeps,
         DependenciesReadyKeeps, AcquireSucceedsKeeps, AcquireFailsKeeps,
         DiscardedKeeps, AttemptEndsKeeps, BeginOperationKeeps,
         ActionStartsKeeps, RefreshStartsKeeps, ArgsRejectedKeeps, ArgsSetKeeps,
         ArgsRefreshStartsKeeps, ArgsRefreshFailsKeeps, DriverSucceedsKeeps,
         DriverFailsKeeps, CommitEndsKeeps, NotifyCompletedKeeps,
         OperationEndsKeeps, ReleaseStartsKeeps, HandlerEndsKeeps,
         InterruptedKeeps, UnwoundKeeps
      DEF Worker
  <1> QED
    BY <1>1, <1>2, <1>3, <1>4 DEF Next

LEMMA Invariance == Spec => []IInv
  <1>1. IInv /\ [Next]_vars => IInv'
    BY StepKeeps
  <1> QED
    BY InitIInv, <1>1, PTL DEF Spec

-----------------------------------------------------------------------------
(* What it shows *)

\* Every variable keeps its type, whatever the scenario.
THEOREM TypeCorrect == Spec => []TypeOK
  <1>1. IInv => TypeOK
    BY DEF IInv
  <1> QED
    BY <1>1, Invariance, PTL

\* A free permit leaves nobody on his way.
LEMMA NobodyHolds ==
  ASSUME IInv, holder = "nobody"  PROVE holder \notin Op /\ holder # Closer
BY Parties

\* The incarnation a resting Ready node shows has not been torn down, unless a
\* caller may abort (createReadyNode and disposeReadyNode: the phase and the
\* lifetime signal are changed apart).
THEOREM ReadyAlive == Spec => []ReadyIsAlive
  <1>1. IInv => ReadyIsAlive
    BY NobodyHolds DEF IInv, Intact, ReadyIsAlive, AtRest, HasReadyData
  <1> QED
    BY <1>1, Invariance, PTL

\* No incarnation is lost between the attempt that made it, the phase that shows
\* it and whoever tears it down.
THEOREM NoLeak == Spec => []NothingLeaks
  <1>1. IInv => NothingLeaks
    BY NobodyHolds DEF IInv, Owned, Open, Owner, InPhase, NothingLeaks
  <1> QED
    BY <1>1, Invariance, PTL

\* An attempt whose awaiters were told it failed is never committed: the handler
\* that answers an attempt takes it out of the phase, which the commit looks at.
THEOREM NeverStale == Spec => []NoStaleCommit
  <1>1. IInv => NoStaleCommit
    BY DEF IInv, Attempts, NoStaleCommit
  <1> QED
    BY <1>1, Invariance, PTL

\* At rest the node and its cell show the same args and the result that was
\* loaded for them: a failed args update rolls back all of them.
THEOREM ResultsMatch == Spec => []ResultMatchesArgs
  <1>1. IInv => ResultMatchesArgs
    BY NobodyHolds DEF IInv, Agree, ResultMatchesArgs, AtRest, HasReadyData
  <1> QED
    BY <1>1, Invariance, PTL

\* A node at rest is in no operation, unless a caller may abort one.
THEOREM NoneRunning == Spec => [](Abortable = {} => OperationsSettle)
  <1>1. IInv => (Abortable = {} => OperationsSettle)
    BY NobodyHolds DEF IInv, Running, OperationsSettle, AtRest
  <1> QED
    BY <1>1, Invariance, PTL

\* An action is reported as completed by its worker or by the handler of its
\* interruption, never by both, when sinks do not suspend.
THEOREM ReportedOnce == Spec => []CompletedOnce
  <1>1. IInv => CompletedOnce
    BY DEF IInv, Once, CompletedOnce
  <1> QED
    BY <1>1, Invariance, PTL

-----------------------------------------------------------------------------
(* Who ends an operation *)

LEMMA OthersKeepOperating ==
  ASSUME IInv, Environment \/ CloserSteps, phase.tag = "Operating"
  PROVE  phase' = phase \/ phase'.tag # "Ready"
  <1> USE Fields DEF cellVars
  <1>1. CASE Environment
    BY <1>1 DEF Environment, Submit, HandlerStarts, Close, Expire
  <1>2. CASE CloserSteps
    BY <1>2 DEF CloserSteps, LiveStopEnds, ReleaseHookEnds, DisposersEnd, CloserTakesPermit,
                ActorDeleted, Complete
  <1> QED
    BY <1>1, <1>2

\* A worker leaves Operating for Ready by settling, and it holds the permit.
LEMMA WorkersSettle ==
  ASSUME IInv, NEW o \in Op, Worker(o), phase.tag = "Operating"
  PROVE  phase' = phase \/ phase'.tag # "Ready" \/ (holder = o /\ phase' = SettledPhase(o))
  <1> USE Fields DEF cellVars, Runs
  <1>1. CASE \/ TakePermit(o) \/ LiveStopEnds(o) \/ ReleaseHookEnds(o) \/ DisposersEnd(o)
             \/ ReadyOrInvalidRead(o) \/ DiscardExpired(o) \/ AwaitAttempt(o)
             \/ AttemptAnswers(o) \/ BeginAttempt(o) \/ ReleaseStarts(o)
    BY <1>1 DEF TakePermit, LiveStopEnds, ReleaseHookEnds, DisposersEnd, ReadyOrInvalidRead,
                DiscardExpired, AwaitAttempt, AttemptAnswers, BeginAttempt, ReleaseStarts
  <1>2. CASE \/ DependenciesFail(o) \/ DependenciesReady(o) \/ AcquireSucceeds(o)
             \/ AcquireFails(o) \/ Discarded(o) \/ AttemptEnds(o) \/ BeginOperation(o)
             \/ HandlerEnds(o)
    BY <1>2 DEF DependenciesFail, DependenciesReady, AcquireSucceeds, AcquireFails, Discarded,
                AttemptEnds, BeginOperation, HandlerEnds, FailAttempt
  <1>3. CASE \/ ActionStarts(o) \/ RefreshStarts(o) \/ ArgsRejected(o) \/ ArgsSet(o)
             \/ ArgsRefreshStarts(o) \/ ArgsRefreshFails(o) \/ DriverSucceeds(o)
             \/ DriverFails(o) \/ CommitEnds(o) \/ NotifyCompleted(o) \/ OperationEnds(o)
    BY <1>3 DEF ActionStarts, RefreshStarts, ArgsRejected, ArgsSet, ArgsRefreshStarts,
                ArgsRefreshFails, DriverSucceeds, DriverFails, CommitEnds, NotifyCompleted,
                OperationEnds, Settle
  <1>4. CASE Interrupted(o)
    <2>1. pc[o] \in InOperation => holder = o
      BY Parties DEF IInv, Permit, Free, InOperation
    <2> QED
      BY <1>4, <2>1 DEF Interrupted
  <1>5. CASE Unwound(o)
    BY <1>5 DEF Unwound
  <1> QED
    BY <1>1, <1>2, <1>3, <1>4, <1>5 DEF Worker

\* Only the operation a phase names ends it, and it holds the permit: a late
\* completion never clears the operation that overtook it (operationState.ts).
THEOREM OwnCompletion == Spec => OwnCompletionOnly
  <1>1. ASSUME IInv, [Next]_vars, phase.tag = "Operating", phase'.tag = "Ready"
        PROVE  \E o \in Op : holder = o /\ operation[o] = phase.operation
    <2>1. phase \in CellPhase /\ phase' # phase
      BY <1>1 DEF IInv, TypeOK, CellTypes
    <2>2. Next
      BY <1>1, <2>1 DEF vars, steps, cellVars
    <2>3. PICK o \in Op : Worker(o)
      BY <1>1, <2>1, <2>2, OthersKeepOperating DEF Next
    <2>4. holder = o /\ phase' = SettledPhase(o)
      BY <1>1, <2>1, <2>3, WorkersSettle
    <2> QED
      BY <2>1, <2>4, Settling
  <1>2. IInv /\ [Next]_vars =>
          [phase.tag = "Operating" /\ phase'.tag = "Ready" =>
             \E o \in Op : holder = o /\ operation[o] = phase.operation]_vars
    BY <1>1
  <1> QED
    BY <1>2, Invariance, PTL DEF Spec, OwnCompletionOnly

-----------------------------------------------------------------------------
(* One permit: what a SerialCell may do *)

\* What SerialCell sees depends on these alone.
LEMMA Unseen ==
  ASSUME \A o \in Op : pc'[o] = pc[o], handler' = handler
  PROVE  Stage' = Stage /\ Outcome' = Outcome
  <1>1. \A o \in Op : StageOf(o)' = StageOf(o) /\ OutcomeOf(o)' = OutcomeOf(o)
    BY DEF StageOf, OutcomeOf
  <1> QED
    BY <1>1 DEF Stage, Outcome

LEMMA OneSeen ==
  ASSUME NEW o \in Op,
         \A p \in Op \ {o} : pc'[p] = pc[p] /\ handler'[p] = handler[p]
  PROVE  /\ Stage' = [Stage EXCEPT ![o] = StageOf(o)']
         /\ Outcome' = [Outcome EXCEPT ![o] = OutcomeOf(o)']
         /\ StageOf(o)' = StageOf(o) => Stage' = Stage
         /\ OutcomeOf(o)' = OutcomeOf(o) => Outcome' = Outcome
         /\ Stage[o] = StageOf(o) /\ Outcome[o] = OutcomeOf(o)
  <1>1. \A p \in Op \ {o} : StageOf(p)' = StageOf(p) /\ OutcomeOf(p)' = OutcomeOf(p)
    BY DEF StageOf, OutcomeOf
  <1> QED
    BY <1>1 DEF Stage, Outcome

\* The closer alone waits to close.
OnlyCloser == \A o \in Op : pc[o] # "closing"

LEMMA FreePermit ==
  ASSUME IInv, OnlyCloser, holder = "nobody"
  PROVE  Cell!Quiet
  <1>1. \A o \in Op : StageOf(o) # "active"
    <2> SUFFICES ASSUME NEW o \in Op PROVE StageOf(o) # "active"
      OBVIOUS
    <2>1. pc[o] \in Free /\ holder # o
      BY Parties DEF IInv, Permit
    <2>2. pc[o] # "closing"
      BY DEF OnlyCloser
    <2> QED
      BY <2>1, <2>2 DEF Free, StageOf
  <1> QED
    BY <1>1, Parties DEF Cell!Quiet, Exclusive, Stage

\* The holder of the permit goes on, or is done with it.
GoesOn(o) ==
  /\ holder = o /\ pc[o] \notin Free
  /\ UNCHANGED <<handler, closed>>
  /\ \/ \E at \in Place \ Free : pc' = [pc EXCEPT ![o] = at] /\ holder' = holder
     \/ pc' = [pc EXCEPT ![o] = "done"] /\ holder' = "nobody"

LEMMA WorkerGoesOn ==
  ASSUME IInv, NEW o \in Op, Worker(o)
  PROVE  \/ GoesOn(o)
         \/ TakePermit(o) \/ HandlerEnds(o)
         \/ /\ handler[o] = "done" /\ pc[o] = "queued" /\ Goto(o, "done")
            /\ UNCHANGED <<actorVars, handlerVars>>
  <1>1. o # Closer
    BY Parties
  <1>2. \A at : Runs(o, at) => holder = o /\ pc[o] = at
    BY DEF Runs
  <1>3. \A at \in Place \ Free : Goto(o, at) /\ holder = o /\ pc[o] \notin Free
                                /\ UNCHANGED <<holder, handler, closed>> => GoesOn(o)
    BY DEF Goto, GoesOn
  <1>4. Finish(o) /\ holder = o /\ pc[o] \notin Free /\ handler' = handler => GoesOn(o)
    BY DEF Finish, Goto, GoesOn
  <1> USE <1>1, <1>2, <1>3, <1>4, Places DEF Free, actorVars, handlerVars
  <1>5. CASE \/ LiveStopEnds(o) \/ ReleaseHookEnds(o)
    BY <1>5 DEF LiveStopEnds, ReleaseHookEnds, Tears
  <1>6. CASE DisposersEnd(o)
    BY <1>6 DEF DisposersEnd, Tears
  <1>7. CASE ReadyOrInvalidRead(o) \/ AttemptAnswers(o) \/ AttemptEnds(o)
    BY <1>7 DEF ReadyOrInvalidRead, AttemptAnswers, AttemptEnds, Delivered
  <1>8. CASE DiscardExpired(o) \/ ReleaseStarts(o)
    BY <1>8 DEF DiscardExpired, ReleaseStarts, StartTeardown
  <1>9. CASE AwaitAttempt(o) \/ BeginAttempt(o)
    BY <1>9 DEF AwaitAttempt, BeginAttempt
  <1>10. CASE DependenciesFail(o) \/ DependenciesReady(o)
    BY <1>10 DEF DependenciesFail, DependenciesReady, FailAttempt
  <1>11. CASE AcquireSucceeds(o) \/ AcquireFails(o)
    BY <1>11 DEF AcquireSucceeds, AcquireFails
  <1>12. CASE Discarded(o)
    BY <1>12 DEF Discarded, FailAttempt
  <1>13. CASE BeginOperation(o)
    BY <1>13 DEF BeginOperation
  <1>14. CASE ActionStarts(o) \/ RefreshStarts(o) \/ ArgsRejected(o) \/ ArgsSet(o)
    BY <1>14 DEF ActionStarts, RefreshStarts, ArgsRejected, ArgsSet, Settle
  <1>15. CASE ArgsRefreshStarts(o) \/ ArgsRefreshFails(o)
    BY <1>15 DEF ArgsRefreshStarts, ArgsRefreshFails, Settle
  <1>16. CASE DriverSucceeds(o) \/ DriverFails(o) \/ CommitEnds(o)
    BY <1>16 DEF DriverSucceeds, DriverFails, CommitEnds, Settle
  <1>17. CASE NotifyCompleted(o)
    BY <1>17 DEF NotifyCompleted
  <1>18. CASE OperationEnds(o)
    BY <1>18 DEF OperationEnds
  <1>19. CASE Interrupted(o)
    <2>1. pc[o] \notin Free => holder = o
      BY Parties DEF IInv, Permit
    <2>2. pc[o] \in Unguarded \cup InAcquire \cup InOperation \cup {"driving"} => pc[o] \notin Free
      BY DEF Unguarded, InAcquire, InOperation
    <2> QED
      BY <1>19, <2>1, <2>2 DEF Interrupted
  <1>20. CASE Unwound(o)
    BY <1>20 DEF Unwound
  <1>21. CASE TakePermit(o) \/ HandlerEnds(o)
    BY <1>21
  <1> QED
    BY <1>5, <1>6, <1>7, <1>8, <1>9, <1>10, <1>11, <1>12, <1>13, <1>14, <1>15, <1>16, <1>17,
       <1>18, <1>19, <1>20, <1>21 DEF Worker

LEMMA WorkerStays ==
  ASSUME IInv, OnlyCloser, NEW o \in Op, Worker(o)
  PROVE  OnlyCloser' /\ (UNCHANGED Cell!vars \/ Cell!Next)
  <1>0. o # Closer /\ o # "nobody" /\ "nobody" # Closer
    BY Parties
  <1>1. pc \in [Party -> Place] /\ o \in Party /\ Op \subseteq Party
    BY Parties DEF IInv, TypeOK, ActorTypes
  <1>2. /\ holder = o <=> pc[o] \notin Free
        /\ handler[o] \in {"idle", "running", "done"} /\ handler \in [Op -> {"idle", "running", "done"}]
    BY <1>1 DEF IInv, Permit, TypeOK, OperationTypes
  <1>3. CASE GoesOn(o)
    <2>1. \A p \in Op \ {o} : pc'[p] = pc[p] /\ handler'[p] = handler[p]
      BY <1>1, <1>3 DEF GoesOn
    <2>2. pc'[o] \notin {"none", "queued", "closing"}
      BY <1>1, <1>3 DEF GoesOn, Free
    <2>3. OnlyCloser'
      BY <2>1, <2>2 DEF OnlyCloser
    <2>4. /\ Exclusive' = Exclusive /\ closed' = closed /\ handler' = handler
          /\ StageOf(o) = "active"
      BY <1>0, <1>3 DEF GoesOn, Free, Exclusive, StageOf
    <2>5. CASE pc'[o] # "done"
      <3>1. StageOf(o)' = "active" /\ OutcomeOf(o)' = OutcomeOf(o)
        BY <2>2, <2>4, <2>5, <1>3 DEF StageOf, OutcomeOf, GoesOn, Free
      <3> QED
        BY <2>1, <2>3, <2>4, <3>1, OneSeen DEF Cell!vars
    <2>6. CASE pc'[o] = "done"
      <3>1. /\ StageOf(o)' = "gone"
            /\ OutcomeOf(o)' = IF OutcomeOf(o) = "none" THEN "result" ELSE OutcomeOf(o)
        BY <2>4, <2>6, <1>3 DEF StageOf, OutcomeOf, GoesOn, Free
      <3>2. Cell!End(o)
        BY <2>1, <2>4, <3>1, OneSeen DEF Cell!End
      <3> QED
        BY <2>3, <3>2 DEF Cell!Next
    <2> QED
      BY <2>5, <2>6
  <1>4. CASE TakePermit(o)
    <2>1. /\ \A p \in Op \ {o} : pc'[p] = pc[p] /\ handler'[p] = handler[p]
          /\ pc[o] = "queued" /\ pc'[o] = "entered" /\ handler' = handler
          /\ holder = "nobody" /\ holder' = o /\ ~closed /\ closed' = closed
      BY <1>1, <1>4 DEF TakePermit, Goto, handlerVars
    <2>2. OnlyCloser'
      BY <2>1 DEF OnlyCloser
    <2>3. StageOf(o) = "pending" /\ StageOf(o)' = "active" /\ OutcomeOf(o)' = OutcomeOf(o)
      BY <2>1 DEF StageOf, OutcomeOf
    <2>4. Exclusive' = Exclusive
      BY <1>0, <2>1 DEF Exclusive
    <2>5. Cell!Begin(o)
      BY <2>1, <2>3, <2>4, OneSeen, FreePermit DEF Cell!Begin
    <2> QED
      BY <2>2, <2>5 DEF Cell!Next
  <1>5. CASE HandlerEnds(o)
    <2>1. /\ pc' = pc /\ UNCHANGED <<holder, closed>>
          /\ handler[o] = "running" /\ handler'[o] = "done"
          /\ \A p \in Op \ {o} : handler'[p] = handler[p]
      BY <1>2, <1>5 DEF HandlerEnds, actorVars
    <2>2. OnlyCloser' /\ Exclusive' = Exclusive
      BY <2>1 DEF OnlyCloser, Exclusive
    <2>3. /\ StageOf(o)' = StageOf(o) /\ OutcomeOf(o) = "cancelling"
          /\ OutcomeOf(o)' \in {"cancelling", "interrupted"}
      BY <2>1 DEF StageOf, OutcomeOf
    <2>4. CASE OutcomeOf(o)' = "cancelling"
      BY <2>1, <2>2, <2>3, <2>4, OneSeen DEF Cell!vars
    <2>5. CASE OutcomeOf(o)' = "interrupted"
      <3>1. Cell!Report(o)
        BY <2>1, <2>2, <2>3, <2>5, OneSeen DEF Cell!Report
      <3> QED
        BY <2>2, <3>1 DEF Cell!Next
    <2> QED
      BY <2>3, <2>4, <2>5
  <1>6. CASE /\ handler[o] = "done" /\ pc[o] = "queued" /\ Goto(o, "done")
             /\ UNCHANGED <<actorVars, handlerVars>>
    <2>1. /\ \A p \in Op \ {o} : pc'[p] = pc[p] /\ handler'[p] = handler[p]
          /\ pc'[o] = "done" /\ UNCHANGED <<holder, closed, handler>>
      BY <1>1, <1>6 DEF Goto, actorVars, handlerVars
    <2>2. OnlyCloser' /\ Exclusive' = Exclusive
      BY <2>1 DEF OnlyCloser, Exclusive
    <2>3. /\ StageOf(o) = "pending" /\ StageOf(o)' = "gone" /\ OutcomeOf(o)' = OutcomeOf(o)
          /\ OutcomeOf(o) \in {"cancelling", "interrupted"}
      BY <1>6, <2>1 DEF StageOf, OutcomeOf
    <2>4. Cell!Leave(o)
      BY <2>1, <2>2, <2>3, OneSeen DEF Cell!Leave
    <2> QED
      BY <2>2, <2>4 DEF Cell!Next
  <1> QED
    BY <1>3, <1>4, <1>5, <1>6, WorkerGoesOn

LEMMA CloserStays ==
  ASSUME IInv, OnlyCloser, CloserSteps
  PROVE  OnlyCloser' /\ (ActorDeleted \/ UNCHANGED Cell!vars \/ Cell!Next)
  <1>0. Closer \notin Op /\ "nobody" # Closer /\ Closer \in Party
    BY Parties
  <1>1. pc \in [Party -> Place] /\ Op \subseteq Party
    BY Parties DEF IInv, TypeOK, ActorTypes
  <1>2. (\E at : Goto(Closer, at)) \/ UNCHANGED pc => \A o \in Op : pc'[o] = pc[o]
    BY <1>0, <1>1 DEF Goto
  <1>3. CASE LiveStopEnds(Closer) \/ ReleaseHookEnds(Closer)
    <2>1. UNCHANGED <<handler, holder, closed>> /\ \A o \in Op : pc'[o] = pc[o]
      BY <1>2, <1>3 DEF LiveStopEnds, ReleaseHookEnds, actorVars, handlerVars
    <2> QED
      BY <2>1, Unseen DEF OnlyCloser, Exclusive, Cell!vars
  <1>4. CASE DisposersEnd(Closer)
    <2>1. /\ UNCHANGED <<handler, closed>> /\ holder' = "nobody"
          /\ \A o \in Op : pc'[o] = pc[o]
      BY <1>0, <1>2, <1>4 DEF DisposersEnd, Finish, handlerVars
    <2>2. ~Exclusive'
      BY <1>0, <2>1 DEF Exclusive
    <2>3. Cell!LeaveExclusive
      BY <2>1, <2>2, Unseen DEF Cell!LeaveExclusive
    <2> QED
      BY <2>1, <2>3 DEF OnlyCloser, Cell!Next
  <1>5. CASE CloserTakesPermit
    <2>1. /\ UNCHANGED <<handler, closed>> /\ holder = "nobody" /\ holder' \in {Closer, "nobody"}
          /\ \A o \in Op : pc'[o] = pc[o]
      BY <1>2, <1>5 DEF CloserTakesPermit, StartTeardown, handlerVars
    <2>2. closed
      BY <1>5 DEF CloserTakesPermit, IInv, Closing
    <2>3. CASE holder' = Closer
      <3>1. Cell!EnterExclusive
        BY <2>1, <2>2, <2>3, Unseen, FreePermit DEF Cell!EnterExclusive, Exclusive
      <3> QED
        BY <2>1, <3>1 DEF OnlyCloser, Cell!Next
    <2>4. CASE holder' = "nobody"
      BY <2>1, <2>4, Unseen DEF OnlyCloser, Exclusive, Cell!vars
    <2> QED
      BY <2>1, <2>3, <2>4
  <1>6. CASE ActorDeleted
    BY <1>6 DEF ActorDeleted, OnlyCloser
  <1> QED
    BY <1>3, <1>4, <1>5, <1>6 DEF CloserSteps

LEMMA OthersStay ==
  ASSUME IInv, OnlyCloser, Environment \/ UNCHANGED vars
  PROVE  OnlyCloser' /\ (UNCHANGED Cell!vars \/ Cell!Next)
  <1>0. Closer \notin Op /\ Op \subseteq Party
    BY Parties
  <1>1. pc \in [Party -> Place] /\ handler \in [Op -> {"idle", "running", "done"}]
    BY DEF IInv, TypeOK, ActorTypes, OperationTypes
  <1>2. ASSUME NEW o \in Op, Submit(o)
        PROVE  OnlyCloser' /\ Cell!Accept(o)
    <2>1. /\ \A p \in Op \ {o} : pc'[p] = pc[p] /\ handler'[p] = handler[p]
          /\ pc[o] = "none" /\ pc'[o] = "queued" /\ UNCHANGED <<handler, holder, closed>>
      BY <1>0, <1>1, <1>2 DEF Submit, Goto, actorVars, handlerVars
    <2>2. StageOf(o) = "new" /\ StageOf(o)' = "pending" /\ OutcomeOf(o)' = OutcomeOf(o)
      BY <2>1 DEF StageOf, OutcomeOf
    <2>3. OnlyCloser' /\ Exclusive' = Exclusive
      BY <2>1 DEF OnlyCloser, Exclusive
    <2> QED
      BY <2>1, <2>2, <2>3, OneSeen DEF Cell!Accept
  <1>3. ASSUME NEW o \in Op, HandlerStarts(o)
        PROVE  OnlyCloser' /\ Cell!Cancel(o)
    <2>1. /\ \A p \in Op \ {o} : pc'[p] = pc[p] /\ handler'[p] = handler[p]
          /\ pc' = pc /\ UNCHANGED <<holder, closed>>
          /\ Live(o) /\ handler[o] = "idle"
          /\ handler'[o] = IF KindOf[o] = "action" THEN "running" ELSE "done"
      BY <1>1, <1>3 DEF HandlerStarts, actorVars
    <2>2. /\ StageOf(o)' = StageOf(o) /\ StageOf(o) # "gone"
          /\ OutcomeOf(o) = "none" /\ OutcomeOf(o)' = "cancelling"
      BY <2>1 DEF StageOf, OutcomeOf, Live
    <2>3. OnlyCloser' /\ Exclusive' = Exclusive
      BY <2>1 DEF OnlyCloser, Exclusive
    <2> QED
      BY <2>1, <2>2, <2>3, OneSeen DEF Cell!Cancel
  <1>4. ASSUME NEW why, Close(why)
        PROVE  OnlyCloser' /\ Cell!Shut
    <2>1. /\ \A o \in Op : pc'[o] = pc[o]
          /\ UNCHANGED <<handler, holder>> /\ closed' = TRUE
      BY <1>0, <1>1, <1>4 DEF Close, Goto, handlerVars
    <2> QED
      BY <2>1, Unseen DEF OnlyCloser, Exclusive, Cell!Shut
  <1>5. CASE Expire \/ UNCHANGED vars
    <2>1. UNCHANGED <<pc, handler, holder, closed>>
      BY <1>5 DEF Expire, vars, steps, actorVars, handlerVars
    <2> QED
      BY <2>1, Unseen DEF OnlyCloser, Exclusive, Cell!vars
  <1> QED
    BY <1>2, <1>3, <1>4, <1>5 DEF Environment, Cell!Next

\* Whatever operations, handlers and the closer do, the node's permit is the one
\* of a serial cell, which CellActor implements: a step other than the deletion
\* of a closed actor is one that SerialCell may take (cellActor.ts:105-131,
\* plan.ts:389-397, actorRegistry.ts:55-62).
THEOREM PermitIsSerial == Spec => OnePermit
  <1>1. Init => Cell!Init /\ OnlyCloser
    <2> SUFFICES ASSUME Init PROVE Cell!Init /\ OnlyCloser
      OBVIOUS
    <2>1. \A o \in Op : pc[o] = "none" /\ handler[o] = "idle"
      BY Parties DEF Init
    <2>2. holder # Closer /\ closed = FALSE
      BY Parties DEF Init
    <2> QED
      BY <2>1, <2>2 DEF Cell!Init, OnlyCloser, Stage, Outcome, Exclusive, StageOf, OutcomeOf
  <1>2. IInv /\ OnlyCloser /\ [Next]_vars =>
          OnlyCloser' /\ [ActorDeleted \/ Cell!Next]_Cell!vars
    BY WorkerStays, CloserStays, OthersStay DEF Next
  <1> QED
    BY <1>1, <1>2, Invariance, PTL DEF Spec, OnePermit

-----------------------------------------------------------------------------
(* The release hook *)

\* Attempts that were not made have released nothing, and neither has the one
\* that is being made.
Fresh ==
  /\ captured <= nextAttemptId
  /\ \A g \in Attempt :
       /\ releases[g] # 0 \/ InPhase(g) \/ phase = Acquiring(g) => g <= nextAttemptId
       /\ phase = Acquiring(g) => releases[g] = 0

\* The incarnation in the phase was released at most by the operation that is
\* about to leave it, by one that a close interrupted then, or by the closer.
Released ==
  Abortable = {} =>
    /\ \A g \in Attempt : InPhase(g) =>
         \/ releases[g] = 0
         \/ /\ holder \in Op /\ pc[holder] \in {"releasing", "draining", "expired"}
            /\ releases[g] = 1
         \/ closed /\ holder = "nobody" /\ releases[g] = 1
         \/ holder = Closer
    /\ \A o \in Op : pc[o] = "stopping" => releases[captured] = 0
    /\ pc[Closer] = "stopping" => releases[captured] \in {0, 1}

RInv == Fresh /\ Released

\* Who counts a release tears the incarnation down that he has captured.
LEMMA Counting ==
  ASSUME IInv, NEW x \in Party, LiveStopEnds(x)
  PROVE  /\ holder = x /\ pc[x] = "stopping" /\ captured \in Attempt
         /\ releases' = [releases EXCEPT ![captured] = @ + 1]
         /\ pc' = [pc EXCEPT ![x] = "releasing"]
         /\ UNCHANGED <<phase, nextAttemptId, captured, holder, closed>>
BY Tearer DEF LiveStopEnds, Tearing, Goto, cellVars, actorVars

LEMMA CountingKeeps ==
  ASSUME IInv, RInv, UNCHANGED scenario, NEW x \in Party, LiveStopEnds(x)
  PROVE  RInv'
  <1>1. /\ pc \in [Party -> Place] /\ releases \in [Attempt -> Nat]
        /\ phase \in CellPhase /\ nextAttemptId \in Nat
    BY ParameterAssumption DEF IInv, TypeOK, ActorTypes, CellTypes
  <1>2. x \in Op \/ x = Closer
    BY DEF Party
  <1>3. x \in Op => InPhase(captured)
    BY Counting DEF IInv, Teardown, Tearing
  <1>4. phase # Acquiring(captured)
    <2>1. CASE x \in Op
      BY <1>3, <2>1, Fields DEF InPhase, HasReadyData
    <2>2. CASE x = Closer
      <3>1. pc[Closer] \in Tearing
        BY <2>2, Counting DEF Tearing
      <3>2. InPhase(captured) \/ phase = Invalid
        BY <3>1 DEF IInv, Teardown, Closing
      <3> QED
        BY <3>2, Fields DEF InPhase, HasReadyData
    <2> QED
      BY <1>2, <2>1, <2>2
  <1>5. /\ \A g \in Attempt : g # captured => releases'[g] = releases[g]
        /\ releases'[captured] = releases[captured] + 1
        /\ captured \in Attempt /\ captured' = captured
        /\ \A g \in Attempt : InPhase(g)' = InPhase(g)
    BY <1>1, Counting DEF InPhase, HasReadyData
  <1>6. Fresh'
    BY <1>4, <1>5, Counting DEF RInv, Fresh
  <1>7. Released'
    <2> SUFFICES ASSUME Abortable = {} PROVE Released'
      BY DEF Released, Abortable
    <2>1. CASE x \in Op
      <3>1. releases[captured] = 0
        BY <2>1, Counting DEF RInv, Released
      <3>2. /\ holder' = x /\ pc'[x] = "releasing"
            /\ \A y \in Party : y # x => pc'[y] = pc[y] /\ pc[y] # "stopping"
        BY <1>1, Counting DEF IInv, Permit, Free
      <3>3. \A g \in Attempt : InPhase(g) => g = captured
        BY <1>3, <2>1 DEF InPhase
      <3>4. \A y \in Party : pc'[y] # "stopping"
        BY <3>2
      <3> QED
        BY <1>5, <2>1, <3>1, <3>2, <3>3, <3>4, Parties DEF Released
    <2>2. CASE x = Closer
      <3>1. /\ holder' = Closer /\ pc'[Closer] = "releasing"
            /\ \A y \in Party : y # x => pc'[y] = pc[y] /\ pc[y] # "stopping"
        BY <1>1, <2>2, Counting DEF IInv, Permit, Free
      <3>2. \A y \in Party : pc'[y] # "stopping"
        BY <2>2, <3>1
      <3> QED
        BY <3>1, <3>2, Parties DEF Released
    <2> QED
      BY <1>2, <2>1, <2>2
  <1> QED
    BY <1>6, <1>7 DEF RInv

\* What else a worker does.
LEMMA WorkerReleases ==
  ASSUME IInv, RInv, UNCHANGED scenario, NEW o \in Op, Worker(o)
  PROVE  RInv'
  <1> USE Parties, Fields, Shape, ParameterAssumption DEF IInv, TypeOK, ActorTypes,
        CellTypes, RInv, Fresh, Released, InPhase, HasReadyData, Abortable, Permit,
        Free, Goto, Runs, Finish, cellVars, actorVars, incarnationVars, operationVars,
        handlerVars
  <1>1. CASE TakePermit(o)
    BY <1>1 DEF TakePermit
  <1>2. CASE ReleaseHookEnds(o) \/ DisposersEnd(o)
    BY <1>2 DEF ReleaseHookEnds, DisposersEnd, Tears
  <1>3. CASE ReadyOrInvalidRead(o) \/ AwaitAttempt(o) \/ AttemptAnswers(o) \/ AttemptEnds(o)
    BY <1>3 DEF ReadyOrInvalidRead, AwaitAttempt, AttemptAnswers, AttemptEnds,
       Delivered, Complete
  <1>4. CASE DiscardExpired(o) \/ ReleaseStarts(o)
    BY <1>4 DEF DiscardExpired, ReleaseStarts, StartTeardown
  <1>5. CASE BeginAttempt(o)
    <2>1. /\ nextAttemptId' = nextAttemptId + 1 /\ nextAttemptId' \in Attempt
          /\ phase' = Acquiring(nextAttemptId') /\ pc' = [pc EXCEPT ![o] = "dependencies"]
          /\ UNCHANGED <<releases, captured, holder, closed>> /\ holder = o
      BY <1>5 DEF BeginAttempt, Attempt
    <2>2. \A g \in Attempt : ~InPhase(g)' /\ (phase' = Acquiring(g) => g = nextAttemptId')
      BY <2>1
    <2>3. captured \in Nat /\ nextAttemptId \in Nat /\ Attempt \subseteq Nat
      BY DEF OperationTypes, Attempt
    <2>4. Fresh'
      BY <2>1, <2>2, <2>3
    <2>5. Released'
      BY <2>1, <2>2
    <2> QED
      BY <2>4, <2>5
  <1>6. CASE \/ DependenciesFail(o) \/ DependenciesReady(o)
            \/ AcquireSucceeds(o) \/ AcquireFails(o) \/ Discarded(o)
    BY <1>6 DEF DependenciesFail, DependenciesReady, AcquireSucceeds, AcquireFails,
       Discarded, FailAttempt
  <1>7. CASE \/ BeginOperation(o) \/ ActionStarts(o) \/ RefreshStarts(o)
            \/ ArgsRejected(o) \/ ArgsSet(o)
    BY <1>7 DEF BeginOperation, ArgsSet, ActionStarts, RefreshStarts, ArgsRejected,
       Settle, SettledPhase
  <1>8. CASE \/ ArgsRefreshStarts(o) \/ ArgsRefreshFails(o)
            \/ DriverSucceeds(o) \/ DriverFails(o) \/ CommitEnds(o)
            \/ NotifyCompleted(o) \/ OperationEnds(o)
    BY <1>8 DEF ArgsRefreshStarts, ArgsRefreshFails, DriverSucceeds, DriverFails,
       CommitEnds, NotifyCompleted, OperationEnds, Settle, SettledPhase
  <1>9. CASE HandlerEnds(o)
    BY <1>9 DEF HandlerEnds
  <1>10. CASE Interrupted(o)
    BY <1>10 DEF Interrupted, SettledPhase, Unguarded, InAcquire, InOperation, Closing,
       Live
  <1>11. CASE Unwound(o)
    BY <1>11 DEF Unwound, SettledPhase
  <1>12. CASE LiveStopEnds(o)
    BY <1>12, CountingKeeps
  <1> QED
    BY <1>1, <1>2, <1>3, <1>4, <1>5, <1>6, <1>7, <1>8, <1>9,
       <1>10, <1>11, <1>12 DEF Worker

\* A closed actor takes no more operations: what the closer releases is not
\* released again.
LEMMA CloserReleases ==
  ASSUME IInv, RInv, UNCHANGED scenario, CloserSteps
  PROVE  RInv'
  <1> USE Parties, Fields, Shape, ParameterAssumption DEF IInv, TypeOK, ActorTypes,
        CellTypes, RInv, Fresh, Released, InPhase, HasReadyData, Abortable, Permit,
        Free, Goto, Runs, Finish, cellVars, actorVars, incarnationVars, operationVars,
        handlerVars
  <1>1. CASE ReleaseHookEnds(Closer)
    BY <1>1 DEF ReleaseHookEnds, Tears
  <1>2. CASE DisposersEnd(Closer)
    BY <1>2 DEF DisposersEnd, Tears, Teardown, Closing, Tearing
  <1>3. CASE CloserTakesPermit
    BY <1>3 DEF CloserTakesPermit, StartTeardown, Closing
  <1>4. CASE ActorDeleted
    BY <1>4 DEF ActorDeleted, Closing
  <1>5. CASE LiveStopEnds(Closer)
    BY <1>5, CountingKeeps
  <1> QED
    BY <1>1, <1>2, <1>3, <1>4, <1>5 DEF CloserSteps

LEMMA OthersReleases ==
  ASSUME IInv, RInv, UNCHANGED scenario, Environment \/ UNCHANGED vars
  PROVE  RInv'
  <1> USE Parties, Fields, Shape, ParameterAssumption DEF IInv, TypeOK, ActorTypes,
        CellTypes, RInv, Fresh, Released, InPhase, HasReadyData, Abortable, Permit,
        Free, Goto, Runs, Finish, cellVars, actorVars, incarnationVars, operationVars,
        handlerVars
  <1>1. CASE \E o \in Op : Submit(o) \/ HandlerStarts(o)
    BY <1>1 DEF Submit, HandlerStarts, Complete
  <1>2. CASE \E why \in {"invalidate", "evict"} : Close(why)
    BY <1>2 DEF Close
  <1>3. CASE Expire \/ UNCHANGED vars
    BY <1>3 DEF Expire, vars, steps
  <1> QED
    BY <1>1, <1>2, <1>3 DEF Environment

\* Nothing else counts a release.
LEMMA ReleasesChange ==
  ASSUME Next  PROVE UNCHANGED releases \/ \E x \in Party : LiveStopEnds(x)
  <1> USE Parties DEF incarnationVars
  <1>1. CASE Environment
    BY <1>1 DEF Environment, Submit, HandlerStarts, Close, Expire
  <1>2. CASE CloserSteps
    BY <1>2 DEF CloserSteps, ReleaseHookEnds, DisposersEnd, CloserTakesPermit, ActorDeleted
  <1>3. ASSUME NEW o \in Op, Worker(o)
        PROVE  UNCHANGED releases \/ LiveStopEnds(o)
    BY <1>3 DEF Worker, TakePermit, ReleaseHookEnds, DisposersEnd, ReadyOrInvalidRead,
         DiscardExpired, AwaitAttempt, AttemptAnswers, BeginAttempt, DependenciesFail,
         DependenciesReady, AcquireSucceeds, AcquireFails, Discarded, AttemptEnds,
         BeginOperation, ActionStarts, RefreshStarts, ArgsRejected, ArgsSet,
         ArgsRefreshStarts, ArgsRefreshFails, DriverSucceeds, DriverFails, CommitEnds,
         NotifyCompleted, OperationEnds, ReleaseStarts, HandlerEnds, Interrupted, Unwound
  <1> QED
    BY <1>1, <1>2, <1>3 DEF Next

\* A release hook that has run for an incarnation is run again for it only by
\* the cleanup of a close, and by that once, as long as no caller aborts
\* (teardownReadyData in cleanup.ts:27, entered by readiness of an expired
\* result, expiredInvalidation.ts:11, by a release and by plan.ts:389-397).
THEOREM ClosesRepeat == Spec => OnlyACloseRepeats
  <1>1. Init => RInv
    BY Parties, Fields DEF Init, RInv, Fresh, Released, InPhase, HasReadyData, Party
  <1>2. ASSUME IInv, RInv, [Next]_vars PROVE RInv'
    <2>1. UNCHANGED scenario
      BY <1>2 DEF Next, vars
    <2> QED
      BY <1>2, <2>1, WorkerReleases, CloserReleases, OthersReleases DEF Next
  <1>3. ASSUME IInv, RInv, Next, Abortable = {},
               NEW g \in Attempt, releases'[g] # releases[g], releases[g] # 0
        PROVE  holder = Closer /\ releases[g] = 1
    <2>1. PICK x \in Party : LiveStopEnds(x)
      <3>1. UNCHANGED releases \/ \E x \in Party : LiveStopEnds(x)
        BY <1>3, Parties, ReleasesChange
      <3> QED
        BY <1>3, <3>1
    <2>2. g = captured /\ holder = x /\ pc[x] = "stopping"
      BY <1>3, <2>1, Counting DEF IInv, TypeOK, CellTypes
    <2> QED
      BY <1>3, <2>2, Parties DEF RInv, Released
  <1>4. IInv /\ RInv /\ [Next]_vars =>
          [Abortable = {} =>
             \A g \in Attempt : releases'[g] # releases[g] /\ releases[g] # 0 =>
               holder = Closer /\ releases[g] = 1]_vars
    BY <1>3
  <1> QED
    BY <1>1, <1>2, <1>4, Invariance, PTL DEF Spec, OnlyACloseRepeats

=============================================================================
