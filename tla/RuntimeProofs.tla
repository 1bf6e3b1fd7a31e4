--------------------------- MODULE RuntimeProofs ----------------------------
(***************************************************************************)
(* Safety of the runtime host for any commands, policies and callers of    *)
(* stop: first the admissions, the stop and the completions, for which it  *)
(* is of no account which registered start an event takes; then the        *)
(* registered starts, and the types.                                       *)
(***************************************************************************)
EXTENDS Runtime, SequenceTheorems, TLAPS

\* Types, as far as the invariants need them.
Shapes ==
  /\ call \in Scenario
  /\ status \in {"open", "stopped"}
  /\ stopping \in Stops
  /\ stopper \in [Stopper -> {"new", "waiting", "answered"}]
  /\ subscribed \in BOOLEAN /\ closed \in BOOLEAN
  /\ caller \in [Command -> Callers]
  /\ worker \in [Command -> Workers]
  /\ handler \in [Command -> {"none", "caller", "stop"}]
  /\ settled \in [Command -> BOOLEAN]
  /\ admitted \in [Key -> Command \cup {None}]
  /\ completedAs = [c \in Command |-> completedAs[c]]

\* A command that its caller has not submitted has no worker and no reply, and
\* a command that is being interrupted has both.
Submitted ==
  \A c \in Command :
    /\ caller[c] \in {"new", "registered", "refused"} => worker[c] = "none" /\ ~settled[c]
    /\ handler[c] # "none" => worker[c] # "none" /\ settled[c]

\* The unanswered command of a key that is joined or rejected is the admitted one.
Admission ==
  \A c \in Command : Keyed(c) /\ Live(c) /\ ~settled[c] => admitted[KeyOf(c)] = c

\* How far the stop is, and what is over by then.
StopOrder ==
  /\ stopping # "none" => status = "stopped"
  /\ \A s \in Stopper : stopper[s] = "answered" => stopping = "done"
  /\ stopping \in {"closing", "reporting", "done"} => closed
  /\ stopping \in {"reporting", "done"} => \A c \in Command : ~Live(c)
  /\ ~subscribed => stopping \in {"reporting", "done"}

\* An action whose worker has nothing more to report is reported.
Reported ==
  \A c \in Command :
    /\ IsAction(c)
    /\ \/ worker[c] # "none" /\ settled[c]
       \/ worker[c] \in {"reported", "ended"}
    => completedAs[c] # {}

IInv == Shapes /\ Submitted /\ Admission /\ StopOrder /\ Reported

-----------------------------------------------------------------------------
(* What the operation starts change *)

LEMMA KeyType ==
  ASSUME Shapes, NEW c \in Command
  PROVE  KeyOf(c) \in Key
  BY RuntimeAssumption DEF Shapes, KeyOf

LEMMA StartedFrame ==
  ASSUME NEW c \in Command, RecordStarted(c)
  PROVE  completedAs' = completedAs
  BY DEF RecordStarted, work

\* A completion is recorded while the host observes, and none is forgotten.
LEMMA CompletedGrows ==
  ASSUME Shapes, NEW c \in Command, NEW op, RecordActionCompleted(c, op)
  PROVE  /\ completedAs' = [d \in Command |-> completedAs'[d]]
         /\ \A d \in Command : completedAs[d] \subseteq completedAs'[d]
         /\ subscribed => completedAs'[c] # {}
<1>1. CASE subscribed
  <2>1. PICK w : completedAs' = [completedAs EXCEPT ![c] = @ \cup {w}]
    BY <1>1 DEF RecordActionCompleted
  <2> QED BY <1>1, <2>1 DEF Shapes
<1>2. CASE ~subscribed
  BY <1>2 DEF RecordActionCompleted, work, Shapes
<1> QED BY <1>1, <1>2 DEF Shapes

LEMMA InterruptedCompletes ==
  ASSUME Shapes, NEW c \in Command, CompleteInterrupted(c)
  PROVE  /\ settled' = [settled EXCEPT ![c] = TRUE]
         /\ completedAs' = [d \in Command |-> completedAs'[d]]
         /\ \A d \in Command : completedAs[d] \subseteq completedAs'[d]
         /\ subscribed /\ IsAction(c) => completedAs'[c] # {}
<1>1. settled' = [settled EXCEPT ![c] = TRUE]
  BY DEF CompleteInterrupted, Settle
<1>2. CASE IsAction(c)
  <2>1. RecordActionCompleted(c, CurrentAction)
    BY <1>2 DEF CompleteInterrupted
  <2> QED BY <1>1, <2>1, CompletedGrows
<1>3. CASE ~IsAction(c)
  BY <1>1, <1>3 DEF CompleteInterrupted, work, Shapes
<1> QED BY <1>2, <1>3

LEMMA ClearedType ==
  ASSUME Shapes, NEW c \in Command
  PROVE  /\ Cleared(c) \in [Key -> Command \cup {None}]
         /\ \A k \in Key : admitted[k] # c => Cleared(c)[k] = admitted[k]
  BY DEF Shapes, Cleared

-----------------------------------------------------------------------------

LEMMA InitEstablishes == Init => IInv
<1> SUFFICES ASSUME Init PROVE IInv
  OBVIOUS
<1> USE DEF Init
<1>1. Shapes
  BY DEF Shapes, Stops, Callers, Workers
<1>2. Submitted
  BY DEF Submitted
<1>3. Admission
  BY DEF Admission, Live
<1>4. StopOrder
  BY DEF StopOrder
<1>5. Reported
  BY DEF Reported
<1> QED BY <1>1, <1>2, <1>3, <1>4, <1>5 DEF IInv

LEMMA CallPreserves ==
  ASSUME IInv, NEW c \in Command, NEW becomes \in {"registered", "refused"}, Call(c, becomes)
  PROVE  IInv'
<1> USE DEF IInv, Shapes, Call, host, work
<1>1. Shapes'
  BY DEF Stops, Callers, Workers
<1>2. Submitted'
  BY DEF Submitted
<1>3. Admission'
  BY KeyType DEF Submitted, Admission, Live, Keyed, KeyOf
<1>4. StopOrder'
  BY DEF StopOrder, Live
<1>5. Reported'
  BY DEF Submitted, Reported, IsAction, KeyOf
<1> QED BY <1>1, <1>2, <1>3, <1>4, <1>5

LEMMA FindMissingPreserves ==
  ASSUME IInv, NEW c \in Command, FindMissing(c)
  PROVE  IInv'
<1> USE DEF IInv
<1>0. /\ completedAs' = [d \in Command |-> completedAs'[d]]
      /\ \A d \in Command : completedAs[d] \subseteq completedAs'[d]
  <2>1. CASE ActionMissing(c)
    BY <2>1, CompletedGrows DEF ActionMissing
  <2>2. CASE RefreshMissing(c) \/ ArgsMissing(c)
    BY <2>2 DEF RefreshMissing, ArgsMissing, work, Shapes
  <2> QED BY <2>1, <2>2 DEF FindMissing
<1> HIDE DEF IInv
<1> USE DEF FindMissing, Await, Settle
<1>1. Shapes'
  BY <1>0 DEF IInv, host, Shapes, Callers
<1>2. Submitted'
  BY DEF IInv, Shapes, Submitted
<1>3. Admission'
  BY DEF IInv, Shapes, Submitted, Admission, Live, Keyed, KeyOf
<1>4. StopOrder'
  BY DEF IInv, host, StopOrder, Live
<1>5. Reported'
  BY <1>0 DEF IInv, Shapes, Submitted, Reported, IsAction, KeyOf
<1> QED BY <1>1, <1>2, <1>3, <1>4, <1>5 DEF IInv

LEMMA JoinPreserves ==
  ASSUME IInv, NEW c \in Command, Join(c)
  PROVE  IInv'
<1> USE DEF IInv, Shapes, Join, Await, host, work
<1>1. Shapes'
  BY DEF Stops, Callers, Workers
<1>2. Submitted'
  BY DEF Submitted
<1>3. Admission'
  BY KeyType DEF Submitted, Admission, Live, Keyed, KeyOf
<1>4. StopOrder'
  BY DEF StopOrder, Live
<1>5. Reported'
  BY DEF Submitted, Reported, IsAction, KeyOf
<1> QED BY <1>1, <1>2, <1>3, <1>4, <1>5

LEMMA ResumePreserves ==
  ASSUME IInv, NEW c \in Command, Resume(c)
  PROVE  IInv'
<1> USE DEF IInv, Shapes, Resume, ActionAnswered, RefreshAnswered, ArgsAnswered, host, work
<1>1. Shapes'
  BY DEF Stops, Callers, Workers
<1>2. Submitted'
  BY DEF Submitted
<1>3. Admission'
  BY KeyType DEF Submitted, Admission, Live, Keyed, KeyOf
<1>4. StopOrder'
  BY DEF StopOrder, Live
<1>5. Reported'
  BY DEF Submitted, Reported, IsAction, KeyOf
<1> QED BY <1>1, <1>2, <1>3, <1>4, <1>5

LEMMA ReturnPreserves ==
  ASSUME IInv, NEW c \in Command, Return(c)
  PROVE  IInv'
<1> USE DEF IInv, Shapes, Return, AtEnd, host, work
<1>1. Shapes'
  BY DEF Stops, Callers, Workers
<1>2. Submitted'
  BY DEF Submitted
<1>3. Admission'
  BY KeyType DEF Submitted, Admission, Live, Keyed, KeyOf
<1>4. StopOrder'
  BY DEF StopOrder, Live
<1>5. Reported'
  BY DEF Submitted, Reported, IsAction, KeyOf
<1> QED BY <1>1, <1>2, <1>3, <1>4, <1>5

LEMMA EnterPreserves ==
  ASSUME IInv, NEW c \in Command, Enter(c)
  PROVE  IInv'
<1> USE DEF IInv, Shapes, Enter, Await, Accepts, Busy, host, work
<1>1. Shapes'
  BY DEF Stops, Callers, Workers
<1>2. Submitted'
  BY DEF Submitted
<1>3. Admission'
  <2>1. worker' = [worker EXCEPT ![c] = "queued"] /\ UNCHANGED <<call, settled>>
    BY DEF Await
  <2>2. ~Keyed(c) \/ admitted[KeyOf(c)] = None
    OBVIOUS
  <2>3. \A d \in Command : Keyed(d)' = Keyed(d) /\ KeyOf(d)' = KeyOf(d)
    BY <2>1 DEF Keyed, KeyOf
  <2> SUFFICES ASSUME NEW d \in Command, Keyed(d), Live(d)', ~settled[d]
               PROVE  admitted'[KeyOf(d)] = d
    BY <2>1, <2>3 DEF Admission
  <2>4. CASE d = c
    BY <2>4, KeyType
  <2>5. CASE d # c
    <3>1. Live(d) /\ admitted[KeyOf(d)] = d
      BY <2>1, <2>5 DEF Admission, Live
    <3>2. Keyed(c) => KeyOf(d) # KeyOf(c)
      BY <2>2, <3>1, RuntimeAssumption
    <3> QED BY <3>1, <3>2, KeyType
  <2> QED BY <2>4, <2>5
<1>4. StopOrder'
  BY DEF StopOrder, Live
<1>5. Reported'
  BY DEF Submitted, Reported, IsAction, KeyOf
<1> QED BY <1>1, <1>2, <1>3, <1>4, <1>5

LEMMA FinishPreserves ==
  ASSUME IInv, NEW c \in Command, Finish(c)
  PROVE  IInv'
<1> USE DEF IInv, Shapes, Finish, host, work
<1>1. Shapes'
  BY DEF Stops, Callers, Workers
<1>2. Submitted'
  BY DEF Submitted
<1>3. Admission'
  BY KeyType DEF Submitted, Admission, Live, Keyed, KeyOf
<1>4. StopOrder'
  BY DEF StopOrder, Live
<1>5. Reported'
  BY DEF Submitted, Reported, IsAction, KeyOf
<1> QED BY <1>1, <1>2, <1>3, <1>4, <1>5

LEMMA StopPreserves ==
  ASSUME IInv, NEW s \in Stopper, Stop(s)
  PROVE  IInv'
<1> USE DEF IInv, Shapes, Stop, rest, host, work
<1>1. Shapes'
  BY DEF Stops, Callers, Workers
<1>2. Submitted'
  BY DEF Submitted
<1>3. Admission'
  BY KeyType DEF Submitted, Admission, Live, Keyed, KeyOf
<1>4. StopOrder'
  BY DEF StopOrder, Live
<1>5. Reported'
  BY DEF Submitted, Reported, IsAction, KeyOf
<1> QED BY <1>1, <1>2, <1>3, <1>4, <1>5

LEMMA StopAnsweredPreserves ==
  ASSUME IInv, NEW s \in Stopper, StopAnswered(s)
  PROVE  IInv'
<1> USE DEF IInv, Shapes, StopAnswered, rest, host, work
<1>1. Shapes'
  BY DEF Stops, Callers, Workers
<1>2. Submitted'
  BY DEF Submitted
<1>3. Admission'
  BY KeyType DEF Submitted, Admission, Live, Keyed, KeyOf
<1>4. StopOrder'
  BY DEF StopOrder, Live
<1>5. Reported'
  BY DEF Submitted, Reported, IsAction, KeyOf
<1> QED BY <1>1, <1>2, <1>3, <1>4, <1>5

LEMMA CloseActorsPreserves ==
  ASSUME IInv, CloseActors
  PROVE  IInv'
<1> USE DEF IInv, Shapes, CloseActors, rest, host, work
<1>1. Shapes'
  BY DEF Stops, Callers, Workers
<1>2. Submitted'
  BY DEF Submitted
<1>3. Admission'
  BY KeyType DEF Submitted, Admission, Live, Keyed, KeyOf
<1>4. StopOrder'
  BY DEF StopOrder, Live
<1>5. Reported'
  BY DEF Submitted, Reported, IsAction, KeyOf
<1> QED BY <1>1, <1>2, <1>3, <1>4, <1>5

LEMMA CleanUpPreserves ==
  ASSUME IInv, CleanUp
  PROVE  IInv'
<1> USE DEF IInv, Shapes, CleanUp, rest, host, work
<1>1. Shapes'
  BY DEF Stops, Callers, Workers
<1>2. Submitted'
  BY DEF Submitted
<1>3. Admission'
  BY KeyType DEF Submitted, Admission, Live, Keyed, KeyOf
<1>4. StopOrder'
  BY DEF StopOrder, Live
<1>5. Reported'
  BY DEF Submitted, Reported, IsAction, KeyOf
<1> QED BY <1>1, <1>2, <1>3, <1>4, <1>5

LEMMA ReportStoppedPreserves ==
  ASSUME IInv, ReportStopped
  PROVE  IInv'
<1> USE DEF IInv, Shapes, ReportStopped, rest, host, work
<1>1. Shapes'
  BY DEF Stops, Callers, Workers
<1>2. Submitted'
  BY DEF Submitted
<1>3. Admission'
  BY KeyType DEF Submitted, Admission, Live, Keyed, KeyOf
<1>4. StopOrder'
  BY DEF StopOrder, Live
<1>5. Reported'
  BY DEF Submitted, Reported, IsAction, KeyOf
<1> QED BY <1>1, <1>2, <1>3, <1>4, <1>5

LEMMA RejectPreserves ==
  ASSUME IInv, NEW c \in Command, Reject(c)
  PROVE  IInv'
<1> USE DEF IInv
<1>0. /\ completedAs' = [d \in Command |-> completedAs'[d]]
      /\ \A d \in Command : completedAs[d] \subseteq completedAs'[d]
  BY CompletedGrows DEF Reject
<1>1. Shapes'
  BY <1>0 DEF Reject, Await, Settle, host, work, Shapes, Stops, Callers, Workers
<1>2. Submitted'
  BY <1>0 DEF Reject, Await, Settle, host, work, Shapes, Submitted
<1>3. Admission'
  BY <1>0, KeyType
  DEF Reject, Await, Settle, host, work, Shapes, Submitted, Admission, Live, Keyed, KeyOf
<1>4. StopOrder'
  BY <1>0 DEF Reject, Await, Settle, host, work, Shapes, StopOrder, Live
<1>5. Reported'
  BY <1>0
  DEF Reject, Await, Settle, host, work, Shapes, Submitted, Reported, IsAction, KeyOf
<1> QED BY <1>1, <1>2, <1>3, <1>4, <1>5

LEMMA FindClosedPreserves ==
  ASSUME IInv, NEW c \in Command, FindClosed(c)
  PROVE  IInv'
<1> USE DEF IInv
<1>0. /\ settled' = [settled EXCEPT ![c] = TRUE]
      /\ completedAs' = [d \in Command |-> completedAs'[d]]
      /\ \A d \in Command : completedAs[d] \subseteq completedAs'[d]
  BY InterruptedCompletes DEF FindClosed
<1>1. Shapes'
  BY <1>0 DEF FindClosed, Await, host, work, Shapes, Stops, Callers, Workers
<1>2. Submitted'
  BY <1>0 DEF FindClosed, Await, host, work, Shapes, Submitted
<1>3. Admission'
  BY <1>0, KeyType
  DEF FindClosed, Await, host, work, Shapes, Submitted, Admission, Live, Keyed, KeyOf
<1>4. StopOrder'
  BY <1>0 DEF FindClosed, Await, host, work, Shapes, StopOrder, Live
<1>5. Reported'
  BY <1>0
  DEF FindClosed, Await, host, work, Shapes, Submitted, Reported, IsAction, KeyOf
<1> QED BY <1>1, <1>2, <1>3, <1>4, <1>5

LEMMA CloseInterruptsPreserves ==
  ASSUME IInv, NEW c \in Command, CloseInterrupts(c)
  PROVE  IInv'
<1> USE DEF IInv
<1>0. /\ Live(c) /\ ~settled[c]
      /\ settled' = [settled EXCEPT ![c] = TRUE]
      /\ handler' = [handler EXCEPT ![c] = "stop"]
      /\ completedAs' = [d \in Command |-> completedAs'[d]]
      /\ \A d \in Command : completedAs[d] \subseteq completedAs'[d]
      /\ IsAction(c) => completedAs'[c] # {}
  <2>1. Live(c) => subscribed
    BY DEF StopOrder
  <2> QED BY <2>1, InterruptedCompletes DEF CloseInterrupts, InterruptOnce
<1>1. Shapes'
  BY <1>0 DEF CloseInterrupts, Live, host, work, Shapes, Stops, Callers, Workers
<1>2. Submitted'
  BY <1>0 DEF CloseInterrupts, Live, host, work, Shapes, Submitted
<1>3. Admission'
  BY <1>0, KeyType
  DEF CloseInterrupts, Live, host, work, Shapes, Submitted, Admission, Keyed, KeyOf
<1>4. StopOrder'
  BY <1>0 DEF CloseInterrupts, Live, host, work, Shapes, StopOrder, Live
<1>5. Reported'
  BY <1>0
  DEF CloseInterrupts, Live, host, work, Shapes, Submitted, Reported, IsAction, KeyOf
<1> QED BY <1>1, <1>2, <1>3, <1>4, <1>5

LEMMA CutPreserves ==
  ASSUME IInv, NEW c \in Command, Cut(c)
  PROVE  IInv'
<1> USE DEF IInv
<1>1. Shapes'
  BY ClearedType DEF Cut, host, work, Shapes, Stops, Callers, Workers
<1>2. Submitted'
  BY DEF Cut, host, work, Shapes, Submitted
<1>3. Admission'
  BY ClearedType, KeyType
  DEF Cut, host, work, Shapes, Submitted, Admission, Live, Keyed, KeyOf
<1>4. StopOrder'
  BY DEF Cut, host, work, Shapes, StopOrder, Live
<1>5. Reported'
  BY DEF Cut, host, work, Shapes, Submitted, Reported, IsAction, KeyOf
<1> QED BY <1>1, <1>2, <1>3, <1>4, <1>5

LEMMA BeginPreserves ==
  ASSUME IInv, NEW c \in Command, Begin(c)
  PROVE  IInv'
<1> USE DEF IInv
<1>0. completedAs' = completedAs
  BY StartedFrame DEF Begin
<1>1. Shapes'
  BY <1>0 DEF Begin, host, work, Shapes, Stops, Callers, Workers
<1>2. Submitted'
  BY <1>0 DEF Begin, host, work, Shapes, Submitted
<1>3. Admission'
  BY <1>0, KeyType
  DEF Begin, host, work, Shapes, Submitted, Admission, Live, Keyed, KeyOf
<1>4. StopOrder'
  BY <1>0 DEF Begin, host, work, Shapes, StopOrder, Live
<1>5. Reported'
  BY <1>0 DEF Begin, host, work, Shapes, Submitted, Reported, IsAction, KeyOf
<1> QED BY <1>1, <1>2, <1>3, <1>4, <1>5

LEMMA ReportPreserves ==
  ASSUME IInv, NEW c \in Command, Report(c)
  PROVE  IInv'
<1> USE DEF IInv
<1>0. /\ completedAs' = [d \in Command |-> completedAs'[d]]
      /\ \A d \in Command : completedAs[d] \subseteq completedAs'[d]
      /\ completedAs'[c] # {}
  <2>1. subscribed
    BY DEF StopOrder, Report, Live
  <2> QED BY <2>1, CompletedGrows DEF Report
<1>1. Shapes'
  BY <1>0 DEF Report, host, work, Shapes, Stops, Callers, Workers
<1>2. Submitted'
  BY <1>0 DEF Report, host, work, Shapes, Submitted
<1>3. Admission'
  BY <1>0, KeyType
  DEF Report, host, work, Shapes, Submitted, Admission, Live, Keyed, KeyOf
<1>4. StopOrder'
  BY <1>0 DEF Report, host, work, Shapes, StopOrder, Live
<1>5. Reported'
  BY <1>0 DEF Report, host, work, Shapes, Submitted, Reported, IsAction, KeyOf
<1> QED BY <1>1, <1>2, <1>3, <1>4, <1>5

LEMMA AnswerPreserves ==
  ASSUME IInv, NEW c \in Command, Answer(c)
  PROVE  IInv'
<1> USE DEF IInv
<1>1. Shapes'
  BY ClearedType DEF Answer, Settle, host, work, Shapes, Stops, Callers, Workers
<1>2. Submitted'
  BY DEF Answer, Settle, host, work, Shapes, Submitted
<1>3. Admission'
  BY ClearedType, KeyType
  DEF Answer, Settle, host, work, Shapes, Submitted, Admission, Live, Keyed, KeyOf
<1>4. StopOrder'
  BY DEF Answer, Settle, host, work, Shapes, StopOrder, Live
<1>5. Reported'
  BY DEF Answer, Settle, host, work, Shapes, Submitted, Reported, IsAction, KeyOf
<1> QED BY <1>1, <1>2, <1>3, <1>4, <1>5

LEMMA LeavePreserves ==
  ASSUME IInv, NEW c \in Command, Leave(c)
  PROVE  IInv'
<1> USE DEF IInv, Leave
<1>1. CASE UNCHANGED <<handler, settled, work>>
  <2>1. Shapes'
    BY <1>1 DEF host, work, Shapes, Callers
  <2>2. Submitted'
    BY <1>1 DEF Shapes, Submitted
  <2>3. Admission'
    BY <1>1 DEF Admission, Live, Keyed, KeyOf
  <2>4. StopOrder'
    BY <1>1 DEF host, StopOrder, Live
  <2>5. Reported'
    BY <1>1 DEF work, Reported, IsAction, KeyOf
  <2> QED BY <2>1, <2>2, <2>3, <2>4, <2>5
<1>2. CASE caller[c] = "waiting" /\ InterruptOnce(c, "caller")
  <2>0. /\ Live(c)
        /\ settled' = [settled EXCEPT ![c] = TRUE]
        /\ handler' = [handler EXCEPT ![c] = "caller"]
        /\ completedAs' = [d \in Command |-> completedAs'[d]]
        /\ \A d \in Command : completedAs[d] \subseteq completedAs'[d]
        /\ IsAction(c) => completedAs'[c] # {}
    <3>1. Live(c) => subscribed
      BY DEF StopOrder
    <3> QED BY <1>2, <3>1, InterruptedCompletes DEF InterruptOnce
  <2>1. Shapes'
    BY <2>0 DEF host, Shapes, Callers
  <2>2. Submitted'
    BY <2>0 DEF Shapes, Submitted, Live
  <2>3. Admission'
    BY <2>0 DEF Shapes, Admission, Live, Keyed, KeyOf
  <2>4. StopOrder'
    BY DEF host, StopOrder, Live
  <2>5. Reported'
    BY <2>0 DEF Shapes, Reported, IsAction, KeyOf
  <2> QED BY <2>1, <2>2, <2>3, <2>4, <2>5
<1> QED BY <1>1, <1>2

LEMMA WithdrawPreserves ==
  ASSUME IInv, NEW c \in Command, Withdraw(c)
  PROVE  IInv'
<1> USE DEF IInv
<1>0. /\ settled' = [settled EXCEPT ![c] = TRUE]
      /\ admitted' \in {admitted, Cleared(c)}
      /\ completedAs' = [d \in Command |-> completedAs'[d]]
      /\ \A d \in Command : completedAs[d] \subseteq completedAs'[d]
      /\ IsAction(c) => completedAs'[c] # {}
  <2>1. CASE settled[c]
    BY <2>1 DEF Withdraw, work, Shapes, Reported
  <2>2. CASE ~settled[c]
    <3>1. subscribed
      BY DEF StopOrder, Withdraw, Live
    <3> QED BY <2>2, <3>1, InterruptedCompletes DEF Withdraw
  <2> QED BY <2>1, <2>2
<1>1. Shapes'
  BY <1>0, ClearedType DEF Withdraw, host, Shapes, Workers
<1>2. Submitted'
  BY <1>0 DEF Withdraw, Shapes, Submitted
<1>3. Admission'
  BY <1>0, ClearedType, KeyType DEF Withdraw, Shapes, Admission, Live, Keyed, KeyOf
<1>4. StopOrder'
  BY DEF Withdraw, host, Shapes, StopOrder, Live
<1>5. Reported'
  BY <1>0 DEF Withdraw, Shapes, Reported, IsAction, KeyOf
<1> QED BY <1>1, <1>2, <1>3, <1>4, <1>5

LEMMA StutterPreserves ==
  ASSUME IInv, UNCHANGED vars
  PROVE  IInv'
  BY
  DEF IInv, vars, host, work, Shapes, Submitted, Admission, StopOrder, Reported, Live,
         Keyed, IsAction, KeyOf

LEMMA StepPreserves ==
  ASSUME IInv, [Next]_vars
  PROVE  IInv'
<1>1. CASE UNCHANGED vars
  BY <1>1, StutterPreserves
<1>2. ASSUME NEW c \in Command, Submit(c) \/ Refuse(c) \/ SubmitOwn(c) \/ Leave(c)
      PROVE  IInv'
  BY <1>2, CallPreserves, LeavePreserves DEF Submit, Refuse, SubmitOwn
<1>3. ASSUME NEW c \in Command, Admit(c)
      PROVE  IInv'
  BY <1>3, FindMissingPreserves, JoinPreserves, RejectPreserves, EnterPreserves, FindClosedPreserves DEF Admit
<1>4. ASSUME NEW c \in Command, Work(c)
      PROVE  IInv'
  BY <1>4, BeginPreserves, WithdrawPreserves, FinishPreserves, ReportPreserves,
     AnswerPreserves DEF Work
<1>5. ASSUME NEW c \in Command, Resume(c) \/ Return(c) \/ Cut(c) \/ CloseInterrupts(c)
      PROVE  IInv'
  BY <1>5, ResumePreserves, ReturnPreserves, CutPreserves, CloseInterruptsPreserves
<1>6. ASSUME NEW s \in Stopper, Stop(s) \/ StopAnswered(s)
      PROVE  IInv'
  BY <1>6, StopPreserves, StopAnsweredPreserves
<1>7. CASE CloseActors \/ CleanUp \/ ReportStopped
  BY <1>7, CloseActorsPreserves, CleanUpPreserves, ReportStoppedPreserves
<1> QED BY <1>1, <1>2, <1>3, <1>4, <1>5, <1>6, <1>7 DEF Next, Run

LEMMA Invariance == Spec => []IInv
  BY InitEstablishes, StepPreserves, PTL DEF Spec

-----------------------------------------------------------------------------

\* Whatever the policies and however many commands are submitted, joined,
\* rejected, interrupted and stopped, two unanswered commands of a key that is
\* joined or rejected never run beside each other (systemCommands.ts).
THEOREM OneRunPerKeyHolds == Spec => []OneRunPerKey
<1>1. IInv => OneRunPerKey
  BY DEF IInv, Admission, OneRunPerKey, Keyed
<1> QED BY <1>1, Invariance, PTL

\* Every caller of stop is answered at rest: the stop is complete and no worker
\* of the node's actor is left (host.ts).
THEOREM StopMeansStoppedHolds == Spec => []StopMeansStopped
<1>1. IInv => StopMeansStopped
  BY DEF IInv, StopOrder, StopMeansStopped
<1> QED BY <1>1, Invariance, PTL

\* No interruption and no stop keeps an action that was begun from being
\* reported completed (cellOperations.ts, actionOperation.ts).
THEOREM StartsAreCompletedHolds == Spec => []StartsAreCompleted
<1>1. IInv => StartsAreCompleted
  BY DEF IInv, Reported, StartsAreCompleted
<1> QED BY <1>1, Invariance, PTL

-----------------------------------------------------------------------------
(* The registered starts *)

\* The types, with what the registrations hold of commands in flight.
Books == TypeOK /\ RegisteredIsInFlight

\* Registrations without any that there was not before.
Fewer(next) ==
  /\ next \in [Key -> Seq(Command)]
  /\ \A k \in Key : IsInjective(next[k]) /\ Range(next[k]) \subseteq Range(pending[k])

LEMMA KeyIsTyped ==
  ASSUME TypeOK, NEW c \in Command
  PROVE  KeyOf(c) \in Key
  BY RuntimeAssumption DEF TypeOK, KeyOf

LEMMA OneFewer ==
  ASSUME NEW T, NEW s \in Seq(T), IsInjective(s), NEW i \in DOMAIN s
  PROVE  /\ RemoveAt(s, i) \in Seq(T)
         /\ IsInjective(RemoveAt(s, i))
         /\ Range(RemoveAt(s, i)) \subseteq Range(s) \ {s[i]}
<1> DEFINE n == Len(s)
           before == SubSeq(s, 1, i - 1)
           after == SubSeq(s, i + 1, n)
           t == before \o after
<1>1. n \in Nat /\ DOMAIN s = 1 .. n /\ i \in 1 .. n /\ \A j \in 1 .. n : s[j] \in T
  OBVIOUS
<1> HIDE DEF n
<1>2. /\ before \in Seq(T) /\ Len(before) = i - 1
      /\ \A j \in 1 .. i - 1 : before[j] = s[j]
  <2>1. \A j \in 1 .. i - 1 : s[j] \in T
    BY <1>1
  <2>2. (i - 1) - 1 + 1 = i - 1 /\ (1 <= i - 1 => Len(before) = i - 1) /\ (~(1 <= i - 1) => i - 1 = 0)
    BY <1>1, <2>1, SubSeqProperties
  <2> QED BY <1>1, <2>1, <2>2, SubSeqProperties
<1>3. /\ after \in Seq(T) /\ Len(after) = n - i
      /\ \A j \in 1 .. n - i : after[j] = s[i + j]
  <2>1. \A j \in i + 1 .. n : s[j] \in T
    BY <1>1
  <2>2. i + 1 \in Int /\ n \in Int /\ n - (i + 1) + 1 = n - i /\ (i + 1 <= n \/ n - i = 0)
    BY <1>1
  <2>3. /\ after \in Seq(T)
        /\ Len(after) = IF i + 1 <= n THEN n - (i + 1) + 1 ELSE 0
        /\ \A j \in 1 .. n - (i + 1) + 1 : after[j] = s[(i + 1) + j - 1]
    BY <2>1, <2>2, SubSeqProperties
  <2>4. \A j \in 1 .. n - i : (i + 1) + j - 1 = i + j
    BY <1>1
  <2> QED BY <2>2, <2>3, <2>4
<1> HIDE DEF before, after
<1>4. /\ t \in Seq(T) /\ DOMAIN t = 1 .. n - 1
      /\ \A j \in 1 .. n - 1 : t[j] = IF j <= i - 1 THEN s[j] ELSE s[j + 1]
  <2>1. /\ t \in Seq(T) /\ Len(t) = (i - 1) + (n - i)
        /\ \A j \in 1 .. (i - 1) + (n - i) : t[j] = IF j <= i - 1 THEN before[j] ELSE after[j - (i - 1)]
    BY <1>2, <1>3, ConcatProperties
  <2>2. (i - 1) + (n - i) = n - 1
    BY <1>1
  <2>3. ASSUME NEW j \in 1 .. n - 1, ~(j <= i - 1)
        PROVE  j - (i - 1) \in 1 .. n - i /\ i + (j - (i - 1)) = j + 1
    BY <1>1, <2>3
  <2>4. ASSUME NEW j \in 1 .. n - 1, j <= i - 1
        PROVE  j \in 1 .. i - 1
    BY <1>1, <2>4
  <2>5. DOMAIN t = 1 .. Len(t)
    BY <2>1
  <2> HIDE DEF t
  <2> QED BY <1>2, <1>3, <2>1, <2>2, <2>3, <2>4, <2>5
<1>5. RemoveAt(s, i) = t
  BY DEF RemoveAt, n, before, after
<1> HIDE DEF t
<1> DEFINE place(j) == IF j <= i - 1 THEN j ELSE j + 1
<1>6. ASSUME NEW j \in 1 .. n - 1
      PROVE  place(j) \in 1 .. n /\ place(j) # i /\ t[j] = s[place(j)]
  BY <1>1, <1>4, <1>6
<1>7. ASSUME NEW j \in 1 .. n - 1, NEW k \in 1 .. n - 1, place(j) = place(k)
      PROVE  j = k
  BY <1>1, <1>7
<1> HIDE DEF place
<1>8. IsInjective(t)
  BY <1>1, <1>4, <1>6, <1>7 DEF IsInjective
<1>9. Range(t) \subseteq Range(s) \ {s[i]}
  BY <1>1, <1>4, <1>6 DEF IsInjective, Range
<1> QED BY <1>4, <1>5, <1>8, <1>9

\* The first is gone.
LEMMA TakenFits ==
  ASSUME Books, NEW k \in Key
  PROVE  Fewer(Taken(k)) /\ Foremost(k) \in Command \cup {Fresh}
<1>1. pending \in [Key -> Seq(Command)] /\ \A j \in Key : IsInjective(pending[j])
  BY DEF Books, TypeOK, RegisteredIsInFlight
<1>2. CASE pending[k] = << >>
  <2>1. Taken(k) = pending
    BY <1>1, <1>2 DEF Taken
  <2> QED BY <1>1, <1>2, <2>1 DEF Fewer, Foremost
<1>3. CASE pending[k] # << >>
  <2> DEFINE s == pending[k]
  <2>1. s \in Seq(Command) /\ s # << >>
    BY <1>1, <1>3
  <2>2. Taken(k) = [pending EXCEPT ![k] = Tail(s)]
    BY <1>1, <1>3 DEF Taken
  <2>3. Head(s) \in Command /\ Foremost(k) = Head(s)
    BY <2>1 DEF Foremost
  <2>4. Tail(s) \in Seq(Command) /\ IsInjective(Tail(s)) /\ Range(Tail(s)) \subseteq Range(s)
    <3>1. /\ Tail(s) \in Seq(Command) /\ DOMAIN Tail(s) = 1 .. Len(s) - 1
          /\ DOMAIN s = 1 .. Len(s) /\ Len(s) \in Nat
          /\ \A i \in 1 .. Len(s) - 1 : Tail(s)[i] = s[i + 1]
      BY <2>1
    <3>2. \A i \in 1 .. Len(s) - 1 : i + 1 \in 1 .. Len(s)
      BY <3>1
    <3>3. IsInjective(s)
      BY <1>1
    <3> HIDE DEF s
    <3>4. ASSUME NEW i \in 1 .. Len(s) - 1, NEW j \in 1 .. Len(s) - 1, Tail(s)[i] = Tail(s)[j]
          PROVE  i = j
      <4>1. i + 1 = j + 1
        BY <3>1, <3>2, <3>3, <3>4 DEF IsInjective
      <4> QED BY <3>1, <4>1
    <3> QED BY <3>1, <3>2, <3>4 DEF IsInjective, Range
  <2> QED BY <1>1, <2>2, <2>3, <2>4 DEF Fewer
<1> QED BY <1>2, <1>3

\* A command's own is gone, wherever it was.
LEMMA WithdrawnFits ==
  ASSUME Books, NEW c \in Command
  PROVE  Fewer(Withdrawn(c)) /\ \A k \in Key : c \notin Range(Withdrawn(c)[k])
<1> DEFINE key == KeyOf(c)
           places == {i \in DOMAIN pending[key] : pending[key][i] = c}
<1>1. /\ pending \in [Key -> Seq(Command)] /\ key \in Key
      /\ \A k \in Key : IsInjective(pending[k]) /\ \A d \in Range(pending[k]) : KeyOf(d) = k
  BY KeyIsTyped DEF Books, TypeOK, RegisteredIsInFlight
<1>2. \A k \in Key : k # key => c \notin Range(pending[k])
  BY <1>1
<1>3. CASE places = {}
  <2>1. Withdrawn(c) = pending
    BY <1>3 DEF Withdrawn
  <2>2. c \notin Range(pending[key])
    BY <1>3 DEF Range
  <2> QED BY <1>1, <1>2, <2>1, <2>2 DEF Fewer
<1>4. CASE places # {}
  <2> DEFINE i == CHOOSE i \in places : TRUE
  <2>1. i \in DOMAIN pending[key] /\ pending[key][i] = c
    BY <1>4
  <2>2. Withdrawn(c) = [pending EXCEPT ![key] = RemoveAt(pending[key], i)]
    BY <1>1, <1>4 DEF Withdrawn
  <2> HIDE DEF i, places, key
  <2>3. /\ RemoveAt(pending[key], i) \in Seq(Command)
        /\ IsInjective(RemoveAt(pending[key], i))
        /\ Range(RemoveAt(pending[key], i)) \subseteq Range(pending[key]) \ {c}
    BY <1>1, <2>1, OneFewer
  <2> QED BY <1>1, <1>2, <2>2, <2>3 DEF Fewer
<1> QED BY <1>3, <1>4

\* Registrations that are left hold of a command as long as it is in flight.
LEMMA LeftInFlight ==
  ASSUME Books, Fewer(pending'), call' = call,
         \A c \in Command : InFlight(c) /\ ~InFlight(c)' => \A k \in Key : c \notin Range(pending'[k])
  PROVE  RegisteredIsInFlight'
<1>1. SUFFICES ASSUME NEW k \in Key
      PROVE  IsInjective(pending'[k]) /\ \A c \in Range(pending'[k]) : InFlight(c)' /\ KeyOf(c)' = k
  BY DEF RegisteredIsInFlight
<1>2. pending' \in [Key -> Seq(Command)] /\ IsInjective(pending'[k]) /\ Range(pending'[k]) \subseteq Range(pending[k])
  BY DEF Fewer
<1>3. ASSUME NEW c \in Range(pending'[k])
      PROVE  c \in Command /\ InFlight(c) /\ KeyOf(c)' = k
  <2>1. c \in Command
    <3>1. pending'[k] \in Seq(Command)
      BY <1>2
    <3>2. PICK i \in DOMAIN pending'[k] : c = pending'[k][i]
      BY <1>3 DEF Range
    <3> QED BY <3>1, <3>2
  <2> QED BY <1>2, <1>3, <2>1 DEF Books, RegisteredIsInFlight, KeyOf
<1> QED BY <1>2, <1>3

LEMMA UntouchedFits ==
  ASSUME Books
  PROVE  Fewer(pending)
  BY DEF Books, TypeOK, RegisteredIsInFlight, Fewer

\* What the host records of its events is typed.
Recorded ==
  /\ Fewer(pending')
  /\ active' \in [Command -> Command \cup {Fresh, None}]
  /\ startedAs' \in [Command -> Command \cup {Fresh, None}]
  /\ completedAs' \in [Command -> SUBSET (Command \cup {Fresh})]

LEMMA SilentRecords ==
  ASSUME Books, UNCHANGED work
  PROVE  Recorded
<1>1. pending' = pending /\ active' = active /\ startedAs' = startedAs /\ completedAs' = completedAs
  BY DEF work
<1> QED BY <1>1, UntouchedFits DEF Books, TypeOK, Recorded

LEMMA StartRecords ==
  ASSUME Books, NEW c \in Command, RecordStarted(c)
  PROVE  Recorded
<1>1. CASE subscribed
  <2>1. KeyOf(c) \in Key
    BY KeyIsTyped DEF Books
  <2>2. Fewer(Taken(KeyOf(c))) /\ Foremost(KeyOf(c)) \in Command \cup {Fresh}
    BY <2>1, TakenFits
  <2>3. /\ startedAs' = [startedAs EXCEPT ![c] = Foremost(KeyOf(c))] /\ pending' = Taken(KeyOf(c))
        /\ active' = active \/ active' = [active EXCEPT ![c] = Foremost(KeyOf(c))]
        /\ completedAs' = completedAs
    BY <1>1 DEF RecordStarted
  <2> QED BY <2>2, <2>3 DEF Books, TypeOK, Recorded
<1>2. CASE ~subscribed
  BY <1>2, SilentRecords DEF RecordStarted
<1> QED BY <1>1, <1>2

LEMMA CompletionRecords ==
  ASSUME Books, NEW c \in Command, NEW op \in Command \cup {None}, RecordActionCompleted(c, op)
  PROVE  Recorded
<1>1. CASE subscribed
  <2> DEFINE known == op # None /\ active[op] # None
             with == IF known THEN active[op] ELSE Foremost(KeyOf(c))
  <2>1. Fewer(Taken(KeyOf(c))) /\ Foremost(KeyOf(c)) \in Command \cup {Fresh} /\ Fewer(pending)
    BY KeyIsTyped, TakenFits, UntouchedFits DEF Books
  <2>2. /\ completedAs' = [completedAs EXCEPT ![c] = @ \cup {with}]
        /\ active' = (IF known THEN [active EXCEPT ![op] = None] ELSE active)
        /\ pending' = (IF known THEN pending ELSE Taken(KeyOf(c)))
        /\ startedAs' = startedAs
    BY <1>1 DEF RecordActionCompleted, takeActiveAction
  <2>3. with \in Command \cup {Fresh}
    BY <2>1 DEF Books, TypeOK
  <2>4. active' \in [Command -> Command \cup {Fresh, None}]
    BY <2>2 DEF Books, TypeOK
  <2> HIDE DEF known, with
  <2>5. completedAs' \in [Command -> SUBSET (Command \cup {Fresh})]
    BY <2>2, <2>3 DEF Books, TypeOK
  <2>6. Fewer(pending') /\ startedAs' \in [Command -> Command \cup {Fresh, None}]
    BY <2>1, <2>2 DEF Books, TypeOK
  <2> QED BY <2>4, <2>5, <2>6 DEF Recorded
<1>2. CASE ~subscribed
  BY <1>2, SilentRecords DEF RecordActionCompleted
<1> QED BY <1>1, <1>2

LEMMA InterruptionRecords ==
  ASSUME Books, NEW c \in Command, CompleteInterrupted(c)
  PROVE  Recorded /\ settled' \in [Command -> BOOLEAN]
<1>1. settled' \in [Command -> BOOLEAN]
  BY DEF CompleteInterrupted, Settle, Books, TypeOK
<1>2. CurrentAction \in Command \cup {None}
  BY DEF CurrentAction
<1>3. CASE IsAction(c)
  <2>1. RecordActionCompleted(c, CurrentAction)
    BY <1>3 DEF CompleteInterrupted
  <2> QED BY <1>1, <1>2, <2>1, CompletionRecords
<1>4. CASE ~IsAction(c)
  <2>1. UNCHANGED work
    BY <1>4 DEF CompleteInterrupted
  <2> QED BY <1>1, <2>1, SilentRecords
<1> QED BY <1>1, <1>3, <1>4

\* What a step has to keep, once its records are typed.
LEMMA RecordsKeepBooks ==
  ASSUME Books, Recorded, call' = call,
         status' \in {"open", "stopped"}, stopping' \in Stops,
         stopper' \in [Stopper -> {"new", "waiting", "answered"}],
         subscribed' \in BOOLEAN, closed' \in BOOLEAN,
         caller' \in [Command -> Callers],
         task' \in [Command -> Command \cup {None}],
         worker' \in [Command -> Workers],
         handler' \in [Command -> {"none", "caller", "stop"}],
         settled' \in [Command -> BOOLEAN],
         admitted' \in [Key -> Command \cup {None}],
         \A c \in Command : InFlight(c) /\ ~InFlight(c)' => \A k \in Key : c \notin Range(pending'[k])
  PROVE  Books'
<1>1. RegisteredIsInFlight'
  BY LeftInFlight DEF Recorded
<1>2. call' \in Scenario /\ pending' \in [Key -> Seq(Command)]
  BY DEF Books, TypeOK, Recorded, Fewer
<1>3. TypeOK'
  BY <1>2 DEF TypeOK, Recorded
<1> QED BY <1>1, <1>3 DEF Books

LEMMA BooksInitially == Init => Books
<1> SUFFICES ASSUME Init PROVE Books
  OBVIOUS
<1>1. TypeOK
  <2>1. pending \in [Key -> Seq(Command)]
    BY DEF Init
  <2>2. completedAs \in [Command -> SUBSET (Command \cup {Fresh})]
    BY DEF Init
  <2> QED BY <2>1, <2>2 DEF Init, TypeOK, Stops, Callers, Workers
<1>2. RegisteredIsInFlight
  BY DEF Init, RegisteredIsInFlight, IsInjective, Range
<1> QED BY <1>1, <1>2 DEF Books

\* Who is not in flight yet has registered nothing, so an Append repeats nobody.
LEMMA BooksCall ==
  ASSUME Books, NEW c \in Command, Submit(c) \/ Refuse(c) \/ SubmitOwn(c)
  PROVE  Books'
<1>1. PICK becomes \in {"registered", "refused"} : Call(c, becomes) /\ (becomes = "refused" => pending' = pending)
  BY DEF Submit, Refuse, SubmitOwn
<1>2. /\ caller[c] = "new" /\ caller' = [caller EXCEPT ![c] = becomes]
      /\ UNCHANGED <<call, status, stopping, stopper, subscribed, closed, task, worker, handler,
                     settled, admitted, active, startedAs, completedAs>>
  BY <1>1 DEF Call, host
<1>3. \A d \in Command : InFlight(d) => d # c /\ InFlight(d)'
  BY <1>2 DEF InFlight, Books, TypeOK
<1>4. CASE pending' = pending
  <2>1. Recorded
    BY <1>2, <1>4, SilentRecords DEF work
  <2>2. caller' \in [Command -> Callers]
    BY <1>2 DEF Books, TypeOK, Callers
  <2> QED BY <1>2, <1>3, <2>1, <2>2, RecordsKeepBooks DEF Books, TypeOK
<1>5. CASE pending' = Registered(c) /\ becomes = "registered"
  <2> DEFINE key == KeyOf(c)
             s == pending[key]
  <2>1. key \in Key
    BY KeyIsTyped DEF Books
  <2>2. s \in Seq(Command) /\ IsInjective(s) /\ \A d \in Range(s) : InFlight(d)
    BY <2>1 DEF Books, TypeOK, RegisteredIsInFlight
  <2>3. pending' = [pending EXCEPT ![key] = Append(s, c)]
    BY <1>5 DEF Registered
  <2>4. c \notin Range(s)
    BY <1>2, <2>2 DEF InFlight
  <2> HIDE DEF s
  <2>5. /\ Append(s, c) \in Seq(Command) /\ IsInjective(Append(s, c))
        /\ Range(Append(s, c)) \subseteq Range(s) \cup {c}
    <3>1. /\ Append(s, c) \in Seq(Command) /\ Len(s) \in Nat
          /\ DOMAIN s = 1 .. Len(s) /\ DOMAIN Append(s, c) = 1 .. Len(s) + 1
          /\ Append(s, c)[Len(s) + 1] = c
          /\ \A i \in 1 .. Len(s) : Append(s, c)[i] = s[i]
      BY <2>2
    <3>2. \A i \in 1 .. Len(s) + 1 : i \in 1 .. Len(s) \/ i = Len(s) + 1
      BY <3>1
    <3>3. \A i \in 1 .. Len(s) : s[i] # c
      BY <2>4, <3>1 DEF Range
    <3> QED BY <2>2, <3>1, <3>2, <3>3 DEF IsInjective, Range
  <2>6. pending \in [Key -> Seq(Command)]
    BY DEF Books, TypeOK
  <2>7. pending' \in [Key -> Seq(Command)]
    BY <2>3, <2>5, <2>6
  <2>8. TypeOK'
    BY <1>2, <2>7 DEF Books, TypeOK, Callers
  <2>9. ASSUME NEW k \in Key
        PROVE  IsInjective(pending'[k]) /\ \A d \in Range(pending'[k]) : InFlight(d)' /\ KeyOf(d)' = k
    <3>1. CASE k = key
      <4>1. pending'[k] = Append(s, c)
        BY <2>1, <2>3, <2>6, <3>1
      <4>2. \A d \in Range(s) : d \in Command /\ InFlight(d) /\ KeyOf(d) = key
        <5>1. \A d \in Range(s) : d \in Command
          BY <2>2 DEF Range
        <5> QED BY <2>1, <5>1 DEF Books, RegisteredIsInFlight, s
      <4>3. InFlight(c)' /\ KeyOf(c)' = key /\ \A d : KeyOf(d)' = KeyOf(d)
        BY <1>2, <1>5 DEF InFlight, KeyOf, Books, TypeOK
      <4> HIDE DEF key
      <4> QED BY <1>3, <2>5, <3>1, <4>1, <4>2, <4>3
    <3>2. CASE k # key
      <4>1. pending'[k] = pending[k]
        BY <2>3, <2>6, <3>2
      <4>2. IsInjective(pending[k]) /\ \A d \in Range(pending[k]) : d \in Command /\ InFlight(d) /\ KeyOf(d) = k
        <5>1. \A d \in Range(pending[k]) : d \in Command
          BY <2>6 DEF Range
        <5> QED BY <5>1 DEF Books, RegisteredIsInFlight
      <4>3. \A d : KeyOf(d)' = KeyOf(d)
        BY <1>2 DEF KeyOf
      <4> QED BY <1>3, <4>1, <4>2, <4>3
    <3> QED BY <3>1, <3>2
  <2> QED BY <2>8, <2>9 DEF Books, RegisteredIsInFlight
<1>6. pending' = pending \/ (pending' = Registered(c) /\ caller' = [caller EXCEPT ![c] = "registered"])
  BY <1>1 DEF Submit, Refuse, SubmitOwn, Call
<1>7. caller'[c] = becomes
  BY <1>2 DEF Books, TypeOK
<1>8. caller' = [caller EXCEPT ![c] = "registered"] => becomes = "registered"
  BY <1>7 DEF Books, TypeOK
<1> QED BY <1>4, <1>5, <1>6, <1>8

\* A withdrawn start leaves the rest as it is.
LEMMA WithdrawalRecords ==
  ASSUME Books, NEW c \in Command, pending' = Withdrawn(c), UNCHANGED <<active, startedAs, completedAs>>
  PROVE  Recorded /\ \A k \in Key : c \notin Range(pending'[k])
<1>1. Fewer(pending') /\ \A k \in Key : c \notin Range(pending'[k])
  BY WithdrawnFits
<1> QED BY <1>1 DEF Recorded, Books, TypeOK

LEMMA BooksAwait ==
  ASSUME Books, NEW c \in Command, NEW t \in Command \cup {None}, Await(c, t), Recorded,
         worker' \in [Command -> Workers], settled' \in [Command -> BOOLEAN],
         admitted' \in [Key -> Command \cup {None}]
  PROVE  Books'
<1>1. /\ caller[c] = "registered" /\ caller' = [caller EXCEPT ![c] = "waiting"]
      /\ task' = [task EXCEPT ![c] = t]
      /\ UNCHANGED <<call, status, stopping, stopper, subscribed, closed, handler>>
  BY DEF Await, host
<1>2. \A d \in Command : InFlight(d) => InFlight(d)'
  BY <1>1 DEF InFlight, Books, TypeOK
<1>3. caller' \in [Command -> Callers] /\ task' \in [Command -> Command \cup {None}]
  BY <1>1 DEF Books, TypeOK, Callers
<1> QED BY <1>1, <1>2, <1>3, RecordsKeepBooks DEF Books, TypeOK

LEMMA BooksAdmit ==
  ASSUME Books, NEW c \in Command, Admit(c)
  PROVE  Books'
<1> USE DEF Books
<1>0. KeyOf(c) \in Key
  BY KeyIsTyped
<1>1. ASSUME FindMissing(c) PROVE Books'
  <2>1. Await(c, c) /\ Settle(c) /\ UNCHANGED <<worker, admitted>>
    BY <1>1 DEF FindMissing
  <2>2. Recorded
    <3>1. CASE ActionMissing(c)
      BY <3>1, CompletionRecords DEF ActionMissing
    <3>2. CASE RefreshMissing(c)
      BY <3>2, WithdrawalRecords DEF RefreshMissing
    <3>3. CASE ArgsMissing(c)
      BY <3>3, SilentRecords DEF ArgsMissing
    <3> QED BY <1>1, <3>1, <3>2, <3>3 DEF FindMissing
  <2>3. settled' \in [Command -> BOOLEAN] /\ worker' \in [Command -> Workers]
        /\ admitted' \in [Key -> Command \cup {None}]
    BY <2>1 DEF Settle, TypeOK
  <2> QED BY <2>1, <2>2, <2>3, BooksAwait
<1>2. ASSUME Join(c) PROVE Books'
  <2>1. Await(c, admitted[KeyOf(c)]) /\ UNCHANGED <<worker, settled, admitted>>
        /\ admitted[KeyOf(c)] \in Command \cup {None}
    BY <1>0, <1>2 DEF Join, TypeOK
  <2>2. Recorded
    <3>1. CASE pending' = Withdrawn(c)
      BY <1>2, <3>1, WithdrawalRecords DEF Join
    <3>2. CASE pending' = pending
      BY <1>2, <3>2, SilentRecords DEF Join, work
    <3> QED BY <1>2, <3>1, <3>2 DEF Join
  <2>3. settled' \in [Command -> BOOLEAN] /\ worker' \in [Command -> Workers]
        /\ admitted' \in [Key -> Command \cup {None}]
    BY <2>1 DEF TypeOK
  <2> QED BY <2>1, <2>2, <2>3, BooksAwait
<1>3. ASSUME Reject(c) PROVE Books'
  <2>1. Await(c, c) /\ Settle(c) /\ UNCHANGED <<worker, admitted>> /\ RecordActionCompleted(c, None)
    BY <1>3 DEF Reject
  <2>2. Recorded
    BY <2>1, CompletionRecords
  <2>3. settled' \in [Command -> BOOLEAN] /\ worker' \in [Command -> Workers]
        /\ admitted' \in [Key -> Command \cup {None}]
    BY <2>1 DEF Settle, TypeOK
  <2> QED BY <2>1, <2>2, <2>3, BooksAwait
<1>4. ASSUME Enter(c) PROVE Books'
  <2>1. Await(c, c) /\ UNCHANGED <<settled, work>> /\ worker' = [worker EXCEPT ![c] = "queued"]
    BY <1>4 DEF Enter
  <2>2. Recorded
    BY <2>1, SilentRecords
  <2>3. admitted' = admitted \/ admitted' = [admitted EXCEPT ![KeyOf(c)] = c]
    BY <1>4 DEF Enter
  <2>4. settled' \in [Command -> BOOLEAN] /\ worker' \in [Command -> Workers]
        /\ admitted' \in [Key -> Command \cup {None}]
    BY <2>1, <2>3 DEF TypeOK, Workers
  <2> QED BY <2>1, <2>2, <2>4, BooksAwait
<1>5. ASSUME FindClosed(c) PROVE Books'
  <2>1. Await(c, c) /\ CompleteInterrupted(c) /\ UNCHANGED <<worker, admitted>>
    BY <1>5 DEF FindClosed
  <2>2. Recorded /\ settled' \in [Command -> BOOLEAN]
    BY <2>1, InterruptionRecords
  <2>3. worker' \in [Command -> Workers] /\ admitted' \in [Key -> Command \cup {None}]
    BY <2>1 DEF TypeOK
  <2> QED BY <2>1, <2>2, <2>3, BooksAwait
<1> QED BY <1>1, <1>2, <1>3, <1>4, <1>5 DEF Admit

\* A caller that returns has withdrawn its start.
LEMMA BooksAnswered ==
  ASSUME Books, NEW c \in Command, Resume(c) \/ Return(c)
  PROVE  Books'
<1>1. /\ UNCHANGED <<call, status, stopping, stopper, subscribed, closed, task, worker, handler,
                     settled, admitted, active, startedAs, completedAs>>
      /\ \/ pending' = Withdrawn(c) /\ caller' = [caller EXCEPT ![c] = "returned"]
         \/ pending' = Withdrawn(c) /\ caller' = [caller EXCEPT ![c] = "reporting"]
         \/ pending' = pending /\ caller' = [caller EXCEPT ![c] = "reporting"]
  BY DEF Resume, Return, ActionAnswered, RefreshAnswered, ArgsAnswered, host
<1>2. caller' \in [Command -> Callers] /\ \A d \in Command : d # c => (InFlight(d) => InFlight(d)')
  BY <1>1 DEF Books, TypeOK, Callers, InFlight
<1>3. CASE pending' = Withdrawn(c)
  <2>1. Recorded /\ \A k \in Key : c \notin Range(pending'[k])
    BY <1>1, <1>3, WithdrawalRecords
  <2> QED BY <1>1, <1>2, <2>1, RecordsKeepBooks DEF Books, TypeOK
<1>4. CASE pending' = pending /\ caller' = [caller EXCEPT ![c] = "reporting"]
  <2>1. Recorded
    BY <1>1, <1>4, SilentRecords DEF work
  <2>2. InFlight(c)'
    BY <1>4 DEF Books, TypeOK, InFlight
  <2> QED BY <1>1, <1>2, <2>1, <2>2, RecordsKeepBooks DEF Books, TypeOK
<1> QED BY <1>1, <1>3, <1>4

LEMMA BooksLeave ==
  ASSUME Books, NEW c \in Command, Leave(c)
  PROVE  Books'
<1>1. /\ caller' = [caller EXCEPT ![c] = "leaving"]
      /\ UNCHANGED <<call, status, stopping, stopper, subscribed, closed, task, worker, admitted>>
      /\ InterruptOnce(c, "caller") \/ UNCHANGED <<handler, settled, work>>
  BY DEF Leave, host
<1>2. caller' \in [Command -> Callers] /\ \A d \in Command : InFlight(d) => InFlight(d)'
  BY <1>1 DEF Books, TypeOK, Callers, InFlight
<1>3. CASE InterruptOnce(c, "caller")
  <2>1. handler' \in [Command -> {"none", "caller", "stop"}]
    BY <1>3 DEF InterruptOnce, Books, TypeOK
  <2>2. Recorded /\ settled' \in [Command -> BOOLEAN]
    BY <1>3, InterruptionRecords DEF InterruptOnce
  <2> QED BY <1>1, <1>2, <2>1, <2>2, RecordsKeepBooks DEF Books, TypeOK
<1>4. CASE UNCHANGED <<handler, settled, work>>
  <2>1. Recorded
    BY <1>4, SilentRecords
  <2> QED BY <1>1, <1>2, <1>4, <2>1, RecordsKeepBooks DEF Books, TypeOK
<1> QED BY <1>1, <1>3, <1>4

LEMMA BooksWork ==
  ASSUME Books, NEW c \in Command, Work(c)
  PROVE  Books'
<1> USE DEF Books
<1>1. /\ UNCHANGED <<call, status, stopping, stopper, subscribed, closed, caller, task, handler>>
      /\ \E to \in Workers : worker' = [worker EXCEPT ![c] = to]
      /\ admitted' = admitted \/ admitted' = Cleared(c)
  <2>1. {"ended", "operating", "settling", "reported"} \subseteq Workers
    BY DEF Workers
  <2>2. ASSUME Begin(c) PROVE <1>1!1 /\ <1>1!2 /\ <1>1!3
    BY <2>1, <2>2 DEF Begin, host
  <2>3. ASSUME Withdraw(c) PROVE <1>1!1 /\ <1>1!2 /\ <1>1!3
    BY <2>1, <2>3 DEF Withdraw, host
  <2>4. ASSUME Finish(c) PROVE <1>1!1 /\ <1>1!2 /\ <1>1!3
    BY <2>1, <2>4 DEF Finish, host
  <2>5. ASSUME Report(c) PROVE <1>1!1 /\ <1>1!2 /\ <1>1!3
    BY <2>1, <2>5 DEF Report, host
  <2>6. ASSUME Answer(c) PROVE <1>1!1 /\ <1>1!2 /\ <1>1!3
    BY <2>1, <2>6 DEF Answer, host
  <2> QED BY <2>2, <2>3, <2>4, <2>5, <2>6 DEF Work
<1>2. \A d \in Command : InFlight(d) => InFlight(d)'
  BY <1>1 DEF InFlight
<1>3. worker' \in [Command -> Workers] /\ admitted' \in [Key -> Command \cup {None}]
  BY <1>1 DEF TypeOK, Cleared
<1>4. Recorded /\ settled' \in [Command -> BOOLEAN]
  <2>2. ASSUME Begin(c) PROVE Recorded /\ settled' \in [Command -> BOOLEAN]
    BY <2>2, StartRecords DEF Begin, TypeOK
  <2>3. ASSUME Withdraw(c) PROVE Recorded /\ settled' \in [Command -> BOOLEAN]
    <3>1. UNCHANGED <<settled, work>> \/ CompleteInterrupted(c)
      BY <2>3 DEF Withdraw
    <3> QED BY <3>1, SilentRecords, InterruptionRecords DEF TypeOK
  <2>4. ASSUME Finish(c) PROVE Recorded /\ settled' \in [Command -> BOOLEAN]
    BY <2>4, SilentRecords DEF Finish, TypeOK
  <2>5. ASSUME Report(c) PROVE Recorded /\ settled' \in [Command -> BOOLEAN]
    BY <2>5, CompletionRecords DEF Report, TypeOK
  <2>6. ASSUME Answer(c) PROVE Recorded /\ settled' \in [Command -> BOOLEAN]
    BY <2>6, SilentRecords DEF Answer, Settle, TypeOK
  <2> QED BY <2>2, <2>3, <2>4, <2>5, <2>6 DEF Work
<1> QED BY <1>1, <1>2, <1>3, <1>4, RecordsKeepBooks DEF TypeOK

LEMMA BooksInterrupt ==
  ASSUME Books, NEW c \in Command, Cut(c) \/ CloseInterrupts(c)
  PROVE  Books'
<1>1. /\ UNCHANGED <<call, status, stopping, stopper, subscribed, closed, caller, task>>
      /\ worker' = worker \/ worker' = [worker EXCEPT ![c] = "ended"]
      /\ admitted' = admitted \/ admitted' = Cleared(c)
      /\ \E by \in {"none", "stop"} : handler' = [handler EXCEPT ![c] = by]
      /\ UNCHANGED <<settled, work>> \/ CompleteInterrupted(c)
  BY DEF Cut, CloseInterrupts, InterruptOnce, host
<1>2. \A d \in Command : InFlight(d) => InFlight(d)'
  BY <1>1 DEF InFlight
<1>3. /\ worker' \in [Command -> Workers] /\ admitted' \in [Key -> Command \cup {None}]
      /\ handler' \in [Command -> {"none", "caller", "stop"}]
  <2>1. handler' \in [Command -> {"none", "caller", "stop"}]
    BY <1>1 DEF Books, TypeOK
  <2>2. worker' \in [Command -> Workers]
    BY <1>1 DEF Books, TypeOK, Workers
  <2>3. admitted' \in [Key -> Command \cup {None}]
    BY <1>1 DEF Books, TypeOK, Cleared
  <2> QED BY <2>1, <2>2, <2>3
<1>4. Recorded /\ settled' \in [Command -> BOOLEAN]
  BY <1>1, SilentRecords, InterruptionRecords DEF Books, TypeOK
<1> QED BY <1>1, <1>2, <1>3, <1>4, RecordsKeepBooks DEF Books, TypeOK

LEMMA BooksStop ==
  ASSUME Books, \/ \E s \in Stopper : Stop(s) \/ StopAnswered(s)
                \/ CloseActors \/ CleanUp \/ ReportStopped
                \/ UNCHANGED vars
  PROVE  Books'
<1>1. /\ UNCHANGED <<call, caller, task, worker, handler, settled, admitted, work>>
      /\ status' = status \/ status' = "stopped"
      /\ stopping' = stopping \/ stopping' \in Stops
      /\ stopper' = stopper \/ \E s \in Stopper, to \in {"waiting", "answered"} : stopper' = [stopper EXCEPT ![s] = to]
      /\ subscribed' \in {subscribed, FALSE} /\ closed' \in {closed, TRUE}
  BY DEF Stop, StopAnswered, CloseActors, CleanUp, ReportStopped, Stops, rest, vars, host
<1>2. Recorded
  BY <1>1, SilentRecords
<1>3. \A d \in Command : InFlight(d) => InFlight(d)'
  BY <1>1 DEF InFlight
<1>4. /\ status' \in {"open", "stopped"} /\ stopping' \in Stops
      /\ stopper' \in [Stopper -> {"new", "waiting", "answered"}]
      /\ subscribed' \in BOOLEAN /\ closed' \in BOOLEAN
  BY <1>1 DEF Books, TypeOK
<1> QED BY <1>1, <1>2, <1>3, <1>4, RecordsKeepBooks DEF Books, TypeOK

LEMMA BooksPreserved == Books /\ [Next]_vars => Books'
<1> SUFFICES ASSUME Books, [Next]_vars PROVE Books'
  OBVIOUS
<1> QED BY BooksCall, BooksAdmit, BooksAnswered, BooksLeave, BooksWork, BooksInterrupt, BooksStop DEF Next, Run

LEMMA BooksHold == Spec => []Books
  BY BooksInitially, BooksPreserved, PTL DEF Spec

\* The types of the runtime host, for any commands, policies and callers.
THEOREM TypeCorrect == Spec => []TypeOK
<1>1. Books => TypeOK
  BY DEF Books
<1> QED BY <1>1, BooksHold, PTL

\* However commands join, are rejected, interrupted or stopped, the starts that
\* are registered under a key are of commands in flight that ask for it, each
\* registered once: no event takes the work of a command that is over
\* (operationStarts.ts).
THEOREM StartsAreInFlight == Spec => []RegisteredIsInFlight
<1>1. Books => RegisteredIsInFlight
  BY DEF Books
<1> QED BY <1>1, BooksHold, PTL
=============================================================================
