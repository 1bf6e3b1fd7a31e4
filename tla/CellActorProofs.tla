-------------------------- MODULE CellActorProofs ---------------------------
(***************************************************************************)
(* Safety of CellActor for every set of submissions.                       *)
(*                                                                         *)
(* The inductive invariant relates the permit to the states of its         *)
(* possible holders (PermitInv), the latch to the handler and the reply    *)
(* (LatchInv), the closers to their sections and to the planning semaphore *)
(* that keeps invalidation and shutdown apart (ClosersInv), and a shutdown *)
(* to the submissions it has yet to settle (ShutdownInv).                  *)
(***************************************************************************)
EXTENDS CellActor, TLAPS

\* The permit has the holder whose state says so, and no other.
PermitInv ==
  /\ \A s \in Submission : InPermit(s) <=> holder = s
  /\ \A x \in Section : section[x] = "running" <=> holder = x

\* The handler of a submission runs exactly if an interruption claimed its
\* latch; a worker past its operation has a claimed latch.
LatchInv ==
  \A s \in Submission :
    /\ handler[s] = "idle" <=> claim[s] \in {"none", "operation"}
    /\ worker[s] \in {"unwinding", "refusing", "exited"} => Settled(s)
    /\ claim[s] = "operation" => worker[s] = "exited"

\* A refusal by the closed registry is not over: submit holds the semaphore.
BeingRefused(s) == claim[s] = "registry" /\ handler[s] \in {"running", "replied"}

ClosersInv ==
  /\ \A c \in Closer :
       /\ pc[c] \in {"idle", "closing"} => section[SectionOf(c)] = "idle"
       /\ section[SectionOf(c)] \in {"waiting", "running"} => pc[c] = "exclusive"
       /\ pc[c] # "idle" => closed
  /\ section["cleanup"] = "idle" => pc["shutdown"] \in {"idle", "closing", "exclusive"}
  /\ planner = "invalidate" <=> pc["invalidate"] \in {"closing", "exclusive"}
  /\ section["teardown"] # "waiting" /\ pc["invalidate"] # "scope"
  /\ planner = "invalidate" => pc["shutdown"] = "idle"
  /\ pc["shutdown"] # "idle" => planner = "evict" \/ ~registered
  /\ planner = "evict" => pc["shutdown"] # "done"
  /\ pc["shutdown"] = "done" => ~registered
  /\ registryClosed => ~registered
  /\ \A s \in Submission : BeingRefused(s) => planner = "refuse"
  /\ \A s, t \in Submission : BeingRefused(s) /\ BeingRefused(t) => s = t

\* Whatever a shutdown has still to settle is in its snapshot.
ShutdownInv ==
  pc["shutdown"] # "idle" =>
    \A s \in Submission :
      Alive(s) => Settled(s) \/ (pc["shutdown"] = "closing" /\ s \in toClose["shutdown"])

Inv ==
  /\ TypeOK /\ PermitInv /\ LatchInv /\ ClosersInv /\ ShutdownInv
  /\ OneOutcome /\ CleanupIsLast /\ TeardownRunsOut /\ ShutdownLeavesNothing

-----------------------------------------------------------------------------
(* Preservation, one lemma for each part of the invariant *)

\* Every step keeps the state in its types (Submit, close, the sections, ...).
LEMMA TypeStep == TypeOK /\ [Next]_vars => TypeOK'
<1> SUFFICES ASSUME TypeOK, [Next]_vars PROVE TypeOK'
  OBVIOUS
<1> USE DisjointAssumption
    DEF TypeOK, WorkerState, Claimant, HandlerState, Closer, Section,
        SectionOf, Accepted, Settled, vars, workerVars, closerVars,
        registryVars
<1>1. ASSUME NEW s \in Submission, Submit(s) PROVE TypeOK'
  BY <1>1 DEF Submit, Enter, ClaimInterrupt
<1>2. ASSUME NEW s \in Submission, SubmitToClosedRegistry(s) PROVE TypeOK'
  BY <1>2 DEF SubmitToClosedRegistry, ClaimInterrupt
<1>3. ASSUME NEW s \in Submission, AwaiterLeaves(s) PROVE TypeOK'
  BY <1>3 DEF AwaiterLeaves, ClaimInterrupt
<1>4. ASSUME NEW s \in Submission, OperationEnds(s) PROVE TypeOK'
  BY <1>4 DEF OperationEnds
<1>5. ASSUME NEW s \in Submission, WorkerTakesPermit(s) PROVE TypeOK'
  BY <1>5 DEF WorkerTakesPermit, Enter, ClaimInterrupt
<1>6. ASSUME NEW s \in Submission, OperationUnwinds(s) PROVE TypeOK'
  BY <1>6 DEF OperationUnwinds
<1>7. ASSUME NEW s \in Submission, HandlerReplies(s) PROVE TypeOK'
  BY <1>7 DEF HandlerReplies
<1>8. ASSUME NEW s \in Submission, HandlerEnds(s) PROVE TypeOK'
  BY <1>8 DEF HandlerEnds, Interrupted
<1>9. ASSUME NEW s \in Submission, AwaiterResumes(s) PROVE TypeOK'
  BY <1>9 DEF AwaiterResumes
<1>10. ASSUME NEW s \in Submission, ScopeInterrupts(s) PROVE TypeOK'
  BY <1>10 DEF ScopeInterrupts, Interrupted
<1>11. ASSUME NEW c \in Closer, NEW s \in Submission, CloseInterrupts(c, s) PROVE TypeOK'
  BY <1>11 DEF CloseInterrupts, ClaimInterrupt
<1>12. ASSUME NEW c \in Closer, NEW s \in Submission, CloseJoins(c, s) PROVE TypeOK'
  BY <1>12 DEF CloseJoins
<1>13. ASSUME NEW c \in Closer, CloseReturns(c) PROVE TypeOK'
  BY <1>13 DEF CloseReturns
<1>14. ASSUME NEW x \in Section, SectionTakesPermit(x) PROVE TypeOK'
  BY <1>14 DEF SectionTakesPermit
<1>15. CASE InvalidateBegins
  BY <1>15 DEF InvalidateBegins, CloseBegins
<1>16. CASE EvictBegins
  BY <1>16 DEF EvictBegins, CloseBegins
<1>17. CASE StopBegins
  <2>1. closed' \in BOOLEAN
    BY <1>17 DEF StopBegins, CloseBegins
  <2>2. /\ pc' \in [Closer -> {"idle", "closing", "exclusive", "scope", "done"}]
        /\ toClose' \in [Closer -> SUBSET Submission]
    BY <1>17 DEF StopBegins, CloseBegins
  <2>3. registered' \in BOOLEAN /\ registryClosed' \in BOOLEAN
    BY <1>17 DEF StopBegins
  <2>4. UNCHANGED <<holder, workerVars, section, planner>>
    BY <1>17 DEF StopBegins
  <2>5. QED
    BY <2>1, <2>2, <2>3, <2>4
<1>18. CASE MarkEnds
  BY <1>18 DEF MarkEnds
<1>19. CASE TeardownEnds
  BY <1>19 DEF TeardownEnds
<1>20. CASE CleanupEnds
  BY <1>20 DEF CleanupEnds
<1>21. CASE ScopeCloses
  BY <1>21 DEF ScopeCloses
<1>22. CASE UNCHANGED vars
  BY <1>22
<1> QED
  BY <1>1, <1>2, <1>3, <1>4, <1>5, <1>6, <1>7, <1>8, <1>9, <1>10, <1>11,
     <1>12, <1>13, <1>14, <1>15, <1>16, <1>17, <1>18, <1>19, <1>20, <1>21, <1>22
  DEF Next, Caller, Runtime

\* Whoever takes the permit finds it free, and gives it up as it leaves.
LEMMA PermitStep == Inv /\ [Next]_vars => PermitInv'
<1> SUFFICES ASSUME Inv, [Next]_vars PROVE PermitInv'
  OBVIOUS
<1> USE DisjointAssumption
    DEF Inv, TypeOK, PermitInv, ClosersInv, InPermit, Settled, WorkerState,
        Closer, Section, SectionOf, vars, workerVars, closerVars,
        registryVars
<1>1. ASSUME NEW s \in Submission, Submit(s) PROVE PermitInv'
  BY <1>1 DEF Submit, Enter, ClaimInterrupt
<1>2. ASSUME NEW s \in Submission, SubmitToClosedRegistry(s) PROVE PermitInv'
  BY <1>2 DEF SubmitToClosedRegistry, ClaimInterrupt
<1>3. ASSUME NEW s \in Submission, AwaiterLeaves(s) PROVE PermitInv'
  BY <1>3 DEF AwaiterLeaves, ClaimInterrupt
<1>4. ASSUME NEW s \in Submission, OperationEnds(s) PROVE PermitInv'
  BY <1>4 DEF OperationEnds
<1>5. ASSUME NEW s \in Submission, WorkerTakesPermit(s) PROVE PermitInv'
  BY <1>5 DEF WorkerTakesPermit, Enter, ClaimInterrupt
<1>6. ASSUME NEW s \in Submission, OperationUnwinds(s) PROVE PermitInv'
  BY <1>6 DEF OperationUnwinds
<1>7. ASSUME NEW s \in Submission, HandlerReplies(s) PROVE PermitInv'
  BY <1>7 DEF HandlerReplies
<1>8. ASSUME NEW s \in Submission, HandlerEnds(s) PROVE PermitInv'
  BY <1>8 DEF HandlerEnds, Interrupted
<1>9. ASSUME NEW s \in Submission, AwaiterResumes(s) PROVE PermitInv'
  BY <1>9 DEF AwaiterResumes
<1>10. ASSUME NEW s \in Submission, ScopeInterrupts(s) PROVE PermitInv'
  BY <1>10 DEF ScopeInterrupts, Interrupted
<1>11. ASSUME NEW c \in Closer, NEW s \in Submission, CloseInterrupts(c, s) PROVE PermitInv'
  BY <1>11 DEF CloseInterrupts, ClaimInterrupt
<1>12. ASSUME NEW c \in Closer, NEW s \in Submission, CloseJoins(c, s) PROVE PermitInv'
  BY <1>12 DEF CloseJoins
<1>13. ASSUME NEW c \in Closer, CloseReturns(c) PROVE PermitInv'
  BY <1>13 DEF CloseReturns
<1>14. ASSUME NEW x \in Section, SectionTakesPermit(x) PROVE PermitInv'
  BY <1>14 DEF SectionTakesPermit
<1>15. CASE InvalidateBegins
  BY <1>15 DEF InvalidateBegins, CloseBegins
<1>16. CASE EvictBegins
  BY <1>16 DEF EvictBegins, CloseBegins
<1>17. CASE StopBegins
  BY <1>17 DEF StopBegins, CloseBegins
<1>18. CASE MarkEnds
  BY <1>18 DEF MarkEnds
<1>19. CASE TeardownEnds
  BY <1>19 DEF TeardownEnds
<1>20. CASE CleanupEnds
  BY <1>20 DEF CleanupEnds
<1>21. CASE ScopeCloses
  BY <1>21 DEF ScopeCloses
<1>22. CASE UNCHANGED vars
  BY <1>22
<1> QED
  BY <1>1, <1>2, <1>3, <1>4, <1>5, <1>6, <1>7, <1>8, <1>9, <1>10, <1>11,
     <1>12, <1>13, <1>14, <1>15, <1>16, <1>17, <1>18, <1>19, <1>20, <1>21, <1>22
  DEF Next, Caller, Runtime

\* The latch is claimed before a handler runs and before a worker leaves.
\* A scope close finds every worker that still waits settled (ShutdownInv).
LEMMA LatchStep == Inv /\ [Next]_vars => LatchInv'
<1> SUFFICES ASSUME Inv, [Next]_vars PROVE LatchInv'
  OBVIOUS
<1> USE DisjointAssumption
    DEF Inv, TypeOK, PermitInv, LatchInv, ShutdownInv, Settled, Alive,
        WorkerState, Claimant, HandlerState, Closer, vars, workerVars,
        closerVars, registryVars
<1>1. ASSUME NEW s \in Submission, Submit(s) PROVE LatchInv'
  BY <1>1 DEF Submit, Enter, ClaimInterrupt
<1>2. ASSUME NEW s \in Submission, SubmitToClosedRegistry(s) PROVE LatchInv'
  BY <1>2 DEF SubmitToClosedRegistry, ClaimInterrupt
<1>3. ASSUME NEW s \in Submission, AwaiterLeaves(s) PROVE LatchInv'
  BY <1>3 DEF AwaiterLeaves, ClaimInterrupt
<1>4. ASSUME NEW s \in Submission, OperationEnds(s) PROVE LatchInv'
  BY <1>4 DEF OperationEnds
<1>5. ASSUME NEW s \in Submission, WorkerTakesPermit(s) PROVE LatchInv'
  BY <1>5 DEF WorkerTakesPermit, Enter, ClaimInterrupt
<1>6. ASSUME NEW s \in Submission, OperationUnwinds(s) PROVE LatchInv'
  BY <1>6 DEF OperationUnwinds
<1>7. ASSUME NEW s \in Submission, HandlerReplies(s) PROVE LatchInv'
  BY <1>7 DEF HandlerReplies
<1>8. ASSUME NEW s \in Submission, HandlerEnds(s) PROVE LatchInv'
  BY <1>8 DEF HandlerEnds, Interrupted
<1>9. ASSUME NEW s \in Submission, AwaiterResumes(s) PROVE LatchInv'
  BY <1>9 DEF AwaiterResumes
<1>10. ASSUME NEW s \in Submission, ScopeInterrupts(s) PROVE LatchInv'
  BY <1>10 DEF ScopeInterrupts, Interrupted
<1>11. ASSUME NEW c \in Closer, NEW s \in Submission, CloseInterrupts(c, s) PROVE LatchInv'
  BY <1>11 DEF CloseInterrupts, ClaimInterrupt
<1>12. ASSUME NEW c \in Closer, NEW s \in Submission, CloseJoins(c, s) PROVE LatchInv'
  BY <1>12 DEF CloseJoins
<1>13. ASSUME NEW c \in Closer, CloseReturns(c) PROVE LatchInv'
  BY <1>13 DEF CloseReturns
<1>14. ASSUME NEW x \in Section, SectionTakesPermit(x) PROVE LatchInv'
  BY <1>14 DEF SectionTakesPermit
<1>15. CASE InvalidateBegins
  BY <1>15 DEF InvalidateBegins, CloseBegins
<1>16. CASE EvictBegins
  BY <1>16 DEF EvictBegins, CloseBegins
<1>17. CASE StopBegins
  BY <1>17 DEF StopBegins, CloseBegins
<1>18. CASE MarkEnds
  BY <1>18 DEF MarkEnds
<1>19. CASE TeardownEnds
  BY <1>19 DEF TeardownEnds
<1>20. CASE CleanupEnds
  BY <1>20 DEF CleanupEnds
<1>21. CASE ScopeCloses
  BY <1>21 DEF ScopeCloses
<1>22. CASE UNCHANGED vars
  BY <1>22
<1> QED
  BY <1>1, <1>2, <1>3, <1>4, <1>5, <1>6, <1>7, <1>8, <1>9, <1>10, <1>11,
     <1>12, <1>13, <1>14, <1>15, <1>16, <1>17, <1>18, <1>19, <1>20, <1>21, <1>22
  DEF Next, Caller, Runtime

\* The planning semaphore keeps invalidation, shutdown and refusal apart.
LEMMA ClosersStep == Inv /\ [Next]_vars => ClosersInv'
<1> SUFFICES ASSUME Inv, [Next]_vars PROVE ClosersInv'
  OBVIOUS
<1> USE DisjointAssumption
    DEF Inv, TypeOK, PermitInv, LatchInv, ClosersInv, BeingRefused, Settled,
        Claimant, HandlerState, Closer, Section, SectionOf, vars, workerVars,
        closerVars, registryVars
<1>1. ASSUME NEW s \in Submission, Submit(s) PROVE ClosersInv'
  BY <1>1, SMTT(20) DEF Submit, Enter, ClaimInterrupt
<1>2. ASSUME NEW s \in Submission, SubmitToClosedRegistry(s) PROVE ClosersInv'
  BY <1>2 DEF SubmitToClosedRegistry, ClaimInterrupt
<1>3. ASSUME NEW s \in Submission, AwaiterLeaves(s) PROVE ClosersInv'
  BY <1>3 DEF AwaiterLeaves, ClaimInterrupt
<1>4. ASSUME NEW s \in Submission, OperationEnds(s) PROVE ClosersInv'
  BY <1>4 DEF OperationEnds
<1>5. ASSUME NEW s \in Submission, WorkerTakesPermit(s) PROVE ClosersInv'
  BY <1>5 DEF WorkerTakesPermit, Enter, ClaimInterrupt
<1>6. ASSUME NEW s \in Submission, OperationUnwinds(s) PROVE ClosersInv'
  BY <1>6 DEF OperationUnwinds
<1>7. ASSUME NEW s \in Submission, HandlerReplies(s) PROVE ClosersInv'
  BY <1>7 DEF HandlerReplies
<1>8. ASSUME NEW s \in Submission, HandlerEnds(s) PROVE ClosersInv'
  BY <1>8 DEF HandlerEnds, Interrupted
<1>9. ASSUME NEW s \in Submission, AwaiterResumes(s) PROVE ClosersInv'
  BY <1>9 DEF AwaiterResumes
<1>10. ASSUME NEW s \in Submission, ScopeInterrupts(s) PROVE ClosersInv'
  BY <1>10 DEF ScopeInterrupts, Interrupted
<1>11. ASSUME NEW c \in Closer, NEW s \in Submission, CloseInterrupts(c, s) PROVE ClosersInv'
  BY <1>11 DEF CloseInterrupts, ClaimInterrupt
<1>12. ASSUME NEW c \in Closer, NEW s \in Submission, CloseJoins(c, s) PROVE ClosersInv'
  BY <1>12 DEF CloseJoins
<1>13. ASSUME NEW c \in Closer, CloseReturns(c) PROVE ClosersInv'
  BY <1>13 DEF CloseReturns
<1>14. ASSUME NEW x \in Section, SectionTakesPermit(x) PROVE ClosersInv'
  BY <1>14 DEF SectionTakesPermit
<1>15. CASE InvalidateBegins
  BY <1>15 DEF InvalidateBegins, CloseBegins
<1>16. CASE EvictBegins
  BY <1>16 DEF EvictBegins, CloseBegins
<1>17. CASE StopBegins
  BY <1>17 DEF StopBegins, CloseBegins
<1>18. CASE MarkEnds
  BY <1>18 DEF MarkEnds
<1>19. CASE TeardownEnds
  BY <1>19 DEF TeardownEnds
<1>20. CASE CleanupEnds
  BY <1>20 DEF CleanupEnds
<1>21. CASE ScopeCloses
  BY <1>21 DEF ScopeCloses
<1>22. CASE UNCHANGED vars
  BY <1>22
<1> QED
  BY <1>1, <1>2, <1>3, <1>4, <1>5, <1>6, <1>7, <1>8, <1>9, <1>10, <1>11,
     <1>12, <1>13, <1>14, <1>15, <1>16, <1>17, <1>18, <1>19, <1>20, <1>21, <1>22,
     SMTT(20)
  DEF Next, Caller, Runtime

\* Nothing is submitted to an actor that is shutting down, and its close drops
\* only settled submissions from its snapshot.
LEMMA ShutdownStep == Inv /\ [Next]_vars => ShutdownInv'
<1> SUFFICES ASSUME Inv, [Next]_vars PROVE ShutdownInv'
  OBVIOUS
<1> USE DisjointAssumption
    DEF Inv, TypeOK, LatchInv, ClosersInv, ShutdownInv, Alive, Accepted,
        Settled, WorkerState, Claimant, Closer, SectionOf, vars, workerVars,
        closerVars, registryVars
<1>1. ASSUME NEW s \in Submission, Submit(s) PROVE ShutdownInv'
  BY <1>1 DEF Submit, Enter, ClaimInterrupt
<1>2. ASSUME NEW s \in Submission, SubmitToClosedRegistry(s) PROVE ShutdownInv'
  BY <1>2 DEF SubmitToClosedRegistry, ClaimInterrupt
<1>3. ASSUME NEW s \in Submission, AwaiterLeaves(s) PROVE ShutdownInv'
  BY <1>3 DEF AwaiterLeaves, ClaimInterrupt
<1>4. ASSUME NEW s \in Submission, OperationEnds(s) PROVE ShutdownInv'
  BY <1>4 DEF OperationEnds
<1>5. ASSUME NEW s \in Submission, WorkerTakesPermit(s) PROVE ShutdownInv'
  BY <1>5 DEF WorkerTakesPermit, Enter, ClaimInterrupt
<1>6. ASSUME NEW s \in Submission, OperationUnwinds(s) PROVE ShutdownInv'
  BY <1>6 DEF OperationUnwinds
<1>7. ASSUME NEW s \in Submission, HandlerReplies(s) PROVE ShutdownInv'
  BY <1>7 DEF HandlerReplies
<1>8. ASSUME NEW s \in Submission, HandlerEnds(s) PROVE ShutdownInv'
  BY <1>8 DEF HandlerEnds, Interrupted
<1>9. ASSUME NEW s \in Submission, AwaiterResumes(s) PROVE ShutdownInv'
  BY <1>9 DEF AwaiterResumes
<1>10. ASSUME NEW s \in Submission, ScopeInterrupts(s) PROVE ShutdownInv'
  BY <1>10 DEF ScopeInterrupts, Interrupted
<1>11. ASSUME NEW c \in Closer, NEW s \in Submission, CloseInterrupts(c, s) PROVE ShutdownInv'
  BY <1>11 DEF CloseInterrupts, ClaimInterrupt
<1>12. ASSUME NEW c \in Closer, NEW s \in Submission, CloseJoins(c, s) PROVE ShutdownInv'
  BY <1>12 DEF CloseJoins
<1>13. ASSUME NEW c \in Closer, CloseReturns(c) PROVE ShutdownInv'
  BY <1>13 DEF CloseReturns
<1>14. ASSUME NEW x \in Section, SectionTakesPermit(x) PROVE ShutdownInv'
  BY <1>14 DEF SectionTakesPermit
<1>15. CASE InvalidateBegins
  BY <1>15 DEF InvalidateBegins, CloseBegins
<1>16. CASE EvictBegins
  BY <1>16 DEF EvictBegins, CloseBegins
<1>17. CASE StopBegins
  BY <1>17 DEF StopBegins, CloseBegins
<1>18. CASE MarkEnds
  BY <1>18 DEF MarkEnds
<1>19. CASE TeardownEnds
  BY <1>19 DEF TeardownEnds
<1>20. CASE CleanupEnds
  BY <1>20 DEF CleanupEnds
<1>21. CASE ScopeCloses
  BY <1>21 DEF ScopeCloses
<1>22. CASE UNCHANGED vars
  BY <1>22
<1> QED
  BY <1>1, <1>2, <1>3, <1>4, <1>5, <1>6, <1>7, <1>8, <1>9, <1>10, <1>11,
     <1>12, <1>13, <1>14, <1>15, <1>16, <1>17, <1>18, <1>19, <1>20, <1>21, <1>22
  DEF Next, Caller, Runtime

\* Only the claimant of the latch completes the reply and runs onComplete.
LEMMA OutcomeStep == Inv /\ [Next]_vars => OneOutcome'
<1> SUFFICES ASSUME Inv, [Next]_vars PROVE OneOutcome'
  OBVIOUS
<1> USE DisjointAssumption
    DEF Inv, TypeOK, LatchInv, OneOutcome, Settled, Claimant, HandlerState,
        Closer, vars, workerVars, closerVars, registryVars
<1>1. ASSUME NEW s \in Submission, Submit(s) PROVE OneOutcome'
  BY <1>1 DEF Submit, Enter, ClaimInterrupt
<1>2. ASSUME NEW s \in Submission, SubmitToClosedRegistry(s) PROVE OneOutcome'
  BY <1>2 DEF SubmitToClosedRegistry, ClaimInterrupt
<1>3. ASSUME NEW s \in Submission, AwaiterLeaves(s) PROVE OneOutcome'
  BY <1>3 DEF AwaiterLeaves, ClaimInterrupt
<1>4. ASSUME NEW s \in Submission, OperationEnds(s) PROVE OneOutcome'
  BY <1>4 DEF OperationEnds
<1>5. ASSUME NEW s \in Submission, WorkerTakesPermit(s) PROVE OneOutcome'
  BY <1>5 DEF WorkerTakesPermit, Enter, ClaimInterrupt
<1>6. ASSUME NEW s \in Submission, OperationUnwinds(s) PROVE OneOutcome'
  BY <1>6 DEF OperationUnwinds
<1>7. ASSUME NEW s \in Submission, HandlerReplies(s) PROVE OneOutcome'
  BY <1>7 DEF HandlerReplies
<1>8. ASSUME NEW s \in Submission, HandlerEnds(s) PROVE OneOutcome'
  BY <1>8 DEF HandlerEnds, Interrupted
<1>9. ASSUME NEW s \in Submission, AwaiterResumes(s) PROVE OneOutcome'
  BY <1>9 DEF AwaiterResumes
<1>10. ASSUME NEW s \in Submission, ScopeInterrupts(s) PROVE OneOutcome'
  BY <1>10 DEF ScopeInterrupts, Interrupted
<1>11. ASSUME NEW c \in Closer, NEW s \in Submission, CloseInterrupts(c, s) PROVE OneOutcome'
  BY <1>11 DEF CloseInterrupts, ClaimInterrupt
<1>12. ASSUME NEW c \in Closer, NEW s \in Submission, CloseJoins(c, s) PROVE OneOutcome'
  BY <1>12 DEF CloseJoins
<1>13. ASSUME NEW c \in Closer, CloseReturns(c) PROVE OneOutcome'
  BY <1>13 DEF CloseReturns
<1>14. ASSUME NEW x \in Section, SectionTakesPermit(x) PROVE OneOutcome'
  BY <1>14 DEF SectionTakesPermit
<1>15. CASE InvalidateBegins
  BY <1>15 DEF InvalidateBegins, CloseBegins
<1>16. CASE EvictBegins
  BY <1>16 DEF EvictBegins, CloseBegins
<1>17. CASE StopBegins
  BY <1>17 DEF StopBegins, CloseBegins
<1>18. CASE MarkEnds
  BY <1>18 DEF MarkEnds
<1>19. CASE TeardownEnds
  BY <1>19 DEF TeardownEnds
<1>20. CASE CleanupEnds
  BY <1>20 DEF CleanupEnds
<1>21. CASE ScopeCloses
  BY <1>21 DEF ScopeCloses
<1>22. CASE UNCHANGED vars
  BY <1>22
<1> QED
  BY <1>1, <1>2, <1>3, <1>4, <1>5, <1>6, <1>7, <1>8, <1>9, <1>10, <1>11,
     <1>12, <1>13, <1>14, <1>15, <1>16, <1>17, <1>18, <1>19, <1>20, <1>21, <1>22
  DEF Next, Caller, Runtime

\* The cleanup excludes operations while it holds the permit; afterwards the
\* actor is closed and starts none.
LEMMA CleanupStep == Inv /\ [Next]_vars => CleanupIsLast'
<1> SUFFICES ASSUME Inv, [Next]_vars PROVE CleanupIsLast'
  OBVIOUS
<1> USE DisjointAssumption
    DEF Inv, TypeOK, PermitInv, ClosersInv, CleanupIsLast, InPermit,
        Executing, Settled, WorkerState, Closer, Section, SectionOf, vars,
        workerVars, closerVars, registryVars
<1>1. ASSUME NEW s \in Submission, Submit(s) PROVE CleanupIsLast'
  BY <1>1 DEF Submit, Enter, ClaimInterrupt
<1>2. ASSUME NEW s \in Submission, SubmitToClosedRegistry(s) PROVE CleanupIsLast'
  BY <1>2 DEF SubmitToClosedRegistry, ClaimInterrupt
<1>3. ASSUME NEW s \in Submission, AwaiterLeaves(s) PROVE CleanupIsLast'
  BY <1>3 DEF AwaiterLeaves, ClaimInterrupt
<1>4. ASSUME NEW s \in Submission, OperationEnds(s) PROVE CleanupIsLast'
  BY <1>4 DEF OperationEnds
<1>5. ASSUME NEW s \in Submission, WorkerTakesPermit(s) PROVE CleanupIsLast'
  BY <1>5 DEF WorkerTakesPermit, Enter, ClaimInterrupt
<1>6. ASSUME NEW s \in Submission, OperationUnwinds(s) PROVE CleanupIsLast'
  BY <1>6 DEF OperationUnwinds
<1>7. ASSUME NEW s \in Submission, HandlerReplies(s) PROVE CleanupIsLast'
  BY <1>7 DEF HandlerReplies
<1>8. ASSUME NEW s \in Submission, HandlerEnds(s) PROVE CleanupIsLast'
  BY <1>8 DEF HandlerEnds, Interrupted
<1>9. ASSUME NEW s \in Submission, AwaiterResumes(s) PROVE CleanupIsLast'
  BY <1>9 DEF AwaiterResumes
<1>10. ASSUME NEW s \in Submission, ScopeInterrupts(s) PROVE CleanupIsLast'
  BY <1>10 DEF ScopeInterrupts, Interrupted
<1>11. ASSUME NEW c \in Closer, NEW s \in Submission, CloseInterrupts(c, s) PROVE CleanupIsLast'
  BY <1>11 DEF CloseInterrupts, ClaimInterrupt
<1>12. ASSUME NEW c \in Closer, NEW s \in Submission, CloseJoins(c, s) PROVE CleanupIsLast'
  BY <1>12 DEF CloseJoins
<1>13. ASSUME NEW c \in Closer, CloseReturns(c) PROVE CleanupIsLast'
  BY <1>13 DEF CloseReturns
<1>14. ASSUME NEW x \in Section, SectionTakesPermit(x) PROVE CleanupIsLast'
  BY <1>14 DEF SectionTakesPermit
<1>15. CASE InvalidateBegins
  BY <1>15 DEF InvalidateBegins, CloseBegins
<1>16. CASE EvictBegins
  BY <1>16 DEF EvictBegins, CloseBegins
<1>17. CASE StopBegins
  BY <1>17 DEF StopBegins, CloseBegins
<1>18. CASE MarkEnds
  BY <1>18 DEF MarkEnds
<1>19. CASE TeardownEnds
  BY <1>19 DEF TeardownEnds
<1>20. CASE CleanupEnds
  BY <1>20 DEF CleanupEnds
<1>21. CASE ScopeCloses
  BY <1>21 DEF ScopeCloses
<1>22. CASE UNCHANGED vars
  BY <1>22
<1> QED
  BY <1>1, <1>2, <1>3, <1>4, <1>5, <1>6, <1>7, <1>8, <1>9, <1>10, <1>11,
     <1>12, <1>13, <1>14, <1>15, <1>16, <1>17, <1>18, <1>19, <1>20, <1>21, <1>22
  DEF Next, Caller, Runtime

\* An invalidation cannot begin once a shutdown has, nor the other way round
\* before the teardown owns the permit.
LEMMA TeardownStep == Inv /\ [Next]_vars => TeardownRunsOut'
<1> SUFFICES ASSUME Inv, [Next]_vars PROVE TeardownRunsOut'
  OBVIOUS
<1> USE DisjointAssumption
    DEF Inv, TypeOK, PermitInv, ClosersInv, TeardownRunsOut, Closer, Section,
        SectionOf, vars, workerVars, closerVars, registryVars
<1>1. ASSUME NEW s \in Submission, Submit(s) PROVE TeardownRunsOut'
  BY <1>1 DEF Submit, Enter, ClaimInterrupt
<1>2. ASSUME NEW s \in Submission, SubmitToClosedRegistry(s) PROVE TeardownRunsOut'
  BY <1>2 DEF SubmitToClosedRegistry, ClaimInterrupt
<1>3. ASSUME NEW s \in Submission, AwaiterLeaves(s) PROVE TeardownRunsOut'
  BY <1>3 DEF AwaiterLeaves, ClaimInterrupt
<1>4. ASSUME NEW s \in Submission, OperationEnds(s) PROVE TeardownRunsOut'
  BY <1>4 DEF OperationEnds
<1>5. ASSUME NEW s \in Submission, WorkerTakesPermit(s) PROVE TeardownRunsOut'
  BY <1>5 DEF WorkerTakesPermit, Enter, ClaimInterrupt
<1>6. ASSUME NEW s \in Submission, OperationUnwinds(s) PROVE TeardownRunsOut'
  BY <1>6 DEF OperationUnwinds
<1>7. ASSUME NEW s \in Submission, HandlerReplies(s) PROVE TeardownRunsOut'
  BY <1>7 DEF HandlerReplies
<1>8. ASSUME NEW s \in Submission, HandlerEnds(s) PROVE TeardownRunsOut'
  BY <1>8 DEF HandlerEnds, Interrupted
<1>9. ASSUME NEW s \in Submission, AwaiterResumes(s) PROVE TeardownRunsOut'
  BY <1>9 DEF AwaiterResumes
<1>10. ASSUME NEW s \in Submission, ScopeInterrupts(s) PROVE TeardownRunsOut'
  BY <1>10 DEF ScopeInterrupts, Interrupted
<1>11. ASSUME NEW c \in Closer, NEW s \in Submission, CloseInterrupts(c, s) PROVE TeardownRunsOut'
  BY <1>11 DEF CloseInterrupts, ClaimInterrupt
<1>12. ASSUME NEW c \in Closer, NEW s \in Submission, CloseJoins(c, s) PROVE TeardownRunsOut'
  BY <1>12 DEF CloseJoins
<1>13. ASSUME NEW c \in Closer, CloseReturns(c) PROVE TeardownRunsOut'
  BY <1>13 DEF CloseReturns
<1>14. ASSUME NEW x \in Section, SectionTakesPermit(x) PROVE TeardownRunsOut'
  BY <1>14 DEF SectionTakesPermit
<1>15. CASE InvalidateBegins
  BY <1>15 DEF InvalidateBegins, CloseBegins
<1>16. CASE EvictBegins
  BY <1>16 DEF EvictBegins, CloseBegins
<1>17. CASE StopBegins
  BY <1>17 DEF StopBegins, CloseBegins
<1>18. CASE MarkEnds
  BY <1>18 DEF MarkEnds
<1>19. CASE TeardownEnds
  BY <1>19 DEF TeardownEnds
<1>20. CASE CleanupEnds
  BY <1>20 DEF CleanupEnds
<1>21. CASE ScopeCloses
  BY <1>21 DEF ScopeCloses
<1>22. CASE UNCHANGED vars
  BY <1>22
<1> QED
  BY <1>1, <1>2, <1>3, <1>4, <1>5, <1>6, <1>7, <1>8, <1>9, <1>10, <1>11,
     <1>12, <1>13, <1>14, <1>15, <1>16, <1>17, <1>18, <1>19, <1>20, <1>21, <1>22
  DEF Next, Caller, Runtime

\* A closed scope has no fiber left, and no section holds the permit.
LEMMA ShutdownEndStep == Inv /\ [Next]_vars => ShutdownLeavesNothing'
<1> SUFFICES ASSUME Inv, [Next]_vars PROVE ShutdownLeavesNothing'
  OBVIOUS
<1> USE DisjointAssumption
    DEF Inv, TypeOK, PermitInv, LatchInv, ClosersInv, ShutdownInv,
        TeardownRunsOut, ShutdownLeavesNothing, InPermit, Alive, Accepted,
        Settled, WorkerState, Claimant, Closer, Section, SectionOf, vars,
        workerVars, closerVars, registryVars
<1>1. ASSUME NEW s \in Submission, Submit(s) PROVE ShutdownLeavesNothing'
  BY <1>1 DEF Submit, Enter, ClaimInterrupt
<1>2. ASSUME NEW s \in Submission, SubmitToClosedRegistry(s) PROVE ShutdownLeavesNothing'
  BY <1>2 DEF SubmitToClosedRegistry, ClaimInterrupt
<1>3. ASSUME NEW s \in Submission, AwaiterLeaves(s) PROVE ShutdownLeavesNothing'
  BY <1>3 DEF AwaiterLeaves, ClaimInterrupt
<1>4. ASSUME NEW s \in Submission, OperationEnds(s) PROVE ShutdownLeavesNothing'
  BY <1>4 DEF OperationEnds
<1>5. ASSUME NEW s \in Submission, WorkerTakesPermit(s) PROVE ShutdownLeavesNothing'
  BY <1>5 DEF WorkerTakesPermit, Enter, ClaimInterrupt
<1>6. ASSUME NEW s \in Submission, OperationUnwinds(s) PROVE ShutdownLeavesNothing'
  BY <1>6 DEF OperationUnwinds
<1>7. ASSUME NEW s \in Submission, HandlerReplies(s) PROVE ShutdownLeavesNothing'
  BY <1>7 DEF HandlerReplies
<1>8. ASSUME NEW s \in Submission, HandlerEnds(s) PROVE ShutdownLeavesNothing'
  BY <1>8 DEF HandlerEnds, Interrupted
<1>9. ASSUME NEW s \in Submission, AwaiterResumes(s) PROVE ShutdownLeavesNothing'
  BY <1>9 DEF AwaiterResumes
<1>10. ASSUME NEW s \in Submission, ScopeInterrupts(s) PROVE ShutdownLeavesNothing'
  BY <1>10 DEF ScopeInterrupts, Interrupted
<1>11. ASSUME NEW c \in Closer, NEW s \in Submission, CloseInterrupts(c, s) PROVE ShutdownLeavesNothing'
  BY <1>11 DEF CloseInterrupts, ClaimInterrupt
<1>12. ASSUME NEW c \in Closer, NEW s \in Submission, CloseJoins(c, s) PROVE ShutdownLeavesNothing'
  BY <1>12 DEF CloseJoins
<1>13. ASSUME NEW c \in Closer, CloseReturns(c) PROVE ShutdownLeavesNothing'
  BY <1>13 DEF CloseReturns
<1>14. ASSUME NEW x \in Section, SectionTakesPermit(x) PROVE ShutdownLeavesNothing'
  BY <1>14 DEF SectionTakesPermit
<1>15. CASE InvalidateBegins
  BY <1>15 DEF InvalidateBegins, CloseBegins
<1>16. CASE EvictBegins
  BY <1>16 DEF EvictBegins, CloseBegins
<1>17. CASE StopBegins
  BY <1>17 DEF StopBegins, CloseBegins
<1>18. CASE MarkEnds
  BY <1>18 DEF MarkEnds
<1>19. CASE TeardownEnds
  BY <1>19 DEF TeardownEnds
<1>20. CASE CleanupEnds
  BY <1>20 DEF CleanupEnds
<1>21. CASE ScopeCloses
  BY <1>21 DEF ScopeCloses
<1>22. CASE UNCHANGED vars
  BY <1>22
<1> QED
  BY <1>1, <1>2, <1>3, <1>4, <1>5, <1>6, <1>7, <1>8, <1>9, <1>10, <1>11,
     <1>12, <1>13, <1>14, <1>15, <1>16, <1>17, <1>18, <1>19, <1>20, <1>21, <1>22
  DEF Next, Caller, Runtime

-----------------------------------------------------------------------------
(* The theorems *)

\* A fresh actor satisfies the invariant.
LEMMA InitInv == Init => Inv
<1> SUFFICES ASSUME Init PROVE Inv
  OBVIOUS
<1> USE DisjointAssumption
    DEF Init, Closer, Section, SectionOf, Settled, Alive, InPermit, Executing
<1>1. TypeOK
  BY DEF TypeOK, WorkerState, Claimant, HandlerState
<1>2. PermitInv /\ LatchInv
  BY DEF PermitInv, LatchInv
<1>3. ClosersInv /\ ShutdownInv
  BY DEF ClosersInv, BeingRefused, ShutdownInv
<1>4. OneOutcome
  BY DEF OneOutcome
<1>5. CleanupIsLast /\ TeardownRunsOut /\ ShutdownLeavesNothing
  BY DEF CleanupIsLast, TeardownRunsOut, ShutdownLeavesNothing
<1> QED
  BY <1>1, <1>2, <1>3, <1>4, <1>5 DEF Inv

\* The state of an actor always has its type.
THEOREM TypeCorrect == Spec => []TypeOK
<1>1. Init => TypeOK
  BY InitInv DEF Inv
<1> QED
  BY <1>1, TypeStep, PTL DEF Spec

\* The inductive invariant holds in every reachable state.
THEOREM Invariance == Spec => []Inv
<1>1. Inv /\ [Next]_vars => Inv'
  <2> SUFFICES ASSUME Inv, [Next]_vars PROVE Inv'
    OBVIOUS
  <2>1. TypeOK'
    BY TypeStep DEF Inv
  <2> QED
    BY <2>1, PermitStep, LatchStep, ClosersStep, ShutdownStep, OutcomeStep,
       CleanupStep, TeardownStep, ShutdownEndStep
    DEF Inv
<1> QED
  BY InitInv, <1>1, PTL DEF Spec

\* Operations and exclusive sections run one at a time: the permit has one
\* holder (PermitInv).
THEOREM MutualExclusionHolds == Spec => []MutualExclusion
<1>1. Inv => MutualExclusion
  BY DisjointAssumption DEF Inv, PermitInv, MutualExclusion
<1> QED
  BY <1>1, Invariance, PTL

\* Every submission has one outcome, reported by onComplete once.
THEOREM OneOutcomeHolds == Spec => []OneOutcome
<1>1. Inv => OneOutcome
  BY DEF Inv
<1> QED
  BY <1>1, Invariance, PTL

\* No operation executes once a shutdown's cleanup has begun.
THEOREM CleanupIsLastHolds == Spec => []CleanupIsLast
<1>1. Inv => CleanupIsLast
  BY DEF Inv
<1> QED
  BY <1>1, Invariance, PTL

\* A shutdown never cuts the teardown of an invalidated generation.
THEOREM TeardownRunsOutHolds == Spec => []TeardownRunsOut
<1>1. Inv => TeardownRunsOut
  BY DEF Inv
<1> QED
  BY <1>1, Invariance, PTL

\* A finished shutdown leaves no worker, no permit and no reply unclaimed.
THEOREM ShutdownLeavesNothingHolds == Spec => []ShutdownLeavesNothing
<1>1. Inv => ShutdownLeavesNothing
  BY DEF Inv
<1> QED
  BY <1>1, Invariance, PTL

\* From an open actor only: Submit and WorkerTakesPermit start an effect, and
\* Enter checks the flag at that very moment.
LEMMA NoStartStep ==
  TypeOK /\ [Next]_vars =>
    [\A t \in Submission : worker'[t] = "running" /\ worker[t] # "running" => ~closed]_vars
<1> SUFFICES ASSUME TypeOK, [Next]_vars, NEW t \in Submission,
                    worker'[t] = "running", worker[t] # "running"
             PROVE  ~closed
  OBVIOUS
<1> USE DisjointAssumption
    DEF TypeOK, Closer, vars, workerVars, closerVars, registryVars
<1>1. ASSUME NEW s \in Submission, Submit(s) PROVE ~closed
  BY <1>1 DEF Submit, Enter, ClaimInterrupt
<1>2. ASSUME NEW s \in Submission, SubmitToClosedRegistry(s) PROVE ~closed
  BY <1>2 DEF SubmitToClosedRegistry, ClaimInterrupt
<1>3. ASSUME NEW s \in Submission, AwaiterLeaves(s) PROVE ~closed
  BY <1>3 DEF AwaiterLeaves, ClaimInterrupt
<1>4. ASSUME NEW s \in Submission, OperationEnds(s) PROVE ~closed
  BY <1>4 DEF OperationEnds
<1>5. ASSUME NEW s \in Submission, WorkerTakesPermit(s) PROVE ~closed
  BY <1>5 DEF WorkerTakesPermit, Enter, ClaimInterrupt
<1>6. ASSUME NEW s \in Submission, OperationUnwinds(s) PROVE ~closed
  BY <1>6 DEF OperationUnwinds
<1>7. ASSUME NEW s \in Submission, HandlerReplies(s) PROVE ~closed
  BY <1>7 DEF HandlerReplies
<1>8. ASSUME NEW s \in Submission, HandlerEnds(s) PROVE ~closed
  BY <1>8 DEF HandlerEnds, Interrupted
<1>9. ASSUME NEW s \in Submission, AwaiterResumes(s) PROVE ~closed
  BY <1>9 DEF AwaiterResumes
<1>10. ASSUME NEW s \in Submission, ScopeInterrupts(s) PROVE ~closed
  BY <1>10 DEF ScopeInterrupts, Interrupted
<1>11. ASSUME NEW c \in Closer, NEW s \in Submission, CloseInterrupts(c, s) PROVE ~closed
  BY <1>11 DEF CloseInterrupts, ClaimInterrupt
<1>12. ASSUME NEW c \in Closer, NEW s \in Submission, CloseJoins(c, s) PROVE ~closed
  BY <1>12 DEF CloseJoins
<1>13. ASSUME NEW c \in Closer, CloseReturns(c) PROVE ~closed
  BY <1>13 DEF CloseReturns
<1>14. ASSUME NEW x \in Section, SectionTakesPermit(x) PROVE ~closed
  BY <1>14 DEF SectionTakesPermit
<1>15. CASE InvalidateBegins
  BY <1>15 DEF InvalidateBegins, CloseBegins
<1>16. CASE EvictBegins
  BY <1>16 DEF EvictBegins, CloseBegins
<1>17. CASE StopBegins
  BY <1>17 DEF StopBegins, CloseBegins
<1>18. CASE MarkEnds
  BY <1>18 DEF MarkEnds
<1>19. CASE TeardownEnds
  BY <1>19 DEF TeardownEnds
<1>20. CASE CleanupEnds
  BY <1>20 DEF CleanupEnds
<1>21. CASE ScopeCloses
  BY <1>21 DEF ScopeCloses
<1>22. CASE UNCHANGED vars
  BY <1>22
<1> QED
  BY <1>1, <1>2, <1>3, <1>4, <1>5, <1>6, <1>7, <1>8, <1>9, <1>10, <1>11,
     <1>12, <1>13, <1>14, <1>15, <1>16, <1>17, <1>18, <1>19, <1>20, <1>21, <1>22
  DEF Next, Caller, Runtime

\* An actor that was closed starts no operation.
THEOREM NoStartAfterCloseHolds == Spec => NoStartAfterClose
<1>1. TypeOK /\ [Next]_vars =>
        [\A s \in Submission : worker'[s] = "running" /\ worker[s] # "running" => ~closed]_vars
  BY NoStartStep
<1> QED
  BY <1>1, TypeCorrect, PTL DEF Spec, NoStartAfterClose

-----------------------------------------------------------------------------
(* CellActor implements SerialCell for every set of submissions *)

\* A step that touches one submission touches one entry of the abstract state.
LEMMA OneEntry ==
  ASSUME NEW s \in Submission,
         \A t \in Submission \ {s} : /\ StageOf(t)' = StageOf(t)
                                     /\ OutcomeOf(t)' = OutcomeOf(t)
  PROVE  /\ Stage' = [Stage EXCEPT ![s] = StageOf(s)']
         /\ Outcome' = [Outcome EXCEPT ![s] = OutcomeOf(s)']
         /\ StageOf(s)' = StageOf(s) => Stage' = Stage
         /\ OutcomeOf(s)' = OutcomeOf(s) => Outcome' = Outcome
         /\ Stage[s] = StageOf(s) /\ Outcome[s] = OutcomeOf(s)
BY DEF Stage, Outcome

\* A step that touches no worker, latch or handler leaves the abstract
\* submissions alone.
LEMMA NoEntry ==
  ASSUME UNCHANGED <<worker, claim, handler>>
  PROVE  Stage' = Stage /\ Outcome' = Outcome
BY DEF Stage, Outcome, StageOf, OutcomeOf

\* A free permit means a quiet cell.
LEMMA FreePermit ==
  ASSUME Inv, holder = "nobody"
  PROVE  Cell!Quiet
BY DisjointAssumption
DEF Inv, TypeOK, PermitInv, InPermit, Cell!Quiet, Stage, StageOf, Exclusive, Section, WorkerState

\* The worker that owns a free permit begins its operation, refuses it, or
\* leaves because it was cancelled.
LEMMA EnterStep ==
  ASSUME Inv, NEW s \in Submission, Enter(s), holder = "nobody",
         worker[s] \in {"none", "waiting"}, ~Settled(s) \/ worker[s] = "waiting",
         UNCHANGED <<closed, section>>
  PROVE  Cell!Next
<1> USE DEF Inv, TypeOK, WorkerState, Claimant, HandlerState, Settled
<1>1. \A t \in Submission \ {s} : /\ StageOf(t)' = StageOf(t)
                                  /\ OutcomeOf(t)' = OutcomeOf(t)
  BY DEF Enter, ClaimInterrupt, StageOf, OutcomeOf
<1>2. Exclusive' = Exclusive
  BY DEF Exclusive
<1>3. StageOf(s) \in {"new", "pending"}
  BY DEF StageOf
<1>4. CASE ~closed
  <2>1. StageOf(s)' = "active" /\ OutcomeOf(s)' = OutcomeOf(s)
    BY <1>4 DEF Enter, StageOf, OutcomeOf
  <2>2. Cell!Begin(s)
    BY <1>1, <1>2, <1>3, <1>4, <2>1, OneEntry, FreePermit DEF Cell!Begin
  <2> QED
    BY <2>2 DEF Cell!Next
<1>5. CASE closed /\ ~Settled(s)
  <2>1. /\ worker'[s] = "refusing" /\ worker'[s] # "none"
        /\ claim'[s] = "worker" /\ handler'[s] = "running"
    BY <1>5 DEF Enter, ClaimInterrupt
  <2>2. StageOf(s)' = "pending" /\ OutcomeOf(s) = "none"
    BY <1>5, <2>1 DEF StageOf, OutcomeOf
  <2>3. OutcomeOf(s)' = "cancelling"
    BY <2>1 DEF OutcomeOf
  <2>4. Cell!Accept(s) \/ Cell!Cancel(s)
    BY <1>1, <1>2, <1>3, <1>5, <2>2, <2>3, OneEntry DEF Cell!Accept, Cell!Cancel
  <2> QED
    BY <2>4 DEF Cell!Next
<1>6. CASE closed /\ Settled(s)
  <2>1. StageOf(s) = "pending" /\ StageOf(s)' = "gone"
    BY <1>6 DEF Enter, StageOf
  <2>2. OutcomeOf(s) \in {"cancelling", "interrupted"} /\ OutcomeOf(s)' = OutcomeOf(s)
    BY <1>6 DEF Enter, OutcomeOf, LatchInv
  <2>3. Cell!Leave(s)
    BY <1>1, <1>2, <2>1, <2>2, OneEntry DEF Cell!Leave
  <2> QED
    BY <2>3 DEF Cell!Next
<1> QED
  BY <1>4, <1>5, <1>6

\* Claiming the latch of a submission for an interruption is a cancellation.
LEMMA CancelStep ==
  ASSUME Inv, NEW s \in Submission, NEW by \in Claimant \ {"none", "operation"},
         ClaimInterrupt(s, by), ~Settled(s), UNCHANGED <<closed, section, worker>>
  PROVE  Cell!Next
<1> USE DEF Inv, TypeOK, WorkerState, Claimant, HandlerState, Settled
<1>1. \A t \in Submission \ {s} : /\ StageOf(t)' = StageOf(t)
                                  /\ OutcomeOf(t)' = OutcomeOf(t)
  BY DEF ClaimInterrupt, StageOf, OutcomeOf
<1>2. OutcomeOf(s) = "none" /\ OutcomeOf(s)' = "cancelling"
  <2>1. claim'[s] = by /\ handler'[s] = "running"
    BY DEF ClaimInterrupt
  <2> QED
    BY <2>1 DEF OutcomeOf
<1>3. StageOf(s) # "gone" /\ StageOf(s)' = StageOf(s)
  BY DEF LatchInv, StageOf
<1>4. Exclusive' = Exclusive
  BY DEF Exclusive
<1>5. Cell!Cancel(s)
  BY <1>1, <1>2, <1>3, <1>4, OneEntry DEF Cell!Cancel
<1> QED
  BY <1>5 DEF Cell!Next

\* Interrupting a worker whose latch is claimed lets it leave, or unwind.
LEMMA InterruptStep ==
  ASSUME Inv, NEW s \in Submission, Interrupted(s), Settled(s),
         claim[s] # "operation", OutcomeOf(s)' = OutcomeOf(s),
         \A t \in Submission \ {s} : OutcomeOf(t)' = OutcomeOf(t),
         UNCHANGED <<closed, section>>
  PROVE  [Cell!Next]_(Cell!vars)
<1> USE DEF Inv, TypeOK, WorkerState, Claimant, Settled
<1>1. \A t \in Submission \ {s} : StageOf(t)' = StageOf(t)
  BY DEF Interrupted, StageOf
<1>2. Exclusive' = Exclusive
  BY DEF Exclusive
<1>3. CASE worker[s] \in {"waiting", "refusing"}
  <2>1. StageOf(s) = "pending" /\ StageOf(s)' = "gone"
    BY <1>3 DEF Interrupted, StageOf
  <2>2. OutcomeOf(s) \in {"cancelling", "interrupted"}
    BY DEF OutcomeOf
  <2>3. Cell!Leave(s)
    BY <1>1, <1>2, <2>1, <2>2, OneEntry DEF Cell!Leave
  <2> QED
    BY <2>3 DEF Cell!Next
<1>4. CASE worker[s] \notin {"waiting", "refusing"}
  <2>1. StageOf(s)' = StageOf(s)
    BY <1>4 DEF Interrupted, StageOf
  <2> QED
    BY <1>1, <1>2, <2>1, OneEntry DEF Cell!vars
<1> QED
  BY <1>3, <1>4

\* A section that takes a free permit of a closed actor begins an exclusive
\* section of the cell.
LEMMA ExclusiveStep ==
  ASSUME Inv, NEW x \in Section, holder = "nobody", closed,
         section' = [section EXCEPT ![x] = "running"],
         UNCHANGED <<closed, worker, claim, handler>>
  PROVE  Cell!Next
<1>1. Exclusive'
  BY DEF Inv, TypeOK, Exclusive
<1>2. Cell!EnterExclusive
  BY <1>1, NoEntry, FreePermit DEF Cell!EnterExclusive
<1> QED
  BY <1>2 DEF Cell!Next

-----------------------------------------------------------------------------
\* A step of the actor is a step of the serial cell, or a stutter.
LEMMA RefinementStep == Inv /\ [Next]_vars => [Cell!Next]_(Cell!vars)
<1> SUFFICES ASSUME Inv, [Next]_vars PROVE [Cell!Next]_(Cell!vars)
  OBVIOUS
<1> USE DisjointAssumption
    DEF Inv, TypeOK, WorkerState, Claimant, HandlerState, Closer, Section,
        Settled, vars, workerVars, closerVars, registryVars
<1>1. ASSUME NEW s \in Submission, Submit(s) PROVE Cell!Next
  <2>1. CASE holder = "nobody" /\ Enter(s)
    BY <1>1, <2>1, EnterStep DEF Submit
  <2>2. CASE worker' = [worker EXCEPT ![s] = "waiting"] /\ UNCHANGED <<claim, handler>>
    <3>1. \A t \in Submission \ {s} : /\ StageOf(t)' = StageOf(t)
                                      /\ OutcomeOf(t)' = OutcomeOf(t)
      BY <2>2 DEF StageOf, OutcomeOf
    <3>2. StageOf(s) = "new" /\ StageOf(s)' = "pending" /\ OutcomeOf(s)' = OutcomeOf(s)
      BY <1>1, <2>2 DEF Submit, StageOf, OutcomeOf
    <3>3. Exclusive' = Exclusive /\ UNCHANGED closed
      BY <1>1 DEF Submit, Exclusive
    <3>4. Cell!Accept(s)
      BY <3>1, <3>2, <3>3, OneEntry DEF Cell!Accept
    <3> QED
      BY <3>4 DEF Cell!Next
  <2> QED
    BY <1>1, <2>1, <2>2 DEF Submit
<1>2. ASSUME NEW s \in Submission, SubmitToClosedRegistry(s) PROVE Cell!Next
  BY <1>2, CancelStep DEF SubmitToClosedRegistry
<1>3. ASSUME NEW s \in Submission, AwaiterLeaves(s) PROVE [Cell!Next]_(Cell!vars)
  <2>1. CASE ~Settled(s) /\ ClaimInterrupt(s, "awaiter")
    BY <1>3, <2>1, CancelStep DEF AwaiterLeaves
  <2>2. CASE UNCHANGED <<claim, handler>>
    BY <1>3, <2>2, NoEntry DEF AwaiterLeaves, Exclusive, Cell!vars
  <2> QED
    BY <1>3, <2>1, <2>2 DEF AwaiterLeaves
<1>4. ASSUME NEW s \in Submission, OperationEnds(s) PROVE Cell!Next
  <2>1. \A t \in Submission \ {s} : /\ StageOf(t)' = StageOf(t)
                                    /\ OutcomeOf(t)' = OutcomeOf(t)
    BY <1>4 DEF OperationEnds, StageOf, OutcomeOf
  <2>2. StageOf(s) = "active" /\ StageOf(s)' = "gone"
    BY <1>4 DEF OperationEnds, StageOf
  <2>3. OutcomeOf(s)' = IF OutcomeOf(s) = "none" THEN "result" ELSE OutcomeOf(s)
    BY <1>4 DEF OperationEnds, OutcomeOf
  <2>4. Exclusive' = Exclusive /\ UNCHANGED closed
    BY <1>4 DEF OperationEnds, Exclusive
  <2>5. Cell!End(s)
    BY <2>1, <2>2, <2>3, <2>4, OneEntry DEF Cell!End
  <2> QED
    BY <2>5 DEF Cell!Next
<1>5. ASSUME NEW s \in Submission, WorkerTakesPermit(s) PROVE Cell!Next
  BY <1>5, EnterStep DEF WorkerTakesPermit
<1>6. ASSUME NEW s \in Submission, OperationUnwinds(s) PROVE Cell!Next
  <2>1. \A t \in Submission \ {s} : /\ StageOf(t)' = StageOf(t)
                                    /\ OutcomeOf(t)' = OutcomeOf(t)
    BY <1>6 DEF OperationUnwinds, StageOf, OutcomeOf
  <2>2. /\ StageOf(s) = "active" /\ StageOf(s)' = "gone"
        /\ OutcomeOf(s)' = OutcomeOf(s)
    BY <1>6 DEF OperationUnwinds, StageOf, OutcomeOf
  <2>3. OutcomeOf(s) \in {"cancelling", "interrupted"}
    BY <1>6 DEF OperationUnwinds, LatchInv, OutcomeOf
  <2>4. Exclusive' = Exclusive /\ UNCHANGED closed
    BY <1>6 DEF OperationUnwinds, Exclusive
  <2>5. Cell!Leave(s)
    BY <2>1, <2>2, <2>3, <2>4, OneEntry DEF Cell!Leave
  <2> QED
    BY <2>5 DEF Cell!Next
<1>7. ASSUME NEW s \in Submission, HandlerReplies(s) PROVE Cell!Next
  <2>1. \A t \in Submission \ {s} : /\ StageOf(t)' = StageOf(t)
                                    /\ OutcomeOf(t)' = OutcomeOf(t)
    BY <1>7 DEF HandlerReplies, StageOf, OutcomeOf
  <2>2. StageOf(s)' = StageOf(s)
    BY <1>7 DEF HandlerReplies, StageOf
  <2>3. OutcomeOf(s) = "cancelling" /\ OutcomeOf(s)' = "interrupted"
    BY <1>7 DEF HandlerReplies, LatchInv, OutcomeOf
  <2>4. Exclusive' = Exclusive /\ UNCHANGED closed
    BY <1>7 DEF HandlerReplies, Exclusive
  <2>5. Cell!Report(s)
    BY <2>1, <2>2, <2>3, <2>4, OneEntry DEF Cell!Report
  <2> QED
    BY <2>5 DEF Cell!Next
<1>8. ASSUME NEW s \in Submission, HandlerEnds(s) PROVE [Cell!Next]_(Cell!vars)
  <2>1. \A t \in Submission : OutcomeOf(t)' = OutcomeOf(t)
    BY <1>8 DEF HandlerEnds, OutcomeOf
  <2>2. claim[s] \notin {"none", "operation"}
    BY <1>8 DEF HandlerEnds, LatchInv
  <2> QED
    BY <1>8, <2>1, <2>2, InterruptStep DEF HandlerEnds
<1>9. ASSUME NEW s \in Submission, AwaiterResumes(s) PROVE UNCHANGED Cell!vars
  BY <1>9, NoEntry DEF AwaiterResumes, Exclusive, Cell!vars
<1>10. ASSUME NEW s \in Submission, ScopeInterrupts(s) PROVE [Cell!Next]_(Cell!vars)
  <2>1. \A t \in Submission : OutcomeOf(t)' = OutcomeOf(t)
    BY <1>10 DEF ScopeInterrupts, OutcomeOf
  <2>2. claim[s] \notin {"none", "operation"}
    BY <1>10 DEF ScopeInterrupts, LatchInv, ShutdownInv, Alive
  <2> QED
    BY <1>10, <2>1, <2>2, InterruptStep DEF ScopeInterrupts
<1>11. ASSUME NEW c \in Closer, NEW s \in Submission, CloseInterrupts(c, s)
       PROVE  [Cell!Next]_(Cell!vars)
  <2>1. CASE Settled(s)
    BY <1>11, <2>1, NoEntry DEF CloseInterrupts, Exclusive, Cell!vars
  <2>2. CASE ~Settled(s)
    BY <1>11, <2>2, CancelStep DEF CloseInterrupts
  <2> QED
    BY <2>1, <2>2
<1>12. ASSUME NEW c \in Closer, NEW s \in Submission, CloseJoins(c, s)
       PROVE  UNCHANGED Cell!vars
  BY <1>12, NoEntry DEF CloseJoins, Exclusive, Cell!vars
<1>13. ASSUME NEW c \in Closer, CloseReturns(c) PROVE [Cell!Next]_(Cell!vars)
  <2>1. SectionOf(c) \in Section /\ closed
    BY <1>13 DEF CloseReturns, ClosersInv, SectionOf
  <2>2. CASE holder = "nobody" /\ section' = [section EXCEPT ![SectionOf(c)] = "running"]
    BY <1>13, <2>1, <2>2, ExclusiveStep DEF CloseReturns
  <2>3. CASE section' = [section EXCEPT ![SectionOf(c)] = "waiting"]
    <3>1. Exclusive' = Exclusive
      BY <1>13, <2>1, <2>3 DEF CloseReturns, ClosersInv, Exclusive
    <3> QED
      BY <1>13, <3>1, NoEntry DEF CloseReturns, Cell!vars
  <2> QED
    BY <1>13, <2>2, <2>3 DEF CloseReturns
<1>14. ASSUME NEW x \in Section, SectionTakesPermit(x) PROVE Cell!Next
  <2>1. closed
    BY <1>14 DEF SectionTakesPermit, ClosersInv, SectionOf
  <2> QED
    BY <1>14, <2>1, ExclusiveStep DEF SectionTakesPermit
<1>15. CASE InvalidateBegins \/ EvictBegins \/ StopBegins
  <2>1. Stage' = Stage /\ Outcome' = Outcome /\ Exclusive' = Exclusive
    BY <1>15, NoEntry DEF InvalidateBegins, EvictBegins, StopBegins, Exclusive
  <2>2. closed' = TRUE \/ UNCHANGED closed
    BY <1>15 DEF InvalidateBegins, EvictBegins, StopBegins, CloseBegins
  <2> QED
    BY <2>1, <2>2 DEF Cell!Next, Cell!Shut, Cell!vars
<1>16. CASE MarkEnds
  <2>1. Exclusive' = Exclusive
    BY <1>16 DEF MarkEnds, Exclusive
  <2> QED
    BY <1>16, <2>1, NoEntry DEF MarkEnds, Cell!vars
<1>17. CASE TeardownEnds \/ CleanupEnds
  <2>1. ~Exclusive'
    BY <1>17 DEF TeardownEnds, CleanupEnds, PermitInv, Exclusive
  <2> QED
    BY <1>17, <2>1, NoEntry DEF TeardownEnds, CleanupEnds, Cell!Next, Cell!LeaveExclusive
<1>18. CASE ScopeCloses
  <2>1. Exclusive' = Exclusive
    BY <1>18 DEF ScopeCloses, TeardownRunsOut, Exclusive
  <2> QED
    BY <1>18, <2>1, NoEntry DEF ScopeCloses, Cell!vars
<1>19. CASE UNCHANGED vars
  BY <1>19, NoEntry DEF Exclusive, Cell!vars
<1> QED
  BY <1>1, <1>2, <1>3, <1>4, <1>5, <1>6, <1>7, <1>8, <1>9, <1>10, <1>11,
     <1>12, <1>13, <1>14, <1>15, <1>16, <1>17, <1>18, <1>19
  DEF Next, Caller, Runtime

\* CellActor implements SerialCell: whatever the permit, the fibers and the
\* interruption handlers do, the actor is a serial cell to its callers.
THEOREM Refinement == Spec => ImplementsSerialCell
<1>1. Init => Cell!Init
  BY DEF Init, Cell!Init, Stage, Outcome, StageOf, OutcomeOf, Exclusive, Section
<1> QED
  BY <1>1, RefinementStep, Invariance, PTL DEF Spec, ImplementsSerialCell, Cell!Spec
=============================================================================
