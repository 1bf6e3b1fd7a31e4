------------------------------ MODULE EventBus ------------------------------
(***************************************************************************)
(* The event bus of a runtime (core/src/runtime/eventBus.ts): every event  *)
(* is remembered under the next sequence number, handed to the observers   *)
(* one after the other and then to all sinks at once.  An observer that    *)
(* throws is itself an event, for the sinks only; a sink that fails is one *)
(* for the observers only; the depth ends the exchange.  A record is its   *)
(* sequence number.                                                        *)
(*                                                                         *)
(* `work` holds what the emitting fibers still have to do: "observers", a  *)
(* pass over the snapshot `left`, or a sink's answer.  A pass waits for    *)
(* the work it caused.  The fiber may be suspended between any two steps.  *)
(***************************************************************************)
EXTENDS Naturals, Sequences, FiniteSets, Functions

CONSTANT Sinks   \* configured sinks

VARIABLES
  sequence,   \* the last sequence number given
  observers,  \* the current list of observers
  work        \* work in progress, by <<record, "observers" or sink>>

busVars == <<sequence, observers, work>>

App == 0   \* the observer of the application; others are sessions

NoParent == <<0, "none">>

\* A pass of one record over the observers registered now.
Pass(record, depth, thenSinks, parent) ==
  [k \in {<<record, "observers">>} |->
     [left |-> observers, depth |-> depth, thenSinks |-> thenSinks, parent |-> parent]]

\* The calls of every sink with one record.
SinkCalls(record, depth, parent) ==
  [k \in {record} \X Sinks |->
     [left |-> <<>>, depth |-> depth, thenSinks |-> FALSE, parent |-> parent]]

Beside(rest, calls) ==
  [k \in DOMAIN rest \cup DOMAIN calls |-> IF k \in DOMAIN rest THEN rest[k] ELSE calls[k]]

Without(k) == Restrict(work, DOMAIN work \ {k})

Waits(k) == \E j \in DOMAIN work : work[j].parent = k
Due(k) == k \in DOMAIN work /\ ~Waits(k)
IsPass(k) == k[2] = "observers"

BusInit ==
  /\ sequence = 0
  /\ observers = <<App>>
  /\ work = << >>

\* Whatever is recorded takes the next number.
Remember == sequence' = sequence + 1

\* An event, on behalf of work that waits for it or of nobody.
Emit(parent) ==
  /\ Remember
  /\ work' = Beside(work, Pass(sequence + 1, 0, TRUE, parent))
  /\ UNCHANGED observers

\* The next observer of a pass takes the record.
Notify(k, o) ==
  /\ Due(k) /\ IsPass(k) /\ work[k].left # << >>
  /\ o = Head(work[k].left)
  /\ work' = [work EXCEPT ![k].left = Tail(@)]
  /\ UNCHANGED <<sequence, observers>>

\* It throws: the failure is remembered; only a first failure reaches the
\* sinks, and the pass goes on after they have answered.
RecordObserverFailure(k, o) ==
  /\ Due(k) /\ IsPass(k) /\ work[k].left # << >>
  /\ o = Head(work[k].left)
  /\ Remember
  /\ work' = LET rest == [work EXCEPT ![k].left = Tail(@)]
             IN IF work[k].depth > 0 THEN rest
                ELSE Beside(rest, SinkCalls(sequence + 1, work[k].depth + 1, k))
  /\ UNCHANGED observers

PassEnds(k) ==
  /\ Due(k) /\ IsPass(k) /\ work[k].left = << >>
  /\ work' = IF work[k].thenSinks
             THEN Beside(Without(k), SinkCalls(k[1], work[k].depth, work[k].parent))
             ELSE Without(k)
  /\ UNCHANGED <<sequence, observers>>

SinkAnswers(k) ==
  /\ Due(k) /\ ~IsPass(k)
  /\ work' = Without(k)
  /\ UNCHANGED <<sequence, observers>>

\* The failure of a sink is remembered and goes over the observers, in the
\* place of the sink's call.
RecordSinkFailure(k) ==
  /\ Due(k) /\ ~IsPass(k)
  /\ Remember
  /\ work' = Beside(Without(k), Pass(sequence + 1, work[k].depth, FALSE, work[k].parent))
  /\ UNCHANGED observers

Observe(o) == observers' = Append(observers, o)
Unobserve(o) == observers' = SelectSeq(observers, LAMBDA p : p # o)
=============================================================================
