-------------------------- MODULE GenerationProofs --------------------------
(***************************************************************************)
(* Safety of the two parts that number what they make in generations.      *)
(*                                                                         *)
(* The runtime coordinator, for any number of calls.  The chain makes the  *)
(* bodies run one after another: below a call that has begun every call is *)
(* settled.  So at most one call works on a lease at a time, and none does *)
(* while a runtime is active.                                              *)
(*                                                                         *)
(* The stores of useNodes, for any nodes, args and replays of effects: a   *)
(* generation ends with the readiness promises it kept, and the updates    *)
(* under way lead from the args of the runtime to the fingerprint.         *)
(***************************************************************************)
EXTENDS Coordinator, ReactStore, SequenceTheorems, TLAPS

-----------------------------------------------------------------------------
(* The runtime coordinator *)

Running(c) == pc[c] \in {"creating", "disposing"}

\* Generations are claimed in order, once each.
Generations ==
  /\ \A c \in Call : gen[c] <= generation /\ (pc[c] = "idle" <=> gen[c] = 0)
  /\ \A c, d \in Call : gen[c] = gen[d] /\ gen[c] # 0 => c = d

\* A call is chained behind the call with the generation before its own.
Chain ==
  /\ transition = None => generation = 0
  /\ transition # None => gen[transition] = generation /\ generation # 0
  /\ \A c \in Call : pc[c] # "idle" =>
       /\ after[c] = None => gen[c] = 1
       /\ after[c] # None => gen[c] = gen[after[c]] + 1 /\ gen[after[c]] # 0

\* Below a call that has begun every call is settled.
InOrder ==
  \A c, d \in Call :
    /\ gen[c] # 0
    /\ gen[c] < gen[d]
    /\ pc[d] # "queued"
    => pc[c] = "settled"

\* A call that works finds nothing active.
Alone == \A c \in Call : Running(c) => current = None

\* What a lease's stage says about the call that works on it.
Leases ==
  /\ \A c \in Start : pc[c] \in {"idle", "queued"} => lease[c] = "none"
  /\ \A c \in Start : lease[c] = "creating" => pc[c] = "creating"
  /\ \A c \in Start : lease[c] = "live" => current = c
  /\ \A c \in Start : lease[c] = "disposing" =>
       \E d \in Call : pc[d] = "disposing" /\ target[d] = c
  /\ \A c \in Call : pc[c] = "creating" => c \in Start /\ lease[c] = "creating"
  /\ \A c \in Call : pc[c] = "disposing" =>
       target[c] \in Start /\ lease[target[c]] = "disposing"
  /\ current # None => pc[current] = "settled" /\ gen[current] # 0

\* Whoever called after the active boot saw it active.
Witnessed ==
  current # None => \A c \in Call : gen[c] > gen[current] => seen[c] = current

Answers == \A c \in Call : pc[c] # "settled" => outcome[c] = "pending"

IInv ==
  /\ TypeOK
  /\ Answers
  /\ Generations
  /\ Chain
  /\ InOrder
  /\ Alone
  /\ Leases
  /\ SettledLeavesNothing
  /\ Witnessed
  /\ NewestWins

\* At most one call works.
LEMMA OneRuns ==
  ASSUME TypeOK, Generations, InOrder, NEW c \in Call, NEW d \in Call,
         pc[c] \in {"creating", "disposing"}, pc[d] \in {"creating", "disposing"}
  PROVE  c = d
  BY DEF TypeOK, Generations, InOrder

\* A call whose turn it is is above settled calls and below queued ones.
LEMMA TurnIsQuiet ==
  ASSUME TypeOK, Generations, Chain, InOrder, NEW c \in Call,
         pc[c] = "queued", Turn(c)
  PROVE  /\ \A d \in Call : gen[d] # 0 /\ gen[d] < gen[c] => pc[d] = "settled"
         /\ \A d \in Call : ~Running(d)
<1>1. ASSUME NEW d \in Call, gen[d] # 0, gen[d] < gen[c] PROVE pc[d] = "settled"
  <2>1. after[c] # None /\ gen[c] = gen[after[c]] + 1 /\ pc[after[c]] = "settled"
    BY <1>1 DEF TypeOK, Chain, Generations, Turn, Settled
  <2>2. CASE gen[d] = gen[after[c]]
    BY <1>1, <2>1, <2>2 DEF TypeOK, Generations
  <2>3. CASE gen[d] < gen[after[c]]
    BY <1>1, <2>1, <2>3 DEF TypeOK, InOrder
  <2> QED BY <1>1, <2>1, <2>2, <2>3 DEF TypeOK
<1>2. ASSUME NEW d \in Call, Running(d) PROVE FALSE
  <2>1. gen[d] # 0 /\ gen[c] # 0 /\ gen[d] # gen[c]
    BY <1>2 DEF TypeOK, Generations, Running
  <2>2. CASE gen[d] < gen[c]
    BY <1>1, <1>2, <2>1, <2>2 DEF Running
  <2>3. CASE gen[c] < gen[d]
    BY <1>2, <2>1, <2>3 DEF TypeOK, InOrder, Running
  <2> QED BY <2>1, <2>2, <2>3 DEF TypeOK
<1> QED BY <1>1, <1>2

LEMMA InitEstablishes == Init => IInv
  BY CoordinatorAssumption
  DEF Init, IInv, TypeOK, Answers, Generations, Chain, InOrder, Alone, Running, Leases,
      SettledLeavesNothing, Up, Witnessed, NewestWins, Call

LEMMA ClaimPreserves ==
  ASSUME IInv, NEW c \in Call, Claim(c)
  PROVE  IInv'
<1> USE DEF Claim
<1>1. TypeOK'
  BY DEF IInv, TypeOK
<1>2. Generations'
  BY DEF IInv, TypeOK, Generations
<1>3. Chain'
  <2>1. transition' # None /\ gen'[transition'] = generation' /\ generation' # 0
    BY CoordinatorAssumption DEF IInv, TypeOK
  <2>2. ASSUME NEW d \in Call, pc'[d] # "idle"
        PROVE  /\ after'[d] = None => gen'[d] = 1
               /\ after'[d] # None => gen'[d] = gen'[after'[d]] + 1 /\ gen'[after'[d]] # 0
    <3>1. CASE d = c
      BY <2>2, <3>1 DEF IInv, TypeOK, Generations, Chain
    <3>2. CASE d # c
      BY <2>2, <3>2 DEF IInv, TypeOK, Generations, Chain
    <3> QED BY <3>1, <3>2
  <2> QED BY <2>1, <2>2 DEF Chain
<1>4. InOrder'
  BY DEF IInv, TypeOK, Generations, InOrder
<1>5. Alone'
  BY DEF IInv, TypeOK, Alone, Running
<1>6. Leases'
  BY DEF IInv, TypeOK, Generations, Leases, Call
<1>7. SettledLeavesNothing'
  BY DEF IInv, TypeOK, Generations, Leases, SettledLeavesNothing, Up, Call
<1>8. Witnessed'
  BY DEF IInv, TypeOK, Generations, Leases, Witnessed, Call
<1>9. NewestWins'
  BY DEF IInv, TypeOK, Answers, NewestWins, Call
<1>10. Answers'
  BY DEF IInv, TypeOK, Answers
<1> QED BY <1>1, <1>2, <1>3, <1>4, <1>5, <1>6, <1>7, <1>8, <1>9, <1>10 DEF IInv

\* Where a body runs, no other call works.
LEMMA BodyIsAlone ==
  ASSUME IInv, NEW c \in Call, Body(c)
  PROVE  /\ \A d \in Call : Running(d) => d = c
         /\ \A d \in Call : gen[d] # 0 /\ gen[d] < gen[c] => pc[d] = "settled"
         /\ gen[c] # 0
<1>1. CASE pc[c] = "queued"
  <2>1. Turn(c)
    BY <1>1 DEF Body, Boot, Created, CreateFails, TearDown, Disposed
  <2> QED BY <1>1, <2>1, TurnIsQuiet DEF IInv, Generations
<1>2. CASE Running(c)
  <2>1. gen[c] # 0
    BY <1>2 DEF IInv, Generations, Running
  <2>2. \A d \in Call : Running(d) => d = c
    BY <1>2, OneRuns DEF IInv, Running
  <2> QED BY <1>2, <2>1, <2>2 DEF IInv, InOrder, Running
<1> QED BY <1>1, <1>2 DEF Body, Boot, Created, CreateFails, TearDown, Disposed, Running

\* The bodies leave the chain and the generations alone, and keep the order.
LEMMA BodyPreservesOrder ==
  ASSUME IInv, NEW c \in Call, Body(c)
  PROVE  /\ UNCHANGED <<generation, transition, gen, after, seen>>
         /\ \A d \in Call : d # c => pc'[d] = pc[d] /\ outcome'[d] = outcome[d]
         /\ pc[c] \notin {"idle", "settled"}
         /\ pc'[c] \in {"creating", "disposing", "settled"}
         /\ Generations'
         /\ Chain'
         /\ InOrder'
<1> USE DEF Body, Boot, Created, CreateFails, TearDown, Disposed, Settle, BeginDisposing
<1>1. UNCHANGED <<generation, transition, gen, after, seen>>
  OBVIOUS
<1>2. \A d \in Call : d # c => pc'[d] = pc[d] /\ outcome'[d] = outcome[d]
  BY DEF IInv, TypeOK
<1>3. pc[c] \notin {"idle", "settled"}
  OBVIOUS
<1>4. pc'[c] \in {"creating", "disposing", "settled"}
  BY DEF IInv, TypeOK
<1> HIDE DEF Body
<1>5. Generations'
  BY <1>1, <1>2, <1>3, <1>4 DEF IInv, TypeOK, Generations
<1>6. Chain'
  BY <1>1, <1>2, <1>3, <1>4 DEF IInv, TypeOK, Chain
<1>7. InOrder'
  BY <1>1, <1>2, <1>3, <1>4, BodyIsAlone DEF IInv, TypeOK, InOrder
<1> QED BY <1>1, <1>2, <1>3, <1>4, <1>5, <1>6, <1>7

\* What is up beside the lease of the call that runs is the active lease, or
\* the one the call disposes.
LEMMA OthersUp ==
  ASSUME IInv, NEW c \in Call, Body(c), NEW d \in Start, Up(d), d # c
  PROVE  \/ pc[c] = "queued" /\ current = d
         \/ pc[c] = "disposing" /\ target[c] = d
<1>1. d \in Call /\ ~Running(d)
  BY BodyIsAlone DEF Call
<1>2. pc[c] = "queued" \/ Running(c)
  BY DEF Body, Boot, Created, CreateFails, TearDown, Disposed, Running
<1>3. lease[d] # "creating"
  BY <1>1 DEF IInv, Leases, Running
<1>4. CASE lease[d] = "live"
  <2>1. current = d
    BY <1>4 DEF IInv, Leases
  <2>2. ~Running(c)
    BY <2>1, CoordinatorAssumption, <1>1 DEF IInv, Alone
  <2> QED BY <1>2, <2>1, <2>2
<1>5. CASE lease[d] = "disposing"
  <2>1. PICK e \in Call : pc[e] = "disposing" /\ target[e] = d
    BY <1>5 DEF IInv, Leases
  <2>2. e = c
    BY <2>1, BodyIsAlone DEF Running
  <2> QED BY <2>1, <2>2
<1> QED BY <1>3, <1>4, <1>5 DEF Up

LEMMA BootPreserves ==
  ASSUME IInv, NEW c \in Call, Boot(c)
  PROVE  IInv'
<1>1. Body(c)
  BY DEF Body
<1>0. \A d \in Start : Up(d) /\ d # c => current = d
  BY <1>1, OthersUp DEF Boot
<1> USE BodyIsAlone, BodyPreservesOrder, <1>1 DEF Boot, Settle
<1>2. Generations' /\ Chain' /\ InOrder'
  OBVIOUS
<1>3. TypeOK'
  BY CoordinatorAssumption DEF IInv, TypeOK, Leases, Call
<1>4. Alone'
  BY DEF IInv, TypeOK, Alone, Running
<1>5. Leases'
  BY CoordinatorAssumption DEF IInv, TypeOK, Alone, Leases, Running, Call
<1>6. SettledLeavesNothing'
  <2> SUFFICES ASSUME NEW x \in Call, NEW d \in Start,
                      pc'[x] = "settled", Up(d)', gen[d] < gen[x]
               PROVE  outcome'[x] = "active"
    BY DEF SettledLeavesNothing
  <2>1. d \in Call
    BY DEF Call
  <2>2. CASE x # c
    <3>1. pc[x] = "settled" /\ outcome'[x] = outcome[x]
      BY <2>2
    <3>2. Up(d)
      <4>1. CASE d = c
        BY <2>1, <3>1, <4>1 DEF IInv, TypeOK, InOrder
      <4>2. CASE d # c
        BY <4>2 DEF IInv, TypeOK, Up
      <4> QED BY <4>1, <4>2
    <3> QED BY <3>1, <3>2 DEF IInv, SettledLeavesNothing
  <2>3. CASE x = c
    <3>1. d # c /\ gen[c] \in Nat
      BY <2>1, <2>3 DEF IInv, TypeOK
    <3>2. Up(d) => current = d
      BY <3>1, <1>0
    <3> QED BY <2>3, <3>1, <3>2, CoordinatorAssumption DEF IInv, TypeOK, Leases, Up, Call
  <2> QED BY <2>2, <2>3
<1>7. Witnessed'
  BY CoordinatorAssumption DEF IInv, TypeOK, Generations, Leases, Witnessed, Call
<1>8. NewestWins'
  <2>1. CASE current # None
    <3>1. current \in Call /\ pc[current] = "settled" /\ gen[current] # 0
      BY <2>1 DEF IInv, TypeOK, Leases, Call
    <3>2. gen[c] > gen[current]
      BY <3>1, SMTT(20) DEF IInv, TypeOK, Generations, InOrder
    <3>3. seen[c] # None
      BY <2>1, <3>2 DEF IInv, Witnessed
    <3> QED BY <3>3 DEF IInv, TypeOK, NewestWins, Call
  <2>2. CASE current = None
    BY <2>2 DEF IInv, TypeOK, NewestWins, Call
  <2> QED BY <2>1, <2>2
<1>9. Answers'
  BY DEF IInv, TypeOK, Answers
<1> QED BY <1>2, <1>3, <1>4, <1>5, <1>6, <1>7, <1>8, <1>9 DEF IInv

LEMMA CreatedPreserves ==
  ASSUME IInv, NEW c \in Call, Created(c)
  PROVE  IInv'
<1>1. Body(c)
  BY DEF Body
<1>0. \A d \in Start : Up(d) => d = c
  BY <1>1, OthersUp DEF Created
<1> USE BodyIsAlone, BodyPreservesOrder, <1>1 DEF Created, Settle, BeginDisposing
<1>2. Generations' /\ Chain' /\ InOrder'
  OBVIOUS
<1>3. TypeOK'
  BY CoordinatorAssumption DEF IInv, TypeOK, Leases, Call
<1>4. Alone'
  BY DEF IInv, TypeOK, Alone, Running
<1>5. Leases'
  BY CoordinatorAssumption DEF IInv, TypeOK, Alone, Leases, Running, Call
<1>6. SettledLeavesNothing'
  <2> SUFFICES ASSUME NEW x \in Call, NEW d \in Start,
                      pc'[x] = "settled", Up(d)', gen[d] < gen[x]
               PROVE  outcome'[x] = "active"
    BY DEF SettledLeavesNothing
  <2>1. d \in Call
    BY DEF Call
  <2>2. CASE x # c
    <3>1. pc[x] = "settled" /\ outcome'[x] = outcome[x]
      BY <2>2
    <3>2. Up(d)
      BY DEF IInv, TypeOK, Leases, Up
    <3> QED BY <3>1, <3>2 DEF IInv, SettledLeavesNothing
  <2>3. CASE x = c
    <3>1. d # c /\ gen[c] \in Nat
      BY <2>1, <2>3 DEF IInv, TypeOK
    <3>2. ~Up(d)
      BY <3>1, <1>0
    <3> QED BY <2>3, <3>1, <3>2, CoordinatorAssumption DEF IInv, TypeOK, Leases, Up, Call
  <2> QED BY <2>2, <2>3
<1>7. Witnessed'
  BY CoordinatorAssumption DEF IInv, TypeOK, Generations, Leases, Witnessed, Call
<1>8. NewestWins'
  BY DEF IInv, TypeOK, Answers, Leases, InOrder, Witnessed, NewestWins, Call
<1>9. Answers'
  BY DEF IInv, TypeOK, Answers
<1> QED BY <1>2, <1>3, <1>4, <1>5, <1>6, <1>7, <1>8, <1>9 DEF IInv

LEMMA CreateFailsPreserves ==
  ASSUME IInv, NEW c \in Call, CreateFails(c)
  PROVE  IInv'
<1>1. Body(c)
  BY DEF Body
<1>0. \A d \in Start : Up(d) => d = c
  BY <1>1, OthersUp DEF CreateFails
<1> USE BodyIsAlone, BodyPreservesOrder, <1>1 DEF CreateFails, Settle
<1>2. Generations' /\ Chain' /\ InOrder'
  OBVIOUS
<1>3. TypeOK'
  BY CoordinatorAssumption DEF IInv, TypeOK, Leases, Call
<1>4. Alone'
  BY DEF IInv, TypeOK, Alone, Running
<1>5. Leases'
  BY CoordinatorAssumption DEF IInv, TypeOK, Alone, Leases, Running, Call
<1>6. SettledLeavesNothing'
  <2> SUFFICES ASSUME NEW x \in Call, NEW d \in Start,
                      pc'[x] = "settled", Up(d)', gen[d] < gen[x]
               PROVE  outcome'[x] = "active"
    BY DEF SettledLeavesNothing
  <2>1. d \in Call
    BY DEF Call
  <2>2. CASE x # c
    <3>1. pc[x] = "settled" /\ outcome'[x] = outcome[x]
      BY <2>2
    <3>2. Up(d)
      BY DEF IInv, TypeOK, Leases, Up
    <3> QED BY <3>1, <3>2 DEF IInv, SettledLeavesNothing
  <2>3. CASE x = c
    <3>1. d # c /\ gen[c] \in Nat
      BY <2>1, <2>3 DEF IInv, TypeOK
    <3>2. ~Up(d)
      BY <3>1, <1>0
    <3> QED BY <2>3, <3>1, <3>2, CoordinatorAssumption DEF IInv, TypeOK, Leases, Up, Call
  <2> QED BY <2>2, <2>3
<1>7. Witnessed'
  BY CoordinatorAssumption DEF IInv, TypeOK, Generations, Leases, Witnessed, Call
<1>8. NewestWins'
  BY DEF IInv, TypeOK, Answers, Leases, InOrder, Witnessed, NewestWins, Call
<1>9. Answers'
  BY DEF IInv, TypeOK, Answers
<1> QED BY <1>2, <1>3, <1>4, <1>5, <1>6, <1>7, <1>8, <1>9 DEF IInv

LEMMA TearDownPreserves ==
  ASSUME IInv, NEW c \in Call, TearDown(c)
  PROVE  IInv'
<1>1. Body(c)
  BY DEF Body
<1>0. \A d \in Start : Up(d) /\ d # c => current = d
  BY <1>1, OthersUp DEF TearDown
<1> USE BodyIsAlone, BodyPreservesOrder, <1>1 DEF TearDown, Settle, BeginDisposing
<1>2. Generations' /\ Chain' /\ InOrder'
  OBVIOUS
<1>3. TypeOK'
  BY CoordinatorAssumption DEF IInv, TypeOK, Leases, Call
<1>4. Alone'
  BY DEF IInv, TypeOK, Alone, Running
<1>5. Leases'
  BY CoordinatorAssumption DEF IInv, TypeOK, Alone, Leases, Running, Call
<1>6. SettledLeavesNothing'
  <2> SUFFICES ASSUME NEW x \in Call, NEW d \in Start,
                      pc'[x] = "settled", Up(d)', gen[d] < gen[x]
               PROVE  outcome'[x] = "active"
    BY DEF SettledLeavesNothing
  <2>1. d \in Call
    BY DEF Call
  <2>2. CASE x # c
    <3>1. pc[x] = "settled" /\ outcome'[x] = outcome[x]
      BY <2>2
    <3>2. Up(d)
      BY DEF IInv, TypeOK, Leases, Up
    <3> QED BY <3>1, <3>2 DEF IInv, SettledLeavesNothing
  <2>3. CASE x = c
    <3>1. d # c /\ gen[c] \in Nat
      BY <2>1, <2>3 DEF IInv, TypeOK
    <3>2. Up(d) => current = d
      BY <3>1, <1>0
    <3> QED BY <2>3, <3>1, <3>2, CoordinatorAssumption DEF IInv, TypeOK, Leases, Up, Call
  <2> QED BY <2>2, <2>3
<1>7. Witnessed'
  BY CoordinatorAssumption DEF IInv, TypeOK, Generations, Leases, Witnessed, Call
<1>8. NewestWins'
  BY DEF IInv, TypeOK, Answers, Leases, InOrder, Witnessed, NewestWins, Call
<1>9. Answers'
  BY DEF IInv, TypeOK, Answers
<1> QED BY <1>2, <1>3, <1>4, <1>5, <1>6, <1>7, <1>8, <1>9 DEF IInv

LEMMA DisposedPreserves ==
  ASSUME IInv, NEW c \in Call, Disposed(c)
  PROVE  IInv'
<1>1. Body(c)
  BY DEF Body
<1>0. \A d \in Start : Up(d) /\ d # c => target[c] = d
  BY <1>1, OthersUp DEF Disposed
<1> USE BodyIsAlone, BodyPreservesOrder, <1>1 DEF Disposed, Settle
<1>2. Generations' /\ Chain' /\ InOrder'
  OBVIOUS
<1>3. TypeOK'
  BY CoordinatorAssumption DEF IInv, TypeOK, Leases, Call
<1>4. Alone'
  BY DEF IInv, TypeOK, Alone, Running
<1>5. Leases'
  BY CoordinatorAssumption DEF IInv, TypeOK, Alone, Leases, Running, Call
<1>6. SettledLeavesNothing'
  <2> SUFFICES ASSUME NEW x \in Call, NEW d \in Start,
                      pc'[x] = "settled", Up(d)', gen[d] < gen[x]
               PROVE  outcome'[x] = "active"
    BY DEF SettledLeavesNothing
  <2>1. d \in Call
    BY DEF Call
  <2>2. CASE x # c
    <3>1. pc[x] = "settled" /\ outcome'[x] = outcome[x]
      BY <2>2
    <3>2. Up(d)
      BY DEF IInv, TypeOK, Leases, Up
    <3> QED BY <3>1, <3>2 DEF IInv, SettledLeavesNothing
  <2>3. CASE x = c
    <3>1. d # c /\ gen[c] \in Nat
      BY <2>1, <2>3 DEF IInv, TypeOK
    <3>2. Up(d) => target[c] = d
      BY <3>1, <1>0
    <3> QED BY <2>3, <3>1, <3>2, CoordinatorAssumption DEF IInv, TypeOK, Leases, Up, Call
  <2> QED BY <2>2, <2>3
<1>7. Witnessed'
  BY CoordinatorAssumption DEF IInv, TypeOK, Generations, Leases, Witnessed, Call
<1>8. NewestWins'
  BY DEF IInv, TypeOK, Answers, Leases, InOrder, Witnessed, NewestWins, Call
<1>9. Answers'
  BY DEF IInv, TypeOK, Answers
<1> QED BY <1>2, <1>3, <1>4, <1>5, <1>6, <1>7, <1>8, <1>9 DEF IInv

LEMMA StepPreserves == IInv /\ [Next]_vars => IInv'
<1> SUFFICES ASSUME IInv, [Next]_vars PROVE IInv'
  OBVIOUS
<1>1. CASE UNCHANGED vars
  BY <1>1 DEF vars, IInv, TypeOK, Answers, Generations, Chain, InOrder, Alone,
     Running, Leases, SettledLeavesNothing, Up, Witnessed, NewestWins
<1>2. ASSUME NEW c \in Call, Claim(c) PROVE IInv'
  BY <1>2, ClaimPreserves
<1>3. ASSUME NEW c \in Call, Boot(c) PROVE IInv'
  BY <1>3, BootPreserves
<1>4. ASSUME NEW c \in Call, Created(c) PROVE IInv'
  BY <1>4, CreatedPreserves
<1>5. ASSUME NEW c \in Call, CreateFails(c) PROVE IInv'
  BY <1>5, CreateFailsPreserves
<1>6. ASSUME NEW c \in Call, TearDown(c) PROVE IInv'
  BY <1>6, TearDownPreserves
<1>7. ASSUME NEW c \in Call, Disposed(c) PROVE IInv'
  BY <1>7, DisposedPreserves
<1> QED BY <1>1, <1>2, <1>3, <1>4, <1>5, <1>6, <1>7 DEF Next, Body

\* The inductive invariant holds in every reachable state.
THEOREM Invariance == Spec => []IInv
  BY InitEstablishes, StepPreserves, PTL DEF Spec

\* The coordinator's state always has its type, and what is current is a live
\* lease, for every set of calls.
THEOREM TypeCorrect == Spec => []TypeOK
<1>1. IInv => TypeOK
  BY DEF IInv
<1> QED BY <1>1, Invariance, PTL

LEMMA InvariantNoOverlap == IInv => NoOverlap
<1> SUFFICES ASSUME IInv, NEW c \in Start, NEW d \in Start, Up(c), Up(d)
             PROVE  c = d
  BY DEF NoOverlap
<1>1. ASSUME NEW l \in Start, Up(l)
      PROVE  \/ current = l
             \/ pc[l] = "creating"
             \/ \E e \in Call : pc[e] = "disposing" /\ target[e] = l
  BY <1>1 DEF IInv, Leases, Up
<1>2. ASSUME NEW x \in Call, NEW y \in Call, Running(x), Running(y)
      PROVE  x = y /\ current = None
  BY <1>2, OneRuns DEF IInv, Alone, Running
<1>3. c \in Call /\ d \in Call /\ c # None /\ d # None
  BY CoordinatorAssumption DEF Call
<1> QED BY <1>1, <1>2, <1>3 DEF Running

\* Generations of the runtime never overlap, whoever calls start and dispose
\* when and however often.
THEOREM NoOverlapHolds == Spec => []NoOverlap
  BY Invariance, InvariantNoOverlap, PTL

\* A settled call leaves nothing of the generations before it.
THEOREM SettledLeavesNothingHolds == Spec => []SettledLeavesNothing
<1>1. IInv => SettledLeavesNothing
  BY DEF IInv
<1> QED BY <1>1, Invariance, PTL

\* A start is turned away only by a runtime that was active when it was called.
THEOREM NewestWinsHolds == Spec => []NewestWins
<1>1. IInv => NewestWins
  BY DEF IInv
<1> QED BY <1>1, Invariance, PTL

LEMMA StepKeepsDisposed ==
  ASSUME IInv, [Next]_vars
  PROVE  [\A c \in Start : lease[c] \in {"disposed", "broken"} => lease'[c] = lease[c]]_vars
<1> SUFFICES ASSUME NEW d \in Start, lease[d] \in {"disposed", "broken"}, Next
             PROVE  lease'[d] = lease[d]
  OBVIOUS
<1>1. PICK c \in Call : Claim(c) \/ Body(c)
  BY DEF Next
<1>2. CASE Claim(c)
  BY <1>2 DEF Claim
<1>3. CASE Boot(c)
  BY <1>3 DEF Boot, IInv, TypeOK, Leases
<1>4. CASE Created(c) \/ CreateFails(c)
  BY <1>4 DEF Created, CreateFails, BeginDisposing, IInv, TypeOK, Leases
<1>5. CASE TearDown(c)
  BY <1>5 DEF TearDown, BeginDisposing, IInv, TypeOK
<1>6. CASE Disposed(c)
  BY <1>6 DEF Disposed, IInv, TypeOK, Leases
<1> QED BY <1>1, <1>2, <1>3, <1>4, <1>5, <1>6 DEF Body

\* A lease that was disposed is never touched again.
THEOREM DisposedStaysHolds == Spec => DisposedStays
  BY Invariance, StepKeepsDisposed, PTL DEF Spec, DisposedStays

-----------------------------------------------------------------------------
(* The stores of useNodes: a readiness promise is kept while its callback is *)
(* still to come                                                             *)

\* A store with its slot and its callbacks, in generation g.
Sound(c, g) ==
  /\ c = [node |-> c.node, slot |-> c.slot, due |-> c.due]
  /\ c.slot = [k |-> c.slot.k, shown |-> c.slot.shown, settled |-> c.slot.settled]
  /\ c.slot.settled \in BOOLEAN
  /\ c.slot # NoSlot /\ ~c.slot.settled => <<g, c.slot.k>> \in c.due

Stores == \A n \in Node : Sound(Cell(n), storeGeneration)

Tables ==
  /\ slot = [n \in Node |-> slot[n]] /\ due = [n \in Node |-> due[n]]

LEMMA Bundle ==
  ASSUME NEW value, NEW s, NEW callbacks, NEW g,
         s = [k |-> s.k, shown |-> s.shown, settled |-> s.settled], s.settled \in BOOLEAN,
         s # NoSlot /\ ~s.settled => <<g, s.k>> \in callbacks
  PROVE  Sound([node |-> value, slot |-> s, due |-> callbacks], g)
  BY DEF Sound

LEMMA ScheduleSound ==
  ASSUME NEW c, Sound(c, storeGeneration')
  PROVE  Sound(Schedule(c), storeGeneration')
  <1>1. CASE c.slot # NoSlot
    BY <1>1 DEF Schedule
  <1>2. CASE c.slot = NoSlot
    <2> DEFINE kept == [k |-> c.node.k, shown |-> "Unseen", settled |-> FALSE]
               callbacks == c.due \cup {<<storeGeneration', c.node.k>>}
    <2>1. Schedule(c) = [c EXCEPT !.slot = kept, !.due = callbacks]
      BY <1>2 DEF Schedule
    <2>2. Schedule(c) = [node |-> c.node, slot |-> kept, due |-> callbacks]
      BY <2>1 DEF Sound
    <2>3. kept.k = c.node.k /\ kept.settled = FALSE
      OBVIOUS
    <2>4. kept = [k |-> kept.k, shown |-> kept.shown, settled |-> kept.settled]
      OBVIOUS
    <2>5. <<storeGeneration', kept.k>> \in callbacks
      BY <2>3
    <2> HIDE DEF kept, callbacks
    <2> QED
      BY <2>2, <2>3, <2>4, <2>5, Bundle
  <1> QED
    BY <1>1, <1>2

LEMMA BootSound ==
  ASSUME NEW c, NEW sees, Sound(c, storeGeneration')
  PROVE  Sound(ScheduleBoot(c, sees), storeGeneration')
  <1> DEFINE b == [c EXCEPT !.node = Begin(@, sees)]
  <1>1. Sound(b, storeGeneration')
    BY DEF Sound
  <1> HIDE DEF b
  <1>2. ScheduleBoot(c, sees) \in {Schedule(b), Schedule(c), c}
    BY DEF ScheduleBoot, b
  <1> QED
    BY <1>1, <1>2, ScheduleSound

LEMMA ShownSound ==
  ASSUME NEW c, NEW shown, Sound(c, storeGeneration'), c.slot # NoSlot, shown # "none"
  PROVE  Sound([c EXCEPT !.slot.shown = shown], storeGeneration')
  BY DEF Sound

LEMMA ReadSound ==
  ASSUME NEW c, NEW sees, Sound(c, storeGeneration')
  PROVE  Sound(ReadStore(c, sees).cell, storeGeneration')
  <1> DEFINE booted == IF c.slot = NoSlot THEN ScheduleBoot(c, sees) ELSE c
             pending == IF disposed THEN c ELSE Schedule(c)
             gated == [c EXCEPT !.slot = Gated(@)]
             shown == [pending EXCEPT !.slot.shown = "PendingRead"]
  <1>1. Sound(booted, storeGeneration') /\ Sound(pending, storeGeneration')
    BY BootSound, ScheduleSound
  <1>2. Sound(gated, storeGeneration')
    <2>1. CASE Gated(c.slot) = c.slot
      BY <2>1 DEF Sound
    <2>2. CASE Gated(c.slot) = NoSlot
      <3>1. gated = [node |-> c.node, slot |-> NoSlot, due |-> c.due]
        BY <2>2 DEF Sound
      <3>2. /\ NoSlot.settled \in BOOLEAN
            /\ NoSlot = [k |-> NoSlot.k, shown |-> NoSlot.shown, settled |-> NoSlot.settled]
        BY DEF NoSlot
      <3>3. Sound([node |-> c.node, slot |-> NoSlot, due |-> c.due], storeGeneration')
        BY <3>2, Bundle
      <3> QED
        BY <3>1, <3>3
    <2>3. CASE c.slot # NoSlot /\ Gated(c.slot) = [c.slot EXCEPT !.shown = "ReadyGate"]
      <3>1. gated = [c EXCEPT !.slot.shown = "ReadyGate"]
        BY <2>3 DEF Sound
      <3> QED
        BY <2>3, <3>1, ShownSound
    <2> QED
      BY <2>1, <2>2, <2>3 DEF Gated
  <1>3. pending.slot # NoSlot => Sound(shown, storeGeneration')
    BY <1>1, ShownSound
  <1>4. \/ ReadStore(c, sees).cell \in {gated, booted, c}
        \/ pending.slot # NoSlot /\ ReadStore(c, sees).cell = shown
    BY DEF ReadStore
  <1> QED
    BY <1>1, <1>2, <1>3, <1>4

LEMMA PutSound ==
  ASSUME NEW cells, Put(cells), \A n \in Node : Sound(cells[n], storeGeneration')
  PROVE  Tables' /\ Stores'
  BY DEF Put, Tables, Stores, Cell, Sound

LEMMA CellShape ==
  ASSUME Stores, NEW n \in Node
  PROVE  /\ Sound(Cell(n), storeGeneration)
         /\ Cell(n) = [node |-> node[n], slot |-> slot[n], due |-> due[n]]
  BY DEF Stores, Cell

\* What the stores hold stays.
LEMMA SameStores ==
  ASSUME Tables, Stores, UNCHANGED <<slot, due, storeGeneration>>
  PROVE  Tables' /\ Stores'
  <1>1. ASSUME NEW n \in Node
        PROVE  Sound(Cell(n), storeGeneration)'
    <2>1. Sound(Cell(n), storeGeneration)
      BY DEF Stores
    <2>2. Cell(n)' = [node |-> node'[n], slot |-> slot[n], due |-> due[n]]
      BY DEF Cell
    <2> QED
      BY <2>1, <2>2 DEF Sound, Cell
  <1> QED
    BY <1>1 DEF Tables, Stores

LEMMA LookSound ==
  ASSUME Stores, SyncAll, UNCHANGED storeGeneration
  PROVE  Tables' /\ Stores'
  <1>1. PICK sees \in [Node -> BOOLEAN] :
               Put([n \in Node |-> ScheduleBoot(Cell(n), sees[n])])
    BY DEF SyncAll
  <1>2. \A n \in Node : Sound(ScheduleBoot(Cell(n), sees[n]), storeGeneration')
    BY BootSound DEF Stores
  <1> QED
    BY <1>1, <1>2, PutSound

LEMMA NotifySound ==
  ASSUME Tables, Stores, NEW n \in Node, Notify(n)
  PROVE  Tables' /\ Stores'
  <1>1. UNCHANGED storeGeneration
    BY DEF Notify
  <1>2. CASE ~listening
    BY <1>1, <1>2, SameStores DEF Notify
  <1>3. CASE listening
    <2>1. PICK sees \in BOOLEAN :
            Put([m \in Node |-> IF m = n THEN ScheduleBoot(Cell(n), sees) ELSE Cell(m)])
      BY <1>3 DEF Notify
    <2>2. \A m \in Node : Sound(Cell(m), storeGeneration')
      BY <1>1 DEF Stores
    <2>3. Sound(ScheduleBoot(Cell(n), sees), storeGeneration')
      BY <2>2, BootSound
    <2> QED
      BY <2>1, <2>2, <2>3, PutSound
  <1> QED
    BY <1>2, <1>3

LEMMA RenderSound ==
  ASSUME NEW cells, NEW sees, Render(cells, sees),
         \A n \in Node : Sound(cells[n], storeGeneration')
  PROVE  Tables' /\ Stores'
  <1>1. PICK reached : Put([n \in Node |->
          IF n \in reached THEN ReadStore(cells[n], sees[n]).cell ELSE cells[n]])
    BY DEF Render
  <1>2. \A n \in Node : Sound(ReadStore(cells[n], sees[n]).cell, storeGeneration')
    BY ReadSound
  <1> QED
    BY <1>1, <1>2, PutSound

LEMMA MountSound ==
  ASSUME Mount
  PROVE  Tables' /\ Stores'
  <1>1. PICK sees \in [Node -> BOOLEAN] :
          Render([n \in Node |-> ScheduleBoot(Fresh(n), sees[n])], sees)
    BY DEF Mount
  <1>2. ASSUME NEW n \in Node
        PROVE  Sound(Fresh(n), storeGeneration')
    <2>1. Fresh(n) = [node |-> node[n], slot |-> NoSlot, due |-> {}]
      <3> DEFINE c == Cell(n)
      <3>1. c = [node |-> node[n], slot |-> slot[n], due |-> due[n]]
        BY DEF Cell
      <3>2. Fresh(n) = [c EXCEPT !.slot = NoSlot, !.due = {}]
        BY DEF Fresh
      <3>3. c = [node |-> c.node, slot |-> c.slot, due |-> c.due] /\ c.node = node[n]
        BY <3>1
      <3> HIDE DEF c
      <3> QED
        BY <3>2, <3>3
    <2>2. /\ NoSlot.settled \in BOOLEAN
          /\ NoSlot = [k |-> NoSlot.k, shown |-> NoSlot.shown, settled |-> NoSlot.settled]
      BY DEF NoSlot
    <2>3. Sound([node |-> node[n], slot |-> NoSlot, due |-> {}], storeGeneration')
      BY <2>2, Bundle
    <2> QED
      BY <2>1, <2>3
  <1>3. \A n \in Node : Sound(ScheduleBoot(Fresh(n), sees[n]), storeGeneration')
    BY <1>2, BootSound
  <1> QED
    BY <1>1, <1>3, RenderSound

LEMMA RerenderSound ==
  ASSUME Tables, Stores, Rerender
  PROVE  Tables' /\ Stores'
  <1>1. UNCHANGED storeGeneration
    BY DEF Rerender
  <1>2. CASE cached
    BY <1>1, <1>2, SameStores DEF Rerender
  <1>3. CASE ~cached
    <2>1. PICK sees \in [Node -> BOOLEAN] : Render([n \in Node |-> Cell(n)], sees)
      BY <1>3 DEF Rerender
    <2> QED
      BY <1>1, <2>1, RenderSound DEF Stores
  <1> QED
    BY <1>2, <1>3

\* A generation ends with the promises it kept.
LEMMA DisposeSound ==
  ASSUME Tables, Stores, DisposeStores, ClearSlots, UNCHANGED due
  PROVE  Tables' /\ Stores'
  <1>1. CASE disposed
    BY <1>1, SameStores DEF DisposeStores, ClearSlots
  <1>2. CASE ~disposed
    <2>1. slot' = [n \in Node |-> NoSlot]
      BY <1>2 DEF ClearSlots
    <2>2. /\ NoSlot.settled \in BOOLEAN
          /\ NoSlot = [k |-> NoSlot.k, shown |-> NoSlot.shown, settled |-> NoSlot.settled]
      BY DEF NoSlot
    <2>3. \A n \in Node : Cell(n)' = [node |-> node'[n], slot |-> NoSlot, due |-> due'[n]]
      BY <2>1 DEF Cell
    <2>4. \A n \in Node : Sound(Cell(n)', storeGeneration')
      BY <2>2, <2>3, Bundle
    <2> QED
      BY <2>1, <2>4 DEF Tables, Stores
  <1> QED
    BY <1>1, <1>2

LEMMA CallbackSound ==
  ASSUME Tables, Stores, NEW n \in Node, NEW p, Callback(n, p)
  PROVE  Tables' /\ Stores'
  <1>1. /\ UNCHANGED storeGeneration
        /\ due' = [due EXCEPT ![n] = @ \ {p}]
        /\ slot' = [slot EXCEPT ![n] =
             IF p[1] = storeGeneration THEN SettledSlot(@, p[2]) ELSE @]
    BY DEF Callback
  <1>2. ASSUME NEW m \in Node
        PROVE  Sound(Cell(m), storeGeneration)'
    <2>1. Sound(Cell(m), storeGeneration)
          /\ Cell(m)' = [node |-> node'[m], slot |-> slot'[m], due |-> due'[m]]
      BY CellShape DEF Cell
    <2>2. CASE m # n
      <3>1. slot'[m] = slot[m] /\ due'[m] = due[m]
        BY <1>1, <2>2 DEF Tables
      <3> QED
        BY <1>1, <2>1, <3>1 DEF Sound, Cell
    <2>3. CASE m = n
      <3> DEFINE s == IF p[1] = storeGeneration THEN SettledSlot(slot[n], p[2]) ELSE slot[n]
      <3>1. slot'[m] = s /\ due'[m] = due[n] \ {p}
        BY <1>1, <2>3 DEF Tables
      <3>2. /\ slot[n] = [k |-> slot[n].k, shown |-> slot[n].shown, settled |-> slot[n].settled]
            /\ slot[n].settled \in BOOLEAN
            /\ slot[n] # NoSlot /\ ~slot[n].settled => <<storeGeneration, slot[n].k>> \in due[n]
        BY <2>1, <2>3, CellShape DEF Sound
      <3>3. /\ s = [k |-> s.k, shown |-> s.shown, settled |-> s.settled] /\ s.settled \in BOOLEAN
            /\ s # NoSlot /\ ~s.settled =>
                 s = slot[n] /\ ~(p[1] = storeGeneration /\ p[2] = s.k)
        BY <3>2 DEF SettledSlot, NoSlot
      <3> HIDE DEF s
      <3>4. s # NoSlot /\ ~s.settled => <<storeGeneration, s.k>> \in due[n] \ {p}
        BY <3>2, <3>3
      <3>5. Sound([node |-> node'[m], slot |-> s, due |-> due[n] \ {p}], storeGeneration)
        BY <3>3, <3>4, Bundle
      <3> QED
        BY <1>1, <2>1, <3>1, <3>5
    <2> QED
      BY <2>2, <2>3
  <1> QED
    BY <1>1, <1>2 DEF Tables, Stores

LEMMA RetrySound ==
  ASSUME Tables, Stores, NEW n \in Node, Retry(n)
  PROVE  Tables' /\ Stores'
  <1>1. UNCHANGED storeGeneration
    BY DEF Retry
  <1>2. CASE slot[n] # NoSlot
    BY <1>1, <1>2, SameStores DEF Retry
  <1>3. CASE slot[n] = NoSlot
    <2>1. PICK sees \in BOOLEAN :
            LET c == [Cell(n) EXCEPT !.node = Begin(@, sees)] IN
              Put([m \in Node |-> IF m # n THEN Cell(m)
                                      ELSE IF disposed THEN c ELSE Schedule(c)])
      BY <1>3 DEF Retry
    <2> DEFINE c == [Cell(n) EXCEPT !.node = Begin(@, sees)]
    <2>2. \A m \in Node : Sound(Cell(m), storeGeneration')
      BY <1>1 DEF Stores
    <2>3. Sound(c, storeGeneration')
      BY <2>2 DEF Sound
    <2>4. Put([m \in Node |-> IF m # n THEN Cell(m)
                                  ELSE IF disposed THEN c ELSE Schedule(c)])
      BY <2>1
    <2> HIDE DEF c
    <2>5. Sound(Schedule(c), storeGeneration')
      BY <2>3, ScheduleSound
    <2> QED
      BY <2>2, <2>3, <2>4, <2>5, PutSound
  <1> QED
    BY <1>2, <1>3

LEMMA AnswerSound ==
  ASSUME Tables, Stores, NEW ok, Answer(ok)
  PROVE  Tables' /\ Stores'
  <1>1. UNCHANGED storeGeneration /\ (SyncAll \/ UNCHANGED <<slot, due>>)
    BY DEF Answer
  <1> QED
    BY <1>1, LookSound, SameStores

LEMMA StoresInit == StoreInit => Tables /\ Stores
  <1> SUFFICES ASSUME StoreInit PROVE Tables /\ Stores
    OBVIOUS
  <1>1. slot = [n \in Node |-> NoSlot] /\ due = [n \in Node |-> {}]
    BY DEF StoreInit
  <1>2. /\ NoSlot.settled \in BOOLEAN
        /\ NoSlot = [k |-> NoSlot.k, shown |-> NoSlot.shown, settled |-> NoSlot.settled]
    BY DEF NoSlot
  <1>3. \A n \in Node : Cell(n) = [node |-> node[n], slot |-> NoSlot, due |-> {}]
    BY <1>1 DEF Cell
  <1> QED
    BY <1>1, <1>2, <1>3, Bundle DEF Tables, Stores

LEMMA StoresStep == Tables /\ Stores /\ [StoreNext]_reactVars => (Tables /\ Stores)'
  <1> SUFFICES ASSUME Tables, Stores, [StoreNext]_reactVars PROVE Tables' /\ Stores'
    OBVIOUS
  <1>1. CASE UNCHANGED reactVars
    BY <1>1, SameStores DEF reactVars, storeVars
  <1>2. CASE Runtime
    <2>1. PICK n \in Node :
            \/ PhaseFollows(n) \/ Notify(n)
            \/ \E tag \in {"Ready", "Error"} : AttemptEnds(n, tag)
            \/ \E k \in 1..node[n].k : PromiseSettles(n, k)
            \/ \E p \in due[n] : Callback(n, p)
      BY <1>2 DEF Runtime
    <2>2. CASE PhaseFollows(n) \/ (\E tag \in {"Ready", "Error"} : AttemptEnds(n, tag))
               \/ (\E k \in 1..node[n].k : PromiseSettles(n, k))
      BY <2>2, SameStores DEF PhaseFollows, AttemptEnds, PromiseSettles, storeVars
    <2> QED
      BY <2>1, <2>2, NotifySound, CallbackSound
  <1>3. CASE Mount
    BY <1>3, MountSound
  <1>4. CASE Fail \/ Hide \/ Unmount
    BY <1>4, DisposeSound DEF Fail, Hide, Unmount
  <1>5. CASE Effects \/ Reveal
    BY <1>5, LookSound DEF Effects, Reveal, Subscribe
  <1>6. CASE ArgsEffect \/ (\E a \in Args : ChangeArgs(a)) \/ (\E n \in Node : Evict(n))
    BY <1>6, SameStores DEF ArgsEffect, ChangeArgs, Evict, storeVars
  <1>7. CASE \E n \in Node : Retry(n)
    BY <1>7, RetrySound
  <1> QED
    BY <1>1, <1>2, <1>3, <1>4, <1>5, <1>6, <1>7, RerenderSound, AnswerSound
       DEF StoreNext, React, User

\* A readiness promise that a store keeps for Suspense and that is not settled has
\* its callback still to come, whatever generations the store went through: no
\* component waits for a promise nobody will clear (nodeStore.ts:95).
THEOREM PromisesSettle == StoreSpec => []SlotWillSettle
  <1>1. Tables /\ Stores => SlotWillSettle
    <2> SUFFICES ASSUME Stores, NEW n \in Node, slot[n] # NoSlot, ~slot[n].settled
                 PROVE  <<storeGeneration, slot[n].k>> \in due[n]
      BY DEF SlotWillSettle
    <2>1. /\ Sound(Cell(n), storeGeneration)
          /\ Cell(n).slot = slot[n] /\ Cell(n).due = due[n]
      BY CellShape
    <2> QED
      BY <2>1 DEF Sound
  <1> QED
    BY <1>1, StoresInit, StoresStep, PTL DEF StoreSpec

-----------------------------------------------------------------------------
(* The args updates of a node: each was rolled out from the one before *)

Flight == [to : Args, from : Args, generation : Nat, founded : BOOLEAN, orphan : BOOLEAN]

Updates ==
  /\ {rendered, fingerprint, held} \subseteq Args
  /\ storeGeneration \in Nat
  /\ flights \in Seq(Flight)

\* The updates under way lead from the args held to the fingerprint, as long
\* as nothing has misled the store.
Leads ==
  misled = {} =>
    /\ flights = <<>> => fingerprint = held
    /\ flights # <<>> =>
         /\ flights[Len(flights)].to = fingerprint
         /\ flights[1].founded => flights[1].from = held
    /\ \A i \in 1 .. Len(flights) :
         /\ ~flights[i].orphan
         /\ i > 1 => flights[i].founded /\ flights[i].from = flights[i - 1].to

LEMMA LeadsInit ==
  ASSUME StoreInit
  PROVE  Updates /\ Leads
  <1>1. FirstArgs \in Args
    BY SizeAssumption DEF FirstArgs
  <1> QED
    BY <1>1 DEF StoreInit, Updates, Leads

LEMMA LeadsStay ==
  ASSUME Updates, Leads, UNCHANGED <<fingerprint, held, flights, misled>>,
         storeGeneration' \in Nat, rendered' \in Args
  PROVE  Updates' /\ Leads'
  BY DEF Updates, Leads

LEMMA MountLeads ==
  ASSUME Updates, Leads, Mount
  PROVE  Updates' /\ Leads'
  <1>1. /\ fingerprint' = rendered /\ storeGeneration' = 0 /\ UNCHANGED <<rendered, held>>
        /\ flights' = [i \in DOMAIN flights |-> [flights[i] EXCEPT !.orphan = TRUE]]
        /\ misled' = misled \cup (IF flights = <<>> /\ held = rendered THEN {} ELSE {"remounted"})
    BY DEF Mount
  <1>2. flights' \in Seq(Flight)
    <2>1. \A f \in Flight : [f EXCEPT !.orphan = TRUE] \in Flight
      BY DEF Flight
    <2>2. \A i \in 1 .. Len(flights) : [flights[i] EXCEPT !.orphan = TRUE] \in Flight
      BY <2>1 DEF Updates
    <2>3. Len(flights) \in Nat /\ DOMAIN flights = 1 .. Len(flights)
      BY DEF Updates
    <2> QED
      BY <1>1, <2>2, <2>3
  <1>3. misled' = {} => misled = {} /\ flights = <<>> /\ held = rendered
    BY <1>1
  <1>4. flights = <<>> => flights' = <<>>
    BY <1>1
  <1> QED
    BY <1>1, <1>2, <1>3, <1>4 DEF Updates, Leads

LEMMA EffectLeads ==
  ASSUME Updates, Leads, ArgsEffect
  PROVE  Updates' /\ Leads'
  <1>1. UNCHANGED <<storeGeneration, rendered, held, misled>>
    BY DEF ArgsEffect
  <1>2. CASE UNCHANGED <<fingerprint, flights>>
    BY <1>1, <1>2, LeadsStay DEF Updates
  <1>3. CASE ~UNCHANGED <<fingerprint, flights>>
    <2> DEFINE f == [to |-> rendered, from |-> fingerprint, generation |-> storeGeneration,
                     founded |-> TRUE, orphan |-> FALSE]
    <2>1. fingerprint' = rendered /\ flights' = Append(flights, f)
      BY <1>3 DEF ArgsEffect
    <2>2. f \in Flight /\ f.to = rendered /\ f.from = fingerprint /\ f.founded /\ ~f.orphan
      BY DEF Flight, Updates
    <2> HIDE DEF f
    <2>3. flights \in Seq(Flight) /\ flights' \in Seq(Flight)
      BY <2>1, <2>2 DEF Updates
    <2>4. /\ Len(flights) \in Nat /\ Len(flights') = Len(flights) + 1 /\ flights' # <<>>
          /\ flights'[Len(flights')] = f
          /\ \A i \in 1 .. Len(flights) : flights'[i] = flights[i]
      BY <2>1, <2>2, <2>3
    <2>5. flights = <<>> => Len(flights) = 0
      OBVIOUS
    <2>6. flights # <<>> => Len(flights) > 0
      BY <2>3
    <2>7. Leads'
      BY <1>1, <2>1, <2>2, <2>4, <2>5, <2>6 DEF Leads
    <2> QED
      BY <1>1, <2>1, <2>3, <2>7 DEF Updates
  <1> QED
    BY <1>2, <1>3

LEMMA OneOrMore == \A n \in Nat : n > 0 => (n = 1 /\ ~(n > 1)) \/ (n # 1 /\ n > 1)
  OBVIOUS

LEMMA AnswerLeads ==
  ASSUME Updates, Leads, NEW ok \in BOOLEAN, Answer(ok)
  PROVE  Updates' /\ Leads'
  <1> DEFINE f == flights[1]
             blamed == {why \in {"unfounded", "clobbered"} :
               /\ ~ok /\ ~f.orphan /\ fingerprint = f.to
               /\ IF why = "unfounded" THEN ~f.founded ELSE Len(flights) > 1}
  <1>1. /\ flights # <<>> /\ UNCHANGED <<storeGeneration, rendered>>
        /\ held' = IF ok THEN f.to ELSE held
        /\ fingerprint' = IF ~ok /\ ~f.orphan /\ fingerprint = f.to THEN f.from ELSE fingerprint
        /\ misled' = misled \cup blamed
        /\ flights' = IF ok \/ Len(flights) = 1 THEN Tail(flights)
                      ELSE [Tail(flights) EXCEPT ![1].founded = FALSE]
    BY DEF Answer, RollsBack, Updates
  <1>2. f \in Flight /\ Len(flights) \in Nat /\ Len(flights) > 0
    BY <1>1 DEF Updates
  <1>3. \/ Len(flights) = 1 /\ ~(Len(flights) > 1)
        \/ Len(flights) # 1 /\ Len(flights) > 1
    BY <1>2, OneOrMore, Zenon
  <1>4. blamed = {} => ok \/ f.orphan \/ fingerprint # f.to \/ (f.founded /\ ~(Len(flights) > 1))
    OBVIOUS
  <1> DEFINE rest == Tail(flights)
  <1>5. /\ rest \in Seq(Flight) /\ Len(rest) = Len(flights) - 1
        /\ \A i \in 1 .. Len(rest) : rest[i] = flights[i + 1] /\ rest[i] \in Flight
    BY <1>1 DEF Updates
  <1> HIDE DEF blamed, rest
  <1>6. Updates'
    <2>1. rest # <<>> => [rest EXCEPT ![1].founded = FALSE] \in Seq(Flight)
      <3>1. \A g \in Flight : [g EXCEPT !.founded = FALSE] \in Flight
        BY DEF Flight
      <3> SUFFICES ASSUME rest # <<>>
                   PROVE  [rest EXCEPT ![1].founded = FALSE] \in Seq(Flight)
        OBVIOUS
      <3>2. rest[1] \in Flight
        BY <1>5
      <3> QED
        BY <1>5, <3>1, <3>2
    <2>2. ~(ok \/ Len(flights) = 1) => rest # <<>>
      BY <1>2, <1>5
    <2>3. flights' \in Seq(Flight)
      BY <1>1, <1>5, <2>1, <2>2 DEF rest
    <2>4. held' \in Args /\ fingerprint' \in Args
      BY <1>1, <1>2 DEF Updates, Flight
    <2> QED
      BY <1>1, <2>3, <2>4 DEF Updates
  <1>7. Leads'
    <2> SUFFICES ASSUME misled' = {} PROVE Leads'
      BY DEF Leads
    <2>1. misled = {} /\ blamed = {}
      BY <1>1
    <2>2. /\ flights[Len(flights)].to = fingerprint
          /\ f.founded => f.from = held
          /\ \A i \in 1 .. Len(flights) :
               /\ ~flights[i].orphan
               /\ i > 1 => flights[i].founded /\ flights[i].from = flights[i - 1].to
      BY <1>1, <2>1 DEF Leads
    <2>3. CASE Len(flights) = 1
      <3>1. flights' = <<>>
        BY <1>1, <1>5, <2>3 DEF rest
      <3>2. fingerprint = f.to /\ ~f.orphan
        BY <2>2, <2>3
      <3>3. fingerprint' = held'
        BY <1>1, <1>4, <2>1, <2>2, <3>2
      <3> QED
        BY <3>1, <3>3 DEF Leads
    <2>4. CASE Len(flights) > 1
      <3>1. Len(rest) > 0 /\ rest # <<>> /\ 1 \in 1 .. Len(rest)
        BY <1>2, <1>5, <2>4
      <3>2. fingerprint' = fingerprint
        BY <1>1, <1>2, <1>4, <2>1, <2>2, <2>4
      <3>3. rest[Len(rest)].to = fingerprint
        BY <1>2, <1>5, <2>2, <3>1
      <3>4. \A i \in 1 .. Len(rest) :
              /\ ~rest[i].orphan /\ rest[i].founded /\ rest[i].from = flights[i].to
        <4> SUFFICES ASSUME NEW i \in 1 .. Len(rest)
                     PROVE  ~rest[i].orphan /\ rest[i].founded /\ rest[i].from = flights[i].to
          OBVIOUS
        <4>1. i + 1 \in 1 .. Len(flights) /\ i + 1 > 1 /\ (i + 1) - 1 = i /\ rest[i] = flights[i + 1]
          BY <1>2, <1>5
        <4> QED
          BY <2>2, <4>1
      <3>5. CASE ok
        <4>1. flights' = rest /\ held' = f.to
          BY <1>1, <3>5 DEF rest
        <4> QED
          BY <1>2, <1>5, <3>1, <3>2, <3>3, <3>4, <4>1 DEF Leads
      <3>6. CASE ~ok
        <4>1. flights' = [rest EXCEPT ![1].founded = FALSE]
          BY <1>1, <1>3, <2>4, <3>6, Zenon DEF rest
        <4>2. /\ Len(flights') = Len(rest) /\ flights' # <<>>
              /\ flights'[1] = [rest[1] EXCEPT !.founded = FALSE]
              /\ \A i \in 1 .. Len(rest) : i # 1 => flights'[i] = rest[i]
          <5> DEFINE g == [rest[1] EXCEPT !.founded = FALSE]
          <5>1. rest[1] \in Flight
            BY <1>5, <3>1
          <5>2. g \in Flight
            BY <5>1 DEF Flight
          <5>3. flights' = [rest EXCEPT ![1] = g]
            BY <4>1
          <5> HIDE DEF g
          <5>4. /\ [rest EXCEPT ![1] = g] \in Seq(Flight)
                /\ Len([rest EXCEPT ![1] = g]) = Len(rest)
                /\ \A j \in 1 .. Len(rest) :
                     [rest EXCEPT ![1] = g][j] = IF j = 1 THEN g ELSE rest[j]
            BY <1>5, <3>1, <5>2, ExceptSeq
          <5>5. Len(flights') = Len(rest) /\ flights' \in Seq(Flight)
            BY <5>3, <5>4
          <5>6. flights' # <<>>
            BY <3>1, <5>5
          <5>7. flights'[1] = g /\ \A i \in 1 .. Len(rest) : i # 1 => flights'[i] = rest[i]
            BY <3>1, <5>3, <5>4
          <5> QED
            BY <5>5, <5>6, <5>7 DEF g
        <4>3. flights'[1].founded = FALSE /\ flights'[1].to = rest[1].to
              /\ flights'[1].from = rest[1].from /\ flights'[1].orphan = rest[1].orphan
          BY <1>5, <3>1, <4>2 DEF Flight
        <4>4. Len(rest) \in 1 .. Len(rest) /\ Len(rest) \in Nat
          BY <1>5, <3>1
        <4>5. flights'[Len(flights')].to = fingerprint'
          BY <3>2, <3>3, <4>2, <4>3, <4>4
        <4>6. ASSUME NEW i \in 1 .. Len(rest)
              PROVE  /\ ~flights'[i].orphan
                     /\ i > 1 => flights'[i].founded /\ flights'[i].from = flights'[i - 1].to
          <5>1. ~flights'[i].orphan
            BY <3>1, <3>4, <4>2, <4>3
          <5>2. ASSUME i > 1
                PROVE  flights'[i].founded /\ flights'[i].from = flights'[i - 1].to
            <6>1. i # 1 /\ i - 1 \in 1 .. Len(rest)
              BY <4>4, <5>2
            <6>2. flights'[i] = rest[i] /\ flights'[i - 1].to = rest[i - 1].to
              BY <4>2, <4>3, <6>1
            <6>3. rest[i - 1] = flights[i]
              BY <1>5, <6>1
            <6> QED
              BY <3>4, <6>2, <6>3
          <5> QED
            BY <5>1, <5>2
        <4> QED
          BY <4>2, <4>3, <4>5, <4>6 DEF Leads
      <3> QED
        BY <3>5, <3>6
    <2> QED
      BY <1>3, <2>3, <2>4
  <1> QED
    BY <1>6, <1>7

LEMMA LeadsStep == Updates /\ Leads /\ [StoreNext]_reactVars => (Updates /\ Leads)'
  <1> SUFFICES ASSUME Updates, Leads, [StoreNext]_reactVars PROVE Updates' /\ Leads'
    OBVIOUS
  <1>1. CASE UNCHANGED reactVars
    BY <1>1, LeadsStay DEF reactVars, storeVars, argsVars, Updates
  <1>2. CASE Runtime
    BY <1>2, LeadsStay DEF Runtime, PhaseFollows, AttemptEnds, PromiseSettles, Notify,
          Callback, storeVars, argsVars, Updates
  <1>3. CASE Fail \/ Hide \/ Unmount
    BY <1>3, LeadsStay DEF Fail, Hide, Unmount, DisposeStores, argsVars, Updates
  <1>4. CASE Effects \/ Reveal \/ Rerender
    BY <1>4, LeadsStay DEF Effects, Reveal, Subscribe, Rerender, argsVars, Updates
  <1>5. CASE (\E a \in Args : ChangeArgs(a)) \/ (\E n \in Node : Evict(n) \/ Retry(n))
    BY <1>5, LeadsStay DEF ChangeArgs, Evict, Retry, storeVars, argsVars, Updates
  <1> QED
    BY <1>1, <1>2, <1>3, <1>4, <1>5, MountLeads, EffectLeads, AnswerLeads
       DEF StoreNext, React, User

\* Unless one of the three mishaps it names has happened, a store with no update
\* under way gates the next one by the args the runtime has (nodeStore.ts:346).
THEOREM FingerprintsAreHonest == StoreSpec => []FingerprintHonest
  <1>1. StoreInit => Updates /\ Leads
    BY LeadsInit
  <1>2. Updates /\ Leads => FingerprintHonest
    BY DEF Leads, FingerprintHonest
  <1> QED
    BY <1>1, <1>2, LeadsStep, PTL DEF StoreSpec
=============================================================================
