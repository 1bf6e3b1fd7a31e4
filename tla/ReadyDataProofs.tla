--------------------------- MODULE ReadyDataProofs ---------------------------
(***************************************************************************)
(* Safety of the two parts of a node that live and die with its ready      *)
(* data, for any leases, scopes, operations, incarnations and policies.    *)
(*                                                                         *)
(* The live resource and what observes it.  The permit serializes the      *)
(* deliveries, so the one resource that runs is the one the cell knows and *)
(* it was given the demand of the leases.  The reporters keep the book of  *)
(* their leases: what the last report asks for is what comes about.        *)
(*                                                                         *)
(* The result.  What a hook says of the validity is committed, what it     *)
(* stages is its own, and no acquire that returns its result is expired on *)
(* arrival.                                                                *)
(***************************************************************************)
EXTENDS Observation, ResultValidity, SequenceTheorems, FunctionTheorems, FiniteSetTheorems, TLAPS

-----------------------------------------------------------------------------
(* The live resource *)

\* Whoever is in a live hook has the permit, a handler excepted; the closer has
\* it while it evicts.
Permit ==
  /\ \A o \in Op :
       /\ holder = o <=> pc[o] \in {"acquiring", "delivering"}
       /\ delivery[Worker(o)].step # "none" <=> pc[o] = "delivering"
       /\ delivery[Handler(o)].step # "none" <=> handler[o] = "running"
  /\ delivery[Closer].step # "none" <=> holder = "closer"

\* Handlers run, and demand is rolled back, only when the actor closes.
Closing ==
  /\ ~closed => ~rolledBack /\ reason = "none" /\ \A o \in Op : handler[o] = "idle"
  /\ holder = "closer" => closed /\ reason = "closed"
  /\ phase = "Invalid" => closed /\ reason = "closed" /\ holder = "nobody" /\ Claimed

\* While the permit serializes deliveries the slot of the cell has every running
\* resource, and a hook is about the resource in it.
Serial ==
  ~rolledBack /\ phase # "Invalid" =>
    /\ \A o \in Op : handler[o] # "running" /\ (pc[o] = "acquiring" => phase = "Idle")
    /\ \A r \in Resource : resource[r] = "running" => phase = "Ready" /\ live = r
    /\ \A p \in Party :
         /\ delivery[p].step # "none" => phase = "Ready"
         /\ delivery[p].step = "starting" => live = 0
         /\ delivery[p].step \in {"updating", "stopping"} => delivery[p].resource = live

\* What the resource was given is the demand of the leases, or a failure shows.
Matches ==
  \/ live # 0 /\ resource[live] = "running" /\ liveDemand = Demand(leases)
  \/ live = 0 /\ (Demand(leases) = {} \/ liveFailure)

\* A hook brings the demand of the leases; else the last one brought it.
Brings ==
  ~closed /\ phase = "Ready" =>
    /\ holder = "nobody" => Matches
    /\ \A o \in Op :
         LET d == delivery[Worker(o)] IN
         /\ d.step = "starting" => d.demand = Demand(leases) /\ d.resource # 0
         /\ d.step = "updating" =>
              d.demand = Demand(leases) /\ live # 0 /\ resource[live] = "running"
         /\ d.step = "stopping" /\ d.then = "end" => Demand(leases) = {}
         /\ d.step = "stopping" /\ d.then = "start" => d.demand = Demand(leases)

LiveInv == TypeOK /\ Permit /\ Closing /\ Serial /\ Brings

-----------------------------------------------------------------------------
(* The parts of the type invariant *)

Fates == {"none", "starting", "running", "stopped", "failed", "orphan", "detached"}

DataTypes ==
  /\ phase \in {"Idle", "Ready", "Invalid"}
  /\ leases \subseteq Lease
  /\ live \in LiveResourceState
  /\ liveDemand \subseteq Scope
  /\ liveFailure \in BOOLEAN /\ hasUpdate \in BOOLEAN
  /\ resource \in [Resource -> Fates]
  /\ starts \in 0..MaxStarts
  /\ closed \in BOOLEAN
  /\ reason \in {"none", "invalidate", "evict", "closed"}
  /\ rolledBack \in BOOLEAN

ActorTypes ==
  /\ delivery \in [Party -> Delivery]
  /\ pc \in [Op -> {"none", "queued", "acquiring", "delivering", "done"}]
  /\ handler \in [Op -> {"idle", "running", "done"}]
  /\ holder \in Op \cup {"nobody", "closer"}

LEMMA TypeParts == TypeOK <=> DataTypes /\ ActorTypes
  BY DEF TypeOK, DataTypes, ActorTypes, Fates

LEMMA NextTypeParts == DataTypes' /\ ActorTypes' => TypeOK'
  BY DEF TypeOK, DataTypes, ActorTypes, Fates

-----------------------------------------------------------------------------
(* Parties *)

LEMMA Parties ==
  /\ Closer \in Party
  /\ \A o \in Op : Worker(o) \in Party /\ Handler(o) \in Party
  /\ \A o, q \in Op :
       /\ Worker(o) # Closer /\ Handler(o) # Closer /\ Worker(o) # Handler(q)
       /\ Worker(o) = Worker(q) => o = q
       /\ Handler(o) = Handler(q) => o = q
  /\ \A p \in Party : p = Closer \/ \E o \in Op : p = Worker(o) \/ p = Handler(o)
  BY OpAssumption DEF Party, Worker, Handler, Closer

\* It is the party's turn: it has the permit, takes it, or is a handler.
Turn(p) ==
  \/ p = Closer /\ holder \in {"nobody", "closer"}
  \/ \E o \in Op : p = Worker(o) /\ holder \in {"nobody", o}
  \/ \E o \in Op : p = Handler(o)

LEMMA LeaveTypes ==
  ASSUME TypeOK, NEW p \in Party, Leave(p)
  PROVE  ActorTypes'
  <1>1. NoDelivery \in Delivery
    BY ParameterAssumption DEF NoDelivery, Delivery, LiveResourceState
  <1>2. delivery' \in [Party -> Delivery]
    BY <1>1 DEF TypeOK, Leave
  <1>3. /\ pc' \in [Op -> {"none", "queued", "acquiring", "delivering", "done"}]
        /\ handler' \in [Op -> {"idle", "running", "done"}]
        /\ holder' \in Op \cup {"nobody", "closer"}
    BY DEF TypeOK, Leave, End
  <1> QED
    BY <1>2, <1>3 DEF ActorTypes

LEMMA EnterTypes ==
  ASSUME TypeOK, NEW p \in Party, NEW d \in Delivery, delivery' = [delivery EXCEPT ![p] = d],
         Continue(p)
  PROVE  ActorTypes'
  <1>1. delivery' \in [Party -> Delivery]
    BY DEF TypeOK
  <1>2. /\ pc' \in [Op -> {"none", "queued", "acquiring", "delivering", "done"}]
        /\ handler' \in [Op -> {"idle", "running", "done"}]
        /\ holder' \in Op \cup {"nobody", "closer"}
    BY DEF TypeOK, Continue
  <1> QED
    BY <1>1, <1>2 DEF ActorTypes

LEMMA LeavePermit ==
  ASSUME TypeOK, Permit, NEW p \in Party, Turn(p), Leave(p)
  PROVE  Permit'
  <1>1. delivery \in [Party -> Delivery] /\ NoDelivery.step = "none"
    BY DEF TypeOK, NoDelivery
  <1>2. delivery' = [delivery EXCEPT ![p] = NoDelivery]
    BY DEF Leave
  <1>3. \A q \in Party : delivery'[q].step = IF q = p THEN "none" ELSE delivery[q].step
    BY <1>1, <1>2
  <1> HIDE DEF Leave
  <1>4. pc \in [Op -> {"none", "queued", "acquiring", "delivering", "done"}]
        /\ handler \in [Op -> {"idle", "running", "done"}]
    BY DEF TypeOK
  <1>5. CASE p = Closer
    <2>1. holder' = "nobody" /\ UNCHANGED <<pc, handler>>
      BY <1>5, Parties DEF Leave, End
    <2>2. holder \in {"nobody", "closer"}
      BY <1>5, Parties DEF Turn
    <2> QED
      BY <1>3, <1>5, <2>1, <2>2, Parties, OpAssumption DEF Permit
  <1>6. CASE \E o \in Op : p = Worker(o)
    <2>1. PICK o \in Op : p = Worker(o)
      BY <1>6
    <2>2. holder' = "nobody" /\ pc' = [pc EXCEPT ![o] = "done"] /\ UNCHANGED handler
      BY <2>1, Parties DEF Leave, End
    <2>3. holder \in {"nobody", o}
      BY <2>1, Parties DEF Turn
    <2>4. \A q \in Op : pc'[q] = IF q = o THEN "done" ELSE pc[q]
      BY <1>4, <2>2
    <2>5. delivery'[Closer].step = delivery[Closer].step
          /\ \A q \in Op : /\ delivery'[Handler(q)].step = delivery[Handler(q)].step
                           /\ delivery'[Worker(q)].step =
                                IF q = o THEN "none" ELSE delivery[Worker(q)].step
      BY <1>3, <2>1, Parties
    <2> QED
      BY <2>2, <2>3, <2>4, <2>5, OpAssumption DEF Permit
  <1>7. CASE \E o \in Op : p = Handler(o)
    <2>1. PICK o \in Op : p = Handler(o)
      BY <1>7
    <2>2. handler' = [handler EXCEPT ![o] = "done"] /\ UNCHANGED <<pc, holder>>
      BY <2>1, Parties DEF Leave, End
    <2>3. \A q \in Op : handler'[q] = IF q = o THEN "done" ELSE handler[q]
      BY <1>4, <2>2
    <2>4. delivery'[Closer].step = delivery[Closer].step
          /\ \A q \in Op : /\ delivery'[Worker(q)].step = delivery[Worker(q)].step
                           /\ delivery'[Handler(q)].step =
                                IF q = o THEN "none" ELSE delivery[Handler(q)].step
      BY <1>3, <2>1, Parties
    <2> QED
      BY <2>2, <2>3, <2>4 DEF Permit
  <1> QED
    BY <1>5, <1>6, <1>7, Parties

LEMMA EnterPermit ==
  ASSUME TypeOK, Permit, NEW p \in Party, Turn(p), NEW d, d.step # "none",
         delivery' = [delivery EXCEPT ![p] = d], Continue(p)
  PROVE  Permit'
  <1>1. delivery \in [Party -> Delivery]
    BY DEF TypeOK
  <1>2. \A q \in Party : delivery'[q].step = IF q = p THEN d.step ELSE delivery[q].step
    BY <1>1
  <1>3. pc \in [Op -> {"none", "queued", "acquiring", "delivering", "done"}]
        /\ handler \in [Op -> {"idle", "running", "done"}]
    BY DEF TypeOK
  <1>4. CASE p = Closer
    <2>1. holder' = "closer" /\ UNCHANGED <<pc, handler>>
      BY <1>4, Parties DEF Continue
    <2>2. holder \in {"nobody", "closer"}
      BY <1>4, Parties DEF Turn
    <2> QED
      BY <1>2, <1>4, <2>1, <2>2, Parties, OpAssumption DEF Permit
  <1>5. CASE \E o \in Op : p = Worker(o)
    <2>1. PICK o \in Op : p = Worker(o)
      BY <1>5
    <2>2. holder' = o /\ pc' = [pc EXCEPT ![o] = "delivering"] /\ UNCHANGED handler
      BY <2>1, Parties DEF Continue
    <2>3. holder \in {"nobody", o}
      BY <2>1, Parties DEF Turn
    <2>4. \A q \in Op : pc'[q] = IF q = o THEN "delivering" ELSE pc[q]
      BY <1>3, <2>2
    <2>5. delivery'[Closer].step = delivery[Closer].step
          /\ \A q \in Op : /\ delivery'[Handler(q)].step = delivery[Handler(q)].step
                           /\ delivery'[Worker(q)].step =
                                IF q = o THEN d.step ELSE delivery[Worker(q)].step
      BY <1>2, <2>1, Parties
    <2> QED
      BY <2>2, <2>3, <2>4, <2>5, OpAssumption DEF Permit
  <1>6. CASE \E o \in Op : p = Handler(o)
    <2>1. PICK o \in Op : p = Handler(o)
      BY <1>6
    <2>2. handler' = [handler EXCEPT ![o] = "running"] /\ UNCHANGED <<pc, holder>>
      BY <2>1, Parties DEF Continue
    <2>3. \A q \in Op : handler'[q] = IF q = o THEN "running" ELSE handler[q]
      BY <1>3, <2>2
    <2>4. delivery'[Closer].step = delivery[Closer].step
          /\ \A q \in Op : /\ delivery'[Worker(q)].step = delivery[Worker(q)].step
                           /\ delivery'[Handler(q)].step =
                                IF q = o THEN d.step ELSE delivery[Handler(q)].step
      BY <1>2, <2>1, Parties
    <2> QED
      BY <2>2, <2>3, <2>4 DEF Permit
  <1> QED
    BY <1>4, <1>5, <1>6, Parties

-----------------------------------------------------------------------------
(* Entering and leaving a hook *)

Enters(p, d) ==
  /\ d \in Delivery /\ d.step # "none"
  /\ delivery' = [delivery EXCEPT ![p] = d]
  /\ Continue(p)

\* live.start is called: a generation of its own.
Starting(resources) ==
  /\ starts' \in 0..MaxStarts
  /\ \E r \in Resource : resource' = [resources EXCEPT ![r] = "starting"]

LEMMA NoStep == NoDelivery.step = "none"
  BY DEF NoDelivery

LEMMA LeaveSays ==
  ASSUME TypeOK, NEW p \in Party, Leave(p)
  PROVE  /\ \A q \in Party : delivery'[q] = IF q = p THEN NoDelivery ELSE delivery[q]
         /\ \A o \in Op : /\ pc'[o] = IF p = Worker(o) THEN "done" ELSE pc[o]
                          /\ handler'[o] = IF p = Handler(o) THEN "done" ELSE handler[o]
         /\ (\A o \in Op : p # Handler(o)) => holder' = "nobody" /\ handler' = handler
  <1>1. \A q \in Party : delivery'[q] = IF q = p THEN NoDelivery ELSE delivery[q]
    BY DEF Leave, TypeOK
  <1>2. /\ pc \in [Op -> {"none", "queued", "acquiring", "delivering", "done"}]
        /\ handler \in [Op -> {"idle", "running", "done"}]
    BY DEF TypeOK
  <1>3. End(p)
    BY DEF Leave
  <1>4. CASE p = Closer
    BY <1>1, <1>3, <1>4, Parties DEF End
  <1>5. ASSUME NEW o \in Op, p = Worker(o)
        PROVE  /\ holder' = "nobody" /\ handler' = handler
               /\ pc' = [pc EXCEPT ![o] = "done"]
    BY <1>3, <1>5, Parties DEF End
  <1>6. ASSUME NEW o \in Op, p = Handler(o)
        PROVE  pc' = pc /\ handler' = [handler EXCEPT ![o] = "done"]
    BY <1>3, <1>6, Parties DEF End
  <1>7. CASE \E o \in Op : p = Worker(o)
    BY <1>1, <1>2, <1>5, <1>7, Parties
  <1>8. CASE \E o \in Op : p = Handler(o)
    BY <1>1, <1>2, <1>6, <1>8, Parties
  <1> QED
    BY <1>4, <1>7, <1>8, Parties

LEMMA EnterSays ==
  ASSUME TypeOK, NEW p \in Party, NEW d, Enters(p, d)
  PROVE  /\ \A q \in Party : delivery'[q] = IF q = p THEN d ELSE delivery[q]
         /\ \A o \in Op : /\ pc'[o] = IF p = Worker(o) THEN "delivering" ELSE pc[o]
                          /\ handler'[o] = IF p = Handler(o) THEN "running" ELSE handler[o]
         /\ (\A o \in Op : p # Handler(o)) => holder' # "nobody" /\ handler' = handler
  <1>1. \A q \in Party : delivery'[q] = IF q = p THEN d ELSE delivery[q]
    BY DEF Enters, TypeOK
  <1>2. /\ pc \in [Op -> {"none", "queued", "acquiring", "delivering", "done"}]
        /\ handler \in [Op -> {"idle", "running", "done"}]
    BY DEF TypeOK
  <1>3. Continue(p)
    BY DEF Enters
  <1>4. CASE p = Closer
    BY <1>1, <1>3, <1>4, Parties DEF Continue
  <1>5. ASSUME NEW o \in Op, p = Worker(o)
        PROVE  /\ holder' = o /\ handler' = handler
               /\ pc' = [pc EXCEPT ![o] = "delivering"]
    BY <1>3, <1>5, Parties DEF Continue
  <1>6. ASSUME NEW o \in Op, p = Handler(o)
        PROVE  pc' = pc /\ handler' = [handler EXCEPT ![o] = "running"]
    BY <1>3, <1>6, Parties DEF Continue
  <1>7. CASE \E o \in Op : p = Worker(o)
    BY <1>1, <1>2, <1>5, <1>7, Parties, OpAssumption
  <1>8. CASE \E o \in Op : p = Handler(o)
    BY <1>1, <1>2, <1>6, <1>8, Parties
  <1> QED
    BY <1>4, <1>7, <1>8, Parties

LEMMA StartSays ==
  ASSUME TypeOK, NEW p \in Party, NEW demand \in SUBSET Scope, NEW failed \in BOOLEAN,
         NEW resources, Start(p, demand, failed, resources)
  PROVE  /\ Starting(resources)
         /\ \E d \in Delivery :
              /\ Enters(p, d) /\ d.step = "starting"
              /\ d.resource # 0 /\ d.demand = demand /\ d.failed = failed
  <1>1. starts' \in 0..MaxStarts /\ starts' \in Resource /\ starts' # 0
    BY ParameterAssumption DEF Start, TypeOK, Resource
  <1> DEFINE d == [step |-> "starting", resource |-> starts', demand |-> demand,
                   then |-> "end", failed |-> failed]
  <1>2. d \in Delivery
    BY <1>1 DEF Delivery, LiveResourceState
  <1>3. Enters(p, d)
    BY <1>2 DEF Enters, Start
  <1> QED
    BY <1>1, <1>2, <1>3 DEF Starting, Start

LEMMA StopSays ==
  ASSUME NEW p \in Party, NEW r \in LiveResourceState, NEW demand \in SUBSET Scope,
         NEW then \in {"end", "start", "free"}, NEW failed \in BOOLEAN,
         Stop(p, r, demand, then, failed)
  PROVE  /\ UNCHANGED <<resource, starts>>
         /\ \E d \in Delivery :
              Enters(p, d) /\ d.step = "stopping" /\ d.resource = r /\ d.demand = demand
                /\ d.then = then
  <1> DEFINE d == [step |-> "stopping", resource |-> r, demand |-> demand, then |-> then,
                   failed |-> failed]
  <1>1. d \in Delivery
    BY DEF Delivery
  <1>2. Enters(p, d)
    BY <1>1 DEF Enters, Stop
  <1> QED
    BY <1>1, <1>2 DEF Stop, resourceVars

LEMMA UpdateSays ==
  ASSUME NEW p \in Party, NEW r \in LiveResourceState, NEW demand \in SUBSET Scope,
         Update(p, r, demand)
  PROVE  /\ UNCHANGED <<resource, starts>>
         /\ \E d \in Delivery :
              Enters(p, d) /\ d.step = "updating" /\ d.resource = r /\ d.demand = demand
  <1> DEFINE d == [step |-> "updating", resource |-> r, demand |-> demand, then |-> "end",
                   failed |-> FALSE]
  <1>1. d \in Delivery
    BY DEF Delivery
  <1>2. Enters(p, d)
    BY <1>1 DEF Enters, Update
  <1> QED
    BY <1>1, <1>2 DEF Update, resourceVars

\* What a delivery comes down to.
LEMMA DeliverSays ==
  ASSUME TypeOK, NEW p \in Party, NEW demand \in SUBSET Scope, NEW isReady \in BOOLEAN,
         Deliver(p, demand, isReady, live, liveDemand)
  PROVE  /\ liveFailure' \in BOOLEAN
         /\ \/ /\ Leave(p) /\ UNCHANGED <<resource, starts>>
               /\ \/ ~isReady
                  \/ demand = {} /\ live = 0
                  \/ demand # {} /\ live # 0 /\ liveDemand = demand
            \/ \E d \in Delivery :
                 /\ Enters(p, d) /\ isReady
                 /\ \/ /\ d.step = "starting" /\ live = 0 /\ d.resource # 0 /\ d.demand = demand
                       /\ Starting(resource)
                    \/ /\ d.step = "updating" /\ live # 0 /\ d.resource = live /\ d.demand = demand
                       /\ UNCHANGED <<resource, starts>>
                    \/ /\ d.step = "stopping" /\ d.resource = live
                       /\ d.then = "end" => demand = {}
                       /\ d.then = "start" => d.demand = demand
                       /\ d.then # "free"
                       /\ UNCHANGED <<resource, starts>>
  <1>1. live \in LiveResourceState /\ liveFailure \in BOOLEAN /\ {} \in SUBSET Scope
    BY DEF TypeOK
  <1>2. CASE /\ Leave(p) /\ UNCHANGED resourceVars
             /\ liveFailure' = (liveFailure /\ ~(isReady /\ demand = {}))
             /\ \/ ~isReady
                \/ demand = {} /\ live = 0
                \/ demand # {} /\ live # 0 /\ liveDemand = demand
    BY <1>1, <1>2 DEF resourceVars
  <1>3. CASE isReady /\ demand = {} /\ Stop(p, live, {}, "end", FALSE) /\ UNCHANGED liveFailure
    <2>1. /\ UNCHANGED <<resource, starts>>
          /\ \E d \in Delivery :
               /\ Enters(p, d) /\ d.step = "stopping" /\ d.resource = live
               /\ d.demand = {} /\ d.then = "end"
      <3>1. PICK failed \in BOOLEAN : Stop(p, live, {}, "end", failed)
        BY <1>3, Zenon
      <3> {} \in SUBSET Scope /\ "end" \in {"end", "start", "free"}
        OBVIOUS
      <3> QED
        BY <1>1, <3>1, StopSays
    <2> QED
      BY <1>1, <1>3, <2>1
  <1>4. CASE isReady /\ live = 0 /\ Start(p, demand, FALSE, resource) /\ UNCHANGED liveFailure
    <2>1. PICK failed \in BOOLEAN : Start(p, demand, failed, resource)
      BY <1>4, Zenon
    <2>2. /\ Starting(resource)
          /\ \E d \in Delivery :
               Enters(p, d) /\ d.step = "starting" /\ d.resource # 0 /\ d.demand = demand
      BY <2>1, StartSays
    <2> QED
      BY <1>1, <1>4, <2>2
  <1>5. CASE isReady /\ live # 0 /\ Update(p, live, demand) /\ UNCHANGED liveFailure
    BY <1>1, <1>5, UpdateSays
  <1>6. CASE isReady /\ Stop(p, live, demand, "start", FALSE) /\ UNCHANGED liveFailure
    <2>1. /\ UNCHANGED <<resource, starts>>
          /\ \E d \in Delivery :
               /\ Enters(p, d) /\ d.step = "stopping" /\ d.resource = live
               /\ d.demand = demand /\ d.then = "start"
      <3>1. PICK failed \in BOOLEAN : Stop(p, live, demand, "start", failed)
        BY <1>6, Zenon
      <3> "start" \in {"end", "start", "free"}
        OBVIOUS
      <3> QED
        BY <1>1, <3>1, StopSays
    <2> QED
      BY <1>1, <1>6, <2>1
  <1> QED
    BY <1>2, <1>3, <1>4, <1>5, <1>6 DEF Deliver

LEMMA Hooked ==
  ASSUME TypeOK, Permit, Closing, NEW p \in Party, delivery[p].step # "none"
  PROVE  Turn(p) /\ phase # "Invalid"
  <1>1. CASE p = Closer
    BY <1>1, OpAssumption DEF Permit, Closing, Turn
  <1>2. ASSUME NEW o \in Op, p = Worker(o)
        PROVE  Turn(p) /\ phase # "Invalid"
    BY <1>2, OpAssumption DEF Permit, Closing, Turn
  <1>3. ASSUME NEW o \in Op, p = Handler(o)
        PROVE  Turn(p) /\ phase # "Invalid"
    BY <1>3, OpAssumption DEF Permit, Closing, Turn, Claimed
  <1> QED
    BY <1>1, <1>2, <1>3, Parties

\* While deliveries are serialized at most one party is in a hook.
LEMMA Alone ==
  ASSUME TypeOK, Permit, Serial, ~rolledBack, phase # "Invalid"
  PROVE  /\ \A p, q \in Party :
              delivery[p].step # "none" /\ delivery[q].step # "none" => p = q
         /\ \A p \in Party, o \in Op :
              delivery[p].step # "none" => p # Handler(o) /\ pc[o] # "acquiring"
         /\ holder = "nobody" => /\ \A p \in Party : delivery[p].step = "none"
                                 /\ \A o \in Op : pc[o] # "acquiring"
         /\ \A o, q \in Op : pc[o] = "acquiring" /\ pc[q] = "acquiring" => o = q
  <1> DEFINE hasPermit(p) == \/ p = Closer /\ holder = "closer"
                             \/ \E o \in Op : p = Worker(o) /\ holder = o /\ pc[o] = "delivering"
  <1>1. \A o \in Op : handler[o] # "running"
    BY DEF Serial
  <1>2. ASSUME NEW p \in Party, delivery[p].step # "none"
        PROVE  hasPermit(p) /\ \A o \in Op : p # Handler(o)
    <2>1. CASE p = Closer
      BY <1>2, <2>1, Parties DEF Permit
    <2>2. ASSUME NEW o \in Op, p = Worker(o)
          PROVE  hasPermit(p) /\ \A q \in Op : p # Handler(q)
      BY <1>2, <2>2, Parties DEF Permit
    <2>3. ASSUME NEW o \in Op, p = Handler(o)
          PROVE  FALSE
      BY <1>1, <1>2, <2>3 DEF Permit
    <2> QED
      BY <2>1, <2>2, <2>3, Parties
  <1>3. \A o \in Op : pc[o] = "acquiring" => holder = o
    BY DEF Permit
  <1>4. ASSUME NEW p \in Party, NEW q \in Party, hasPermit(p), hasPermit(q)
        PROVE  p = q
    BY <1>4, OpAssumption
  <1>5. ASSUME NEW p \in Party, NEW o \in Op, hasPermit(p)
        PROVE  pc[o] # "acquiring" /\ holder # "nobody"
    BY <1>3, <1>5, OpAssumption
  <1>6. /\ holder = "nobody" => \A o \in Op : pc[o] # "acquiring"
        /\ \A o, q \in Op : pc[o] = "acquiring" /\ pc[q] = "acquiring" => o = q
    BY <1>3, OpAssumption
  <1> HIDE DEF hasPermit
  <1>7. holder = "nobody" => \A p \in Party : delivery[p].step = "none"
    BY <1>2, <1>5, Parties, OpAssumption DEF hasPermit
  <1>8. \A p, q \in Party : delivery[p].step # "none" /\ delivery[q].step # "none" => p = q
    BY <1>2, <1>4
  <1>9. \A p \in Party, o \in Op :
          delivery[p].step # "none" => p # Handler(o) /\ pc[o] # "acquiring"
    BY <1>2, <1>5
  <1> QED
    BY <1>6, <1>7, <1>8, <1>9

\* What is left of each part of the invariant to show when a party leaves a hook,
\* and when it enters one.
LEMMA SerialLeft ==
  ASSUME TypeOK, NEW p \in Party, Leave(p),
         ~rolledBack' /\ phase' # "Invalid" =>
           /\ \A o \in Op : handler[o] # "running"
           /\ \A o \in Op : pc[o] = "acquiring" => p = Worker(o)
           /\ \A q \in Party : q # p => delivery[q].step = "none"
           /\ \A r \in Resource : resource'[r] = "running" => phase' = "Ready" /\ live' = r
  PROVE  Serial'
  <1> HIDE DEF Leave
  <1>1. /\ \A q \in Party : delivery'[q] = IF q = p THEN NoDelivery ELSE delivery[q]
        /\ \A o \in Op : /\ pc'[o] = IF p = Worker(o) THEN "done" ELSE pc[o]
                         /\ handler'[o] = IF p = Handler(o) THEN "done" ELSE handler[o]
    BY LeaveSays
  <1>2. SUFFICES ASSUME ~rolledBack', phase' # "Invalid"
                 PROVE  /\ \A o \in Op : handler'[o] # "running"
                                         /\ (pc'[o] = "acquiring" => phase' = "Idle")
                        /\ \A r \in Resource :
                             resource'[r] = "running" => phase' = "Ready" /\ live' = r
                        /\ \A q \in Party : delivery'[q].step = "none"
    BY DEF Serial
  <1> QED
    BY <1>1, <1>2, NoStep

LEMMA SerialEntered ==
  ASSUME TypeOK, NEW p \in Party, NEW d, Enters(p, d),
         ~rolledBack' /\ phase' # "Invalid" =>
           /\ phase' = "Ready"
           /\ d.step = "starting" => live' = 0
           /\ d.step \in {"updating", "stopping"} => d.resource = live'
           /\ \A o \in Op : handler[o] # "running" /\ p # Handler(o)
           /\ \A o \in Op : pc[o] = "acquiring" => p = Worker(o)
           /\ \A q \in Party : q # p => delivery[q].step = "none"
           /\ \A r \in Resource : resource'[r] = "running" => live' = r
  PROVE  Serial'
  <1>1. /\ \A q \in Party : delivery'[q] = IF q = p THEN d ELSE delivery[q]
        /\ \A o \in Op : /\ pc'[o] = IF p = Worker(o) THEN "delivering" ELSE pc[o]
                         /\ handler'[o] = IF p = Handler(o) THEN "running" ELSE handler[o]
    BY EnterSays
  <1>2. SUFFICES ASSUME ~rolledBack', phase' # "Invalid"
                 PROVE  /\ \A o \in Op : handler'[o] # "running" /\ pc'[o] # "acquiring"
                        /\ phase' = "Ready"
                        /\ \A r \in Resource : resource'[r] = "running" => live' = r
                        /\ \A q \in Party :
                             /\ delivery'[q].step = "starting" => live' = 0
                             /\ delivery'[q].step \in {"updating", "stopping"} =>
                                  delivery'[q].resource = live'
    BY DEF Serial
  <1> QED
    BY <1>1, <1>2

LEMMA BringsLeft ==
  ASSUME TypeOK, NEW p \in Party, Leave(p),
         ~closed' /\ phase' = "Ready" =>
           Matches' /\ \A q \in Party : q # p => delivery[q].step = "none"
  PROVE  Brings'
  <1> HIDE DEF Leave
  <1>1. ~closed' /\ phase' = "Ready" => \A q \in Party : delivery'[q].step = "none"
    BY LeaveSays, NoStep
  <1>2. ~closed' /\ phase' = "Ready" => \A o \in Op : delivery'[Worker(o)].step = "none"
    BY <1>1, Parties
  <1> QED
    BY <1>2 DEF Brings

LEMMA BringsEntered ==
  ASSUME TypeOK, NEW p \in Party, NEW d, Enters(p, d),
         ~closed' /\ phase' = "Ready" =>
           /\ \A o \in Op : p # Handler(o)
           /\ \A q \in Party : q # p => delivery[q].step = "none"
           /\ d.step = "starting" => d.demand = Demand(leases)' /\ d.resource # 0
           /\ d.step = "updating" =>
                d.demand = Demand(leases)' /\ live' # 0 /\ resource'[live'] = "running"
           /\ d.step = "stopping" /\ d.then = "end" => Demand(leases)' = {}
           /\ d.step = "stopping" /\ d.then = "start" => d.demand = Demand(leases)'
  PROVE  Brings'
  <1>1. /\ \A q \in Party : delivery'[q] = IF q = p THEN d ELSE delivery[q]
        /\ (\A o \in Op : p # Handler(o)) => holder' # "nobody"
    BY EnterSays
  <1>2. ~closed' /\ phase' = "Ready" =>
          /\ holder' # "nobody"
          /\ \A o \in Op : delivery'[Worker(o)] = d \/ delivery'[Worker(o)].step = "none"
    BY <1>1, Parties
  <1> QED
    BY <1>2 DEF Brings

LEMMA ClosingLeft ==
  ASSUME TypeOK, Closing, NEW p \in Party, Leave(p), UNCHANGED closed,
         ~closed => ~rolledBack' /\ reason' = "none" /\ \A o \in Op : p # Handler(o),
         reason = "closed" => reason' = "closed",
         phase' # "Invalid"
  PROVE  Closing'
  <1> HIDE DEF Leave
  <1>1. /\ (\A o \in Op : p # Handler(o)) => holder' = "nobody" /\ handler' = handler
        /\ (\E o \in Op : p = Handler(o)) => holder' = holder
    <2>1. ASSUME NEW o \in Op, p = Handler(o) PROVE holder' = holder
      BY <2>1, Parties DEF Leave, End
    <2> QED
      BY <2>1, LeaveSays
  <1> QED
    BY <1>1, Zenon DEF Closing

LEMMA ClosingEntered ==
  ASSUME TypeOK, Closing, NEW p \in Party, NEW d, Enters(p, d), UNCHANGED closed,
         ~closed => ~rolledBack' /\ reason' = "none" /\ \A o \in Op : p # Handler(o),
         reason = "closed" => reason' = "closed",
         p = Closer => closed /\ reason' = "closed",
         phase' # "Invalid"
  PROVE  Closing'
  <1>1. /\ (\A o \in Op : p # Handler(o)) => handler' = handler
        /\ holder' = "closer" => p = Closer \/ holder = "closer"
    <2>1. holder' = "closer" => p = Closer \/ holder = "closer"
      BY OpAssumption DEF Enters, Continue
    <2> QED
      BY <2>1, EnterSays
  <1> QED
    BY <1>1 DEF Closing

-----------------------------------------------------------------------------
(* Hooks end *)

\* What is known of a party in a hook.
LEMMA Hook ==
  ASSUME LiveInv, NEW p \in Party, delivery[p].step # "none"
  PROVE  /\ Turn(p) /\ phase # "Invalid"
         /\ delivery[p].resource \in LiveResourceState
         /\ delivery[p].demand \in SUBSET Scope /\ delivery[p].failed \in BOOLEAN
         /\ p = Closer => closed /\ reason = "closed"
         /\ ~closed => /\ ~rolledBack /\ reason = "none" /\ phase = "Ready"
                       /\ \E o \in Op : p = Worker(o)
         /\ ~rolledBack =>
              /\ phase = "Ready"
              /\ \A o \in Op : handler[o] # "running" /\ p # Handler(o) /\ pc[o] # "acquiring"
              /\ \A q \in Party : q # p => delivery[q].step = "none"
              /\ \A r \in Resource : resource[r] = "running" => live = r
              /\ delivery[p].step = "starting" => live = 0
              /\ delivery[p].step \in {"updating", "stopping"} => delivery[p].resource = live
         /\ ~closed =>
              /\ delivery[p].step = "starting" =>
                   delivery[p].demand = Demand(leases) /\ delivery[p].resource # 0
              /\ delivery[p].step = "updating" =>
                   /\ delivery[p].demand = Demand(leases)
                   /\ live # 0 /\ resource[live] = "running"
              /\ delivery[p].step = "stopping" /\ delivery[p].then = "end" =>
                   Demand(leases) = {}
              /\ delivery[p].step = "stopping" /\ delivery[p].then = "start" =>
                   delivery[p].demand = Demand(leases)
  <1>1. TypeOK /\ Permit /\ Closing /\ Serial /\ Brings
    BY DEF LiveInv
  <1>2. Turn(p) /\ phase # "Invalid"
    BY <1>1, Hooked
  <1>3. delivery[p] \in Delivery
    BY <1>1 DEF TypeOK
  <1>4. /\ delivery[p].resource \in LiveResourceState
        /\ delivery[p].demand \in SUBSET Scope /\ delivery[p].failed \in BOOLEAN
    BY <1>3 DEF Delivery
  <1>5. p = Closer => closed /\ reason = "closed"
    BY <1>1 DEF Permit, Closing
  <1>6. ~rolledBack =>
          /\ phase = "Ready"
          /\ \A o \in Op : handler[o] # "running" /\ p # Handler(o) /\ pc[o] # "acquiring"
          /\ \A q \in Party : q # p => delivery[q].step = "none"
          /\ \A r \in Resource : resource[r] = "running" => live = r
          /\ delivery[p].step = "starting" => live = 0
          /\ delivery[p].step \in {"updating", "stopping"} => delivery[p].resource = live
    <2> SUFFICES ASSUME ~rolledBack
                 PROVE  /\ phase = "Ready"
                        /\ \A o \in Op : handler[o] # "running" /\ p # Handler(o)
                                         /\ pc[o] # "acquiring"
                        /\ \A q \in Party : q # p => delivery[q].step = "none"
                        /\ \A r \in Resource : resource[r] = "running" => live = r
                        /\ delivery[p].step = "starting" => live = 0
                        /\ delivery[p].step \in {"updating", "stopping"} =>
                             delivery[p].resource = live
      OBVIOUS
    <2>1. /\ phase = "Ready" /\ \A o \in Op : handler[o] # "running"
          /\ \A r \in Resource : resource[r] = "running" => live = r
          /\ delivery[p].step = "starting" => live = 0
          /\ delivery[p].step \in {"updating", "stopping"} => delivery[p].resource = live
      BY <1>1, <1>2 DEF Serial
    <2>2. /\ \A o \in Op : p # Handler(o) /\ pc[o] # "acquiring"
          /\ \A q \in Party : q # p => delivery[q].step = "none"
      BY <1>1, <1>2, Alone
    <2> QED
      BY <2>1, <2>2
  <1>7. ~closed => ~rolledBack /\ reason = "none"
    BY <1>1 DEF Closing
  <1>8. ~closed => phase = "Ready" /\ \E o \in Op : p = Worker(o)
    BY <1>5, <1>6, <1>7, Parties
  <1>9. ~closed =>
          /\ delivery[p].step = "starting" =>
               delivery[p].demand = Demand(leases) /\ delivery[p].resource # 0
          /\ delivery[p].step = "updating" =>
               /\ delivery[p].demand = Demand(leases)
               /\ live # 0 /\ resource[live] = "running"
          /\ delivery[p].step = "stopping" /\ delivery[p].then = "end" =>
               Demand(leases) = {}
          /\ delivery[p].step = "stopping" /\ delivery[p].then = "start" =>
               delivery[p].demand = Demand(leases)
    BY <1>1, <1>8 DEF Brings
  <1> QED
    BY <1>2, <1>4, <1>5, <1>6, <1>7, <1>8, <1>9

LEMMA StartSucceedsStep ==
  ASSUME LiveInv, NEW p \in Party, StartSucceeds(p)
  PROVE  LiveInv'
  <1> USE DEF LiveInv
  <1>1. /\ delivery[p].step = "starting"
        /\ resource' = [resource EXCEPT ![delivery[p].resource] = "running"]
        /\ SetLive(delivery[p].resource, delivery[p].demand, delivery[p].failed)
        /\ Leave(p)
        /\ UNCHANGED <<phase, leases, hasUpdate, starts, closed, reason, rolledBack>>
    BY DEF StartSucceeds, In, closeVars
  <1> HIDE DEF Leave
  <1>2. DataTypes'
    BY <1>1, Hook, TypeParts DEF DataTypes, SetLive, Fates
  <1>3. TypeOK'
    BY <1>1, <1>2, LeaveTypes, NextTypeParts
  <1>4. Permit'
    BY <1>1, Hook, LeavePermit
  <1>5. Closing'
    BY <1>1, Hook, ClosingLeft, Parties
  <1>6. \A r \in Resource : resource'[r] = "running" =>
          r = delivery[p].resource \/ resource[r] = "running"
    BY <1>1 DEF TypeOK
  <1>7. Serial'
    <2>1. ~rolledBack /\ phase # "Invalid" =>
            \A r \in Resource : resource'[r] = "running" => phase' = "Ready" /\ live' = r
      BY <1>1, <1>6, Hook, ParameterAssumption DEF SetLive, Resource
    <2> QED
      BY <1>1, <2>1, Hook, SerialLeft
  <1>8. Brings'
    <2>1. ~closed => Matches'
      <3> SUFFICES ASSUME ~closed PROVE Matches'
        OBVIOUS
      <3>1. delivery[p].resource \in Resource
        BY <1>1, Hook, ParameterAssumption DEF LiveResourceState, Resource
      <3>2. live' = delivery[p].resource /\ liveDemand' = Demand(leases')
        BY <1>1, Hook DEF SetLive, Demand
      <3>3. live' # 0 /\ resource'[live'] = "running"
        BY <1>1, <3>1, <3>2, Hook DEF TypeOK
      <3> QED
        BY <3>2, <3>3 DEF Matches
    <2> QED
      BY <1>1, <2>1, Hook, BringsLeft
  <1> QED
    BY <1>3, <1>4, <1>5, <1>7, <1>8

LEMMA StartFailsStep ==
  ASSUME LiveInv, NEW p \in Party, StartFails(p)
  PROVE  LiveInv'
  <1> USE DEF LiveInv
  <1>0. PICK fate \in {"failed", "orphan"} :
          resource' = [resource EXCEPT ![delivery[p].resource] = fate]
    BY DEF StartFails
  <1>1. /\ delivery[p].step = "starting"
        /\ SetLive(0, {}, TRUE)
        /\ Leave(p)
        /\ UNCHANGED <<phase, leases, hasUpdate, starts, closed, reason, rolledBack>>
    BY DEF StartFails, In, closeVars
  <1> HIDE DEF Leave
  <1>2. DataTypes'
    <2>1. 0 \in LiveResourceState /\ DataTypes
      BY TypeParts, ParameterAssumption DEF LiveResourceState
    <2>2. resource' \in [Resource -> Fates]
      BY <1>0, <2>1 DEF DataTypes, Fates
    <2> QED
      BY <1>1, <2>1, <2>2 DEF DataTypes, SetLive
  <1>3. TypeOK'
    BY <1>1, <1>2, LeaveTypes, NextTypeParts
  <1>4. Permit'
    BY <1>1, Hook, LeavePermit
  <1>5. Closing'
    BY <1>1, Hook, ClosingLeft, Parties
  <1>6. \A r \in Resource : resource'[r] = "running" => resource[r] = "running"
    BY <1>0 DEF TypeOK
  <1>7. Serial'
    <2>1. ~rolledBack /\ phase # "Invalid" =>
            \A r \in Resource : resource'[r] # "running"
      BY <1>1, <1>6, Hook, ParameterAssumption DEF Resource
    <2> QED
      BY <1>1, <2>1, Hook, SerialLeft
  <1>8. Brings'
    <2>1. ~closed => Matches'
      BY <1>1, Hook DEF SetLive, Matches, Demand
    <2> QED
      BY <1>1, <2>1, Hook, BringsLeft
  <1> QED
    BY <1>3, <1>4, <1>5, <1>7, <1>8

LEMMA UpdateSucceedsStep ==
  ASSUME LiveInv, NEW p \in Party, UpdateSucceeds(p)
  PROVE  LiveInv'
  <1> USE DEF LiveInv
  <1>1. /\ delivery[p].step = "updating"
        /\ SetLive(delivery[p].resource, delivery[p].demand, FALSE)
        /\ Leave(p)
        /\ UNCHANGED <<phase, leases, hasUpdate, resource, starts, closed, reason, rolledBack>>
    BY DEF UpdateSucceeds, In, closeVars, resourceVars
  <1> HIDE DEF Leave
  <1>2. DataTypes'
    BY <1>1, Hook, TypeParts DEF DataTypes, SetLive
  <1>3. TypeOK'
    BY <1>1, <1>2, LeaveTypes, NextTypeParts
  <1>4. Permit'
    BY <1>1, Hook, LeavePermit
  <1>5. Closing'
    BY <1>1, Hook, ClosingLeft, Parties
  <1>6. Serial'
    <2>1. ~rolledBack /\ phase # "Invalid" =>
            \A r \in Resource : resource'[r] = "running" => phase' = "Ready" /\ live' = r
      BY <1>1, Hook DEF SetLive
    <2> QED
      BY <1>1, <2>1, Hook, SerialLeft
  <1>7. Brings'
    <2>1. ~closed => Matches'
      BY <1>1, Hook DEF SetLive, Matches, Demand
    <2> QED
      BY <1>1, <2>1, Hook, BringsLeft
  <1> QED
    BY <1>3, <1>4, <1>5, <1>6, <1>7

LEMMA UpdateFailsStep ==
  ASSUME LiveInv, NEW p \in Party, UpdateFails(p)
  PROVE  LiveInv'
  <1> USE DEF LiveInv
  <1>1. /\ delivery[p].step = "updating"
        /\ UNCHANGED <<phase, leases, live, liveDemand, liveFailure, hasUpdate, closed,
                       reason, rolledBack>>
    BY DEF UpdateFails, In, closeVars, cellVars
  <1>2. PICK failed \in BOOLEAN :
          Stop(p, delivery[p].resource, delivery[p].demand, "start", failed)
    BY Zenon DEF UpdateFails
  <1>3. UNCHANGED <<resource, starts>>
    BY <1>2 DEF Stop, resourceVars
  <1>4. PICK d \in Delivery :
          /\ Enters(p, d) /\ d.step = "stopping" /\ d.then = "start"
          /\ d.resource = delivery[p].resource /\ d.demand = delivery[p].demand
    <2> DEFINE r == delivery[p].resource
               demand == delivery[p].demand
    <2>1. r \in LiveResourceState /\ demand \in SUBSET Scope /\ "start" \in {"end", "start", "free"}
      BY <1>1, Hook
    <2>2. Stop(p, r, demand, "start", failed)
      BY <1>2
    <2> HIDE DEF r, demand
    <2>3. \E d \in Delivery :
            Enters(p, d) /\ d.step = "stopping" /\ d.resource = r /\ d.demand = demand
              /\ d.then = "start"
      BY <2>1, <2>2, StopSays
    <2> QED
      BY <2>3 DEF r, demand
  <1>5. TypeOK'
    <2>1. DataTypes'
      BY <1>1, <1>3, TypeParts DEF DataTypes
    <2> QED
      BY <1>4, <2>1, EnterTypes, NextTypeParts DEF Enters
  <1>6. Permit'
    BY <1>1, <1>4, Hook, EnterPermit DEF Enters
  <1>7. Closing'
    BY <1>1, <1>4, Hook, ClosingEntered, Parties
  <1>8. Serial'
    BY <1>1, <1>3, <1>4, Hook, SerialEntered
  <1>9. Brings'
    <2>1. ~closed => /\ d.demand = Demand(leases)' /\ \A o \in Op : p # Handler(o)
                     /\ \A q \in Party : q # p => delivery[q].step = "none"
      BY <1>1, <1>4, Hook, Parties DEF Demand
    <2> QED
      BY <1>1, <1>4, <2>1, BringsEntered
  <1> QED
    BY <1>5, <1>6, <1>7, <1>8, <1>9

LEMMA StopEndsStep ==
  ASSUME LiveInv, NEW p \in Party, StopEnds(p)
  PROVE  LiveInv'
  <1> USE DEF LiveInv
  <1> DEFINE stopped == [resource EXCEPT ![delivery[p].resource] = "stopped"]
             then == delivery[p].then
  <1>1. /\ delivery[p].step = "stopping"
        /\ UNCHANGED <<leases, hasUpdate, closed, reason, rolledBack>>
        /\ \E failed \in BOOLEAN : SetLive(0, {}, failed)
    BY DEF StopEnds, In, closeVars
  <1>2. \/ /\ then = "start" /\ UNCHANGED phase
           /\ \E failed \in BOOLEAN : Start(p, delivery[p].demand, failed, stopped)
        \/ then = "end" /\ resource' = stopped /\ Leave(p) /\ UNCHANGED <<phase, starts>>
        \/ then = "free" /\ resource' = stopped /\ phase' = "Idle" /\ Leave(p) /\ UNCHANGED starts
    <2>1. PICK failed \in BOOLEAN :
            \/ /\ then = "start" /\ UNCHANGED phase
               /\ Start(p, delivery[p].demand, failed \/ delivery[p].failed, stopped)
            \/ then = "end" /\ resource' = stopped /\ Leave(p) /\ UNCHANGED <<phase, starts>>
            \/ then = "free" /\ resource' = stopped /\ phase' = "Idle" /\ Leave(p)
                 /\ UNCHANGED starts
      BY DEF StopEnds
    <2>2. (failed \/ delivery[p].failed) \in BOOLEAN
      OBVIOUS
    <2> QED
      BY <2>1, <2>2, Zenon
  <1> HIDE DEF Leave
  <1>3. /\ stopped \in [Resource -> Fates]
        /\ \A r \in Resource : stopped[r] = "running" =>
             resource[r] = "running" /\ r # delivery[p].resource
    BY DEF TypeOK, Fates
  <1>4. /\ live' \in LiveResourceState /\ liveDemand' \subseteq Scope /\ liveFailure' \in BOOLEAN
        /\ phase = "Ready" => live' = 0
    <2> 0 \in LiveResourceState
      BY ParameterAssumption DEF LiveResourceState
    <2> QED
      BY <1>1 DEF SetLive, TypeOK
  <1>5. DataTypes
    BY TypeParts
  <1>6. ~rolledBack => \A r \in Resource : stopped[r] # "running"
    BY <1>1, <1>3, Hook
  <1> HIDE DEF stopped
  <1>7. CASE then # "start"
    <2>1. Leave(p) /\ UNCHANGED starts /\ resource' = stopped
      BY <1>2, <1>7
    <2>2. phase' = phase \/ (then = "free" /\ phase' = "Idle")
      BY <1>2, <1>7
    <2>3. DataTypes'
      BY <1>1, <1>3, <1>4, <1>5, <2>1, <2>2 DEF DataTypes
    <2>4. TypeOK'
      BY <2>1, <2>3, LeaveTypes, NextTypeParts
    <2>5. Permit'
      BY <1>1, <2>1, Hook, LeavePermit
    <2>6. Closing'
      BY <1>1, <2>1, <2>2, Hook, ClosingLeft, Parties
    <2>7. Serial'
      BY <1>1, <1>6, <2>1, <2>2, Hook, SerialLeft
    <2>8. Brings'
      <3>1. ~closed /\ phase' = "Ready" => Matches'
        <4> SUFFICES ASSUME ~closed, phase' = "Ready" PROVE Matches'
          OBVIOUS
        <4>1. phase = "Ready" /\ then = "end"
          BY <1>2, <1>7
        <4>2. Demand(leases) = {} /\ live' = 0
          BY <1>1, <1>4, <4>1, Hook
        <4> QED
          BY <1>1, <4>2 DEF Matches, Demand
      <3> QED
        BY <1>1, <2>1, <3>1, Hook, BringsLeft
    <2> QED
      BY <2>4, <2>5, <2>6, <2>7, <2>8
  <1>8. CASE then = "start"
    <2> DEFINE demand == delivery[p].demand
    <2>1. PICK failed \in BOOLEAN : Start(p, demand, failed, stopped)
      BY <1>2, <1>8
    <2>2. UNCHANGED phase
      BY <1>2, <1>8
    <2>3. demand \in SUBSET Scope
      BY <1>1, Hook
    <2>4. ~closed => demand = Demand(leases)
      BY <1>1, <1>8, Hook
    <2> HIDE DEF demand
    <2>5. PICK d \in Delivery :
            Enters(p, d) /\ d.step = "starting" /\ d.resource # 0 /\ d.demand = demand
      BY <2>1, <2>3, StartSays
    <2>6. Starting(stopped)
      BY <2>1, <2>3, StartSays
    <2>7. PICK r0 \in Resource : resource' = [stopped EXCEPT ![r0] = "starting"]
      BY <2>6 DEF Starting
    <2>8. resource' \in [Resource -> Fates]
          /\ \A r \in Resource : resource'[r] = "running" => stopped[r] = "running"
      BY <1>3, <2>7 DEF Fates
    <2>9. DataTypes'
      BY <1>1, <1>4, <1>5, <2>2, <2>6, <2>8 DEF DataTypes, Starting
    <2>10. TypeOK'
      BY <2>5, <2>9, EnterTypes, NextTypeParts DEF Enters
    <2>11. Permit'
      BY <1>1, <2>5, Hook, EnterPermit DEF Enters
    <2>12. Closing'
      BY <1>1, <2>2, <2>5, Hook, ClosingEntered, Parties
    <2>13. Serial'
      BY <1>1, <1>4, <1>6, <2>2, <2>5, <2>8, Hook, SerialEntered
    <2>14. Brings'
      <3>1. ~closed => /\ d.demand = Demand(leases)' /\ \A o \in Op : p # Handler(o)
                       /\ \A q \in Party : q # p => delivery[q].step = "none"
        BY <1>1, <2>4, <2>5, Hook, Parties DEF Demand
      <3> QED
        BY <1>1, <2>5, <3>1, BringsEntered
    <2> QED
      BY <2>10, <2>11, <2>12, <2>13, <2>14
  <1> QED
    BY <1>7, <1>8

\* Nothing but the fate of an abandoned start and the failure shown changes.
LEMMA AbandonedStep ==
  ASSUME LiveInv, NEW r \in Resource, OrphanAnswers(r) \/ DetachedStopEnds(r)
  PROVE  LiveInv'
  <1> USE DEF LiveInv
  <1>1. /\ UNCHANGED <<phase, leases, live, liveDemand, hasUpdate, starts, delivery, pc, handler,
                       holder, closed, reason, rolledBack>>
        /\ liveFailure' \in BOOLEAN /\ (liveFailure => liveFailure')
        /\ resource[r] \in {"orphan", "detached"}
        /\ \E fate \in {"failed", "detached", "stopped"} : resource' = [resource EXCEPT ![r] = fate]
    BY DEF OrphanAnswers, DetachedStopEnds, cellVars, actorVars, closeVars, TypeOK
  <1>2. /\ resource' \in [Resource -> Fates]
        /\ \A q \in Resource : resource'[q] = "running" <=> resource[q] = "running"
    BY <1>1 DEF TypeOK, Fates
  <1>3. TypeOK'
    <2>1. DataTypes'
      BY <1>1, <1>2, TypeParts DEF DataTypes
    <2>2. ActorTypes'
      BY <1>1, TypeParts DEF ActorTypes
    <2> QED
      BY <2>1, <2>2, NextTypeParts
  <1>4. Permit' /\ Closing'
    BY <1>1 DEF Permit, Closing, Claimed, Live
  <1>5. Serial'
    BY <1>1, <1>2 DEF Serial
  <1>6. Brings'
    <2>1. live \in Resource \/ live = 0
      BY ParameterAssumption DEF TypeOK, LiveResourceState, Resource
    <2>2. live # 0 /\ resource[live] = "running" => resource'[live] = "running"
      BY <1>2, <2>1
    <2>3. Matches => Matches'
      BY <1>1, <2>2 DEF Matches, Demand
    <2> QED
      BY <1>1, <2>2, <2>3 DEF Brings, Demand
  <1> QED
    BY <1>3, <1>4, <1>5, <1>6

LEMMA SubmitStep ==
  ASSUME LiveInv, NEW o \in Op, Submit(o)
  PROVE  LiveInv'
  <1> USE DEF LiveInv
  <1>1. /\ ~closed /\ pc[o] = "none" /\ pc' = [pc EXCEPT ![o] = "queued"]
        /\ UNCHANGED <<phase, leases, live, liveDemand, liveFailure, hasUpdate, resource, starts,
                       delivery, handler, holder, closed, reason, rolledBack>>
    BY DEF Submit, cellVars, resourceVars, closeVars
  <1>2. /\ pc' \in [Op -> {"none", "queued", "acquiring", "delivering", "done"}]
        /\ \A q \in Op : /\ pc'[q] = "acquiring" <=> pc[q] = "acquiring"
                         /\ pc'[q] = "delivering" <=> pc[q] = "delivering"
    BY <1>1 DEF TypeOK
  <1>3. TypeOK'
    <2>1. DataTypes'
      BY <1>1, TypeParts DEF DataTypes
    <2>2. ActorTypes'
      BY <1>1, <1>2, TypeParts DEF ActorTypes
    <2> QED
      BY <2>1, <2>2, NextTypeParts
  <1>4. Permit'
    BY <1>1, <1>2 DEF Permit
  <1>5. Closing'
    BY <1>1 DEF Closing
  <1>6. Serial'
    BY <1>1, <1>2 DEF Serial
  <1>7. Brings'
    BY <1>1 DEF Brings, Matches, Demand
  <1> QED
    BY <1>3, <1>4, <1>5, <1>6, <1>7

LEMMA CloseStep ==
  ASSUME LiveInv, NEW why \in CloseReasons, Close(why)
  PROVE  LiveInv'
  <1> USE DEF LiveInv
  <1>1. /\ ~closed /\ closed' = TRUE /\ reason' = why
        /\ UNCHANGED <<phase, leases, live, liveDemand, liveFailure, hasUpdate, resource, starts,
                       delivery, pc, handler, holder, rolledBack>>
    BY DEF Close, cellVars, resourceVars, actorVars
  <1>2. TypeOK'
    <2>1. DataTypes'
      BY <1>1, TypeParts, ParameterAssumption DEF DataTypes
    <2>2. ActorTypes'
      BY <1>1, TypeParts DEF ActorTypes
    <2> QED
      BY <2>1, <2>2, NextTypeParts
  <1>3. Permit' /\ Closing' /\ Serial' /\ Brings'
    BY <1>1 DEF Permit, Closing, Serial, Brings
  <1> QED
    BY <1>2, <1>3

LEMMA InvalidateStep ==
  ASSUME LiveInv, Invalidate
  PROVE  LiveInv'
  <1> USE DEF LiveInv
  <1>1. /\ closed /\ reason = "invalidate" /\ Claimed
        /\ phase' = "Invalid" /\ live' = 0 /\ liveDemand' = {} /\ reason' = "closed"
        /\ UNCHANGED <<leases, liveFailure, hasUpdate, resource, starts, delivery, pc, handler,
                       holder, closed, rolledBack>>
    BY DEF Invalidate, resourceVars, actorVars
  <1>2. holder = "nobody"
    BY <1>1 DEF Claimed, Live, Permit, Closing, TypeOK
  <1>3. TypeOK'
    <2>1. 0 \in LiveResourceState
      BY ParameterAssumption DEF LiveResourceState
    <2>2. DataTypes'
      BY <1>1, <2>1, TypeParts DEF DataTypes
    <2>3. ActorTypes'
      BY <1>1, TypeParts DEF ActorTypes
    <2> QED
      BY <2>2, <2>3, NextTypeParts
  <1>4. Permit'
    BY <1>1 DEF Permit
  <1>5. Closing'
    BY <1>1, <1>2 DEF Closing, Claimed, Live
  <1>6. Serial' /\ Brings'
    BY <1>1 DEF Serial, Brings
  <1> QED
    BY <1>3, <1>4, <1>5, <1>6

LEMMA WorkerInterruptedStep ==
  ASSUME LiveInv, NEW o \in Op, WorkerInterrupted(o)
  PROVE  LiveInv'
  <1> USE DEF LiveInv
  <1>1. /\ handler[o] = "done" /\ Live(o)
        /\ delivery' = [delivery EXCEPT ![Worker(o)] = NoDelivery]
        /\ pc' = [pc EXCEPT ![o] = "done"]
        /\ holder' = IF holder = o THEN "nobody" ELSE holder
        /\ UNCHANGED <<phase, leases, live, liveDemand, liveFailure, hasUpdate, starts, handler,
                       closed, reason, rolledBack>>
    BY DEF WorkerInterrupted, cellVars, closeVars
  <1>2. \/ UNCHANGED resource
        \/ resource' = [resource EXCEPT ![delivery[Worker(o)].resource] = "orphan"]
    BY DEF WorkerInterrupted
  <1>3. /\ resource' \in [Resource -> Fates]
        /\ \A r \in Resource : resource'[r] = "running" => resource[r] = "running"
    BY <1>2 DEF TypeOK, Fates
  <1>4. closed /\ phase # "Invalid"
    BY <1>1 DEF Closing, Claimed
  <1>5. /\ delivery' \in [Party -> Delivery]
        /\ \A q \in Party : delivery'[q] = IF q = Worker(o) THEN NoDelivery ELSE delivery[q]
    <2>1. NoDelivery \in Delivery
      BY ParameterAssumption DEF NoDelivery, Delivery, LiveResourceState
    <2> QED
      BY <1>1, <2>1 DEF TypeOK
  <1>6. /\ pc' \in [Op -> {"none", "queued", "acquiring", "delivering", "done"}]
        /\ \A q \in Op : pc'[q] = IF q = o THEN "done" ELSE pc[q]
    BY <1>1 DEF TypeOK
  <1>7. TypeOK'
    <2>1. DataTypes'
      BY <1>1, <1>3, TypeParts DEF DataTypes
    <2>2. ActorTypes'
      BY <1>1, <1>5, <1>6, TypeParts DEF ActorTypes
    <2> QED
      BY <2>1, <2>2, NextTypeParts
  <1>8. Permit'
    <2>1. /\ delivery'[Closer] = delivery[Closer]
          /\ \A q \in Op : /\ delivery'[Handler(q)] = delivery[Handler(q)]
                           /\ delivery'[Worker(q)] =
                                IF q = o THEN NoDelivery ELSE delivery[Worker(q)]
      BY <1>5, Parties
    <2> QED
      BY <1>1, <1>6, <2>1, NoStep, OpAssumption DEF Permit
  <1>9. Closing'
    BY <1>1, <1>4, OpAssumption DEF Closing
  <1>10. Serial'
    <2>1. \A q \in Party : delivery'[q].step = "none" \/ delivery'[q] = delivery[q]
      BY <1>5, NoStep
    <2> QED
      BY <1>1, <1>3, <1>6, <2>1 DEF Serial
  <1>11. Brings'
    BY <1>1, <1>4 DEF Brings
  <1> QED
    BY <1>7, <1>8, <1>9, <1>10, <1>11

-----------------------------------------------------------------------------
(* Operations *)

\* What is known when the permit is free and the actor is open.
LEMMA Resting ==
  ASSUME LiveInv, holder = "nobody", ~closed
  PROVE  /\ ~rolledBack /\ reason = "none" /\ phase # "Invalid"
         /\ \A o \in Op : Turn(Worker(o)) /\ handler[o] # "running" /\ pc[o] # "acquiring"
         /\ \A p \in Party : delivery[p].step = "none"
         /\ \A r \in Resource : resource[r] = "running" => phase = "Ready" /\ live = r
         /\ phase = "Ready" => Matches
  <1>1. TypeOK /\ Permit /\ Closing /\ Serial /\ Brings
    BY DEF LiveInv
  <1>2. ~rolledBack /\ reason = "none" /\ phase # "Invalid"
    BY <1>1 DEF Closing
  <1>3. \A o \in Op : Turn(Worker(o))
    BY DEF Turn
  <1>4. /\ \A p \in Party : delivery[p].step = "none"
        /\ \A o \in Op : pc[o] # "acquiring"
    BY <1>1, <1>2, Alone
  <1>5. /\ \A o \in Op : handler[o] # "running"
        /\ \A r \in Resource : resource[r] = "running" => phase = "Ready" /\ live = r
    BY <1>1, <1>2 DEF Serial
  <1>6. phase = "Ready" => Matches
    BY <1>1 DEF Brings
  <1> QED
    BY <1>2, <1>3, <1>4, <1>5, <1>6

\* A change of leases by the worker of an operation.
LEMMA WorkerChangesLeases ==
  ASSUME LiveInv, NEW o \in Op, holder = "nobody", ~closed, NEW some \in SUBSET Lease,
         ChangeLeases(Worker(o), some),
         UNCHANGED <<phase, live, liveDemand, hasUpdate, closed, reason, rolledBack>>
  PROVE  LiveInv'
  <1> USE DEF LiveInv
  <1> DEFINE p == Worker(o)
  <1>1. p \in Party /\ Demand(some) \in SUBSET Scope
    BY Parties DEF Demand, Scope
  <1>2. leases' = some /\ Demand(leases)' = Demand(some)
    BY DEF ChangeLeases, Demand
  <1>3. \A q \in Op : p # Handler(q)
    BY Parties
  <1>4. p # Closer
    BY Parties
  <1>5. Turn(p)
    BY Resting
  <1> HIDE DEF p
  <1>6. CASE Demand(some) = Demand(leases)
    <2>1. Leave(p) /\ UNCHANGED <<resource, starts, liveFailure>>
      BY <1>6 DEF ChangeLeases, resourceVars, p
    <2> HIDE DEF Leave
    <2>2. TypeOK'
      <3>1. DataTypes'
        BY <1>2, <2>1, TypeParts DEF DataTypes
      <3> QED
        BY <1>1, <2>1, <3>1, LeaveTypes, NextTypeParts
    <2>3. Permit'
      BY <1>1, <1>5, <2>1, LeavePermit
    <2>4. Closing'
      BY <1>1, <1>3, <2>1, Resting, ClosingLeft
    <2>5. Serial'
      BY <1>1, <2>1, Resting, SerialLeft
    <2>6. Brings'
      <3>1. phase = "Ready" => Matches'
        BY <1>2, <1>6, <2>1, Resting DEF Matches
      <3> QED
        BY <1>1, <2>1, <3>1, Resting, BringsLeft
    <2> QED
      BY <2>2, <2>3, <2>4, <2>5, <2>6
  <1>7. CASE Demand(some) # Demand(leases)
    <2> DEFINE demand == Demand(some)
    <2>1. PICK isReady \in BOOLEAN : /\ isReady <=> phase = "Ready"
                                     /\ Deliver(p, demand, isReady, live, liveDemand)
      BY <1>7, Zenon DEF ChangeLeases, p
    <2>2. demand \in SUBSET Scope /\ Demand(leases)' = demand /\ demand # Demand(leases)
      BY <1>1, <1>2, <1>7
    <2> HIDE DEF demand
    <2>3. liveFailure' \in BOOLEAN
      BY <1>1, <2>1, <2>2, DeliverSays
    <2>4. CASE /\ Leave(p) /\ UNCHANGED <<resource, starts>>
               /\ \/ ~isReady
                  \/ demand = {} /\ live = 0
                  \/ demand # {} /\ live # 0 /\ liveDemand = demand
      <3> HIDE DEF Leave
      <3>1. TypeOK'
        <4>1. DataTypes'
          BY <1>2, <2>3, <2>4, TypeParts DEF DataTypes
        <4> QED
          BY <1>1, <2>4, <4>1, LeaveTypes, NextTypeParts
      <3>2. Permit'
        BY <1>1, <1>5, <2>4, LeavePermit
      <3>3. Closing'
        BY <1>1, <1>3, <2>4, Resting, ClosingLeft
      <3>4. Serial'
        BY <1>1, <2>4, Resting, SerialLeft
      <3>5. Brings'
        <4>1. phase = "Ready" => Matches'
          BY <2>1, <2>2, <2>4, Resting DEF Matches
        <4> QED
          BY <1>1, <2>4, <4>1, Resting, BringsLeft
      <3> QED
        BY <3>1, <3>2, <3>3, <3>4, <3>5
    <2>5. ASSUME NEW d \in Delivery, Enters(p, d), isReady,
                 \/ /\ d.step = "starting" /\ live = 0 /\ d.resource # 0 /\ d.demand = demand
                    /\ Starting(resource)
                 \/ /\ d.step = "updating" /\ live # 0 /\ d.resource = live /\ d.demand = demand
                    /\ UNCHANGED <<resource, starts>>
                 \/ /\ d.step = "stopping" /\ d.resource = live
                    /\ d.then = "end" => demand = {}
                    /\ d.then = "start" => d.demand = demand
                    /\ d.then # "free"
                    /\ UNCHANGED <<resource, starts>>
          PROVE  LiveInv'
      <3>1. /\ starts' \in 0..MaxStarts /\ resource' \in [Resource -> Fates]
            /\ \A r \in Resource : resource'[r] = "running" => resource[r] = "running"
        BY <2>5 DEF Starting, TypeOK, Fates
      <3>2. d.step \in {"starting", "updating", "stopping"} /\ d.step # "none"
        BY <2>5
      <3>3. phase = "Ready"
        BY <2>1, <2>5
      <3>4. TypeOK'
        <4>1. DataTypes'
          BY <1>2, <2>3, <3>1, TypeParts DEF DataTypes
        <4> QED
          BY <1>1, <2>5, <4>1, EnterTypes, NextTypeParts DEF Enters
      <3>5. Permit'
        BY <1>1, <1>5, <2>5, <3>2, EnterPermit DEF Enters
      <3>6. Closing'
        BY <1>1, <1>3, <1>4, <2>5, Resting, ClosingEntered
      <3>7. Serial'
        BY <1>1, <1>3, <2>5, <3>1, <3>3, Resting, SerialEntered
      <3>8. Brings'
        <4>1. /\ d.step = "starting" => d.demand = Demand(leases)' /\ d.resource # 0
              /\ d.step = "stopping" /\ d.then = "end" => Demand(leases)' = {}
              /\ d.step = "stopping" /\ d.then = "start" => d.demand = Demand(leases)'
          BY <2>2, <2>5
        <4>2. d.step = "updating" =>
                d.demand = Demand(leases)' /\ live' # 0 /\ resource'[live'] = "running"
          BY <2>2, <2>5, <3>3, Resting DEF Matches
        <4> QED
          BY <1>1, <1>3, <2>5, <4>1, <4>2, Resting, BringsEntered
      <3> QED
        BY <3>4, <3>5, <3>6, <3>7, <3>8
    <2> QED
      BY <1>1, <2>1, <2>2, <2>4, <2>5, DeliverSays
  <1> QED
    BY <1>6, <1>7

LEMMA LeaseStep ==
  ASSUME LiveInv, NEW o \in Op, AcquireLiveLease(o) \/ ReleaseLiveLease(o)
  PROVE  LiveInv'
  <1>1. /\ holder = "nobody" /\ ~closed /\ KindOf[o] \in {"hold", "drop"}
        /\ UNCHANGED <<phase, live, liveDemand, hasUpdate, closed, reason, rolledBack>>
    BY DEF AcquireLiveLease, ReleaseLiveLease, Begins, closeVars
  <1>2. LeaseOf[o] \in Lease /\ leases \in SUBSET Lease
    BY <1>1, OpAssumption DEF LiveInv, TypeOK
  <1>3. CASE ChangeLeases(Worker(o), leases \cup {LeaseOf[o]})
    <2> DEFINE some == leases \cup {LeaseOf[o]}
    <2>1. some \in SUBSET Lease /\ ChangeLeases(Worker(o), some)
      BY <1>2, <1>3
    <2> HIDE DEF some
    <2> QED
      BY <1>1, <2>1, WorkerChangesLeases
  <1>4. CASE ChangeLeases(Worker(o), leases \ {LeaseOf[o]})
    <2> DEFINE some == leases \ {LeaseOf[o]}
    <2>1. some \in SUBSET Lease /\ ChangeLeases(Worker(o), some)
      BY <1>2, <1>4
    <2> HIDE DEF some
    <2> QED
      BY <1>1, <2>1, WorkerChangesLeases
  <1> QED
    BY <1>3, <1>4 DEF AcquireLiveLease, ReleaseLiveLease

LEMMA ReadinessStep ==
  ASSUME LiveInv, NEW o \in Op, ReadinessRead(o)
  PROVE  LiveInv'
  <1> USE DEF LiveInv
  <1> DEFINE p == Worker(o)
  <1>1. /\ holder = "nobody" /\ ~closed
        /\ UNCHANGED <<phase, leases, live, liveDemand, liveFailure, hasUpdate, resource, starts,
                       closed, reason, rolledBack>>
    BY DEF ReadinessRead, Begins, cellVars, resourceVars, closeVars
  <1>2. p \in Party /\ Turn(p) /\ \A q \in Op : p # Handler(q)
    BY <1>1, Parties, Resting
  <1>3. DataTypes'
    BY <1>1, TypeParts DEF DataTypes
  <1> HIDE DEF p
  <1>4. CASE phase # "Idle"
    <2>1. Leave(p)
      BY <1>4 DEF ReadinessRead, p
    <2> HIDE DEF Leave
    <2>2. TypeOK'
      BY <1>2, <1>3, <2>1, LeaveTypes, NextTypeParts
    <2>3. Permit'
      BY <1>2, <2>1, LeavePermit
    <2>4. Closing'
      BY <1>1, <1>2, <2>1, Resting, ClosingLeft
    <2>5. Serial'
      BY <1>1, <1>2, <2>1, Resting, SerialLeft
    <2>6. Brings'
      <3>1. phase = "Ready" => Matches'
        BY <1>1, Resting DEF Matches, Demand
      <3> QED
        BY <1>1, <1>2, <2>1, <3>1, Resting, BringsLeft
    <2> QED
      BY <2>2, <2>3, <2>4, <2>5, <2>6
  <1>5. CASE phase = "Idle"
    <2>1. /\ holder' = o /\ pc' = [pc EXCEPT ![o] = "acquiring"]
          /\ UNCHANGED <<handler, delivery>>
      BY <1>5 DEF ReadinessRead
    <2>2. /\ pc' \in [Op -> {"none", "queued", "acquiring", "delivering", "done"}]
          /\ \A q \in Op : pc'[q] = IF q = o THEN "acquiring" ELSE pc[q]
      BY <2>1 DEF TypeOK
    <2>3. TypeOK'
      <3>1. ActorTypes'
        BY <2>1, <2>2, TypeParts DEF ActorTypes
      <3> QED
        BY <1>3, <3>1, NextTypeParts
    <2>4. pc[o] # "delivering"
      BY <1>1, OpAssumption DEF Permit
    <2>5. Permit'
      BY <1>1, <2>1, <2>2, <2>4, OpAssumption DEF Permit
    <2>6. Closing'
      BY <1>1, <1>5, <2>1, OpAssumption DEF Closing
    <2>7. Serial'
      BY <1>1, <1>5, <2>1, <2>2 DEF Serial
    <2>8. Brings'
      BY <1>1, <1>5 DEF Brings
    <2> QED
      BY <2>3, <2>5, <2>6, <2>7, <2>8
  <1> QED
    BY <1>4, <1>5

\* The driver acquires: nothing runs, and only its worker is in a hook.
LEMMA Acquiring ==
  ASSUME LiveInv, NEW o \in Op, pc[o] = "acquiring"
  PROVE  /\ holder = o /\ phase # "Invalid" /\ Turn(Worker(o))
         /\ ~closed => ~rolledBack /\ reason = "none"
         /\ ~rolledBack =>
              /\ phase = "Idle"
              /\ \A q \in Op : handler[q] # "running"
              /\ \A q \in Op : pc[q] = "acquiring" => Worker(o) = Worker(q)
              /\ \A q \in Party : delivery[q].step = "none"
              /\ \A r \in Resource : resource[r] # "running"
  <1>1. TypeOK /\ Permit /\ Closing /\ Serial
    BY DEF LiveInv
  <1>2. holder = o
    BY <1>1 DEF Permit
  <1>3. phase # "Invalid"
    BY <1>1, <1>2, OpAssumption DEF Closing
  <1>4. Turn(Worker(o))
    BY <1>2 DEF Turn
  <1>5. ~closed => ~rolledBack /\ reason = "none"
    BY <1>1 DEF Closing
  <1>6. ~rolledBack => /\ phase = "Idle" /\ \A q \in Op : handler[q] # "running"
                       /\ \A r \in Resource : resource[r] # "running"
    BY <1>1, <1>3 DEF Serial
  <1>7. ~rolledBack => /\ \A q \in Op : pc[q] = "acquiring" => Worker(o) = Worker(q)
                       /\ \A q \in Party : delivery[q].step = "none"
    <2>1. \A q \in Op : pc[q] = "acquiring" => o = q
      BY <1>1, <1>2 DEF Permit
    <2> QED
      BY <1>1, <1>3, <2>1, Alone
  <1> QED
    BY <1>2, <1>3, <1>4, <1>5, <1>6, <1>7

LEMMA AcquireFailsStep ==
  ASSUME LiveInv, NEW o \in Op, AcquireFails(o)
  PROVE  LiveInv'
  <1> USE DEF LiveInv
  <1> DEFINE p == Worker(o)
  <1>1. /\ pc[o] = "acquiring" /\ Leave(p)
        /\ UNCHANGED <<phase, leases, live, liveDemand, liveFailure, hasUpdate, resource, starts,
                       closed, reason, rolledBack>>
    BY DEF AcquireFails, cellVars, resourceVars, closeVars
  <1>2. p \in Party /\ Turn(p) /\ \A q \in Op : p # Handler(q)
    BY <1>1, Parties, Acquiring
  <1>3. DataTypes'
    BY <1>1, TypeParts DEF DataTypes
  <1>4. ~rolledBack => \A q \in Op : pc[q] = "acquiring" => p = Worker(q)
    BY <1>1, Acquiring
  <1> HIDE DEF p, Leave
  <1>5. TypeOK'
    BY <1>1, <1>2, <1>3, LeaveTypes, NextTypeParts
  <1>6. Permit'
    BY <1>1, <1>2, LeavePermit
  <1>7. Closing'
    BY <1>1, <1>2, Acquiring, ClosingLeft
  <1>8. Serial'
    BY <1>1, <1>2, <1>4, Acquiring, SerialLeft
  <1>9. Brings'
    BY <1>1, <1>2, Acquiring, BringsLeft
  <1> QED
    BY <1>5, <1>6, <1>7, <1>8, <1>9

LEMMA AcquireSucceedsStep ==
  ASSUME LiveInv, NEW o \in Op, AcquireSucceeds(o)
  PROVE  LiveInv'
  <1> USE DEF LiveInv
  <1> DEFINE p == Worker(o)
             demand == Demand(leases)
  <1>1. /\ pc[o] = "acquiring" /\ phase' = "Ready" /\ live' = 0 /\ liveDemand' = {}
        /\ liveFailure' = FALSE
        /\ UNCHANGED <<leases, hasUpdate, closed, reason, rolledBack>>
    BY DEF AcquireSucceeds, closeVars
  <1>2. /\ p \in Party /\ Turn(p) /\ p # Closer /\ \A q \in Op : p # Handler(q)
        /\ 0 \in LiveResourceState
    BY <1>1, Parties, Acquiring, ParameterAssumption DEF LiveResourceState
  <1>3. ~rolledBack => \A q \in Op : pc[q] = "acquiring" => p = Worker(q)
    BY <1>1, Acquiring
  <1>4. demand \in SUBSET Scope /\ Demand(leases)' = demand
    BY <1>1 DEF Demand, Scope, TypeOK
  <1>5. \/ demand = {} /\ Leave(p) /\ UNCHANGED <<resource, starts>>
        \/ \E failed \in BOOLEAN : Start(p, demand, failed, resource)
    BY Zenon DEF AcquireSucceeds, resourceVars
  <1> HIDE DEF p, Leave, demand
  <1>6. CASE demand = {} /\ Leave(p) /\ UNCHANGED <<resource, starts>>
    <2>1. TypeOK'
      <3>1. DataTypes'
        BY <1>1, <1>2, <1>6, TypeParts DEF DataTypes
      <3> QED
        BY <1>2, <1>6, <3>1, LeaveTypes, NextTypeParts
    <2>2. Permit'
      BY <1>2, <1>6, LeavePermit
    <2>3. Closing'
      BY <1>1, <1>2, <1>6, Acquiring, ClosingLeft
    <2>4. Serial'
      BY <1>1, <1>2, <1>3, <1>6, Acquiring, SerialLeft
    <2>5. Brings'
      <3>1. Matches'
        BY <1>1, <1>4, <1>6 DEF Matches
      <3> QED
        BY <1>1, <1>2, <1>6, <3>1, Acquiring, BringsLeft
    <2> QED
      BY <2>1, <2>2, <2>3, <2>4, <2>5
  <1>7. ASSUME NEW failed \in BOOLEAN, Start(p, demand, failed, resource)
        PROVE  LiveInv'
    <2>1. PICK d \in Delivery :
            Enters(p, d) /\ d.step = "starting" /\ d.resource # 0 /\ d.demand = demand
      BY <1>2, <1>4, <1>7, StartSays
    <2>2. Starting(resource)
      BY <1>2, <1>4, <1>7, StartSays
    <2>3. /\ starts' \in 0..MaxStarts /\ resource' \in [Resource -> Fates]
          /\ \A r \in Resource : resource'[r] = "running" => resource[r] = "running"
      BY <2>2 DEF Starting, TypeOK, Fates
    <2>4. TypeOK'
      <3>1. DataTypes'
        BY <1>1, <1>2, <2>3, TypeParts DEF DataTypes
      <3> QED
        BY <1>2, <2>1, <3>1, EnterTypes, NextTypeParts DEF Enters
    <2>5. Permit'
      BY <1>2, <2>1, EnterPermit DEF Enters
    <2>6. Closing'
      BY <1>1, <1>2, <2>1, Acquiring, ClosingEntered
    <2>7. Serial'
      BY <1>1, <1>2, <1>3, <2>1, <2>3, Acquiring, SerialEntered
    <2>8. Brings'
      BY <1>1, <1>2, <1>4, <2>1, Acquiring, BringsEntered
    <2> QED
      BY <2>4, <2>5, <2>6, <2>7, <2>8
  <1> QED
    BY <1>5, <1>6, <1>7

\* Release by the worker of an operation, and by the closer.
LEMMA ReleaseSteps ==
  ASSUME LiveInv, NEW p \in Party, holder = "nobody", Release(p), Turn(p), phase # "Invalid",
         \/ ~closed /\ UNCHANGED reason /\ p # Closer
         \/ closed /\ reason' = "closed" /\ Claimed,
         \A q \in Op : p # Handler(q),
         UNCHANGED <<leases, liveFailure, hasUpdate, closed, rolledBack>>
  PROVE  LiveInv'
  <1> USE DEF LiveInv
  <1>1. ~closed => ~rolledBack /\ reason = "none"
    BY DEF Closing
  <1>2. ~rolledBack => /\ \A q \in Op : handler[q] # "running" /\ pc[q] # "acquiring"
                       /\ \A q \in Party : delivery[q].step = "none"
                       /\ \A r \in Resource :
                            resource[r] = "running" => phase = "Ready" /\ live = r
    BY Alone DEF Serial
  <1>3. CASE phase = "Ready" /\ live # 0
    <2>1. PICK failed \in BOOLEAN : Stop(p, live, {}, "free", failed)
      BY <1>3, Zenon DEF Release
    <2>2. UNCHANGED <<phase, live, liveDemand, resource, starts>>
      BY <1>3, <2>1 DEF Release, Stop, resourceVars
    <2>3. /\ live \in LiveResourceState /\ {} \in SUBSET Scope
          /\ "free" \in {"end", "start", "free"}
      BY DEF TypeOK
    <2>4. PICK d \in Delivery :
            Enters(p, d) /\ d.step = "stopping" /\ d.resource = live /\ d.then = "free"
      BY <2>1, <2>3, StopSays
    <2>5. TypeOK'
      <3>1. DataTypes'
        BY <2>2, TypeParts DEF DataTypes
      <3> QED
        BY <2>4, <3>1, EnterTypes, NextTypeParts DEF Enters
    <2>6. Permit'
      BY <2>4, EnterPermit DEF Enters
    <2>7. Closing'
      BY <1>1, <2>2, <2>4, ClosingEntered
    <2>8. Serial'
      BY <1>2, <1>3, <2>2, <2>4, SerialEntered
    <2>9. Brings'
      BY <1>1, <1>2, <2>2, <2>4, BringsEntered
    <2> QED
      BY <2>5, <2>6, <2>7, <2>8, <2>9
  <1>4. CASE ~(phase = "Ready" /\ live # 0)
    <2>1. /\ phase' = "Idle" /\ Leave(p)
          /\ UNCHANGED <<live, liveDemand, resource, starts>>
      BY <1>4 DEF Release, resourceVars
    <2> HIDE DEF Leave
    <2>2. TypeOK'
      <3>1. reason' \in {"none", "invalidate", "evict", "closed"}
        BY DEF TypeOK
      <3>2. DataTypes'
        BY <2>1, <3>1, TypeParts DEF DataTypes
      <3> QED
        BY <2>1, <3>2, LeaveTypes, NextTypeParts
    <2>3. Permit'
      BY <2>1, LeavePermit
    <2>4. Closing'
      BY <1>1, <2>1, ClosingLeft
    <2>5. Serial'
      <3>1. ~rolledBack => \A r \in Resource : resource'[r] # "running"
        BY <1>2, <1>4, <2>1, ParameterAssumption DEF Resource
      <3> QED
        BY <1>2, <2>1, <3>1, SerialLeft
    <2>6. Brings'
      BY <2>1, BringsLeft
    <2> QED
      BY <2>2, <2>3, <2>4, <2>5, <2>6
  <1> QED
    BY <1>3, <1>4

LEMMA ReleaseNodeStep ==
  ASSUME LiveInv, NEW o \in Op, ReleaseNode(o)
  PROVE  LiveInv'
  <1>1. /\ holder = "nobody" /\ ~closed /\ Release(Worker(o))
        /\ UNCHANGED <<leases, liveFailure, hasUpdate, closed, reason, rolledBack>>
    BY DEF ReleaseNode, Begins, closeVars
  <1> DEFINE p == Worker(o)
  <1>2. /\ p \in Party /\ p # Closer /\ \A q \in Op : p # Handler(q)
        /\ Turn(p) /\ phase # "Invalid" /\ Release(p)
    BY <1>1, Parties, Resting
  <1> HIDE DEF p
  <1> QED
    BY <1>1, <1>2, ReleaseSteps

LEMMA EvictStep ==
  ASSUME LiveInv, Evict
  PROVE  LiveInv'
  <1>1. /\ closed /\ reason = "evict" /\ Claimed /\ holder = "nobody" /\ Release(Closer)
        /\ reason' = "closed"
        /\ UNCHANGED <<leases, liveFailure, hasUpdate, closed, rolledBack>>
    BY DEF Evict
  <1>2. phase # "Invalid"
    BY <1>1 DEF LiveInv, Closing
  <1> DEFINE p == Closer
  <1>3. p \in Party /\ Turn(p) /\ Release(p) /\ \A q \in Op : p # Handler(q)
    BY <1>1, Parties DEF Turn
  <1> HIDE DEF p
  <1> QED
    BY <1>1, <1>2, <1>3, ReleaseSteps

\* A handler takes its lease back beside the worker.
LEMMA HandlerStep ==
  ASSUME LiveInv, NEW o \in Op, HandlerStarts(o)
  PROVE  LiveInv'
  <1> USE DEF LiveInv
  <1> DEFINE p == Handler(o)
  <1>1. /\ closed /\ Live(o) /\ handler[o] = "idle"
        /\ UNCHANGED <<phase, live, liveDemand, hasUpdate, closed, reason>>
    BY DEF HandlerStarts, closeVars
  <1>2. p \in Party /\ p # Closer /\ Turn(p) /\ \A q \in Op : p # Worker(q)
    BY Parties DEF Turn
  <1>3. phase # "Invalid"
    BY <1>1 DEF Closing, Claimed
  <1>4. Brings'
    BY <1>1 DEF Brings
  <1> HIDE DEF p
  <1>5. CASE ~(KindOf[o] = "hold" /\ pc[o] = "delivering")
    <2>1. /\ End(Handler(o))
          /\ UNCHANGED <<leases, liveFailure, resource, starts, delivery, rolledBack>>
      BY <1>5 DEF HandlerStarts, resourceVars
    <2>2. handler' = [handler EXCEPT ![o] = "done"] /\ UNCHANGED <<pc, holder>>
      BY <2>1, Parties DEF End
    <2>3. \A q \in Op : handler'[q] = IF q = o THEN "done" ELSE handler[q]
      BY <2>2 DEF TypeOK
    <2>4. TypeOK'
      <3>1. DataTypes'
        BY <1>1, <2>1, TypeParts DEF DataTypes
      <3>2. ActorTypes'
        BY <2>1, <2>2, TypeParts DEF ActorTypes
      <3> QED
        BY <3>1, <3>2, NextTypeParts
    <2>5. Permit'
      BY <1>1, <2>1, <2>2, <2>3 DEF Permit
    <2>6. Closing'
      BY <1>1, <1>3, <2>1, <2>2 DEF Closing
    <2>7. Serial'
      BY <1>1, <2>1, <2>2, <2>3 DEF Serial
    <2> QED
      BY <1>4, <2>4, <2>5, <2>6, <2>7
  <1>6. CASE KindOf[o] = "hold" /\ pc[o] = "delivering"
    <2> DEFINE some == leases \ {LeaseOf[o]}
    <2>1. /\ ChangeLeases(p, some)
          /\ rolledBack' = (rolledBack \/ Demand(leases') # Demand(leases))
      BY <1>6 DEF HandlerStarts, p
    <2>2. leases' = some /\ some \in SUBSET Lease /\ rolledBack' \in BOOLEAN
          /\ Demand(some) \in SUBSET Scope
      BY <2>1 DEF ChangeLeases, TypeOK, Demand, Scope
    <2>3. ~rolledBack' => ~rolledBack /\ Demand(some) = Demand(leases)
      BY <2>1, <2>2
    <2> HIDE DEF some
    <2>4. CASE Demand(some) = Demand(leases)
      <3>1. Leave(p) /\ UNCHANGED <<resource, starts, liveFailure>>
        BY <2>1, <2>4 DEF ChangeLeases, resourceVars
      <3> HIDE DEF Leave
      <3>2. TypeOK'
        <4>1. DataTypes'
          BY <1>1, <2>2, <3>1, TypeParts DEF DataTypes
        <4> QED
          BY <1>2, <3>1, <4>1, LeaveTypes, NextTypeParts
      <3>3. Permit'
        BY <1>2, <3>1, LeavePermit
      <3>4. Closing'
        BY <1>1, <1>3, <3>1, <1>2, ClosingLeft
      <3>5. Serial'
        <4>1. /\ \A q \in Party : delivery'[q] = IF q = p THEN NoDelivery ELSE delivery[q]
              /\ \A q \in Op : /\ pc'[q] = pc[q]
                               /\ handler'[q] = IF p = Handler(q) THEN "done" ELSE handler[q]
          BY <1>2, <3>1, LeaveSays
        <4>2. \A q \in Party : delivery'[q].step = "none" \/ delivery'[q] = delivery[q]
          BY <4>1, NoStep
        <4> QED
          BY <1>1, <2>3, <3>1, <4>1, <4>2 DEF Serial
      <3> QED
        BY <1>4, <3>2, <3>3, <3>4, <3>5
    <2>5. CASE Demand(some) # Demand(leases)
      <3> DEFINE demand == Demand(some)
      <3>1. PICK isReady \in BOOLEAN : Deliver(p, demand, isReady, live, liveDemand)
        BY <2>1, <2>5, Zenon DEF ChangeLeases
      <3>2. demand \in SUBSET Scope
        BY <2>2
      <3>3. rolledBack'
        BY <2>2, <2>3, <2>5
      <3> HIDE DEF demand
      <3>4. liveFailure' \in BOOLEAN
        BY <1>2, <3>1, <3>2, DeliverSays
      <3>5. Serial'
        BY <3>3 DEF Serial
      <3>6. CASE Leave(p) /\ UNCHANGED <<resource, starts>>
        <4> HIDE DEF Leave
        <4>1. TypeOK'
          <5>1. DataTypes'
            BY <1>1, <2>2, <3>4, <3>6, TypeParts DEF DataTypes
          <5> QED
            BY <1>2, <3>6, <5>1, LeaveTypes, NextTypeParts
        <4>2. Permit'
          BY <1>2, <3>6, LeavePermit
        <4>3. Closing'
          BY <1>1, <1>2, <1>3, <3>6, ClosingLeft
        <4> QED
          BY <1>4, <3>5, <4>1, <4>2, <4>3
      <3>7. ASSUME NEW d \in Delivery, Enters(p, d),
                   Starting(resource) \/ UNCHANGED <<resource, starts>>
            PROVE  LiveInv'
        <4>1. starts' \in 0..MaxStarts /\ resource' \in [Resource -> Fates]
          BY <3>7 DEF Starting, TypeOK, Fates
        <4>2. TypeOK'
          <5>1. DataTypes'
            BY <1>1, <2>2, <3>4, <4>1, TypeParts DEF DataTypes
          <5> QED
            BY <1>2, <3>7, <5>1, EnterTypes, NextTypeParts DEF Enters
        <4>3. Permit'
          BY <1>2, <3>7, EnterPermit DEF Enters
        <4>4. Closing'
          BY <1>1, <1>2, <1>3, <3>7, ClosingEntered
        <4> QED
          BY <1>4, <3>5, <4>2, <4>3, <4>4
      <3> QED
        BY <1>2, <3>1, <3>2, <3>6, <3>7, DeliverSays
    <2> QED
      BY <2>4, <2>5
  <1> QED
    BY <1>5, <1>6

-----------------------------------------------------------------------------
(* The invariant *)

LEMMA InitLive == Init => LiveInv
  <1> SUFFICES ASSUME Init PROVE LiveInv
    OBVIOUS
  <1>1. \A p \in Party : delivery[p] = NoDelivery
    BY DEF Init
  <1>2. \A o \in Op : /\ delivery[Worker(o)].step = "none"
                      /\ delivery[Handler(o)].step = "none"
                      /\ pc[o] = "none" /\ handler[o] = "idle"
    BY <1>1, Parties, NoStep DEF Init
  <1>3. DataTypes
    <2>1. 0 \in LiveResourceState
      BY ParameterAssumption DEF LiveResourceState
    <2>2. resource \in [Resource -> Fates]
      BY DEF Init, Fates
    <2>3. starts \in 0..MaxStarts
      BY ParameterAssumption DEF Init
    <2> QED
      BY <2>1, <2>2, <2>3 DEF Init, DataTypes
  <1>4. ActorTypes
    <2>1. NoDelivery \in Delivery
      BY ParameterAssumption DEF NoDelivery, Delivery, LiveResourceState
    <2> QED
      BY <2>1 DEF Init, ActorTypes
  <1>5. Permit
    BY <1>1, <1>2, Parties, NoStep, OpAssumption DEF Permit, Init
  <1>6. Closing
    BY <1>2 DEF Closing, Init
  <1>7. Serial
    BY <1>1, <1>2, NoStep DEF Serial, Init
  <1>8. Brings
    BY DEF Brings, Init
  <1> QED
    BY <1>3, <1>4, <1>5, <1>6, <1>7, <1>8, TypeParts DEF LiveInv

LEMMA NextLive == LiveInv /\ [Next]_vars => LiveInv'
  <1> SUFFICES ASSUME LiveInv, [Next]_vars PROVE LiveInv'
    OBVIOUS
  <1>1. ASSUME NEW o \in Op, Submit(o) PROVE LiveInv'
    BY <1>1, SubmitStep
  <1>2. ASSUME NEW o \in Op, Steps(o) PROVE LiveInv'
    BY <1>2, LeaseStep, ReadinessStep, AcquireSucceedsStep, AcquireFailsStep, ReleaseNodeStep,
       HandlerStep, WorkerInterruptedStep DEF Steps
  <1>3. ASSUME NEW p \in Party, Hooks(p) PROVE LiveInv'
    BY <1>3, StartSucceedsStep, StartFailsStep, UpdateSucceedsStep, UpdateFailsStep,
       StopEndsStep DEF Hooks
  <1>4. ASSUME Invalidate \/ Evict PROVE LiveInv'
    BY <1>4, InvalidateStep, EvictStep
  <1>5. ASSUME NEW r \in Resource, OrphanAnswers(r) \/ DetachedStopEnds(r) PROVE LiveInv'
    BY <1>5, AbandonedStep
  <1>6. ASSUME NEW why \in CloseReasons, Close(why) PROVE LiveInv'
    BY <1>6, CloseStep
  <1>7. CASE UNCHANGED vars
    <2>1. /\ UNCHANGED <<phase, leases, live, liveDemand, liveFailure, hasUpdate, resource, starts,
                         delivery, pc, handler, holder, closed, reason, rolledBack>>
      BY <1>7 DEF vars, cellVars, resourceVars, actorVars, closeVars
    <2>2. TypeOK'
      BY <2>1 DEF LiveInv, TypeOK
    <2>3. Permit' /\ Closing'
      BY <2>1 DEF LiveInv, Permit, Closing, Claimed, Live
    <2>4. Serial' /\ Brings'
      BY <2>1 DEF LiveInv, Serial, Brings, Matches, Demand
    <2> QED
      BY <2>2, <2>3, <2>4 DEF LiveInv
  <1> QED
    BY <1>1, <1>2, <1>3, <1>4, <1>5, <1>6, <1>7 DEF Next, Progress

THEOREM LiveInvariant == Spec => []LiveInv
  BY InitLive, NextLive, PTL DEF Spec
\* The operation has changed the leases.
Granted(o) == pc[o] \in {"delivering", "done"}

\* The reporter awaits such an operation of this kind for the lease.
Asked(n, kind, l) ==
  LET o == task[n].op IN
  o \in Reports /\ KindOf[o] = kind /\ LeaseOf[o] = l /\ Granted(o)

\* What the reporter will know once its operation has answered.
Known(n, l) == Asked(n, "hold", l) \/ (l \in held[n] /\ ~Asked(n, "drop", l))

\* The lease book of the cell agrees with what the reporters know.
Ledger == \A l \in Reported : l \in leases <=> \E n \in Node : Known(n, l)

\* The operation a reporter awaits is what its report asks for.
Fits(n) ==
  LET o == task[n].op
      report == task[n].report
  IN /\ pc[o] # "none"
     /\ ScopeOf[LeaseOf[o]] = report.scope
     /\ KindOf[o] = IF report.observed THEN "hold" ELSE "drop"
     /\ IF report.observed THEN HeldFor(n, report.scope) = {} ELSE LeaseOf[o] \in held[n]

\* Whoever has an operation under way is its only reporter.
Tasks ==
  /\ \A n \in Node : task[n].op \in Reports => Fits(n)
  /\ \A n, m \in Node : task[n].op \in Reports /\ task[m].op = task[n].op => n = m
  /\ \A o \in Reports :
       /\ pc[o] # "acquiring"
       /\ pc[o] \notin {"none", "done"} => \E n \in Node : task[n].op = o

\* A lease somebody knows was acquired once, and is the only one of its scope there.
KnownOnce ==
  /\ \A n \in Node : held[n] \subseteq Reported
  /\ \A n \in Node : \A l \in held[n] : \A o \in Reports :
       KindOf[o] = "hold" /\ LeaseOf[o] = l =>
         pc[o] = "done" /\ \A m \in Node : task[m].op # o
  /\ \A n, m \in Node : held[n] \cap held[m] # {} => n = m
  /\ \A n \in Node : \A l, k \in held[n] : ScopeOf[l] = ScopeOf[k] => l = k

Rooms == \A s \in Scope : Cardinality(Pending(s)) <= Cardinality(Holds(s))

Nodes ==
  /\ open <=> phase = "Ready"
  /\ open => node \in Node
  /\ ~open => observed = {}
  /\ reported <=> ResultScope \in observed
  /\ \A n \in Node : n > node => sync[n] = <<>> /\ task[n] = NoTask /\ held[n] = {}

\* What it is at comes down to, and without that what it knows.
Rests(n, s, want) ==
  IF task[n].op \in Reports /\ task[n].report.scope = s
    THEN task[n].report.observed = want
    ELSE want <=> HeldFor(n, s) # {}

\* What its reports come down to: the last that is on its way.
Comes(n, s, want) ==
  \/ \E i \in 1..Len(sync[n]) :
       /\ sync[n][i] = Report(s, want)
       /\ \A j \in 1..Len(sync[n]) : sync[n][j].scope = s => j <= i
  \/ /\ \A i \in 1..Len(sync[n]) : sync[n][i].scope # s
     /\ Rests(n, s, want)

Follows ==
  \A n \in Node, want \in BOOLEAN :
    (want <=> n = node /\ open /\ ResultScope \in observed) => Comes(n, ResultScope, want)

OInv == ~closed => Ledger /\ Tasks /\ KnownOnce /\ Rooms /\ Nodes /\ Follows

-----------------------------------------------------------------------------
(* The types of what observes the node *)

ReportOf == [scope : Scope, observed : BOOLEAN]

ObservationTypes ==
  /\ mix \in Mixes
  /\ node \in 0..MaxNodes
  /\ open \in BOOLEAN /\ reported \in BOOLEAN
  /\ observed \subseteq Scope
  /\ sync \in [Node -> Seq(ReportOf)]
  /\ task \in [Node -> [op : Reports \cup {None}, report : ReportOf]]
  /\ held \in [Node -> SUBSET Lease]

LEMMA Reporters ==
  /\ Reports \subseteq Op /\ None \notin Reports
  /\ \A o \in Reports : KindOf[o] \in {"hold", "drop"} /\ LeaseOf[o] \in Lease
                        /\ ScopeOf[LeaseOf[o]] \in Scope
  /\ \A o \in DOMAIN LeaseOf \ Reports : LeaseOf[o] \notin Reported
  /\ \A o \in Op : KindOf[o] \in {"hold", "drop"} <=> o \in DOMAIN LeaseOf
  BY OpAssumption, ReportsAssumption, LeasesAssumption DEF Scope, Reported

LEMMA EnqueueTypes ==
  ASSUME ObservationTypes, NEW s \in Scope, NEW b \in BOOLEAN, Enqueue(s, b)
  PROVE  sync' \in [Node -> Seq(ReportOf)]
  <1>1. Report(s, b) \in ReportOf
    BY DEF Report, ReportOf
  <1>2. \A n \in Node : Append(sync[n], Report(s, b)) \in Seq(ReportOf)
    BY <1>1 DEF ObservationTypes
  <1> QED
    BY <1>2 DEF Enqueue, ObservationTypes

LEMMA TailTypes ==
  ASSUME ObservationTypes, NEW n \in Node, sync[n] # <<>>,
         sync' = [sync EXCEPT ![n] = Tail(@)]
  PROVE  sync' \in [Node -> Seq(ReportOf)] /\ Head(sync[n]) \in ReportOf
  <1>1. sync[n] \in Seq(ReportOf)
    BY DEF ObservationTypes
  <1>2. Tail(sync[n]) \in Seq(ReportOf) /\ Head(sync[n]) \in ReportOf
    BY <1>1, HeadTailProperties
  <1> QED
    BY <1>2 DEF ObservationTypes

LEMMA NodeTypes ==
  ASSUME ObservationTypes, NodeFollows
  PROVE  ObservationTypes'
  <1>1. UNCHANGED <<task, held, mix>>
    BY DEF NodeFollows
  <1>2. CASE Constructed
    <2>1. node' \in 0..MaxNodes
      BY <1>2, NodesAssumption DEF Constructed, ObservationTypes
    <2>2. UNCHANGED <<sync, mix>> /\ open' = TRUE /\ observed' = {} /\ reported' = FALSE
      BY <1>2 DEF Constructed, NodeFollows
    <2> QED
      BY <1>1, <2>1, <2>2 DEF ObservationTypes
  <1>3. CASE CloseRuntimeNode
    <2>1. sync' \in [Node -> Seq(ReportOf)]
      BY <1>3, EnqueueTypes, NodesAssumption DEF CloseRuntimeNode, ObservationTypes
    <2> QED
      BY <1>1, <1>3, <2>1 DEF CloseRuntimeNode, ObservationTypes
  <1>4. CASE UNCHANGED <<nodeVars, sync>>
    BY <1>1, <1>4 DEF nodeVars, ObservationTypes
  <1> QED
    BY <1>2, <1>3, <1>4 DEF NodeFollows

\* What a report is about that leads to an operation.
LEMMA Submitted ==
  ASSUME NEW n \in Node, NEW report, NEW o \in Submissions(n, report)
  PROVE  /\ o \in Reports /\ ScopeOf[LeaseOf[o]] = report.scope
         /\ report.observed => /\ KindOf[o] = "hold" /\ pc[o] = "none" /\ o \in Holds(report.scope)
                               /\ HeldFor(n, report.scope) = {}
         /\ ~report.observed => KindOf[o] = "drop" /\ LeaseOf[o] \in held[n]
  <1>1. CASE report.observed
    BY <1>1 DEF Submissions, AcquireObserved, Holds
  <1>2. CASE ~report.observed
    BY <1>2 DEF Submissions, ReleaseObserved, HeldFor
  <1> QED
    BY <1>1, <1>2

LEMMA ReporterSubmits ==
  ASSUME NEW n \in Node, ReportSubmits(n)
  PROVE  /\ task[n].op = None /\ sync[n] # <<>>
         /\ \E o \in Submissions(n, Head(sync[n])) :
              Submit(o) /\ task' = [task EXCEPT ![n] = [op |-> o, report |-> Head(sync[n])]]
         /\ sync' = [sync EXCEPT ![n] = Tail(@)]
         /\ UNCHANGED <<mix, node, open, observed, reported, held>>
  BY DEF ReportSubmits, nodeVars

LEMMA ReporterTypes ==
  ASSUME ObservationTypes, NEW n \in Node, Reporter(n)
  PROVE  ObservationTypes'
  <1>1. CASE ReportSubmits(n)
    <2>1. PICK o \in Submissions(n, Head(sync[n])) :
            task' = [task EXCEPT ![n] = [op |-> o, report |-> Head(sync[n])]]
      BY <1>1, ReporterSubmits
    <2>2. o \in Reports
      BY Submitted
    <2>3. sync' \in [Node -> Seq(ReportOf)] /\ Head(sync[n]) \in ReportOf
      BY <1>1, ReporterSubmits, TailTypes
    <2>4. [op |-> o, report |-> Head(sync[n])] \in [op : Reports \cup {None}, report : ReportOf]
      BY <2>2, <2>3
    <2>5. task' \in [Node -> [op : Reports \cup {None}, report : ReportOf]]
      BY <2>1, <2>4 DEF ObservationTypes
    <2> QED
      BY <1>1, <2>3, <2>5, ReporterSubmits DEF ObservationTypes
  <1>2. CASE ReportSkips(n)
    BY <1>2, TailTypes DEF ReportSkips, ObservationTypes, nodeVars
  <1>3. CASE ReportMisses(n)
    <2>1. held' \in [Node -> SUBSET Lease]
      BY <1>3 DEF ReportMisses, ObservationTypes
    <2> QED
      BY <1>3, <2>1, TailTypes DEF ReportMisses, ObservationTypes, nodeVars
  <1>4. CASE ReportEnds(n)
    <2>1. task[n].op \in Reports
      BY <1>4 DEF ReportEnds, ObservationTypes
    <2>2. LeaseOf[task[n].op] \in Lease
      BY <2>1, Reporters
    <2>3. held' \in [Node -> SUBSET Lease]
      BY <1>4, <2>2 DEF ReportEnds, ObservationTypes
    <2>4. NoTask \in [op : Reports \cup {None}, report : ReportOf]
      BY NodesAssumption DEF NoTask, Report, ReportOf
    <2>5. task' \in [Node -> [op : Reports \cup {None}, report : ReportOf]]
      BY <1>4, <2>4 DEF ReportEnds, ObservationTypes
    <2> QED
      BY <1>4, <2>3, <2>5 DEF ReportEnds, ObservationTypes, nodeVars
  <1> QED
    BY <1>1, <1>2, <1>3, <1>4 DEF Reporter

LEMMA ObserverTypes ==
  ASSUME ObservationTypes, NEW s \in Scope, BecomesObserved(s) \/ BecomesUnobserved(s)
  PROVE  ObservationTypes'
  <1>1. sync' \in [Node -> Seq(ReportOf)]
    BY EnqueueTypes DEF BecomesObserved, BecomesUnobserved
  <1>2. observed' \subseteq Scope /\ reported' \in BOOLEAN
    BY DEF BecomesObserved, BecomesUnobserved, ObservationTypes
  <1> QED
    BY <1>1, <1>2 DEF BecomesObserved, BecomesUnobserved, ObservationTypes

LEMMA InitObservationTypes == ObservationInit => ObservationTypes
  <1> SUFFICES ASSUME ObservationInit PROVE ObservationTypes
    OBVIOUS
  <1>1. NoTask \in [op : Reports \cup {None}, report : ReportOf]
    BY NodesAssumption DEF NoTask, Report, ReportOf
  <1>2. <<>> \in Seq(ReportOf)
    BY EmptySeq
  <1>3. sync \in [Node -> Seq(ReportOf)]
    BY <1>2 DEF ObservationInit
  <1>4. task \in [Node -> [op : Reports \cup {None}, report : ReportOf]]
    BY <1>1 DEF ObservationInit
  <1>5. held \in [Node -> SUBSET Lease] /\ node \in 0..MaxNodes
    BY NodesAssumption DEF ObservationInit
  <1> QED
    BY <1>3, <1>4, <1>5 DEF ObservationInit, ObservationTypes

LEMMA NextObservationTypes ==
  ASSUME ObservationTypes, [ObservationNext]_allVars
  PROVE  ObservationTypes'
  <1>1. CASE UNCHANGED allVars
    BY <1>1 DEF allVars, nodeVars, reporterVars, ObservationTypes
  <1>2. CASE NodeFollows
    BY <1>2, NodeTypes
  <1>3. CASE \E n \in Node : Reporter(n)
    BY <1>3, ReporterTypes
  <1>4. CASE \E s \in Scope : BecomesObserved(s) \/ BecomesUnobserved(s)
    BY <1>4, ObserverTypes
  <1> QED
    BY <1>1, <1>2, <1>3, <1>4 DEF ObservationNext, Resources, Progresses

-----------------------------------------------------------------------------
(* The composition takes the steps of the live resource *)

LEMMA ObservationSteps ==
  ASSUME ObservationTypes, [ObservationNext]_allVars
  PROVE  [Next]_vars
  <1>1. CASE UNCHANGED allVars
    BY <1>1 DEF allVars
  <1>2. CASE Resources
    <2>1. \A m \in Mixes : m.ops \subseteq Op /\ m.closes \subseteq CloseReasons
      BY ReportsAssumption
    <2> QED
      BY <1>2, <2>1 DEF Resources, Next, ObservationTypes
  <1>3. CASE Progress
    BY <1>3 DEF Next
  <1>4. ASSUME NEW n \in Node, Reporter(n) PROVE [Next]_vars
    <2>1. CASE ReportSubmits(n)
      <3>1. PICK o \in Submissions(n, Head(sync[n])) : Submit(o)
        BY <2>1, ReporterSubmits
      <3>2. o \in Op
        BY Submitted, Reporters
      <3> QED
        BY <3>1, <3>2 DEF Next
    <2> QED
      BY <1>4, <2>1 DEF Reporter, ReportSkips, ReportMisses, ReportEnds
  <1>5. CASE \E s \in Scope : BecomesObserved(s) \/ BecomesUnobserved(s)
    BY <1>5 DEF BecomesObserved, BecomesUnobserved
  <1> QED
    BY <1>1, <1>2, <1>3, <1>4, <1>5 DEF ObservationNext, Progresses

-----------------------------------------------------------------------------
(* The lease book *)

\* How a step of the live resource moves the operations of the reporters: one of
\* them may change the leases, others may end.
Moves ==
  \/ /\ leases' \cap Reported = leases \cap Reported
     /\ \A o \in Reports :
          pc'[o] = pc[o] \/ (pc[o] = "delivering" /\ pc'[o] = "done")
  \/ \E o \in Reports :
       /\ pc[o] = "queued" /\ pc'[o] \in {"delivering", "done"}
       /\ \A q \in Reports : q # o => pc'[q] = pc[q]
       /\ KindOf[o] = "hold" => leases' = leases \cup {LeaseOf[o]}
       /\ KindOf[o] = "drop" => leases' = leases \ {LeaseOf[o]}

LEMMA PartyMoves ==
  ASSUME TypeOK, NEW o \in Op, Continue(Worker(o)) \/ End(Worker(o))
  PROVE  /\ pc'[o] \in {"delivering", "done"}
         /\ \A q \in Op : q # o => pc'[q] = pc[q]
  <1>1. pc' = [pc EXCEPT ![o] = "delivering"] \/ pc' = [pc EXCEPT ![o] = "done"]
    BY Parties DEF Continue, End
  <1> QED
    BY <1>1 DEF TypeOK

LEMMA DeliveryTurns ==
  ASSUME NEW p, NEW demand, NEW isReady, NEW r, NEW given, Deliver(p, demand, isReady, r, given)
  PROVE  Continue(p) \/ End(p)
  BY DEF Deliver, Leave, Stop, Start, Update

LEMMA LeasesTurn ==
  ASSUME NEW p, NEW some, ChangeLeases(p, some)
  PROVE  leases' = some /\ (Continue(p) \/ End(p))
  <1>1. CASE Demand(some) # Demand(leases)
    <2>1. PICK isReady : Deliver(p, Demand(some), isReady, live, liveDemand)
      BY <1>1 DEF ChangeLeases
    <2> QED
      BY <2>1, DeliveryTurns DEF ChangeLeases
  <1>2. CASE Demand(some) = Demand(leases)
    BY <1>2 DEF ChangeLeases, Leave
  <1> QED
    BY <1>1, <1>2

LEMMA LeaseMoves ==
  ASSUME LiveInv, NEW o \in Op, AcquireLiveLease(o) \/ ReleaseLiveLease(o)
  PROVE  Moves
  <1>1. /\ pc[o] = "queued" /\ KindOf[o] \in {"hold", "drop"}
        /\ KindOf[o] = "hold" => ChangeLeases(Worker(o), leases \cup {LeaseOf[o]})
        /\ KindOf[o] = "drop" => ChangeLeases(Worker(o), leases \ {LeaseOf[o]})
    BY DEF AcquireLiveLease, ReleaseLiveLease, Begins
  <1>2. /\ KindOf[o] = "hold" => leases' = leases \cup {LeaseOf[o]}
        /\ KindOf[o] = "drop" => leases' = leases \ {LeaseOf[o]}
        /\ Continue(Worker(o)) \/ End(Worker(o))
    BY <1>1, LeasesTurn
  <1>3. /\ pc'[o] \in {"delivering", "done"}
        /\ \A q \in Op : q # o => pc'[q] = pc[q]
    BY <1>2, PartyMoves DEF LiveInv
  <1>4. CASE o \in Reports
    BY <1>1, <1>2, <1>3, <1>4, Reporters DEF Moves
  <1>5. CASE o \notin Reports
    <2>1. LeaseOf[o] \notin Reported
      BY <1>1, <1>5, Reporters
    <2>2. leases' \cap Reported = leases \cap Reported
      BY <1>1, <1>2, <2>1
    <2> QED
      BY <1>3, <1>5, <2>2, Reporters DEF Moves
  <1> QED
    BY <1>4, <1>5

LEMMA HookMoves ==
  ASSUME LiveInv, NEW p \in Party, Hooks(p), ~closed
  PROVE  Moves
  <1>1. delivery[p].step # "none" /\ leases' = leases /\ (Continue(p) \/ End(p))
    BY DEF Hooks, StartSucceeds, StartFails, UpdateSucceeds, UpdateFails, StopEnds, In, cellVars,
           Leave, Stop, Start
  <1>2. PICK o \in Op : p = Worker(o)
    BY <1>1, Hook
  <1>3. pc[o] = "delivering"
    BY <1>1, <1>2 DEF LiveInv, Permit
  <1>4. /\ pc'[o] \in {"delivering", "done"}
        /\ \A q \in Op : q # o => pc'[q] = pc[q]
    BY <1>1, <1>2, PartyMoves DEF LiveInv
  <1> QED
    BY <1>1, <1>3, <1>4, Reporters DEF Moves

\* The operations of others leave the leases of the reporters alone.
LEMMA OtherMoves ==
  ASSUME LiveInv, Tasks, NEW o \in Op, ~closed,
         ReadinessRead(o) \/ AcquireSucceeds(o) \/ AcquireFails(o) \/ ReleaseNode(o)
  PROVE  Moves
  <1>1. o \notin Reports
    BY Reporters DEF Tasks, ReadinessRead, AcquireSucceeds, AcquireFails, ReleaseNode, Begins
  <1>2. leases' = leases
    BY DEF ReadinessRead, AcquireSucceeds, AcquireFails, ReleaseNode, cellVars
  <1>3. \A q \in Op : q # o => pc'[q] = pc[q]
    <2>1. CASE ReadinessRead(o) /\ phase = "Idle"
      BY <2>1 DEF ReadinessRead, LiveInv, TypeOK
    <2>2. CASE Continue(Worker(o)) \/ End(Worker(o))
      BY <2>2, PartyMoves DEF LiveInv
    <2> QED
      BY <2>1, <2>2 DEF ReadinessRead, AcquireSucceeds, AcquireFails, ReleaseNode, Release, Leave,
                        Start, Stop
  <1> QED
    BY <1>1, <1>2, <1>3, Reporters DEF Moves

LEMMA MovesAhead ==
  ASSUME LiveInv, Tasks, ~closed',
         \/ Progress
         \/ \E r \in Resource : OrphanAnswers(r) \/ DetachedStopEnds(r)
         \/ \E o \in Op \ Reports : Submit(o)
         \/ \E why \in CloseReasons : Close(why)
  PROVE  Moves
  <1>1. ASSUME NEW r \in Resource, OrphanAnswers(r) \/ DetachedStopEnds(r) PROVE Moves
    BY <1>1 DEF Moves, OrphanAnswers, DetachedStopEnds, cellVars, actorVars
  <1>2. ASSUME NEW o \in Op \ Reports, Submit(o) PROVE Moves
    BY <1>2, Reporters DEF Moves, Submit, cellVars, LiveInv, TypeOK
  <1>3. ASSUME NEW why \in CloseReasons, Close(why) PROVE Moves
    BY <1>3 DEF Close
  <1>4. ASSUME NEW p \in Party, Hooks(p) PROVE Moves
    <2>1. ~closed
      BY <1>4 DEF Hooks, StartSucceeds, StartFails, UpdateSucceeds, UpdateFails, StopEnds, closeVars
    <2> QED
      BY <1>4, <2>1, HookMoves
  <1>5. ASSUME Invalidate \/ Evict PROVE FALSE
    BY <1>5 DEF Invalidate, Evict
  <1>6. ASSUME NEW o \in Op, Steps(o) PROVE Moves
    <2>1. CASE HandlerStarts(o)
      BY <2>1 DEF HandlerStarts, closeVars
    <2>2. CASE WorkerInterrupted(o)
      BY <2>2 DEF WorkerInterrupted, closeVars, LiveInv, Closing
    <2>3. CASE ReadinessRead(o) \/ AcquireSucceeds(o) \/ AcquireFails(o) \/ ReleaseNode(o)
      <3>1. ~closed
        BY <2>3 DEF ReadinessRead, AcquireSucceeds, AcquireFails, ReleaseNode, closeVars
      <3> QED
        BY <2>3, <3>1, OtherMoves
    <2>4. CASE AcquireLiveLease(o) \/ ReleaseLiveLease(o)
      BY <2>4, LeaseMoves
    <2> QED
      BY <1>6, <2>1, <2>2, <2>3, <2>4 DEF Steps
  <1> QED
    BY <1>1, <1>2, <1>3, <1>4, <1>5, <1>6 DEF Progress

LEMMA MovesKeepBook ==
  ASSUME ObservationTypes, Ledger, Tasks, KnownOnce, Moves, UNCHANGED <<task, held>>
  PROVE  /\ Ledger' /\ Tasks' /\ KnownOnce'
         /\ \A o \in Reports : pc'[o] = "none" <=> pc[o] = "none"
  <1>1. \A o \in Reports :
          /\ pc'[o] = "none" <=> pc[o] = "none"
          /\ pc[o] = "done" => pc'[o] = "done"
          /\ pc'[o] # "acquiring"
          /\ pc'[o] \notin {"none", "done"} => pc[o] \notin {"none", "done"}
    BY DEF Moves, Tasks
  <1>2. Tasks'
    BY <1>1 DEF Tasks, Fits, HeldFor
  <1>3. KnownOnce'
    BY <1>1 DEF KnownOnce
  <1>4. CASE /\ leases' \cap Reported = leases \cap Reported
             /\ \A o \in Reports :
                  pc'[o] = pc[o] \/ (pc[o] = "delivering" /\ pc'[o] = "done")
    <2>1. \A n \in Node, l \in Reported : Known(n, l)' <=> Known(n, l)
      BY <1>4 DEF Known, Asked, Granted
    <2> QED
      BY <1>1, <1>2, <1>3, <1>4, <2>1 DEF Ledger
  <1>5. ASSUME NEW o \in Reports,
               pc[o] = "queued", pc'[o] \in {"delivering", "done"},
               \A q \in Reports : q # o => pc'[q] = pc[q],
               KindOf[o] = "hold" => leases' = leases \cup {LeaseOf[o]},
               KindOf[o] = "drop" => leases' = leases \ {LeaseOf[o]}
        PROVE  Ledger'
    <2>1. PICK n \in Node : task[n].op = o
      BY <1>5 DEF Tasks
    <2>2. \A m \in Node : m # n => task[m].op # o
      BY <1>5, <2>1 DEF Tasks
    <2>3. \A m \in Node, l \in Reported :
            m # n \/ l # LeaseOf[o] => (Known(m, l)' <=> Known(m, l))
      BY <1>5, <2>1, <2>2 DEF Known, Asked, Granted
    <2>4. CASE KindOf[o] = "hold"
      <3>1. Known(n, LeaseOf[o])'
        BY <1>5, <2>1, <2>4 DEF Known, Asked, Granted
      <3> QED
        BY <1>5, <2>1, <2>3, <2>4, <3>1 DEF Ledger
    <2>5. CASE KindOf[o] = "drop"
      <3>1. ~Known(n, LeaseOf[o])'
        BY <1>5, <2>1, <2>5 DEF Known, Asked, Granted
      <3>2. LeaseOf[o] \in held[n]
        BY <1>5, <2>1, <2>5 DEF Tasks, Fits
      <3>3. ASSUME NEW m \in Node, m # n PROVE ~Known(m, LeaseOf[o])
        BY <3>2, <3>3 DEF Known, Asked, KnownOnce
      <3> QED
        BY <1>5, <2>3, <2>5, <3>1, <3>3 DEF Ledger
    <2> QED
      BY <2>4, <2>5, Reporters
  <1>6. Ledger'
    BY <1>4, <1>5 DEF Moves
  <1> QED
    BY <1>1, <1>2, <1>3, <1>6

LEMMA SubmitsBook ==
  ASSUME ObservationTypes, TypeOK, Ledger, Tasks, KnownOnce, NEW n \in Node, ReportSubmits(n)
  PROVE  Ledger' /\ Tasks' /\ KnownOnce'
  <1> DEFINE report == Head(sync[n])
  <1>1. PICK o \in Submissions(n, report) :
          Submit(o) /\ task' = [task EXCEPT ![n] = [op |-> o, report |-> report]]
    BY ReporterSubmits
  <1>2. /\ o \in Reports /\ ScopeOf[LeaseOf[o]] = report.scope
        /\ report.observed => KindOf[o] = "hold" /\ HeldFor(n, report.scope) = {}
        /\ ~report.observed => KindOf[o] = "drop" /\ LeaseOf[o] \in held[n]
    BY Submitted
  <1>3. task[n].op = None /\ held' = held
    BY ReporterSubmits
  <1>4. /\ pc[o] = "none" /\ leases' = leases
        /\ \A q \in Op : pc'[q] = IF q = o THEN "queued" ELSE pc[q]
    BY <1>1 DEF Submit, cellVars, TypeOK
  <1>5. \A m \in Node : /\ m # n => task'[m] = task[m]
                        /\ task'[n].op = o /\ task'[n].report = report
    BY <1>1 DEF ObservationTypes
  <1>6. \A m \in Node : task[m].op # o
    BY <1>2, <1>4 DEF Tasks, Fits
  <1> HIDE DEF report
  <1>7. Ledger'
    <2>1. \A m \in Node, l \in Reported : Known(m, l)' <=> Known(m, l)
      BY <1>2, <1>3, <1>4, <1>5, <1>6, Reporters DEF Known, Asked, Granted
    <2> QED
      BY <1>4, <2>1 DEF Ledger
  <1>8. Tasks'
    <2>1. ASSUME NEW m \in Node, task'[m].op \in Reports
          PROVE  Fits(m)'
      <3>1. CASE m = n
        BY <1>2, <1>3, <1>4, <1>5, <3>1, Reporters DEF Fits, HeldFor
      <3>2. CASE m # n
        BY <1>3, <1>4, <1>5, <2>1, <3>2, Reporters DEF Fits, HeldFor, Tasks
      <3> QED
        BY <3>1, <3>2
    <2>2. \A m, k \in Node : task'[m].op \in Reports /\ task'[k].op = task'[m].op => m = k
      BY <1>5, <1>6 DEF Tasks
    <2>3. ASSUME NEW q \in Reports
          PROVE  /\ pc'[q] # "acquiring"
                 /\ pc'[q] \notin {"none", "done"} => \E m \in Node : task'[m].op = q
      <3>1. CASE q = o
        BY <1>4, <1>5, <3>1, Reporters
      <3>2. CASE q # o
        BY <1>3, <1>4, <1>5, <3>2, Reporters DEF Tasks
      <3> QED
        BY <3>1, <3>2
    <2> QED
      BY <2>1, <2>2, <2>3 DEF Tasks
  <1>9. KnownOnce'
    <2>1. \A m \in Node : \A l \in held'[m] : \A q \in Reports :
            KindOf[q] = "hold" /\ LeaseOf[q] = l =>
              pc'[q] = "done" /\ \A k \in Node : task'[k].op # q
      BY <1>3, <1>4, <1>5, Reporters DEF KnownOnce
    <2> QED
      BY <1>3, <2>1 DEF KnownOnce
  <1> QED
    BY <1>7, <1>8, <1>9

LEMMA EndsBook ==
  ASSUME ObservationTypes, Ledger, Tasks, KnownOnce, \A o \in Op : handler[o] = "idle",
         NEW n \in Node, ReportEnds(n)
  PROVE  Ledger' /\ Tasks' /\ KnownOnce'
  <1> DEFINE o == task[n].op
             s == task[n].report.scope
  <1>1. o \in Reports /\ pc[o] = "done" /\ handler[o] = "idle"
    BY Reporters DEF ReportEnds, ObservationTypes
  <1>2. UNCHANGED <<pc, leases>>
    BY DEF ReportEnds, vars, cellVars, actorVars
  <1>3. \A m \in Node :
          /\ m # n => task'[m] = task[m] /\ held'[m] = held[m]
          /\ task'[n] = NoTask
          /\ held'[n] = IF task[n].report.observed THEN held[n] \cup {LeaseOf[o]}
                                                  ELSE held[n] \ HeldFor(n, s)
    BY <1>1 DEF ReportEnds, ObservationTypes
  <1>4. /\ ScopeOf[LeaseOf[o]] = s
        /\ KindOf[o] = IF task[n].report.observed THEN "hold" ELSE "drop"
        /\ IF task[n].report.observed THEN HeldFor(n, s) = {} ELSE LeaseOf[o] \in held[n]
        /\ \A m \in Node : task[m].op = o => m = n
    BY <1>1 DEF Tasks, Fits
  <1>5. ~task[n].report.observed => HeldFor(n, s) = {LeaseOf[o]}
    BY <1>4 DEF HeldFor, KnownOnce
  <1>6. NoTask.op \notin Reports
    BY Reporters DEF NoTask
  <1>7. LeaseOf[o] \in Reported
    BY <1>1 DEF Reported
  <1>8. \A m \in Node : m # n => LeaseOf[o] \notin held[m]
    <2>1. CASE task[n].report.observed
      BY <1>1, <1>4, <2>1 DEF KnownOnce
    <2>2. CASE ~task[n].report.observed
      BY <1>4, <2>2 DEF KnownOnce
    <2> QED
      BY <2>1, <2>2
  <1> HIDE DEF o, s
  <1>9. Ledger'
    <2>1. \A m \in Node, l \in Reported : m # n => (Known(m, l)' <=> Known(m, l))
      BY <1>2, <1>3 DEF Known, Asked, Granted
    <2>2. \A l \in Reported : Known(n, l)' <=> Known(n, l)
      <3>1. \A l \in Reported : Known(n, l)' <=> l \in held'[n]
        BY <1>3, <1>6 DEF Known, Asked
      <3>2. \A l \in Reported : Known(n, l) <=>
              IF task[n].report.observed THEN l = LeaseOf[o] \/ l \in held[n]
                                         ELSE l # LeaseOf[o] /\ l \in held[n]
        BY <1>1, <1>4 DEF Known, Asked, Granted, o
      <3> QED
        BY <1>3, <1>5, <3>1, <3>2
    <2> QED
      BY <1>2, <2>1, <2>2 DEF Ledger
  <1>10. Tasks'
    <2>1. \A m \in Node : task'[m].op \in Reports => m # n /\ task'[m] = task[m] /\ held'[m] = held[m]
      BY <1>3, <1>6
    <2>2. ASSUME NEW m \in Node, task'[m].op \in Reports
          PROVE  Fits(m)'
      BY <1>2, <2>1, <2>2 DEF Tasks, Fits, HeldFor
    <2>3. ASSUME NEW q \in Reports, pc'[q] \notin {"none", "done"}
          PROVE  \E m \in Node : task'[m].op = q
      <3>1. PICK m \in Node : task[m].op = q
        BY <1>2, <2>3 DEF Tasks
      <3>2. q # o
        BY <1>1, <1>2, <2>3
      <3> QED
        BY <1>3, <3>1, <3>2 DEF o
    <2>4. \A m, k \in Node : task'[m].op \in Reports /\ task'[k].op = task'[m].op => m = k
      BY <2>1 DEF Tasks
    <2>5. \A q \in Reports : pc'[q] # "acquiring"
      BY <1>2 DEF Tasks
    <2> QED
      BY <2>2, <2>3, <2>4, <2>5 DEF Tasks
  <1>11. KnownOnce'
    <2>1. \A m \in Node : held'[m] \subseteq Reported
      BY <1>3, <1>7 DEF KnownOnce
    <2>2. ASSUME NEW m \in Node, NEW l \in held'[m], NEW q \in Reports,
                 KindOf[q] = "hold", LeaseOf[q] = l
          PROVE  pc'[q] = "done" /\ \A k \in Node : task'[k].op # q
      <3>1. CASE l \in held[m]
        BY <1>2, <1>3, <1>6, <2>2, <3>1 DEF KnownOnce
      <3>2. CASE l \notin held[m]
        <4>1. m = n /\ task[n].report.observed /\ l = LeaseOf[o]
          BY <1>3, <2>2, <3>2
        <4>2. q = o
          BY <1>1, <1>4, <2>2, <4>1, ReportsAssumption, LeasesAssumption
        <4> QED
          BY <1>1, <1>2, <1>3, <1>4, <1>6, <4>2
      <3> QED
        BY <3>1, <3>2
    <2>3. \A m, k \in Node : held'[m] \cap held'[k] # {} => m = k
      <3>1. \A m \in Node : m # n => held'[m] = held[m] /\ LeaseOf[o] \notin held[m]
        BY <1>3, <1>8
      <3>2. held'[n] \subseteq held[n] \cup {LeaseOf[o]}
        BY <1>3
      <3> QED
        BY <3>1, <3>2 DEF KnownOnce
    <2>4. ASSUME NEW m \in Node, NEW l \in held'[m], NEW k \in held'[m], ScopeOf[l] = ScopeOf[k]
          PROVE  l = k
      <3>1. CASE m = n /\ task[n].report.observed
        <4>1. \A x \in held[n] : ScopeOf[x] # ScopeOf[LeaseOf[o]]
          BY <1>4, <3>1 DEF HeldFor
        <4> QED
          BY <1>3, <2>4, <3>1, <4>1 DEF KnownOnce
      <3>2. CASE ~(m = n /\ task[n].report.observed)
        BY <1>3, <2>4, <3>2 DEF KnownOnce
      <3> QED
        BY <3>1, <3>2
    <2> QED
      BY <2>1, <2>2, <2>3, <2>4 DEF KnownOnce
  <1> QED
    BY <1>9, <1>10, <1>11

-----------------------------------------------------------------------------
(* Room for what is on its way *)

LEMMA Places ==
  ASSUME ObservationTypes, NEW s
  PROVE  /\ IsFiniteSet(Pending(s))
         /\ \A at : at \in Pending(s) <=>
              \E n \in Node : \E i \in 1..Len(sync[n]) :
                at = <<n, i>> /\ sync[n][i] = Report(s, TRUE)
  <1> DEFINE at(n) == {i \in DOMAIN sync[n] : sync[n][i] = Report(s, TRUE)}
             parts == {{n} \X at(n) : n \in Node}
  <1>1. \A n \in Node : DOMAIN sync[n] = 1..Len(sync[n]) /\ Len(sync[n]) \in Nat
    <2>1. ASSUME NEW n \in Node PROVE sync[n] \in Seq(ReportOf)
      BY DEF ObservationTypes
    <2> QED
      BY <2>1, LenProperties
  <1>2. ASSUME NEW n \in Node PROVE IsFiniteSet({n} \X at(n))
    <2>1. IsFiniteSet(1..Len(sync[n]))
      BY <1>1, FS_Interval
    <2>2. at(n) \in SUBSET (1..Len(sync[n]))
      BY <1>1
    <2>3. IsFiniteSet(at(n))
      <3> DEFINE some == at(n)
      <3>1. some \in SUBSET (1..Len(sync[n]))
        BY <2>2
      <3> HIDE DEF some
      <3>2. IsFiniteSet(some)
        BY <2>1, <3>1, FS_Subset
      <3> QED
        BY <3>2 DEF some
    <2> DEFINE some == at(n)
    <2>4. IsFiniteSet(some)
      BY <2>3
    <2> HIDE DEF some
    <2>5. IsFiniteSet({n} \X some)
      BY <2>4, FS_Product, FS_Singleton
    <2> QED
      BY <2>5 DEF some
  <1>3. Pending(s) = UNION parts
    BY DEF Pending
  <1>4. IsFiniteSet(parts)
    <2> DEFINE f == [n \in Node |-> {n} \X at(n)]
    <2>1. f \in [Node -> parts] /\ \A part \in parts : \E n \in Node : f[n] = part
      OBVIOUS
    <2>2. f \in Surjection(Node, parts)
      <3> HIDE DEF f, parts
      <3> QED
        BY <2>1, Fun_IsSurj
    <2>3. IsFiniteSet(Node)
      BY NodesAssumption, FS_Interval DEF Node
    <2> HIDE DEF f, parts
    <2> QED
      BY <2>2, <2>3, FS_Surjection
  <1>5. \A part \in parts : IsFiniteSet(part)
    BY <1>2
  <1>6. IsFiniteSet(UNION parts)
    <2> HIDE DEF parts
    <2> QED
      BY <1>4, <1>5, FS_UNION
  <1>7. \A a : a \in Pending(s) <=>
          \E n \in Node : \E i \in 1..Len(sync[n]) : a = <<n, i>> /\ sync[n][i] = Report(s, TRUE)
    <2> SUFFICES ASSUME NEW a
                 PROVE  a \in Pending(s) <=>
                          \E n \in Node : \E i \in 1..Len(sync[n]) :
                            a = <<n, i>> /\ sync[n][i] = Report(s, TRUE)
      OBVIOUS
    <2>1. a \in Pending(s) <=> \E n \in Node : a \in {n} \X at(n)
      BY DEF Pending
    <2>2. \A n \in Node : a \in {n} \X at(n) <=> \E i \in at(n) : a = <<n, i>>
      <3> HIDE DEF at
      <3> QED
        OBVIOUS
    <2>3. \A n \in Node : \A i : i \in at(n) <=>
            i \in 1..Len(sync[n]) /\ sync[n][i] = Report(s, TRUE)
      BY <1>1
    <2> HIDE DEF at
    <2>4. ASSUME NEW n \in Node
          PROVE  (\E i \in at(n) : a = <<n, i>>) <=>
                   \E i \in 1..Len(sync[n]) : a = <<n, i>> /\ sync[n][i] = Report(s, TRUE)
      BY <2>3, Zenon
    <2> QED
      BY <2>1, <2>2, <2>4, Zenon
  <1> HIDE DEF parts
  <1> QED
    BY <1>3, <1>6, <1>7

LEMMA NextPlaces ==
  ASSUME ObservationTypes', NEW s
  PROVE  /\ IsFiniteSet(Pending(s)')
         /\ \A at : at \in Pending(s)' <=>
              \E n \in Node : \E i \in 1..Len(sync'[n]) :
                at = <<n, i>> /\ sync'[n][i] = Report(s, TRUE)
  <1>1. (ObservationTypes => /\ IsFiniteSet(Pending(s))
                             /\ \A at : at \in Pending(s) <=>
                                  \E n \in Node : \E i \in 1..Len(sync[n]) :
                                    at = <<n, i>> /\ sync[n][i] = Report(s, TRUE))'
    BY Places, PTL
  <1> QED
    BY <1>1

LEMMA HoldsFinite ==
  ASSUME NEW s
  PROVE  IsFiniteSet(Holds(s)) /\ Cardinality(Holds(s)) \in Nat
  <1>1. Holds(s) \in SUBSET Reports
    BY DEF Holds
  <1>2. IsFiniteSet(Holds(s))
    BY <1>1, LeasesAssumption, FS_Subset
  <1> QED
    BY <1>2, FS_CardinalityType

\* A report that its reporter takes leaves room.
LEMMA TailRooms ==
  ASSUME ObservationTypes, ObservationTypes', NEW n \in Node, sync[n] # <<>>,
         sync' = [sync EXCEPT ![n] = Tail(@)], NEW s
  PROVE  /\ Cardinality(Pending(s)) \in Nat /\ Cardinality(Pending(s)') \in Nat
         /\ Cardinality(Pending(s)') <= Cardinality(Pending(s))
         /\ Head(sync[n]) = Report(s, TRUE) =>
              Cardinality(Pending(s)') <= Cardinality(Pending(s)) - 1
  <1> DEFINE S == Pending(s)'
             T == Pending(s) \ {<<n, 1>>}
             f == [at \in S |-> IF at[1] = n THEN <<n, at[2] + 1>> ELSE at]
  <1>1. sync[n] \in Seq(ReportOf)
    BY DEF ObservationTypes
  <1>2. /\ Len(Tail(sync[n])) = Len(sync[n]) - 1 /\ Len(sync[n]) \in Nat \ {0}
        /\ \A i \in 1..Len(Tail(sync[n])) : Tail(sync[n])[i] = sync[n][i + 1]
    BY <1>1, HeadTailProperties, EmptySeq
  <1>3. sync'[n] = Tail(sync[n]) /\ \A m \in Node : m # n => sync'[m] = sync[m]
    BY DEF ObservationTypes
  <1>4. /\ IsFiniteSet(Pending(s))
        /\ \A at : at \in Pending(s) <=>
             \E m \in Node : \E i \in 1..Len(sync[m]) :
               at = <<m, i>> /\ sync[m][i] = Report(s, TRUE)
    BY Places
  <1>5. /\ IsFiniteSet(S)
        /\ \A at : at \in S <=>
             \E m \in Node : \E i \in 1..Len(sync'[m]) :
               at = <<m, i>> /\ sync'[m][i] = Report(s, TRUE)
    BY NextPlaces
  <1>6. IsFiniteSet(T) /\ Cardinality(T) =
          IF <<n, 1>> \in Pending(s) THEN Cardinality(Pending(s)) - 1
                                     ELSE Cardinality(Pending(s))
    BY <1>4, FS_RemoveElement
  <1> HIDE DEF S
  <1>7. ASSUME NEW at \in S
        PROVE  \E m \in Node, i \in Nat \ {0} :
                 /\ at = <<m, i>> /\ at[1] = m /\ at[2] = i
                 /\ f[at] = IF m = n THEN <<n, i + 1>> ELSE <<m, i>>
                 /\ f[at] \in T
    <2>0. PICK m \in Node :
            \E i \in 1..Len(sync'[m]) : at = <<m, i>> /\ sync'[m][i] = Report(s, TRUE)
      BY <1>5
    <2>1. PICK i \in 1..Len(sync'[m]) : at = <<m, i>> /\ sync'[m][i] = Report(s, TRUE)
      BY <2>0
    <2>2. i \in Nat \ {0}
      BY <2>1
    <2>3. f[at] = IF m = n THEN <<n, i + 1>> ELSE <<m, i>>
      BY <2>1
    <2>4. CASE m = n
      <3> DEFINE rest == Tail(sync[n])
      <3>0. i \in 1..Len(rest) /\ rest[i] = Report(s, TRUE)
        BY <1>3, <2>1, <2>4
      <3>1. i + 1 \in 1..Len(sync[n]) /\ sync[n][i + 1] = Report(s, TRUE) /\ i + 1 # 1
        <4>1. Len(rest) = Len(sync[n]) - 1 /\ rest[i] = sync[n][i + 1]
          BY <1>2, <3>0
        <4> DEFINE len == Len(sync[n])
                   size == Len(rest)
        <4>2. len \in Nat /\ size = len - 1 /\ i \in 1..size
          BY <1>2, <3>0, <4>1
        <4> HIDE DEF len, size
        <4>3. i + 1 \in 1..len /\ i + 1 # 1
          BY <4>2
        <4> HIDE DEF rest
        <4> QED
          BY <3>0, <4>1, <4>3 DEF len
      <3>2. <<n, i + 1>> \in Pending(s)
        BY <1>4, <3>1
      <3> QED
        BY <2>1, <2>2, <2>3, <2>4, <3>1, <3>2
    <2>5. CASE m # n
      <3>1. <<m, i>> \in Pending(s)
        BY <1>3, <1>4, <2>1, <2>5
      <3> QED
        BY <2>1, <2>2, <2>3, <2>5, <3>1
    <2> QED
      BY <2>4, <2>5
  <1>8. f \in [S -> T]
    BY <1>7
  <1>9. \A a, b \in S : f[a] = f[b] => a = b
    <2> SUFFICES ASSUME NEW a \in S, NEW b \in S, f[a] = f[b] PROVE a = b
      OBVIOUS
    <2> HIDE DEF f, T
    <2>1. PICK m \in Node, i \in Nat \ {0} :
            a = <<m, i>> /\ f[a] = IF m = n THEN <<n, i + 1>> ELSE <<m, i>>
      BY <1>7
    <2>2. PICK k \in Node, j \in Nat \ {0} :
            b = <<k, j>> /\ f[b] = IF k = n THEN <<n, j + 1>> ELSE <<k, j>>
      BY <1>7
    <2>3. m = k /\ i = j
      BY <2>1, <2>2
    <2> QED
      BY <2>1, <2>2, <2>3
  <1>10. f \in Injection(S, T)
    <2> HIDE DEF f, T
    <2> QED
      BY <1>8, <1>9, Fun_IsInj
  <1>11. Cardinality(S) <= Cardinality(T)
    <2> HIDE DEF f, T
    <2> QED
      BY <1>6, <1>10, FS_Injection
  <1>12. Cardinality(Pending(s)) \in Nat /\ Cardinality(S) \in Nat
    BY <1>4, <1>5, FS_CardinalityType
  <1>13. Head(sync[n]) = Report(s, TRUE) => <<n, 1>> \in Pending(s)
    <2>1. Head(sync[n]) = sync[n][1] /\ 1 \in 1..Len(sync[n])
      BY <1>1, <1>2
    <2> QED
      BY <1>4, <2>1
  <1> HIDE DEF T, f
  <1>14. Cardinality(S) <= Cardinality(Pending(s))
    BY <1>6, <1>11, <1>12
  <1>15. Head(sync[n]) = Report(s, TRUE) => Cardinality(S) <= Cardinality(Pending(s)) - 1
    BY <1>6, <1>11, <1>12, <1>13
  <1> QED
    BY <1>12, <1>14, <1>15 DEF S

\* A report that a node makes takes room if it asks for a lease.
LEMMA EnqueueRooms ==
  ASSUME ObservationTypes, ObservationTypes', node \in Node, NEW s0 \in Scope, NEW b \in BOOLEAN,
         Enqueue(s0, b), NEW s
  PROVE  /\ Cardinality(Pending(s)) \in Nat /\ Cardinality(Pending(s)') \in Nat
         /\ ~b \/ s # s0 => Cardinality(Pending(s)') <= Cardinality(Pending(s))
         /\ Cardinality(Pending(s)') <= Cardinality(Pending(s)) + 1
  <1> DEFINE len == Len(sync[node])
             more == Append(sync[node], Report(s0, b))
             last == <<node, len + 1>>
  <1>1. sync[node] \in Seq(ReportOf) /\ Report(s0, b) \in ReportOf
    BY DEF ObservationTypes, Report, ReportOf
  <1>2. /\ len \in Nat /\ Len(more) = len + 1
        /\ \A i \in 1..len : more[i] = sync[node][i]
        /\ more[len + 1] = Report(s0, b)
    BY <1>1, LenProperties
  <1>3. sync'[node] = more /\ \A m \in Node : m # node => sync'[m] = sync[m]
    BY DEF Enqueue, ObservationTypes
  <1>4. /\ IsFiniteSet(Pending(s))
        /\ \A at : at \in Pending(s) <=>
             \E m \in Node : \E i \in 1..Len(sync[m]) :
               at = <<m, i>> /\ sync[m][i] = Report(s, TRUE)
    BY Places
  <1>5. /\ IsFiniteSet(Pending(s)')
        /\ \A at : at \in Pending(s)' <=>
             \E m \in Node : \E i \in 1..Len(sync'[m]) :
               at = <<m, i>> /\ sync'[m][i] = Report(s, TRUE)
    BY NextPlaces
  <1> HIDE DEF more
  <1>6. \A at \in Pending(s)' : at \in Pending(s) \/ (at = last /\ Report(s0, b) = Report(s, TRUE))
    <2> SUFFICES ASSUME NEW at \in Pending(s)', at \notin Pending(s)
                 PROVE  at = last /\ Report(s0, b) = Report(s, TRUE)
      OBVIOUS
    <2>0. PICK m \in Node :
            \E i \in 1..Len(sync'[m]) : at = <<m, i>> /\ sync'[m][i] = Report(s, TRUE)
      BY <1>5
    <2>1. PICK i \in 1..Len(sync'[m]) : at = <<m, i>> /\ sync'[m][i] = Report(s, TRUE)
      BY <2>0
    <2>2. m = node
      BY <1>3, <1>4, <2>1
    <2>3. i \in 1..(len + 1)
      BY <1>2, <1>3, <2>1, <2>2
    <2>4. i \notin 1..len
      BY <1>2, <1>3, <1>4, <2>1, <2>2
    <2>5. i = len + 1
      BY <1>2, <2>3, <2>4
    <2> QED
      BY <1>2, <1>3, <2>1, <2>2, <2>5
  <1>7. Cardinality(Pending(s)) \in Nat /\ Cardinality(Pending(s)') \in Nat
    BY <1>4, <1>5, FS_CardinalityType
  <1>8. ~b \/ s # s0 => Report(s0, b) # Report(s, TRUE)
    BY DEF Report
  <1>9. ~b \/ s # s0 => Cardinality(Pending(s)') <= Cardinality(Pending(s))
    <2> SUFFICES ASSUME ~b \/ s # s0 PROVE Cardinality(Pending(s)') <= Cardinality(Pending(s))
      OBVIOUS
    <2>1. Pending(s)' \in SUBSET Pending(s)
      BY <1>6, <1>8
    <2> QED
      BY <1>4, <2>1, FS_Subset
  <1>10. Cardinality(Pending(s)') <= Cardinality(Pending(s)) + 1
    <2> HIDE DEF last
    <2> DEFINE T == Pending(s) \cup {last}
    <2>1. IsFiniteSet(T) /\ Cardinality(T) =
            IF last \in Pending(s) THEN Cardinality(Pending(s)) ELSE Cardinality(Pending(s)) + 1
      BY <1>4, FS_AddElement
    <2>2. Pending(s)' \in SUBSET T
      BY <1>6
    <2> HIDE DEF T
    <2>3. Cardinality(Pending(s)') <= Cardinality(T)
      BY <2>1, <2>2, FS_Subset
    <2> QED
      BY <1>7, <2>1, <2>3
  <1> QED
    BY <1>7, <1>9, <1>10

LEMMA HoldsKept ==
  ASSUME UNCHANGED mix, \A o \in Reports : pc'[o] = "none" <=> pc[o] = "none", NEW s
  PROVE  Holds(s)' = Holds(s)
  BY DEF Holds

LEMMA RoomsKept ==
  ASSUME Rooms, \A s \in Scope : Holds(s)' = Holds(s),
         \A s \in Scope : /\ Cardinality(Pending(s)) \in Nat /\ Cardinality(Pending(s)') \in Nat
                          /\ Cardinality(Pending(s)') <= Cardinality(Pending(s))
  PROVE  Rooms'
  <1> SUFFICES ASSUME NEW s \in Scope
               PROVE  Cardinality(Pending(s)') <= Cardinality(Holds(s)')
    BY DEF Rooms
  <1>1. Cardinality(Pending(s)) <= Cardinality(Holds(s)) /\ Cardinality(Holds(s)) \in Nat
    BY HoldsFinite DEF Rooms
  <1> QED
    BY <1>1

LEMMA SubmitsRooms ==
  ASSUME ObservationTypes, ObservationTypes', TypeOK, Rooms, NEW n \in Node, ReportSubmits(n)
  PROVE  Rooms'
  <1> DEFINE report == Head(sync[n])
  <1>1. PICK o \in Submissions(n, report) : Submit(o)
    BY ReporterSubmits
  <1>2. /\ o \in Reports /\ ScopeOf[LeaseOf[o]] = report.scope
        /\ report.observed => KindOf[o] = "hold" /\ o \in Holds(report.scope)
        /\ ~report.observed => KindOf[o] = "drop"
    BY Submitted
  <1>3. sync[n] # <<>> /\ sync' = [sync EXCEPT ![n] = Tail(@)] /\ UNCHANGED mix
    BY ReporterSubmits
  <1>4. pc[o] = "none" /\ \A q \in Op : pc'[q] = IF q = o THEN "queued" ELSE pc[q]
    BY <1>1 DEF Submit, TypeOK
  <1>5. report \in ReportOf
    BY <1>3, TailTypes
  <1> HIDE DEF report
  <1> SUFFICES ASSUME NEW s \in Scope
               PROVE  Cardinality(Pending(s)') <= Cardinality(Holds(s)')
    BY DEF Rooms
  <1>6. /\ Cardinality(Pending(s)) \in Nat /\ Cardinality(Pending(s)') \in Nat
        /\ Cardinality(Pending(s)') <= Cardinality(Pending(s))
        /\ report = Report(s, TRUE) => Cardinality(Pending(s)') <= Cardinality(Pending(s)) - 1
    BY <1>3, TailRooms DEF report
  <1>7. /\ Cardinality(Pending(s)) <= Cardinality(Holds(s))
        /\ IsFiniteSet(Holds(s)) /\ Cardinality(Holds(s)) \in Nat
    BY HoldsFinite DEF Rooms
  <1>8. CASE report.observed /\ report.scope = s
    <2>1. report = Report(s, TRUE)
      BY <1>5, <1>8 DEF ReportOf, Report
    <2>2. Holds(s)' = Holds(s) \ {o}
      BY <1>2, <1>3, <1>4, Reporters DEF Holds
    <2>3. Cardinality(Holds(s) \ {o}) = Cardinality(Holds(s)) - 1
      BY <1>2, <1>7, <1>8, FS_RemoveElement
    <2> QED
      BY <1>6, <1>7, <2>1, <2>2, <2>3
  <1>9. CASE ~(report.observed /\ report.scope = s)
    <2>1. Holds(s)' = Holds(s)
      BY <1>2, <1>3, <1>4, <1>9, Reporters DEF Holds
    <2> QED
      BY <1>6, <1>7, <2>1
  <1> QED
    BY <1>8, <1>9

-----------------------------------------------------------------------------
(* What the reports come down to *)

LEMMA ComesSame ==
  ASSUME NEW n \in Node, NEW s, NEW want \in BOOLEAN, Comes(n, s, want),
         sync'[n] = sync[n], task'[n] = task[n], held'[n] = held[n]
  PROVE  Comes(n, s, want)'
  BY DEF Comes, Rests, HeldFor

LEMMA ComesMore ==
  ASSUME ObservationTypes, NEW n \in Node, n = node, NEW s0 \in Scope, NEW b \in BOOLEAN, Enqueue(s0, b),
         task'[n] = task[n], held'[n] = held[n]
  PROVE  /\ Comes(n, s0, b)'
         /\ \A s \in Scope, want \in BOOLEAN :
              s # s0 /\ Comes(n, s, want) => Comes(n, s, want)'
  <1> DEFINE len == Len(sync[n])
             more == Append(sync[n], Report(s0, b))
  <1>1. sync[n] \in Seq(ReportOf) /\ Report(s0, b) \in ReportOf
    BY DEF ObservationTypes, Report, ReportOf
  <1>2. /\ len \in Nat /\ Len(more) = len + 1
        /\ \A i \in 1..len : more[i] = sync[n][i]
        /\ more[len + 1] = Report(s0, b)
    BY <1>1, LenProperties
  <1>3. sync'[n] = more
    BY DEF Enqueue, ObservationTypes
  <1> HIDE DEF more
  <1>4. Comes(n, s0, b)'
    <2>1. len + 1 \in 1..Len(more) /\ \A j \in 1..Len(more) : j <= len + 1
      BY <1>2
    <2> HIDE DEF len
    <2> QED
      BY <1>2, <1>3, <2>1 DEF Comes
  <1>5. ASSUME NEW s \in Scope, NEW want \in BOOLEAN, s # s0, Comes(n, s, want)
        PROVE  Comes(n, s, want)'
    <2>1. more[len + 1].scope # s
      BY <1>2, <1>5 DEF Report
    <2>2. \A j \in 1..Len(more) : j \in 1..len \/ j = len + 1
      BY <1>2
    <2>3. CASE \E i \in 1..len : /\ sync[n][i] = Report(s, want)
                                 /\ \A j \in 1..len : sync[n][j].scope = s => j <= i
      <3>1. PICK i \in 1..len : /\ sync[n][i] = Report(s, want)
                                /\ \A j \in 1..len : sync[n][j].scope = s => j <= i
        BY <2>3
      <3>2. i \in 1..Len(more) /\ more[i] = Report(s, want)
        BY <1>2, <3>1
      <3>3. \A j \in 1..Len(more) : more[j].scope = s => j <= i
        BY <1>2, <2>1, <2>2, <3>1
      <3> QED
        BY <1>3, <3>2, <3>3 DEF Comes
    <2>4. CASE \A i \in 1..len : sync[n][i].scope # s
      <3>1. \A i \in 1..Len(more) : more[i].scope # s
        BY <1>2, <2>1, <2>2, <2>4
      <3>2. Rests(n, s, want)
        BY <1>5, <2>4 DEF Comes, Report
      <3> QED
        BY <1>3, <3>1, <3>2 DEF Comes, Rests, HeldFor
    <2> QED
      BY <1>5, <2>3, <2>4 DEF Comes
  <1> QED
    BY <1>4, <1>5

\* A reporter takes the head of its reports.
LEMMA HeadTaken ==
  ASSUME ObservationTypes, NEW n \in Node, sync[n] # <<>>,
         sync' = [sync EXCEPT ![n] = Tail(@)], NEW s \in Scope, NEW want \in BOOLEAN,
         Comes(n, s, want),
         Head(sync[n]) = Report(s, want) => Rests(n, s, want)',
         Head(sync[n]).scope # s /\ Rests(n, s, want) => Rests(n, s, want)'
  PROVE  Comes(n, s, want)'
  <1> DEFINE rest == Tail(sync[n])
             len == Len(sync[n])
             size == Len(rest)
  <1>1. sync[n] \in Seq(ReportOf)
    BY DEF ObservationTypes
  <1>2. /\ size = len - 1 /\ len \in Nat \ {0}
        /\ \A i \in 1..size : rest[i] = sync[n][i + 1]
    BY <1>1, HeadTailProperties, EmptySeq
  <1>3. sync'[n] = rest /\ Head(sync[n]) = sync[n][1]
    BY <1>1, <1>2 DEF ObservationTypes
  <1> HIDE DEF rest
  <1>4. ASSUME NEW i \in 1..len, sync[n][i] = Report(s, want),
               \A j \in 1..len : sync[n][j].scope = s => j <= i
        PROVE  \/ \E k \in 1..size : /\ rest[k] = Report(s, want)
                                     /\ \A j \in 1..size : rest[j].scope = s => j <= k
               \/ /\ \A k \in 1..size : rest[k].scope # s
                  /\ Head(sync[n]) = Report(s, want)
    <2> HIDE DEF len, size
    <2>1. CASE i = 1
      <3>1. ASSUME NEW k \in 1..size PROVE rest[k].scope # s
        <4>1. k + 1 \in 1..len /\ ~(k + 1 <= i)
          BY <1>2, <2>1
        <4> QED
          BY <1>2, <1>4, <4>1
      <3> QED
        BY <1>3, <1>4, <2>1, <3>1
    <2>2. CASE i # 1
      <3>1. i - 1 \in 1..size /\ (i - 1) + 1 = i
        BY <1>2, <2>2
      <3>2. rest[i - 1] = Report(s, want)
        BY <1>2, <1>4, <3>1
      <3>3. ASSUME NEW j \in 1..size, rest[j].scope = s PROVE j <= i - 1
        <4>1. j + 1 \in 1..len /\ sync[n][j + 1].scope = s
          BY <1>2, <3>3
        <4>2. j + 1 <= i
          BY <1>4, <4>1
        <4> QED
          BY <4>2
      <3> QED
        BY <3>1, <3>2, <3>3
    <2> QED
      BY <2>1, <2>2
  <1>5. ASSUME \A i \in 1..len : sync[n][i].scope # s
        PROVE  (\A k \in 1..size : rest[k].scope # s) /\ Head(sync[n]).scope # s
    <2> HIDE DEF len, size
    <2>1. 1 \in 1..len /\ \A k \in 1..size : k + 1 \in 1..len
      BY <1>2
    <2> QED
      BY <1>2, <1>3, <1>5, <2>1
  <1>6. CASE \E i \in 1..len : /\ sync[n][i] = Report(s, want)
                               /\ \A j \in 1..len : sync[n][j].scope = s => j <= i
    BY <1>3, <1>4, <1>6 DEF Comes
  <1>7. CASE (\A i \in 1..len : sync[n][i].scope # s) /\ Rests(n, s, want)
    BY <1>3, <1>5, <1>7 DEF Comes
  <1> QED
    BY <1>6, <1>7 DEF Comes

-----------------------------------------------------------------------------
(* Steps of the composition *)

LEMMA NodeKeeps ==
  ASSUME ObservationTypes, ObservationTypes', Nodes, Follows, Rooms, NodeFollows,
         \A o \in Reports : pc'[o] = "none" <=> pc[o] = "none"
  PROVE  Nodes' /\ Follows' /\ Rooms'
  <1>1. UNCHANGED <<mix, task, held>>
    BY DEF NodeFollows
  <1>2. \A s \in Scope : Holds(s)' = Holds(s)
    BY <1>1, HoldsKept
  <1>3. \A s \in Scope : Cardinality(Pending(s)) \in Nat
    BY Places, FS_CardinalityType
  <1>4. CASE UNCHANGED sync
    <2>1. \A s \in Scope : Pending(s)' = Pending(s)
      BY <1>4 DEF Pending
    <2>2. Rooms'
      BY <1>2, <2>1 DEF Rooms
    <2>3. \A n \in Node, want \in BOOLEAN :
            Comes(n, ResultScope, want) => Comes(n, ResultScope, want)'
      BY <1>1, <1>4, ComesSame
    <2>4. CASE phase # "Ready" /\ phase' = "Ready" /\ Constructed
      <3>1. node' \in Node /\ node' = node + 1 /\ node \in Nat
        BY <2>4, NodesAssumption DEF Constructed, ObservationTypes, Node
      <3>2. open' = TRUE /\ observed' = {} /\ reported' = FALSE /\ ~open
        BY <2>4 DEF Constructed, Nodes
      <3>3. Nodes'
        <4>1. \A n \in Node : n > node' => n > node
          BY <3>1 DEF Node
        <4> QED
          BY <1>1, <1>4, <2>4, <3>1, <3>2, <4>1 DEF Nodes
      <3>4. Follows'
        BY <2>3, <3>2 DEF Follows
      <3> QED
        BY <2>2, <3>3, <3>4
    <2>5. CASE phase = "Ready" /\ phase' # "Ready" /\ CloseRuntimeNode
      <3>1. /\ open' = FALSE /\ observed' = {} /\ reported' = FALSE /\ node' = node /\ open
            /\ node \in Node
        BY <2>5 DEF CloseRuntimeNode, Nodes
      <3>2. ResultScope \notin observed
        <4>1. CASE reported
          <5>1. sync'[node] = Append(sync[node], Report(ResultScope, FALSE))
            BY <2>5, <3>1, <4>1 DEF CloseRuntimeNode, Enqueue, ObservationTypes
          <5>2. sync[node] \in Seq(ReportOf) /\ Report(ResultScope, FALSE) \in ReportOf
            BY <3>1, NodesAssumption DEF ObservationTypes, Report, ReportOf
          <5>3. Len(sync'[node]) = Len(sync[node]) + 1 /\ Len(sync[node]) \in Nat
            BY <5>1, <5>2
          <5> QED
            BY <1>4, <5>3
        <4> QED
          BY <4>1 DEF Nodes
      <3>3. Nodes'
        BY <1>1, <1>4, <2>5, <3>1 DEF Nodes
      <3>4. Follows'
        BY <2>3, <3>1, <3>2 DEF Follows
      <3> QED
        BY <2>2, <3>3, <3>4
    <2>6. CASE (phase = "Ready" <=> phase' = "Ready") /\ UNCHANGED <<nodeVars, sync>>
      <3>1. UNCHANGED <<node, open, observed, reported>>
        BY <2>6 DEF nodeVars
      <3>2. Nodes'
        BY <1>1, <1>4, <2>6, <3>1 DEF Nodes
      <3>3. Follows'
        BY <2>3, <3>1 DEF Follows
      <3> QED
        BY <2>2, <3>2, <3>3
    <2> QED
      BY <2>4, <2>5, <2>6 DEF NodeFollows
  <1>5. CASE sync' # sync
    <2>1. /\ phase = "Ready" /\ phase' # "Ready" /\ Enqueue(ResultScope, FALSE)
          /\ open' = FALSE /\ observed' = {} /\ reported' = FALSE /\ node' = node
      BY <1>5 DEF NodeFollows, Constructed, CloseRuntimeNode, nodeVars
    <2>2. node \in Node /\ open
      BY <2>1 DEF Nodes
    <2>3. \A m \in Node : m # node => sync'[m] = sync[m]
      BY <2>1 DEF Enqueue, ObservationTypes
    <2>4. Rooms'
      <3>1. \A s \in Scope : /\ Cardinality(Pending(s)') \in Nat
                             /\ Cardinality(Pending(s)') <= Cardinality(Pending(s))
        BY <2>1, <2>2, NodesAssumption, EnqueueRooms
      <3> QED
        BY <1>2, <1>3, <3>1, RoomsKept
    <2>5. Nodes'
      BY <1>1, <2>1, <2>2, <2>3 DEF Nodes, Node
    <2>6. ASSUME NEW n \in Node PROVE Comes(n, ResultScope, FALSE)'
      <3>1. CASE n = node
        BY <1>1, <2>1, <3>1, NodesAssumption, ComesMore
      <3>2. CASE n # node
        <4>1. Comes(n, ResultScope, FALSE)
          BY <3>2 DEF Follows
        <4> QED
          BY <1>1, <2>3, <3>2, <4>1, ComesSame
      <3> QED
        BY <3>1, <3>2
    <2>7. Follows'
      BY <2>1, <2>6 DEF Follows
    <2> QED
      BY <2>4, <2>5, <2>7
  <1> QED
    BY <1>4, <1>5

LEMMA ObserverKeeps ==
  ASSUME ObservationTypes, ObservationTypes', Nodes, Follows, Rooms,
         NEW s0 \in Scope, BecomesObserved(s0) \/ BecomesUnobserved(s0)
  PROVE  Nodes' /\ Follows' /\ Rooms'
  <1>1. PICK b \in BOOLEAN :
          /\ Enqueue(s0, b)
          /\ b => BecomesObserved(s0)
          /\ ~b => BecomesUnobserved(s0)
    BY DEF BecomesObserved, BecomesUnobserved
  <1>2. /\ open /\ UNCHANGED <<mix, node, open, task, held, phase, pc>>
        /\ observed' = IF b THEN observed \cup {s0} ELSE observed \ {s0}
        /\ reported' <=> IF b THEN reported \/ s0 = ResultScope ELSE reported /\ s0 # ResultScope
    BY <1>1 DEF BecomesObserved, BecomesUnobserved, vars, cellVars, actorVars
  <1>3. node \in Node
    BY <1>2 DEF Nodes
  <1>4. \A m \in Node : m # node => sync'[m] = sync[m]
    BY <1>1 DEF Enqueue, ObservationTypes
  <1>5. Nodes'
    BY <1>2, <1>3, <1>4 DEF Nodes, Node
  <1>6. Follows'
    <2> SUFFICES ASSUME NEW n \in Node, NEW want \in BOOLEAN,
                        want <=> n = node /\ open /\ ResultScope \in observed'
                 PROVE  Comes(n, ResultScope, want)'
      BY <1>2 DEF Follows
    <2>1. CASE n # node
      <3>1. Comes(n, ResultScope, want)
        BY <2>1 DEF Follows
      <3> QED
        BY <1>2, <1>4, <2>1, <3>1, ComesSame
    <2>2. CASE n = node /\ s0 = ResultScope
      <3>1. want = b
        BY <1>2, <2>2
      <3> QED
        BY <1>1, <1>2, <2>2, <3>1, ComesMore
    <2>3. CASE n = node /\ s0 # ResultScope
      <3>1. Comes(n, ResultScope, want)
        BY <1>2, <2>3 DEF Follows
      <3> QED
        BY <1>1, <1>2, <2>3, <3>1, NodesAssumption, ComesMore
    <2> QED
      BY <2>1, <2>2, <2>3
  <1>7. Rooms'
    <2> SUFFICES ASSUME NEW s \in Scope
                 PROVE  Cardinality(Pending(s)') <= Cardinality(Holds(s)')
      BY DEF Rooms
    <2>1. Holds(s)' = Holds(s)
      BY <1>2 DEF Holds
    <2>2. Cardinality(Pending(s)) <= Cardinality(Holds(s)) /\ Cardinality(Holds(s)) \in Nat
      BY HoldsFinite DEF Rooms
    <2>3. /\ Cardinality(Pending(s)) \in Nat /\ Cardinality(Pending(s)') \in Nat
          /\ ~b \/ s # s0 => Cardinality(Pending(s)') <= Cardinality(Pending(s))
          /\ Cardinality(Pending(s)') <= Cardinality(Pending(s)) + 1
      BY <1>1, <1>3, EnqueueRooms
    <2>4. b => Cardinality(Pending(s0)) < Cardinality(Holds(s0))
      BY <1>1 DEF BecomesObserved, Room
    <2> QED
      BY <2>1, <2>2, <2>3, <2>4
  <1> QED
    BY <1>5, <1>6, <1>7

LEMMA SubmitsKeeps ==
  ASSUME ObservationTypes, ObservationTypes', TypeOK, Nodes, Follows, Rooms,
         NEW n \in Node, ReportSubmits(n)
  PROVE  Nodes' /\ Follows' /\ Rooms'
  <1>1. PICK o \in Submissions(n, Head(sync[n])) :
          Submit(o) /\ task' = [task EXCEPT ![n] = [op |-> o, report |-> Head(sync[n])]]
    BY ReporterSubmits
  <1>2. o \in Reports
    BY Submitted
  <1>3. /\ task[n].op = None /\ sync[n] # <<>> /\ sync' = [sync EXCEPT ![n] = Tail(@)]
        /\ UNCHANGED <<mix, node, open, observed, reported, held>>
    BY ReporterSubmits
  <1>4. /\ phase' = phase
        /\ \A m \in Node : m # n => task'[m] = task[m] /\ sync'[m] = sync[m]
        /\ task'[n].op = o /\ task'[n].report = Head(sync[n])
    BY <1>1, <1>3 DEF Submit, cellVars, ObservationTypes
  <1>5. Nodes'
    BY <1>3, <1>4 DEF Nodes
  <1>6. Follows'
    <2> SUFFICES ASSUME NEW m \in Node, NEW want \in BOOLEAN,
                        want <=> m = node /\ open /\ ResultScope \in observed
                 PROVE  Comes(m, ResultScope, want)'
      BY <1>3 DEF Follows
    <2>1. Comes(m, ResultScope, want)
      BY DEF Follows
    <2>2. CASE m # n
      BY <1>3, <1>4, <2>1, <2>2, ComesSame
    <2>3. CASE m = n
      <3>1. Head(sync[n]) = Report(ResultScope, want) => Rests(n, ResultScope, want)'
        BY <1>2, <1>4 DEF Rests, Report
      <3>2. Head(sync[n]).scope # ResultScope /\ Rests(n, ResultScope, want)
              => Rests(n, ResultScope, want)'
        BY <1>2, <1>3, <1>4, Reporters DEF Rests, HeldFor
      <3> QED
        BY <1>3, <2>1, <2>3, <3>1, <3>2, NodesAssumption, HeadTaken
    <2> QED
      BY <2>2, <2>3
  <1>7. Rooms'
    BY SubmitsRooms
  <1> QED
    BY <1>5, <1>6, <1>7

LEMMA SkipsKeeps ==
  ASSUME ObservationTypes, ObservationTypes', Nodes, Follows, Rooms, KnownOnce,
         NEW n \in Node, ReportSkips(n)
  PROVE  Nodes' /\ Follows' /\ Rooms'
  <1>1. /\ task[n].op = None /\ sync[n] # <<>> /\ sync' = [sync EXCEPT ![n] = Tail(@)]
        /\ Submissions(n, Head(sync[n])) = {}
        /\ UNCHANGED <<mix, node, open, observed, reported, task, held, phase, pc>>
    BY DEF ReportSkips, nodeVars, vars, cellVars, actorVars
  <1>2. \A m \in Node : m # n => sync'[m] = sync[m]
    BY <1>1 DEF ObservationTypes
  <1>3. Nodes'
    BY <1>1, <1>2 DEF Nodes
  <1>4. Rooms'
    <2>1. \A s \in Scope : Holds(s)' = Holds(s)
      BY <1>1 DEF Holds
    <2>2. \A s \in Scope : /\ Cardinality(Pending(s)) \in Nat /\ Cardinality(Pending(s)') \in Nat
                           /\ Cardinality(Pending(s)') <= Cardinality(Pending(s))
      BY <1>1, TailRooms
    <2> QED
      BY <2>1, <2>2, RoomsKept
  <1>5. Follows'
    <2> SUFFICES ASSUME NEW m \in Node, NEW want \in BOOLEAN,
                        want <=> m = node /\ open /\ ResultScope \in observed
                 PROVE  Comes(m, ResultScope, want)'
      BY <1>1 DEF Follows
    <2>1. Comes(m, ResultScope, want)
      BY DEF Follows
    <2>2. CASE m # n
      BY <1>1, <1>2, <2>1, <2>2, ComesSame
    <2>3. CASE m = n
      <3>2. Head(sync[n]) = Report(ResultScope, want) => (want <=> HeldFor(n, ResultScope) # {})
        <4> SUFFICES ASSUME Head(sync[n]) = Report(ResultScope, want)
                     PROVE  want <=> HeldFor(n, ResultScope) # {}
          OBVIOUS
        <4>1. CASE want
          <5>1. Holds(ResultScope) # {}
            <6>1. sync[n] \in Seq(ReportOf)
              BY DEF ObservationTypes
            <6>2. 1 \in 1..Len(sync[n]) /\ sync[n][1] = Report(ResultScope, TRUE)
              <7>1. Len(sync[n]) \in Nat /\ Len(sync[n]) # 0
                BY <1>1, <6>1, EmptySeq
              <7>2. Head(sync[n]) = sync[n][1]
                BY <1>1, <6>1, HeadTailProperties
              <7>3. sync[n][1] = Report(ResultScope, want)
                BY <7>2
              <7>4. sync[n][1] = Report(ResultScope, TRUE)
                BY <4>1, <7>3, Zenon
              <7>5. 1 \in 1..Len(sync[n])
                BY <7>1
              <7> QED
                BY <7>4, <7>5, Zenon
            <6>3. Pending(ResultScope) # {} /\ IsFiniteSet(Pending(ResultScope))
              BY <6>2, Places
            <6>4. Cardinality(Pending(ResultScope)) # 0
                  /\ Cardinality(Pending(ResultScope)) \in Nat
              BY <6>3, FS_EmptySet, FS_CardinalityType
            <6>5. Cardinality(Holds(ResultScope)) # 0
              BY <6>4, NodesAssumption, HoldsFinite DEF Rooms
            <6> QED
              BY <6>5, FS_EmptySet
          <5>2. AcquireObserved(n, ResultScope) = {}
            BY <1>1, <4>1 DEF Submissions, Report
          <5> QED
            BY <4>1, <5>1, <5>2 DEF AcquireObserved
        <4>2. CASE ~want
          <5>1. ReleaseObserved(n, ResultScope) = {}
            BY <1>1, <4>2 DEF Submissions, Report
          <5>2. \A l \in HeldFor(n, ResultScope) : \E o \in Reports :
                  KindOf[o] = "drop" /\ LeaseOf[o] = l
            BY LeasesAssumption DEF HeldFor, KnownOnce, Reported
          <5> QED
            BY <4>2, <5>1, <5>2 DEF ReleaseObserved
        <4> QED
          BY <4>1, <4>2
      <3>3. Rests(n, ResultScope, want)' <=> (want <=> HeldFor(n, ResultScope) # {})
        BY <1>1, Reporters DEF Rests, HeldFor
      <3>4. Rests(n, ResultScope, want) <=> (want <=> HeldFor(n, ResultScope) # {})
        BY <1>1, Reporters DEF Rests
      <3> QED
        BY <1>1, <2>1, <2>3, <3>2, <3>3, <3>4, NodesAssumption, HeadTaken
    <2> QED
      BY <2>2, <2>3
  <1> QED
    BY <1>3, <1>4, <1>5

LEMMA EndsKeeps ==
  ASSUME ObservationTypes, ObservationTypes', Nodes, Follows, Rooms, Tasks,
         \A o \in Op : handler[o] = "idle", NEW n \in Node, ReportEnds(n)
  PROVE  Nodes' /\ Follows' /\ Rooms'
  <1> DEFINE o == task[n].op
             s == task[n].report.scope
  <1>1. o \in Reports /\ handler[o] = "idle"
    BY Reporters DEF ReportEnds, ObservationTypes
  <1>2. UNCHANGED <<mix, node, open, observed, reported, sync, phase, pc>>
    BY DEF ReportEnds, nodeVars, vars, cellVars, actorVars
  <1>3. \A m \in Node :
          /\ m # n => task'[m] = task[m] /\ held'[m] = held[m]
          /\ task'[n] = NoTask
          /\ held'[n] = IF task[n].report.observed THEN held[n] \cup {LeaseOf[o]}
                                                  ELSE held[n] \ HeldFor(n, s)
    BY <1>1 DEF ReportEnds, ObservationTypes
  <1>4. ScopeOf[LeaseOf[o]] = s
    BY <1>1 DEF Tasks, Fits
  <1>5. NoTask.op \notin Reports
    BY Reporters DEF NoTask
  <1>6. Rooms'
    <2>1. \A t \in Scope : Holds(t)' = Holds(t) /\ Pending(t)' = Pending(t)
      BY <1>2 DEF Holds, Pending
    <2> QED
      BY <2>1 DEF Rooms
  <1> HIDE DEF o, s
  <1>7. Nodes'
    <2>1. \A m \in Node : m > node => m # n
      BY <1>1, Reporters DEF Nodes, NoTask, o
    <2> QED
      BY <1>2, <1>3, <2>1 DEF Nodes
  <1>8. Follows'
    <2> SUFFICES ASSUME NEW m \in Node, NEW want \in BOOLEAN,
                        want <=> m = node /\ open /\ ResultScope \in observed
                 PROVE  Comes(m, ResultScope, want)'
      BY <1>2 DEF Follows
    <2>1. Comes(m, ResultScope, want)
      BY DEF Follows
    <2>2. CASE m # n
      BY <1>2, <1>3, <2>1, <2>2, ComesSame
    <2>3. CASE m = n
      <3>1. CASE s = ResultScope
        <4>1. (HeldFor(n, ResultScope)' # {}) <=> task[n].report.observed
          BY <1>3, <1>4, <3>1 DEF HeldFor
        <4> QED
          BY <1>1, <1>2, <1>3, <1>5, <2>1, <2>3, <3>1, <4>1 DEF Comes, Rests, HeldFor, o, s
      <3>2. CASE s # ResultScope
        <4>1. HeldFor(n, ResultScope)' = HeldFor(n, ResultScope)
          BY <1>3, <1>4, <3>2 DEF HeldFor
        <4> QED
          BY <1>2, <1>3, <1>5, <2>1, <2>3, <3>2, <4>1 DEF Comes, Rests, HeldFor, o, s
      <3> QED
        BY <3>1, <3>2
    <2> QED
      BY <2>2, <2>3
  <1> QED
    BY <1>6, <1>7, <1>8

-----------------------------------------------------------------------------
(* The invariant of the composition *)

LEMMA StaysClosed ==
  ASSUME [Next]_vars, closed
  PROVE  closed'
  <1>1. CASE UNCHANGED vars
    BY <1>1 DEF vars, closeVars
  <1>2. ASSUME NEW o \in Op, Submit(o) PROVE closed'
    BY <1>2 DEF Submit
  <1>3. ASSUME NEW o \in Op, Steps(o) PROVE closed'
    BY <1>3 DEF Steps, AcquireLiveLease, ReleaseLiveLease, ReadinessRead, AcquireSucceeds,
                AcquireFails, ReleaseNode, HandlerStarts, WorkerInterrupted, closeVars
  <1>4. ASSUME NEW p \in Party, Hooks(p) PROVE closed'
    BY <1>4 DEF Hooks, StartSucceeds, StartFails, UpdateSucceeds, UpdateFails, StopEnds, closeVars
  <1>5. ASSUME Invalidate \/ Evict PROVE closed'
    BY <1>5 DEF Invalidate, Evict
  <1>6. ASSUME NEW r \in Resource, OrphanAnswers(r) \/ DetachedStopEnds(r) PROVE closed'
    BY <1>6 DEF OrphanAnswers, DetachedStopEnds, closeVars
  <1>7. ASSUME NEW why \in CloseReasons, Close(why) PROVE closed'
    BY <1>7 DEF Close
  <1> QED
    BY <1>1, <1>2, <1>3, <1>4, <1>5, <1>6, <1>7 DEF Next, Progress

LEMMA InitOInv ==
  ASSUME ObservationInit
  PROVE  OInv
  <1>1. /\ leases = {} /\ phase = "Idle" /\ pc = [o \in Op |-> "none"]
        /\ node = 0 /\ open = FALSE /\ observed = {} /\ reported = FALSE
        /\ sync = [n \in Node |-> <<>>]
        /\ task = [n \in Node |-> NoTask]
        /\ held = [n \in Node |-> {}]
    BY DEF ObservationInit, Init
  <1>2. \A n \in Node : task[n].op \notin Reports
    BY <1>1, Reporters DEF NoTask
  <1>3. \A n \in Node : sync[n] = <<>> /\ Len(sync[n]) = 0 /\ held[n] = {}
    BY <1>1
  <1>4. Ledger
    BY <1>1, <1>2, <1>3 DEF Ledger, Known, Asked
  <1>5. Tasks
    BY <1>1, <1>2, Reporters DEF Tasks
  <1>6. KnownOnce
    BY <1>3 DEF KnownOnce
  <1>7. Rooms
    <2> SUFFICES ASSUME NEW s \in Scope
                 PROVE  Cardinality(Pending(s)) <= Cardinality(Holds(s))
      BY DEF Rooms
    <2>1. Pending(s) = {}
      BY <1>1 DEF Pending
    <2>2. Cardinality(Pending(s)) = 0
      BY <2>1, FS_EmptySet
    <2>3. Cardinality(Holds(s)) \in Nat
      BY HoldsFinite
    <2> QED
      BY <2>2, <2>3
  <1>8. Nodes
    BY <1>1 DEF Nodes
  <1>9. Follows
    <2> SUFFICES ASSUME NEW n \in Node, NEW want \in BOOLEAN, ~want
                 PROVE  Comes(n, ResultScope, want)
      BY <1>1 DEF Follows
    <2>1. Rests(n, ResultScope, want)
      BY <1>2, <1>3 DEF Rests, HeldFor
    <2>2. 1..Len(sync[n]) = {}
      BY <1>3
    <2> QED
      BY <2>1, <2>2 DEF Comes
  <1> QED
    BY <1>4, <1>5, <1>6, <1>7, <1>8, <1>9 DEF OInv

LEMMA NextOInv ==
  ASSUME ObservationTypes, LiveInv, OInv, [ObservationNext]_allVars
  PROVE  OInv'
  <1> SUFFICES ASSUME ~closed'
               PROVE  /\ Ledger' /\ Tasks' /\ KnownOnce'
                      /\ Rooms' /\ Nodes' /\ Follows'
    BY DEF OInv
  <1>1. ~closed
    BY ObservationSteps, StaysClosed
  <1>2. Ledger /\ Tasks /\ KnownOnce /\ Rooms /\ Nodes /\ Follows
    BY <1>1 DEF OInv
  <1>3. ObservationTypes'
    BY NextObservationTypes
  <1>4. TypeOK /\ \A o \in Op : handler[o] = "idle"
    BY <1>1 DEF LiveInv, Closing
  <1>5. ASSUME Moves, NodeFollows
        PROVE  /\ Ledger' /\ Tasks' /\ KnownOnce'
               /\ Rooms' /\ Nodes' /\ Follows'
    <2>1. UNCHANGED <<task, held>>
      BY <1>5 DEF NodeFollows
    <2>2. /\ Ledger' /\ Tasks' /\ KnownOnce'
          /\ \A o \in Reports : pc'[o] = "none" <=> pc[o] = "none"
      BY <1>2, <1>5, <2>1, MovesKeepBook
    <2> QED
      BY <1>2, <1>3, <1>5, <2>2, NodeKeeps
  <1>6. CASE Resources
    <2>1. mix.closes \subseteq CloseReasons /\ mix.ops \subseteq Op
      BY ReportsAssumption DEF ObservationTypes
    <2>2. \/ \E r \in Resource : OrphanAnswers(r) \/ DetachedStopEnds(r)
          \/ \E o \in Op \ Reports : Submit(o)
          \/ \E why \in CloseReasons : Close(why)
      BY <1>6, <2>1 DEF Resources
    <2>3. Moves
      BY <1>2, <2>2, MovesAhead
    <2> QED
      BY <1>5, <1>6, <2>3 DEF Resources
  <1>7. CASE Progress /\ NodeFollows
    <2>1. Moves
      BY <1>2, <1>7, MovesAhead
    <2> QED
      BY <1>5, <1>7, <2>1
  <1>8. ASSUME NEW n \in Node, Reporter(n)
        PROVE  /\ Ledger' /\ Tasks' /\ KnownOnce'
               /\ Rooms' /\ Nodes' /\ Follows'
    <2>1. CASE ReportSubmits(n)
      BY <1>2, <1>3, <1>4, <2>1, SubmitsBook, SubmitsKeeps
    <2>2. CASE ReportSkips(n)
      <3>1. UNCHANGED <<task, held, pc, leases>>
        BY <2>2 DEF ReportSkips, vars, cellVars, actorVars
      <3>2. Ledger' /\ Tasks' /\ KnownOnce'
        BY <1>2, <3>1 DEF Ledger, Known, Asked, Granted, Tasks, Fits, HeldFor, KnownOnce
      <3> QED
        BY <1>2, <1>3, <2>2, <3>2, SkipsKeeps
    <2>3. CASE ReportMisses(n)
      BY <1>1, <2>3 DEF ReportMisses
    <2>4. CASE ReportEnds(n)
      BY <1>2, <1>3, <1>4, <2>4, EndsBook, EndsKeeps
    <2> QED
      BY <1>8, <2>1, <2>2, <2>3, <2>4 DEF Reporter
  <1>9. ASSUME NEW s \in Scope, BecomesObserved(s) \/ BecomesUnobserved(s)
        PROVE  /\ Ledger' /\ Tasks' /\ KnownOnce'
               /\ Rooms' /\ Nodes' /\ Follows'
    <2>1. UNCHANGED <<task, held, pc, leases>>
      BY <1>9 DEF BecomesObserved, BecomesUnobserved, vars, cellVars, actorVars
    <2>2. Ledger' /\ Tasks' /\ KnownOnce'
      BY <1>2, <2>1 DEF Ledger, Known, Asked, Granted, Tasks, Fits, HeldFor, KnownOnce
    <2> QED
      BY <1>2, <1>3, <1>9, <2>2, ObserverKeeps
  <1>10. CASE UNCHANGED allVars
    <2>1. UNCHANGED <<mix, node, open, observed, reported, sync, task, held, pc, leases, phase>>
      BY <1>10 DEF allVars, nodeVars, reporterVars, vars, cellVars, actorVars
    <2>2. Ledger' /\ Tasks' /\ KnownOnce'
      BY <1>2, <2>1 DEF Ledger, Known, Asked, Granted, Tasks, Fits, HeldFor, KnownOnce
    <2>3. Rooms'
      <3>1. \A s \in Scope : Pending(s)' = Pending(s) /\ Holds(s)' = Holds(s)
        BY <2>1 DEF Pending, Holds
      <3> QED
        BY <1>2, <3>1 DEF Rooms
    <2>4. Nodes' /\ Follows'
      BY <1>2, <2>1 DEF Nodes, Follows, Comes, Rests, HeldFor
    <2> QED
      BY <2>2, <2>3, <2>4
  <1> QED
    BY <1>6, <1>7, <1>8, <1>9, <1>10 DEF ObservationNext, Progresses

-----------------------------------------------------------------------------
(* Theorems *)

\* The composition of observation and live resource takes only steps of the live
\* resource: what NodeBase and the reporters do (resultObservationBridge.ts) is,
\* for the resource of the node, leases that are acquired and released.
THEOREM ImplementsLiveResource == ObservationSpec => Spec
  <1>1. ObservationInit => Init
    BY DEF ObservationInit
  <1>2. ObservationInit => ObservationTypes
    BY InitObservationTypes
  <1>3. ObservationTypes /\ [ObservationNext]_allVars => ObservationTypes' /\ [Next]_vars
    BY NextObservationTypes, ObservationSteps
  <1> QED
    BY <1>1, <1>2, <1>3, PTL DEF ObservationSpec, Spec

\* Reports, reporters, nodes and live resources keep their types.
THEOREM ObservationTyped == ObservationSpec => []ObservationTypeOK
  <1>1. ObservationSpec => []ObservationTypes
    BY InitObservationTypes, NextObservationTypes, PTL DEF ObservationSpec
  <1>2. ObservationSpec => []LiveInv
    BY ImplementsLiveResource, LiveInvariant
  <1>3. ObservationTypes /\ LiveInv => ObservationTypeOK
    BY DEF ObservationTypes, LiveInv, ObservationTypeOK
  <1> QED
    BY <1>1, <1>2, <1>3, PTL

\* While deliveries are serialized by the permit and the cell is not invalidated,
\* every running resource is the one the cell knows, and so is stopped with it
\* (liveness/index.ts:424).
THEOREM NothingIsLost == ObservationSpec => []SerialDeliveryLosesNothing
  <1>1. LiveInv => SerialDeliveryLosesNothing
    BY DEF LiveInv, Serial, SerialDeliveryLosesNothing, EveryResourceStops
  <1> QED
    BY <1>1, ImplementsLiveResource, LiveInvariant, PTL

\* The resource of a ready node at rest was given the demand of the leases held,
\* or none is active and there is no demand or a failure to show
\* (deliverLiveDemand of liveness/index.ts).
THEOREM DemandArrives == ObservationSpec => []DemandIsDelivered
  <1>1. LiveInv => DemandIsDelivered
    BY DEF LiveInv, Brings, Matches, DemandIsDelivered
  <1> QED
    BY <1>1, ImplementsLiveResource, LiveInvariant, PTL

\* Once the reporters have come to every report, each lease they led to is known
\* to its reporter, and there is one for the result exactly when the node that is
\* there has its result observed (resultObservationBridge.ts:58).
THEOREM ResultDemand == ObservationSpec => []ResultDemandFollows
  <1>1. ObservationTypes /\ OInv => ResultDemandFollows
    <2> SUFFICES ASSUME ObservationTypes, OInv, Settled, ~closed
                 PROVE  /\ leases \cap Reported = UNION {held[n] : n \in Node}
                        /\ ResultScope \in Demand(leases \cap Reported)
                             <=> open /\ ResultScope \in observed
      BY DEF ResultDemandFollows
    <2>1. Ledger /\ KnownOnce /\ Nodes /\ Follows
      BY DEF OInv
    <2>2. \A n \in Node : /\ task[n].op \notin Reports
                          /\ Len(sync[n]) = 0
      BY Reporters DEF Settled
    <2>3. \A n \in Node, l \in Reported : Known(n, l) <=> l \in held[n]
      BY <2>2 DEF Known, Asked
    <2>4. leases \cap Reported = UNION {held[n] : n \in Node}
      BY <2>1, <2>3 DEF Ledger, KnownOnce
    <2>5. ASSUME NEW n \in Node, NEW want \in BOOLEAN,
                 want <=> n = node /\ open /\ ResultScope \in observed
          PROVE  want <=> HeldFor(n, ResultScope) # {}
      <3>1. Comes(n, ResultScope, want)
        BY <2>1, <2>5 DEF Follows
      <3>2. 1..Len(sync[n]) = {}
        BY <2>2
      <3> QED
        BY <2>2, <3>1, <3>2 DEF Comes, Rests
    <2>6. \A n \in Node : HeldFor(n, ResultScope) # {}
                            <=> n = node /\ open /\ ResultScope \in observed
      <3> SUFFICES ASSUME NEW n \in Node
                   PROVE  HeldFor(n, ResultScope) # {}
                            <=> n = node /\ open /\ ResultScope \in observed
        OBVIOUS
      <3>1. PICK want \in BOOLEAN : want <=> n = node /\ open /\ ResultScope \in observed
        OBVIOUS
      <3> QED
        BY <2>5, <3>1
    <2>7. ResultScope \in Demand(leases \cap Reported)
            <=> \E n \in Node : HeldFor(n, ResultScope) # {}
      BY <2>4 DEF Demand, HeldFor
    <2>8. open => node \in Node
      BY <2>1 DEF Nodes
    <2> QED
      BY <2>4, <2>6, <2>7, <2>8
  <1>2. ObservationSpec => []ObservationTypes
    BY InitObservationTypes, NextObservationTypes, PTL DEF ObservationSpec
  <1>3. ObservationSpec => []LiveInv
    BY ImplementsLiveResource, LiveInvariant
  <1>4. ObservationSpec => []OInv
    BY <1>2, <1>3, InitOInv, NextOInv, PTL DEF ObservationSpec
  <1> QED
    BY <1>1, <1>2, <1>4, PTL

-----------------------------------------------------------------------------
(* The result of a node *)

\* The stage of the hook that runs: its last word on the validity stands, an
\* acquire shares no object with the node, and what is written in place after
\* the first patch was put back by the hook itself.
Staging ==
  /\ op.said # "none" => op.staged.explicit /\ op.staged.validity = op.said
  /\ op.kind = "acquire" => ~op.shares
  /\ op.cloned /\ op.shares => op.back
  /\ op.wrote => op.back

ResultShape ==
  /\ policy \in Policies
  /\ now \in Nat
  /\ op \in [kind : {"none", "acquire", "refresh", "action"},
             staged : [validity : Tag, loaded : Int, explicit : BOOLEAN],
             said : Tag \cup {"none"}, shares : BOOLEAN, cloned : BOOLEAN,
             wrote : BOOLEAN, back : BOOLEAN, vouched : BOOLEAN]
  /\ ready \in [validity : Tag, loaded : Int, said : Tag \cup {"none"}, vouched : BOOLEAN]
  /\ churned \in BOOLEAN /\ torn \in BOOLEAN

\* The last word of the hook that committed stands.
SaidStands == ready.said # "none" => ready.validity = ready.said

ResultInv == ResultShape /\ Staging /\ SaidStands /\ ~churned /\ ~torn

-----------------------------------------------------------------------------
(* Commits *)

LEMMA EffectiveTag ==
  ASSUME NEW validity \in Tag, NEW loaded, NEW at
  PROVE  Effective(validity, loaded, at) \in Tag
  BY DEF Effective, Tag

LEMMA NextShape ==
  ASSUME NEW next \in Commits \cup {Plain}
  PROVE  /\ next.form \in {"commit", "plain"}
         /\ next.form = "commit" => next.validity \in Tag \cup {"none"} /\ next.loaded \in Int
         /\ next.form = "plain" => next = Plain
  BY PoliciesAssumption DEF Commits, Plain, Tag, Time, Never

LEMMA CommitStateType ==
  ASSUME now \in Int, NEW next \in Commits \cup {Plain}, NEW default,
         NEW previous \in [validity : Tag, loaded : Int, explicit : BOOLEAN]
  PROVE  CommitState(next, previous, default)
           \in [validity : Tag, loaded : Int, explicit : BOOLEAN]
  <1>1. Asserted(next, previous, default) \in Tag
    BY NextShape DEF Asserted, Tag
  <1>2. Loaded(next, previous, default) \in Int
    BY NextShape DEF Loaded
  <1>3. (IF next.form = "commit" THEN next.validity # "none" \/ next.loaded # Never
         ELSE default = "preserve" /\ previous.explicit) \in BOOLEAN
    OBVIOUS
  <1> QED
    BY <1>1, <1>2, <1>3, EffectiveTag DEF CommitState, State

LEMMA OutcomeType ==
  ASSUME ResultShape, Staging,
         NEW returned \in Commits \cup {Plain, [Plain EXCEPT !.form = "nothing"]}
  PROVE  /\ Outcome(returned) \in [validity : Tag, loaded : Int, explicit : BOOLEAN]
         /\ op.said # "none" => Outcome(returned).validity = op.said
  <1>1. CASE ~Loads(returned)
    BY <1>1 DEF Outcome, ResultShape, Staging
  <1>2. CASE Loads(returned)
    <2>1. returned \in Commits \cup {Plain}
      BY <1>2 DEF Loads, Plain
    <2> DEFINE state == CommitState(returned, op.staged, "current")
    <2>2. state \in [validity : Tag, loaded : Int, explicit : BOOLEAN]
      BY <2>1, CommitStateType DEF ResultShape
    <2>3. Outcome(returned) = IF op.staged.explicit
            THEN [state EXCEPT !.validity = op.staged.validity, !.explicit = TRUE]
            ELSE state
      BY <1>2 DEF Outcome, Committed
    <2> HIDE DEF state
    <2>4. op.staged.validity \in Tag
      BY DEF ResultShape
    <2> QED
      BY <2>2, <2>3, <2>4 DEF Staging
  <1> QED
    BY <1>1, <1>2

\* A value that is returned without a word on its time is loaded now.
LEMMA FreshOnArrival ==
  ASSUME ResultShape, op.kind # "action", ~op.staged.explicit, policy.expire > 0
  PROVE  Effective(Outcome(Plain).validity, Outcome(Plain).loaded, now) # "Expired"
  <1>1. policy.stale \in Nat /\ policy.expire \in Nat
    BY PoliciesAssumption DEF ResultShape, Normalized
  <1>2. Outcome(Plain) = CommitState(Plain, op.staged, "current")
    BY DEF Outcome, Loads, Committed, Plain
  <1>3. CommitState(Plain, op.staged, "current") = State(Effective("Current", now, now), now, FALSE)
    BY DEF CommitState, Asserted, Loaded, Plain
  <1>4. Effective("Current", now, now) \in {"Current", "Stale"}
    BY <1>1 DEF Effective, ResultShape
  <1>5. Effective(Effective("Current", now, now), now, now) # "Expired"
    BY <1>1, <1>4 DEF Effective, ResultShape
  <1> QED
    BY <1>2, <1>3, <1>5 DEF State

-----------------------------------------------------------------------------
(* Steps *)

LEMMA InitResult == ResultInit => ResultInv
  <1> SUFFICES ASSUME ResultInit PROVE ResultInv
    OBVIOUS
  <1>1. /\ op = NoOp
        /\ ready = [validity |-> "Current", loaded |-> 0, said |-> "none", vouched |-> FALSE]
    BY DEF ResultInit
  <1>2. ResultShape
    <2>1. policy \in Policies /\ now = 0 /\ churned = FALSE /\ torn = FALSE
      BY DEF ResultInit
    <2>2. ready \in [validity : Tag, loaded : Int, said : Tag \cup {"none"}, vouched : BOOLEAN]
      BY <1>1 DEF Tag
    <2>3. op \in [kind : {"none", "acquire", "refresh", "action"},
                  staged : [validity : Tag, loaded : Int, explicit : BOOLEAN],
                  said : Tag \cup {"none"}, shares : BOOLEAN, cloned : BOOLEAN,
                  wrote : BOOLEAN, back : BOOLEAN, vouched : BOOLEAN]
      BY <1>1 DEF NoOp, State, Tag
    <2> QED
      BY <2>1, <2>2, <2>3 DEF ResultShape
  <1>3. Staging /\ SaidStands
    BY <1>1 DEF Staging, SaidStands, NoOp
  <1> QED
    BY <1>2, <1>3 DEF ResultInit, ResultInv

LEMMA AcquireKeeps ==
  ASSUME ResultInv, EnsureReady
  PROVE  ResultInv'
  <1> DEFINE staged == CommitState(Plain, NoOp.staged, "current")
  <1>1. NoOp.staged \in [validity : Tag, loaded : Int, explicit : BOOLEAN]
    BY DEF NoOp, State, Tag
  <1>2. staged \in [validity : Tag, loaded : Int, explicit : BOOLEAN]
    BY <1>1, CommitStateType DEF ResultInv, ResultShape
  <1> HIDE DEF staged
  <1>3. op' = [NoOp EXCEPT !.kind = "acquire", !.staged = staged]
    BY DEF EnsureReady, Acquire, staged
  <1>4. UNCHANGED <<policy, now, ready, churned, torn>>
    BY DEF EnsureReady
  <1>5. ResultShape'
    BY <1>2, <1>3, <1>4 DEF ResultInv, ResultShape, NoOp
  <1>6. Staging'
    BY <1>3 DEF Staging, NoOp
  <1> QED
    BY <1>4, <1>5, <1>6 DEF ResultInv, SaidStands

LEMMA OperatePreserves ==
  ASSUME ResultInv, NEW kind \in {"refresh", "action"}, Operate(kind)
  PROVE  ResultInv'
  <1>1. ResultShape'
    BY DEF ResultInv, ResultShape, Operate, NoOp, State
  <1>2. Staging'
    BY DEF Staging, Operate, NoOp
  <1> QED
    BY <1>1, <1>2 DEF ResultInv, SaidStands, Operate

LEMMA SetResultKeeps ==
  ASSUME ResultInv, NEW next \in Commits \cup {Plain}, NEW back \in BOOLEAN, SetResult(next, back)
  PROVE  ResultInv'
  <1> DEFINE staged == CommitState(next, op.staged, IF op.kind = "action" THEN "preserve" ELSE "current")
  <1>1. staged \in [validity : Tag, loaded : Int, explicit : BOOLEAN]
    BY CommitStateType DEF ResultInv, ResultShape
  <1>2. op' = [op EXCEPT !.staged = staged, !.said = "none",
                         !.vouched = @ \/ Vouches(op.kind, next), !.shares = back,
                         !.back = @ \/ (back /\ op.cloned)]
    BY DEF SetResult
  <1> HIDE DEF staged
  <1>3. ResultShape'
    BY <1>1, <1>2 DEF ResultInv, ResultShape, SetResult, Vouches
  <1>4. Staging'
    BY <1>2 DEF ResultInv, ResultShape, Staging, SetResult
  <1> QED
    BY <1>3, <1>4 DEF ResultInv, SaidStands, SetResult

LEMMA SetResultValidityPreserves ==
  ASSUME ResultInv, NEW tag \in Tag, SetResultValidity(tag)
  PROVE  ResultInv'
  <1>1. ResultShape'
    BY DEF ResultInv, ResultShape, SetResultValidity
  <1>2. Staging'
    BY DEF ResultInv, ResultShape, Staging, SetResultValidity
  <1> QED
    BY <1>1, <1>2 DEF ResultInv, SaidStands, SetResultValidity

LEMMA PatchPreserves ==
  ASSUME ResultInv, PatchResult
  PROVE  ResultInv'
  <1>1. /\ op' = [Cloned(op) EXCEPT !.wrote = @ \/ Cloned(op).shares]
        /\ UNCHANGED <<policy, now, readiness, ready, churned, torn>>
    BY DEF PatchResult
  <1>2. ResultShape'
    BY <1>1 DEF ResultInv, ResultShape, Cloned
  <1>3. Staging'
    BY <1>1 DEF ResultInv, ResultShape, Staging, Cloned
  <1> QED
    BY <1>1, <1>2, <1>3 DEF ResultInv, SaidStands

LEMMA CommitPreserves ==
  ASSUME ResultInv, UNCHANGED churned,
         NEW returned \in Commits \cup {Plain, [Plain EXCEPT !.form = "nothing"]},
         Commit(Outcome(returned), op.vouched \/ Loads(returned))
  PROVE  ResultInv'
  <1>1. /\ Outcome(returned) \in [validity : Tag, loaded : Int, explicit : BOOLEAN]
        /\ op.said # "none" => Outcome(returned).validity = op.said
    BY OutcomeType DEF ResultInv
  <1>2. /\ ready' = [validity |-> Outcome(returned).validity,
                     loaded |-> Outcome(returned).loaded, said |-> op.said,
                     vouched |-> op.vouched \/ Loads(returned)]
        /\ op' = NoOp /\ UNCHANGED <<policy, now, torn>>
    BY DEF Commit
  <1>3. ResultShape'
    <2>1. op.vouched \/ Loads(returned) \in BOOLEAN
      BY DEF ResultInv, ResultShape, Loads
    <2> QED
      BY <1>1, <1>2, <2>1 DEF ResultInv, ResultShape, NoOp, State, Tag
  <1>4. Staging'
    BY <1>2 DEF Staging, NoOp
  <1>5. SaidStands'
    BY <1>1, <1>2 DEF SaidStands
  <1> QED
    BY <1>2, <1>3, <1>4, <1>5 DEF ResultInv

LEMMA AcquireReturnsPreserves ==
  ASSUME ResultInv, NEW returned \in Commits \cup {Plain, [Plain EXCEPT !.form = "nothing"]},
         AcquireReturns(returned), op.kind # "action"
  PROVE  ResultInv'
  <1>1. UNCHANGED churned
    BY FreshOnArrival DEF ResultInv, ResultShape, AcquireReturns
  <1>2. CASE Outcome(returned).validity # "Expired"
    BY <1>1, <1>2, CommitPreserves DEF AcquireReturns
  <1>3. CASE Outcome(returned).validity = "Expired"
    <2>1. op' = NoOp /\ UNCHANGED <<policy, now, ready, torn>>
      BY <1>3 DEF AcquireReturns
    <2> QED
      BY <1>1, <2>1 DEF ResultInv, ResultShape, Staging, SaidStands, NoOp, State, Tag
  <1> QED
    BY <1>2, <1>3

LEMMA FailsPreserves ==
  ASSUME ResultInv, Fails
  PROVE  ResultInv'
  <1>1. ~torn'
    BY DEF ResultInv, ResultShape, Staging, Fails
  <1>2. ResultShape' /\ Staging'
    BY <1>1 DEF ResultInv, ResultShape, Staging, Fails, NoOp, State, Tag
  <1> QED
    BY <1>1, <1>2 DEF ResultInv, SaidStands, Fails

\* The hook of an acquire is the only one that runs while the node acquires.
Runs == readiness = "Acquiring" => op.kind = "acquire"

LEMMA RunsInvariant == ResultSpec => []Runs
  <1>1. ResultInit => Runs
    BY DEF ResultInit, Runs
  <1>2. Runs /\ [ResultNext]_resultVars => Runs'
    <2> SUFFICES ASSUME Runs, [ResultNext]_resultVars PROVE Runs'
      OBVIOUS
    <2>1. CASE \E next \in Commits \cup {Plain}, back \in BOOLEAN : SetResult(next, back)
      BY <2>1 DEF Runs, SetResult
    <2>2. CASE PatchResult
      BY <2>2 DEF Runs, PatchResult, Cloned
    <2>3. CASE \E tag \in Tag : SetResultValidity(tag)
      BY <2>3 DEF Runs, SetResultValidity
    <2>4. CASE EnsureReady
      BY <2>4 DEF Runs, EnsureReady, Acquire, NoOp
    <2>5. CASE \E returned \in Commits \cup {Plain, [Plain EXCEPT !.form = "nothing"]} :
                 OperationReturns(returned) \/ AcquireReturns(returned)
      BY <2>5 DEF Runs, OperationReturns, AcquireReturns, Commit
    <2>6. CASE Tick \/ ReleaseResult \/ Fails \/ UNCHANGED resultVars
               \/ \E kind \in {"refresh", "action"} : Operate(kind)
      BY <2>6 DEF Runs, Tick, ReleaseResult, Fails, Operate, resultVars
    <2> QED
      BY <2>1, <2>2, <2>3, <2>4, <2>5, <2>6 DEF ResultNext
  <1> QED
    BY <1>1, <1>2, PTL DEF ResultSpec

LEMMA NextResult ==
  ASSUME ResultInv, Runs, [ResultNext]_resultVars
  PROVE  ResultInv'
  <1>1. CASE Tick
    BY <1>1 DEF ResultInv, ResultShape, Staging, SaidStands, Tick
  <1>2. CASE ReleaseResult \/ UNCHANGED resultVars
    BY <1>2 DEF ResultInv, ResultShape, Staging, SaidStands, ReleaseResult, resultVars
  <1>3. CASE EnsureReady
    BY <1>3, AcquireKeeps
  <1>4. CASE Fails
    BY <1>4, FailsPreserves
  <1>5. CASE PatchResult
    BY <1>5, PatchPreserves
  <1>6. CASE \E kind \in {"refresh", "action"} : Operate(kind)
    BY <1>6, OperatePreserves
  <1>7. CASE \E next \in Commits \cup {Plain}, back \in BOOLEAN : SetResult(next, back)
    BY <1>7, SetResultKeeps
  <1>8. CASE \E tag \in Tag : SetResultValidity(tag)
    BY <1>8, SetResultValidityPreserves
  <1>9. ASSUME NEW returned \in Commits \cup {Plain, [Plain EXCEPT !.form = "nothing"]},
               OperationReturns(returned)
        PROVE  ResultInv'
    BY <1>9, CommitPreserves DEF OperationReturns
  <1>10. ASSUME NEW returned \in Commits \cup {Plain, [Plain EXCEPT !.form = "nothing"]},
                AcquireReturns(returned)
         PROVE  ResultInv'
    <2>1. op.kind # "action"
      BY <1>10 DEF Runs, AcquireReturns
    <2> QED
      BY <1>10, <2>1, AcquireReturnsPreserves
  <1> QED
    BY <1>1, <1>2, <1>3, <1>4, <1>5, <1>6, <1>7, <1>8, <1>9, <1>10 DEF ResultNext

LEMMA ResultInvariance == ResultSpec => []ResultInv
  BY InitResult, NextResult, RunsInvariant, PTL DEF ResultSpec

-----------------------------------------------------------------------------
(* What renews a result *)

\* What a hook has staged without vouching for it is dated as what the node has
\* and is no fresher.
Unrenewed ==
  readiness = "Operating" /\ ~op.vouched =>
    /\ op.staged.loaded = ready.loaded
    /\ op.staged.validity = "Current" => ready.validity = "Current"

LEMMA InitUnrenewed == ResultInit => Unrenewed
  BY DEF ResultInit, Unrenewed

\* A plain value that an action passes is dated as the stage was, and is current
\* only if that was.
LEMMA PreservedStage ==
  ASSUME NEW previous
  PROVE  LET state == CommitState(Plain, previous, "preserve") IN
           /\ state.loaded = previous.loaded
           /\ state.validity = "Current" => previous.validity = "Current"
  BY DEF CommitState, State, Loaded, Asserted, Plain, Effective

LEMMA NextUnrenewed ==
  ASSUME ResultInv, Unrenewed, [ResultNext]_resultVars
  PROVE  Unrenewed'
  <1>1. CASE \E next \in Commits \cup {Plain}, back \in BOOLEAN : SetResult(next, back)
    <2>1. PICK next \in Commits \cup {Plain}, back \in BOOLEAN : SetResult(next, back)
      BY <1>1
    <2> DEFINE staged == CommitState(next, op.staged, IF op.kind = "action" THEN "preserve" ELSE "current")
    <2>2. /\ op' = [op EXCEPT !.staged = staged, !.said = "none",
                              !.vouched = @ \/ Vouches(op.kind, next), !.shares = back,
                              !.back = @ \/ (back /\ op.cloned)]
          /\ UNCHANGED <<readiness, ready>>
      BY <2>1 DEF SetResult
    <2>3. ASSUME ~Vouches(op.kind, next)
          PROVE  /\ staged.loaded = op.staged.loaded
                 /\ staged.validity = "Current" => op.staged.validity = "Current"
      BY <2>3, NextShape, PreservedStage DEF Vouches
    <2> HIDE DEF staged
    <2> QED
      BY <2>2, <2>3 DEF Unrenewed, ResultInv, ResultShape
  <1>2. CASE \E tag \in Tag : SetResultValidity(tag)
    BY <1>2 DEF Unrenewed, SetResultValidity, ResultInv, ResultShape
  <1>3. CASE PatchResult
    BY <1>3 DEF Unrenewed, PatchResult, Cloned, ResultInv, ResultShape
  <1>4. CASE \E kind \in {"refresh", "action"} : Operate(kind)
    BY <1>4 DEF Unrenewed, Operate, NoOp, State
  <1>5. CASE EnsureReady
    BY <1>5 DEF Unrenewed, EnsureReady, Acquire
  <1>6. CASE \E returned \in Commits \cup {Plain, [Plain EXCEPT !.form = "nothing"]} :
               OperationReturns(returned) \/ AcquireReturns(returned)
    BY <1>6 DEF Unrenewed, OperationReturns, AcquireReturns, Commit
  <1>7. CASE Tick \/ Fails \/ ReleaseResult \/ UNCHANGED resultVars
    BY <1>7 DEF Unrenewed, Tick, Fails, ReleaseResult, resultVars
  <1> QED
    BY <1>1, <1>2, <1>3, <1>4, <1>5, <1>6, <1>7 DEF ResultNext

LEMMA UnrenewedInvariance == ResultSpec => []Unrenewed
  BY InitUnrenewed, NextUnrenewed, ResultInvariance, PTL DEF ResultSpec

\* Time only takes a result further from being current.
LEMMA AgeingIsOneWay ==
  ASSUME policy \in Policies, NEW loaded \in Int, NEW old \in Tag, NEW new \in Tag,
         NEW before \in Int, NEW after \in Int, before <= after, new = "Current" => old = "Current",
         Effective(new, loaded, after) = "Current"
  PROVE  Effective(old, loaded, before) = "Current"
  <1>1. policy.stale \in Nat /\ policy.expire \in Nat /\ policy.stale <= policy.expire
    BY PoliciesAssumption DEF Normalized
  <1>2. new = "Current" /\ old = "Current"
    BY DEF Effective, Tag
  <1>3. CASE policy.tag # "TimeBound"
    BY <1>2, <1>3 DEF Effective
  <1>4. CASE policy.tag = "TimeBound"
    <2>1. after - loaded < policy.stale
      BY <1>1, <1>2, <1>4 DEF Effective
    <2>2. before - loaded < policy.stale
      BY <1>1, <2>1
    <2> QED
      BY <1>1, <1>2, <1>4, <2>2 DEF Effective
  <1> QED
    BY <1>3, <1>4

\* A reader is shown a current result exactly when its snapshot says so.
LEMMA ShownCurrent == HasResult => (Shown = "Current" <=> Snapshot = "Current")
  BY DEF HasResult, Shown, PublicRead

\* A step that commits nothing leaves the committed result; one that commits
\* what its hook did not vouch for commits what was staged.
LEMMA CommitsOrKeeps ==
  ASSUME ResultInv, Unrenewed, [ResultNext]_resultVars, HasResult, ready' = ready \/ ~ready'.vouched
  PROVE  /\ ready'.loaded = ready.loaded
         /\ ready'.validity = "Current" => ready.validity = "Current"
         /\ policy' = policy /\ now <= now'
  <1>0. now \in Nat
    BY DEF ResultInv, ResultShape
  <1>1. CASE Tick
    BY <1>0, <1>1 DEF Tick
  <1>2. CASE EnsureReady \/ Fails \/ ReleaseResult \/ PatchResult \/ UNCHANGED resultVars
    BY <1>0, <1>2 DEF EnsureReady, Fails, ReleaseResult, PatchResult, resultVars
  <1>3. CASE \E kind \in {"refresh", "action"} : Operate(kind)
    BY <1>0, <1>3 DEF Operate
  <1>4. CASE \E next \in Commits \cup {Plain}, back \in BOOLEAN : SetResult(next, back)
    BY <1>0, <1>4 DEF SetResult
  <1>5. CASE \E tag \in Tag : SetResultValidity(tag)
    BY <1>0, <1>5 DEF SetResultValidity
  <1>6. CASE \E returned \in Commits \cup {Plain, [Plain EXCEPT !.form = "nothing"]} :
               OperationReturns(returned) \/ AcquireReturns(returned)
    <2>1. PICK returned \in Commits \cup {Plain, [Plain EXCEPT !.form = "nothing"]} :
            OperationReturns(returned) \/ AcquireReturns(returned)
      BY <1>6
    <2>2. readiness # "Acquiring"
      BY DEF HasResult
    <2>3. readiness = "Operating" /\ Commit(Outcome(returned), op.vouched \/ Loads(returned))
      BY <2>1, <2>2 DEF OperationReturns, AcquireReturns
    <2>4. /\ ready' = [validity |-> Outcome(returned).validity,
                       loaded |-> Outcome(returned).loaded, said |-> op.said,
                       vouched |-> op.vouched \/ Loads(returned)]
          /\ UNCHANGED <<policy, now>>
      BY <2>3 DEF Commit
    <2>5. CASE ready' = ready
      BY <1>0, <2>4, <2>5
    <2>6. CASE ~ready'.vouched
      <3>1. ~op.vouched /\ ~Loads(returned)
        BY <2>4, <2>6
      <3>2. Outcome(returned) = op.staged
        BY <3>1 DEF Outcome
      <3> QED
        BY <1>0, <2>3, <2>4, <3>1, <3>2 DEF Unrenewed
    <2> QED
      BY <2>5, <2>6
  <1> QED
    BY <1>1, <1>2, <1>3, <1>4, <1>5, <1>6 DEF ResultNext

-----------------------------------------------------------------------------
(* Results *)

\* A hook that fails leaves the committed result alone, unless it put that
\* object back on its stage itself (driverContext.ts:107).
THEOREM ResultsAreIsolated == ResultSpec => []StagingIsolated
  <1>1. ResultInv => StagingIsolated
    BY DEF ResultInv, StagingIsolated
  <1> QED
    BY <1>1, ResultInvariance, PTL

\* An acquire that returns a value is never expired on arrival, for any
\* durations and however long its hook took (acquireOperation.ts:136).
THEOREM ArrivesFresh == ResultSpec => []NoChurn
  <1>1. ResultInv => NoChurn
    BY DEF ResultInv, NoChurn
  <1> QED
    BY <1>1, ResultInvariance, PTL

\* The last word of a hook on the validity of its result is what the node
\* commits (commitDriverOperationResult).
THEOREM LastWordStands == ResultSpec => []ExplicitSurvives
  <1>1. ResultInv => ExplicitSurvives
    BY DEF ResultInv, SaidStands, ExplicitSurvives
  <1> QED
    BY <1>1, ResultInvariance, PTL

\* While a node has its result, readers see it dated anew, or current again,
\* only when an operation commits a result it loaded or said how valid it is: an
\* action that changes the result, and a refresh that hands nothing over, renew
\* nothing, for any durations and however long their hooks take
\* (actionOperation.ts:114, resultValidity/index.ts:114).
THEOREM OnlyLoadsRenewResults == ResultSpec => OnlyLoadsRenew
  <1>1. ASSUME ResultInv, ResultInv', Unrenewed, [ResultNext]_resultVars,
               HasResult, HasResult', ready' = ready \/ ~ready'.vouched
        PROVE  ready'.loaded = ready.loaded /\ (Shown' = "Current" => Shown = "Current")
    <2>1. /\ ready'.loaded = ready.loaded
          /\ ready'.validity = "Current" => ready.validity = "Current"
          /\ policy' = policy /\ now <= now'
      BY <1>1, CommitsOrKeeps
    <2>2. ASSUME Shown' = "Current" PROVE Shown = "Current"
      <3>1. Snapshot' = "Current"
        BY <1>1, <2>2 DEF HasResult, Shown, PublicRead
      <3>2. Effective(ready'.validity, ready.loaded, now') = "Current"
        BY <2>1, <3>1 DEF Snapshot, Effective
      <3>3. /\ policy \in Policies /\ now \in Int /\ now' \in Int /\ ready.loaded \in Int
            /\ ready.validity \in Tag /\ ready'.validity \in Tag
        BY <1>1 DEF ResultInv, ResultShape
      <3>4. Effective(ready.validity, ready.loaded, now) = "Current"
        BY <2>1, <3>2, <3>3, AgeingIsOneWay
      <3> QED
        BY <1>1, <3>4, ShownCurrent DEF Snapshot
    <2> QED
      BY <2>1, <2>2
  <1>2. ResultInv /\ ResultInv' /\ Unrenewed /\ [ResultNext]_resultVars =>
          [HasResult /\ HasResult' /\ (ready' = ready \/ ~ready'.vouched) =>
             /\ ready'.loaded = ready.loaded
             /\ Shown' = "Current" => Shown = "Current"]_resultVars
    BY <1>1
  <1> QED
    BY <1>2, ResultInvariance, UnrenewedInvariance, PTL DEF ResultSpec, OnlyLoadsRenew
=============================================================================
