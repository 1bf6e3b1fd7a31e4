------------------------------ MODULE ReactStore ------------------------------
(***************************************************************************)
(* useNodes: a component that suspends until its nodes are ready.  Every   *)
(* entry has a store (nodeStore.ts) that keeps one readiness promise for   *)
(* Suspense and listens to the runtime; a composite store (useNodes.ts)    *)
(* joins them for React.  useNode is the case of one entry.                *)
(*                                                                         *)
(* JavaScript runs one handler at a time; what interleaves are the steps   *)
(* of the nodes, the runtime's notifications, promise callbacks, renders,  *)
(* and the effects React runs, cleans up and replays.  The nodes and React *)
(* are as the hooks use them: a readiness attempt has a number and a       *)
(* promise, and the phase a read reports may lag behind the call that      *)
(* booted it.  The stores of the entries are made, disposed and revived    *)
(* together; args change on entry 1.                                       *)
(***************************************************************************)
EXTENDS Naturals, FiniteSets, Sequences

CONSTANTS
  Size,         \* the number of entries
  Args,         \* args of the same identity, rendered for entry 1
  MaxAttempts,  \* bound on readiness attempts of the nodes together
  MaxUpdates,   \* bound on changes of the rendered args
  MaxHides      \* bound on effect replays

Node == 1..Size

ASSUME SizeAssumption == Size \in Nat \ {0} /\ Args # {}
ASSUME BoundsAssumption == MaxAttempts \in Nat /\ MaxUpdates \in Nat /\ MaxHides \in Nat

VARIABLES
  node,       \* what a read of the node says, its latest attempt, if it runs
  promised,   \* the attempts whose promise has settled
  news,       \* the runtime has a change to tell its observers
  slot,       \* readinessAttempt of each store
  due,        \* promise callbacks of its readiness promises to come
  storeGeneration, disposed, listening, \* of the stores
  cached,     \* the composite answers from cachedReadyNodes
  stage, view, dirty, \* the component, what it shows, a render is scheduled
  rendered, applied,  \* args of the last render, and of the last effect
  fingerprint, held,  \* the store's fingerprint, the args the runtime has
  flights,    \* args updates on their way
  misled,     \* history: how the fingerprint came to differ from the args held
  updates, hides

nodeVars == <<node, promised, news>>
storeVars == <<slot, due, storeGeneration, disposed, listening, cached>>
viewVars == <<stage, view, dirty>>
argsVars == <<rendered, applied, fingerprint, held, flights, misled, updates>>
reactVars == <<nodeVars, storeVars, viewVars, argsVars, hides>>

NoSlot == [k |-> 0, shown |-> "none", settled |-> FALSE]
ReadinessSlot == [k : 0..MaxAttempts, settled : BOOLEAN,
                  shown : {"none", "Unseen", "PendingRead", "ReadyGate"}]
Blank == [is |-> "none", on |-> {}, nodes |-> [n \in Node |-> 0]]
FirstArgs == CHOOSE a \in Args : TRUE

StoreInit ==
  /\ node = [n \in Node |-> [tag |-> "Idle", k |-> 0, runs |-> FALSE]]
  /\ promised = [n \in Node |-> {}] /\ news = [n \in Node |-> FALSE]
  /\ slot = [n \in Node |-> NoSlot] /\ due = [n \in Node |-> {}]
  /\ storeGeneration = 0 /\ disposed = FALSE /\ listening = FALSE /\ cached = FALSE
  /\ stage = "absent" /\ view = Blank /\ dirty = TRUE
  /\ rendered = FirstArgs /\ applied = FirstArgs /\ fingerprint = FirstArgs /\ held = FirstArgs
  /\ flights = <<>> /\ misled = {}
  /\ updates = 0 /\ hides = 0

-----------------------------------------------------------------------------
(* The node, as the handle shows it *)

\* A new attempt, or the one that runs: the phase may follow later.
Begin(v, seen) ==
  IF v.runs THEN v
  ELSE [tag |-> IF seen THEN "Pending" ELSE v.tag, k |-> v.k + 1, runs |-> TRUE]

\* The attempts that began, and those that evicted nodes will need.
Attempts ==
  Cardinality(UNION {{n} \X (1..node[n].k) : n \in Node})
  + Cardinality({n \in Node : node[n].tag = "Idle" /\ ~node[n].runs})

Changed(n) == news' = [news EXCEPT ![n] = TRUE]

PhaseFollows(n) ==
  /\ node[n].runs /\ node[n].tag \in {"Idle", "Error"}
  /\ node' = [node EXCEPT ![n].tag = "Pending"]
  /\ Changed(n)
  /\ UNCHANGED <<promised, storeVars, viewVars, argsVars, hides>>

AttemptEnds(n, tag) ==
  /\ node[n].runs /\ node[n].tag = "Pending"
  /\ node' = [node EXCEPT ![n].tag = tag, ![n].runs = FALSE]
  /\ Changed(n)
  /\ UNCHANGED <<promised, storeVars, viewVars, argsVars, hides>>

Evict(n) ==
  /\ node[n].tag \in {"Ready", "Error"} /\ ~node[n].runs
  /\ Attempts < MaxAttempts
  /\ node' = [node EXCEPT ![n].tag = "Idle"]
  /\ Changed(n)
  /\ UNCHANGED <<promised, storeVars, viewVars, argsVars, hides>>

\* React renders a suspended component again when what it awaits has settled.
Woken(v, settled) == v.is = "suspended" /\ \A p \in v.on : p[2] \in settled[p[1]]

PromiseSettles(n, k) ==
  /\ k \notin promised[n]
  /\ k < node[n].k \/ ~node[n].runs
  /\ promised' = [promised EXCEPT ![n] = @ \cup {k}]
  /\ dirty' = (dirty \/ Woken(view, promised'))
  /\ UNCHANGED <<node, news, storeVars, stage, view, argsVars, hides>>

-----------------------------------------------------------------------------
(* The store of one entry; c bundles its node, its slot and its callbacks. *)

Cell(n) == [node |-> node[n], slot |-> slot[n], due |-> due[n]]
Fresh(n) == [Cell(n) EXCEPT !.slot = NoSlot, !.due = {}]

Put(cells) ==
  /\ node' = [n \in Node |-> cells[n].node]
  /\ slot' = [n \in Node |-> cells[n].slot]
  /\ due' = [n \in Node |-> cells[n].due]

\* scheduleReadinessAttempt: one promise at a time.
Schedule(c) ==
  IF c.slot # NoSlot THEN c
  ELSE [c EXCEPT !.slot = [k |-> c.node.k, shown |-> "Unseen", settled |-> FALSE],
                 !.due = @ \cup {<<storeGeneration', c.node.k>>}]

\* scheduleBoot: only an idle node starts an attempt.
ScheduleBoot(c, seen) ==
  IF c.node.tag = "Idle" THEN Schedule([c EXCEPT !.node = Begin(@, seen)])
  ELSE IF c.node.tag = "Pending" THEN Schedule(c)
  ELSE c

\* sync, of every store: the emission reaches React if it listens.
SyncAll == \E seen \in [Node -> BOOLEAN] : Put([n \in Node |-> ScheduleBoot(Cell(n), seen[n])])

Emit ==
  /\ cached' = FALSE
  /\ dirty' = (dirty \/ listening')

\* The callback of a readiness promise that was not shown keeps it for the
\* next read of the ready node.
SettledSlot(s, k) ==
  IF s.k # k THEN s
  ELSE IF s.shown = "Unseen" THEN [s EXCEPT !.settled = TRUE] ELSE NoSlot

\* An earlier generation's callback does nothing.
Callback(n, p) ==
  /\ p \in due[n] /\ p[2] \in promised[n]
  /\ due' = [due EXCEPT ![n] = @ \ {p}]
  /\ slot' = [slot EXCEPT ![n] = IF p[1] = storeGeneration THEN SettledSlot(@, p[2]) ELSE @]
  /\ UNCHANGED <<nodeVars, storeGeneration, disposed, listening>>
  /\ IF p[1] = storeGeneration /\ ~disposed THEN Emit ELSE UNCHANGED <<cached, dirty>>
  /\ UNCHANGED <<stage, view, argsVars, hides>>

Notify(n) ==
  /\ news[n]
  /\ news' = [news EXCEPT ![n] = FALSE]
  /\ UNCHANGED <<promised, storeGeneration, disposed, listening>>
  /\ IF ~listening THEN UNCHANGED <<node, slot, due, cached, dirty>>
     ELSE /\ \E seen \in BOOLEAN :
               Put([m \in Node |-> IF m = n THEN ScheduleBoot(Cell(n), seen) ELSE Cell(m)])
          /\ Emit
  /\ UNCHANGED <<stage, view, argsVars, hides>>

-----------------------------------------------------------------------------
(* Rendering *)

\* A ready node: a promise nobody has waited for is thrown once.
GateThrows(s) == s.shown = "Unseen" \/ (s.shown = "ReadyGate" /\ ~s.settled)
Gated(s) ==
  IF s.shown = "PendingRead" \/ s = NoSlot THEN s
  ELSE IF s.settled THEN NoSlot
  ELSE [s EXCEPT !.shown = "ReadyGate"]

\* store.read: what becomes of the store, and the promise it throws, if any.
ReadStore(c, seen) ==
  LET booted == IF c.slot = NoSlot THEN ScheduleBoot(c, seen) ELSE c
      pending == IF disposed THEN c ELSE Schedule(c)
  IN CASE c.node.tag = "Ready" ->
            [cell |-> [c EXCEPT !.slot = Gated(@)],
             throws |-> IF GateThrows(c.slot) THEN {c.slot.k} ELSE {}]
       [] c.node.tag = "Idle" -> [cell |-> booted, throws |-> {booted.slot.k}]
       [] c.node.tag = "Pending" /\ pending.slot # NoSlot ->
            [cell |-> [pending EXCEPT !.slot.shown = "PendingRead"],
             throws |-> {pending.slot.k}]
       [] c.node.tag = "Pending" /\ pending.slot = NoSlot ->
            [cell |-> c, throws |-> {c.node.k}]
       [] OTHER -> [cell |-> c, throws |-> {}]

\* The composite reads its entries in order, up to one that throws its error.
Render(cells, seen) ==
  LET failed == {n \in Node : cells[n].node.tag = "Error"}
      reached == {n \in Node : \A m \in failed : n < m}
      read == [n \in Node |-> ReadStore(cells[n], seen[n])]
      awaited == UNION {{<<n, k>> : k \in read[n].throws} : n \in Node}
  IN /\ Put([n \in Node |-> IF n \in reached THEN read[n].cell ELSE cells[n]])
     /\ view' = IF failed # {} THEN [Blank EXCEPT !.is = "error"]
                ELSE IF awaited # {} THEN [Blank EXCEPT !.is = "suspended", !.on = awaited]
                ELSE [Blank EXCEPT !.is = "ready", !.nodes = [n \in Node |-> cells[n].node.k]]
     /\ cached' = (view'.is = "ready")
     /\ dirty' = Woken(view', promised)

\* React makes the stores with the first render, and throws them away with it
\* when it suspends.  After an error the boundary may be reset.
Mount ==
  /\ \/ stage = "absent" /\ dirty
     \/ stage = "failed"
  /\ storeGeneration' = 0 /\ disposed' = FALSE
  /\ \E seen \in [Node -> BOOLEAN] :
       Render([n \in Node |-> ScheduleBoot(Fresh(n), seen[n])], seen)
  /\ stage' = CASE view'.is = "ready" -> "rendered"
                [] view'.is = "suspended" -> "absent"
                [] view'.is = "error" -> "failed"
  /\ fingerprint' = rendered /\ applied' = rendered
  /\ flights' = [i \in DOMAIN flights |-> [flights[i] EXCEPT !.orphan = TRUE]]
  /\ misled' = misled \cup (IF flights = <<>> /\ held = rendered THEN {} ELSE {"remounted"})
  /\ UNCHANGED <<promised, news, listening, rendered, held, updates, hides>>

\* The effect cleanups: the stores are disposed, React no longer listens.
DisposeStores ==
  /\ disposed' = TRUE /\ listening' = FALSE
  /\ storeGeneration' = IF disposed THEN storeGeneration ELSE storeGeneration + 1

\* A mutant: a disposed store keeps its readiness promise.
KeepSlots == UNCHANGED slot

ClearSlots == IF disposed THEN UNCHANGED slot ELSE slot' = [n \in Node |-> NoSlot]

\* A mutant: the effects subscribe without a look at the nodes.
SubscribeOnly ==
  /\ UNCHANGED <<storeGeneration, node, slot, due, cached, dirty>>
  /\ disposed' = FALSE /\ listening' = TRUE

\* The effects subscribe: they revive the stores, which look at their nodes.
Subscribe ==
  /\ UNCHANGED storeGeneration
  /\ disposed' = FALSE /\ listening' = TRUE
  /\ SyncAll /\ Emit

Rerender ==
  /\ stage \in {"rendered", "visible", "hidden"} /\ dirty
  /\ UNCHANGED <<stage, storeGeneration, disposed, listening>>
  /\ IF cached
     THEN dirty' = FALSE /\ UNCHANGED <<view, slot, due, cached, node>>
     ELSE \E seen \in [Node -> BOOLEAN] : Render([n \in Node |-> Cell(n)], seen)
  /\ UNCHANGED <<promised, news, argsVars, hides>>

\* The boundary took the place of a component that threw: it unmounts.
Fail ==
  /\ stage \in {"rendered", "visible", "hidden"} /\ view.is = "error"
  /\ stage' = "failed"
  /\ DisposeStores /\ ClearSlots /\ cached' = FALSE
  /\ UNCHANGED <<nodeVars, due, view, dirty, argsVars, hides>>

Effects ==
  /\ stage = "rendered" /\ view.is = "ready" /\ stage' = "visible"
  /\ Subscribe
  /\ UNCHANGED <<promised, news, view, argsVars, hides>>

Hide ==
  /\ stage = "visible" /\ view.is # "error" /\ hides < MaxHides
  /\ stage' = "hidden" /\ hides' = hides + 1
  /\ DisposeStores /\ ClearSlots /\ cached' = FALSE
  /\ UNCHANGED <<nodeVars, due, view, dirty, argsVars>>

Unmount ==
  /\ stage \in {"visible", "hidden"} /\ stage' = "gone"
  /\ DisposeStores /\ ClearSlots /\ cached' = FALSE
  /\ UNCHANGED <<nodeVars, due, view, dirty, argsVars, hides>>

\* The replayed effects, in the order of the hooks: the args effect finds the
\* stores disposed and does nothing, then the subscription revives them.
Reveal ==
  /\ stage = "hidden" /\ view.is # "error" /\ stage' = "visible"
  /\ applied' = IF view.is = "ready" THEN rendered ELSE applied
  /\ Subscribe
  /\ UNCHANGED <<promised, news, view, rendered, fingerprint, held, flights,
                 misled, updates, hides>>

\* The recovery of a thrown readiness error: the promise in the slot, or a new
\* attempt of the runtime's.
Retry(n) ==
  /\ stage = "failed" /\ node[n].tag = "Error" /\ \A m \in 1..(n - 1) : node[m].tag # "Error"
  /\ slot[n] # NoSlot \/ Attempts < MaxAttempts
  /\ UNCHANGED <<promised, news, storeGeneration, disposed, listening, cached>>
  /\ IF slot[n] # NoSlot
     THEN UNCHANGED <<node, slot, due>>
     ELSE \E seen \in BOOLEAN :
            LET c == [Cell(n) EXCEPT !.node = Begin(@, seen)] IN
              Put([m \in Node |-> IF m # n THEN Cell(m) ELSE IF disposed THEN c ELSE Schedule(c)])
  /\ UNCHANGED <<stage, view, dirty, argsVars, hides>>

-----------------------------------------------------------------------------
(* Args of the same identity *)

ChangeArgs(a) ==
  /\ stage \in {"visible", "hidden"} /\ a # rendered /\ updates < MaxUpdates
  /\ updates' = updates + 1
  /\ rendered' = a /\ dirty' = TRUE
  /\ UNCHANGED <<nodeVars, storeVars, stage, view, applied, fingerprint, held,
                 flights, misled, hides>>

\* The effect of a commit with other args: store.updateArgs.
ArgsEffect ==
  /\ stage = "visible" /\ view.is = "ready" /\ ~dirty /\ rendered # applied
  /\ applied' = rendered
  /\ cached' = FALSE
  /\ IF fingerprint = rendered THEN UNCHANGED <<fingerprint, flights>>
     ELSE /\ fingerprint' = rendered
          /\ flights' = Append(flights, [to |-> rendered, from |-> fingerprint,
                                         generation |-> storeGeneration,
                                         founded |-> TRUE, orphan |-> FALSE])
  /\ UNCHANGED <<nodeVars, slot, due, storeGeneration, disposed, listening, viewVars,
                 rendered, held, misled, updates, hides>>

\* A mutant: a failed update takes the fingerprint back though a later one set it.
RollsBackAlways(flight) == ~flight.orphan

\* A failed update gives its fingerprint back unless a later one took the slot.
RollsBack(flight) == ~flight.orphan /\ fingerprint = flight.to

\* The runtime answers the updates in order.
Answer(ok) ==
  /\ flights # <<>>
  /\ LET flight == Head(flights) IN
       /\ held' = IF ok THEN flight.to ELSE held
       /\ fingerprint' = IF ~ok /\ RollsBack(flight) THEN flight.from ELSE fingerprint
       /\ misled' = misled \cup
            {why \in {"unfounded", "clobbered"} :
               /\ ~ok /\ ~flight.orphan /\ fingerprint = flight.to
               /\ IF why = "unfounded" THEN ~flight.founded ELSE Len(flights) > 1}
       /\ flights' = IF ok \/ Len(flights) = 1 THEN Tail(flights)
                     ELSE [Tail(flights) EXCEPT ![1].founded = FALSE]
       /\ UNCHANGED <<promised, news, storeGeneration, disposed, listening>>
       /\ IF ~flight.orphan /\ flight.generation = storeGeneration /\ ~disposed THEN SyncAll /\ Emit
          ELSE UNCHANGED <<node, slot, due, cached, dirty>>
  /\ UNCHANGED <<stage, view, rendered, applied, updates, hides>>

-----------------------------------------------------------------------------
Runtime ==
  \E n \in Node :
    \/ PhaseFollows(n) \/ Notify(n)
    \/ \E tag \in {"Ready", "Error"} : AttemptEnds(n, tag)
    \/ \E k \in 1..node[n].k : PromiseSettles(n, k)
    \/ \E p \in due[n] : Callback(n, p)
React == (stage = "absent" /\ Mount) \/ Rerender \/ Effects \/ Fail \/ ArgsEffect
User ==
  \/ Hide \/ Reveal \/ Unmount \/ (stage = "failed" /\ Mount)
  \/ \E a \in Args : ChangeArgs(a)
  \/ \E n \in Node : Evict(n) \/ Retry(n)
StoreNext == Runtime \/ React \/ User \/ \E ok \in BOOLEAN : Answer(ok)

\* The runtime's steps, the promise callbacks and scheduled renders all happen;
\* what the user and the application do need not.
StoreSpec == StoreInit /\ [][StoreNext]_reactVars /\ WF_reactVars(Runtime) /\ WF_reactVars(React)
             /\ WF_reactVars(\E ok \in BOOLEAN : Answer(ok))

-----------------------------------------------------------------------------
(* Properties *)

StoreTypeOK ==
  /\ node \in [Node -> [tag : {"Idle", "Pending", "Ready", "Error"},
                        k : 0..MaxAttempts, runs : BOOLEAN]]
  /\ slot \in [Node -> ReadinessSlot]
  /\ stage \in {"absent", "rendered", "visible", "hidden", "failed", "gone"}
  /\ {rendered, applied, fingerprint, held} \subseteq Args

\* A promise kept for Suspense will settle the slot: the callback that does is
\* still to come (nodeStore.ts:95), also after disposals and revivals, so that
\* no store waits for a callback of an earlier generation.
SlotWillSettle ==
  \A n \in Node :
    slot[n] # NoSlot /\ ~slot[n].settled => <<storeGeneration, slot[n].k>> \in due[n]

\* When no update is under way the fingerprint that gates the next one names
\* the args the runtime holds (nodeStore.ts:346): otherwise a later render with
\* args the runtime lacks would be skipped as current.  Three exceptions: an
\* update that fails after the one it overtook failed too is rolled back to
\* args the runtime never took; one that fails while a later one has set the
\* same fingerprint again takes that away; and a store made over a node with
\* other args takes its own for the node's.
FingerprintHonest == flights = <<>> /\ misled = {} => fingerprint = held

\* A failed update is rolled back only while it owns the fingerprint, never
\* when a later update has set it (nodeStore.ts:346-349).  It does not hold:
\* the code compares fingerprints, and args that went from b to a and back to
\* b give the later update the fingerprint of the earlier one.
OwnedRollback == "clobbered" \notin misled

\* A component on the screen ends up showing its nodes as they are, whatever
\* evictions, replays of its effects and errors came before.
ViewSettles ==
  <>[](\/ stage \in {"failed", "hidden", "gone"}
       \/ stage = "visible" /\ view.is = "ready"
          /\ \A n \in Node : node[n].tag = "Ready" /\ view.nodes[n] = node[n].k)
================================================================================
