-------------------------- MODULE MCGraphPlanning --------------------------
(* Three nodes: top depends on mid and mid on leaf.  With other args the leaf *)
(* depends on top, which closes a cycle or contradicts the leaf's wiring, and *)
(* mid is malformed or rejected.                                             *)
EXTENDS GraphPlanning

CONSTANTS top, mid, leaf, usual, other, odd, c1, c2, c3, c4

MCWiring ==
  [r \in Request |->
     IF r = <<top, usual>> THEN <<<<mid, usual>>>>
     ELSE IF r = <<top, other>> THEN <<<<mid, other>>, <<leaf, usual>>>>
     ELSE IF r = <<mid, usual>> THEN <<<<leaf, usual>>>>
     ELSE IF r = <<leaf, other>> THEN <<<<top, usual>>>>
     ELSE <<>>]

MCMalformed == {<<mid, other>>}
MCRejected == {<<mid, odd>>}

MCCall(kind, n, a) == [kind |-> kind, request |-> <<n, a>>]

Scenario(k1, k2, k3, k4) ==
  [c \in Caller |->
     IF c = c1 THEN k1 ELSE IF c = c2 THEN k2 ELSE IF c = c3 THEN k3 ELSE k4]

\* A readiness of the whole chain races with plans that invalidate, with an
\* eviction and with a second readiness; or with a release of a sound node.
MCCalls ==
  {Scenario(MCCall("ensure", top, usual), k2, k3, k4) :
     k2 \in {MCCall("ensure", leaf, other), MCCall("plan", mid, other),
             MCCall("plan", mid, odd)},
     k3 \in {MCCall("evict", leaf, usual), MCCall("evictDependents", mid, usual)},
     k4 \in {MCCall("ensureById", mid, usual), MCCall("ensure", top, other),
             MCCall("plan", leaf, usual)}}
  \cup
  {Scenario(MCCall("ensure", top, usual), MCCall("release", mid, usual),
            MCCall("evict", leaf, usual), MCCall("ensureById", mid, usual))}

\* A node is ensured by its id while it is evicted.
MCEvictions ==
  {Scenario(MCCall("ensure", leaf, usual), MCCall("ensureById", leaf, usual),
            MCCall("evict", leaf, usual), MCCall("plan", leaf, usual))}
=============================================================================
