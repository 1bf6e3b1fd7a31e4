---------------------------- MODULE MCObservation ----------------------------
(* The result of a node and a field of it are observed; others hold leases too. *)
EXTENDS Observation

CONSTANTS h1, h2, h3, h4, d1, d2, d3, e1, e2, f1 \* hold, drop, ensure, release
CONSTANTS l1, l2, l3, l4, s1, s2                 \* leases and scopes

MCKindOf == [o \in Op |->
  CASE o \in {h1, h2, h3, h4} -> "hold"
    [] o \in {d1, d2, d3} -> "drop"
    [] o \in {e1, e2} -> "ensure"
    [] o = f1 -> "release"]

MCLeaseOf == [o \in {h1, h2, h3, h4, d1, d2, d3} |->
  CASE o \in {h1, d1} -> l1 [] o \in {h2, d2} -> l2 [] o \in {h3, d3} -> l3
    [] o = h4 -> l4]
MCScopeOf == [l \in {l1, l2, l3, l4} |-> IF l \in {l1, l2} THEN s1 ELSE s2]

\* Two fields of one node; a direct lease beside an observation that a release
\* ends; a second incarnation that is observed again.
MCMixes == {
  [ops |-> {h1, d1, h3, d3, e1}, closes |-> CloseReasons],
  [ops |-> {h1, d1, h4, e1, f1}, closes |-> CloseReasons],
  [ops |-> {h1, h2, d1, d2, e1, e2, f1}, closes |-> {}]}

MCBefore == {<<e1, f1>>, <<f1, e2>>}

\* A field is observed while its node is released (see FieldDemandFollows).
ReleasedField == {[ops |-> {h3, d3, e1, f1}, closes |-> {}]}
=============================================================================
