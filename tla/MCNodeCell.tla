----------------------------- MODULE MCNodeCell -----------------------------
(* Instances of NodeCell for TLC: what the submitted operations are.       *)
EXTENDS NodeCell

CONSTANTS a1, e1, f1, g1, l1

\* Names name kinds: actions a1, ensures e1, refreshes f1, args updates
\* g1 and releases l1.
MCKindOf == [o \in Op |->
  CASE o = a1 -> "action"
    [] o = e1 -> "ensure"
    [] o = f1 -> "refresh"
    [] o = g1 -> "args"
    [] o = l1 -> "release"]

Meet(ops, abortable, sinks) == [ops |-> ops, abortable |-> abortable, sinksSuspend |-> sinks]

\* An action, an ensure and an args update with suspending sinks and callers
\* that stay; an action that is aborted among two others.
MCScenario ==
  {Meet({a1, e1, g1}, {}, TRUE)} \cup
  {Meet({a1} \cup two, {a1}, FALSE) : two \in {{e1, f1}, {e1, l1}, {f1, l1}, {g1, f1}}}
=============================================================================
