--------------------------- MODULE MCResultValidity ---------------------------
(* Instances of ResultValidity for TLC.                                    *)
EXTENDS ResultValidity

\* A driver that decides alone; results that go stale, then expire; that only
\* go stale; that expire without a warning.
MCPolicies ==
  {[tag |-> "Manual", stale |-> 0, expire |-> 0],
   [tag |-> "TimeBound", stale |-> 1, expire |-> 2],
   [tag |-> "TimeBound", stale |-> 1, expire |-> Never],
   [tag |-> "TimeBound", stale |-> 1, expire |-> 1],
   [tag |-> "TimeBound", stale |-> 0, expire |-> 0]}
================================================================================
