------------------------------ MODULE MCRuntime -----------------------------
(* Instances of Runtime for TLC.                                           *)
EXTENDS Runtime

CONSTANTS c1, c2, c3, s1, s2

MCKey == {"save", "pick", "load", "refresh", "args"}
MCKindOf == [k \in MCKey |-> IF k \in {"refresh", "args"} THEN k ELSE "action"]
MCPolicyOf == [k \in MCKey |->
  CASE k \in {"save", "args"} -> "queue" [] k = "pick" -> "reject" [] OTHER -> "join"]

Keys(x, y, z) == [c \in {c1, c2, c3} |-> CASE c = c1 -> x [] c = c2 -> y [] c = c3 -> z]

\* Two commands that meet in one key beside one that stands between them, or
\* the first two of them and two callers of stop.
Calls(keys, own) == {
  [key |-> keys, own |-> own, calls |-> {c1, c2, c3}, found |-> TRUE],
  [key |-> keys, own |-> own, calls |-> {c1, c2, s1, s2}, found |-> TRUE]}

\* Commands of a node that is gone, or was never there.
Missed == [key |-> Keys("save", "refresh", "args"), own |-> {},
           calls |-> {c1, c2, c3, s1}, found |-> FALSE]

Mixed ==
  Calls(Keys("save", "save", "save"), {c3}) \cup
  Calls(Keys("load", "load", "save"), {c2}) \cup
  Calls(Keys("pick", "pick", "refresh"), {}) \cup
  Calls(Keys("refresh", "refresh", "args"), {}) \cup
  Calls(Keys("args", "pick", "pick"), {c3}) \cup
  {Missed}

\* Two requests of a "reject" action: one is rejected while the other waits for
\* the permit, or is aborted before it has it.
Foreign == {[key |-> Keys("pick", "pick", "save"), own |-> {}, calls |-> {c1, c2, c3},
            found |-> TRUE]}
=============================================================================
