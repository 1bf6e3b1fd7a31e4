----------------------------- MODULE MCDevtools -----------------------------
(***************************************************************************)
(* Behaviours of several kinds, each with room for what it is about: order on *)
(* the bus and paging; failures that cause failures; a full buffer and a   *)
(* lost socket; questions across a lost socket; the dashboard; signals.    *)
(***************************************************************************)
EXTENDS Devtools

CONSTANTS p, q  \* questions

Plan(emits, failures, sessions, clicks, asks, reads) ==
  [emits |-> emits, signals |-> 0, guests |-> {}, failures |-> failures,
   sessions |-> sessions, clicks |-> clicks, asks |-> asks, reads |-> reads]

MCPlans ==
  {Plan(3, 0, 1, 0, {}, TRUE),
   Plan(2, 1, 1, 0, {}, TRUE),
   Plan(1, 4, 1, 0, {}, FALSE),
   Plan(2, 0, 2, 0, {}, FALSE),
   Plan(1, 0, 2, 0, {p}, FALSE),
   Plan(0, 0, 2, 0, {p, q}, FALSE),
   Plan(0, 0, 3, 3, {}, FALSE),
   [Plan(0, 0, 1, 0, {}, FALSE) EXCEPT !.signals = 1],
   [Plan(0, 1, 0, 0, {}, FALSE) EXCEPT !.signals = 2, !.guests = {"one", "both"}]}

\* One channel retains as many signals as nobody says, one does not retain; a
\* subscriber of both may come and go beside one of the first channel.
MCChannelPolicies == [c \in {"private"} |-> [retention |-> "none"]]
MCSignalPolicies == << >>
MCConfigured == <<"one">>
MCChannelsOf == [b \in {"one", "both"} |-> IF b = "one" THEN {"kept"} ELSE {"kept", "private"}]
=============================================================================
