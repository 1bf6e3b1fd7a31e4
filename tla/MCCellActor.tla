---------------------------- MODULE MCCellActor ----------------------------
(***************************************************************************)
(* Instances of CellActor for TLC: an interruptible submission (an action) *)
(* and a shared one (readiness, refresh, release).                         *)
(***************************************************************************)
EXTENDS CellActor

CONSTANTS a1, r1

MCPair == {a1, r1}
MCPairInterruptible == {a1}
=============================================================================
