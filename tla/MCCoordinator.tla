---------------------------- MODULE MCCoordinator ---------------------------
(* The instance of Coordinator for TLC: three starts and two disposes.     *)
EXTENDS Coordinator

CONSTANTS s1, s2, s3, d1, d2
=============================================================================
