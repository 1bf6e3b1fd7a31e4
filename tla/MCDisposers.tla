------------------------------ MODULE MCDisposers ------------------------------
(* Two functions, two incarnations with an operation each. *)
EXTENDS Disposers, TLC

================================================================================
