---------------------------- MODULE MCDiagnostics ----------------------------
EXTENDS Diagnostics, TLC

CONSTANTS wallet, quote, session, screen, loop

\* A screen needs a session, which needs a wallet and a quote of one class.
MCDependencyIds == wallet :> <<>> @@ quote :> <<>> @@ loop :> <<>>
                   @@ session :> <<wallet, quote>> @@ screen :> <<session>>
MCTagOf == wallet :> "account" @@ quote :> "quote" @@ loop :> "loop"
           @@ session :> "session" @@ screen :> "screen"
MCThrowsAs == wallet :> "promise" @@ quote :> "defect" @@ loop :> "effect"
              @@ session :> "effect" @@ screen :> "effect"

\* Callers are alike.
Callers == Permutations(Requests)
=============================================================================
