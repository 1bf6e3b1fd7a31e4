------------------------------ MODULE MCPublish ------------------------------
(* A library, an adapter that names it, and an application that ships as      *)
(* source and names both; the list in every order.                            *)
EXTENDS Publish, SequencesExt

MCDependsOn == [core |-> {}, react |-> {"core"}, hub |-> {"core", "react"}]
MCPrepack == [core |-> <<"core">>, react |-> <<"core", "react">>, hub |-> <<>>]
MCLists == SetToSeqs(Package)
==============================================================================
