------------------------------- MODULE MCColor ------------------------------
(* A chain of stages with one slot each, and two messages.                 *)
EXTENDS Color

MCScript == [p \in Producers |-> <<"a", "b">>]

MCEntryStage == [p \in Producers |-> 0]

MCRoute == [s \in 0 .. NumberOfStages - 1 |->
    IF s = NumberOfStages - 1 THEN <<>> ELSE <<[to |-> s + 1, clone |-> FALSE]>>]

MCMaxConcurrency == [s \in 0 .. NumberOfStages - 1 |-> 1]
=============================================================================
