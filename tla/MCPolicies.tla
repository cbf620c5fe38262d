----------------------------- MODULE MCPolicies -----------------------------
(* A chain of stages with one slot each, and one message.                  *)
EXTENDS Policies

MCScript == [p \in Producers |-> <<"a">>]

MCEntryStage == [p \in Producers |-> 0]

MCRoute == [s \in 0 .. NumberOfStages - 1 |->
    IF s = NumberOfStages - 1 THEN <<>> ELSE <<[to |-> s + 1, clone |-> FALSE]>>]

MCMaxConcurrency == [s \in 0 .. NumberOfStages - 1 |-> 1]
=============================================================================
