---------------------------- MODULE MCColorMinus ----------------------------
(* Two stages.  The first one sends a message and then a copy of it to the *)
(* second; or several producers feed the second stage at once.             *)
EXTENDS ColorMinus

MCOneMessage == [p \in Producers |-> <<"a">>]

MCTwoMessages == [p \in Producers |-> <<"a", "b">>]

MCFirst == [p \in Producers |-> 0]

MCSecond == [p \in Producers |-> 1]

MCRoute ==
    0 :> <<[to |-> 1, clone |-> FALSE], [to |-> 1, clone |-> TRUE]>> @@ 1 :> <<>>

MCMaxConcurrency == [s \in 0 .. NumberOfStages - 1 |-> 1]
=============================================================================
