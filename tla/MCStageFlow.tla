----------------------------- MODULE MCStageFlow ----------------------------
(* One producer, two messages; stage 0 sends the message itself to stage 1 *)
(* and a copy to stage 2, with two workers anywhere.                       *)
EXTENDS StageFlow

MCScript == [p \in Producers |-> <<"a", "b">>]

MCEntryStage == [p \in Producers |-> 0]

MCRoute == 0 :> <<[to |-> 1, clone |-> FALSE], [to |-> 2, clone |-> TRUE]>>
           @@ 1 :> <<>> @@ 2 :> <<>>

(* The application sends no content to a stage twice.                      *)
ASSUME MCApplication == OneWay /\ DistinctContents
=============================================================================
