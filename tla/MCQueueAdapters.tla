-------------------------- MODULE MCQueueAdapters ---------------------------
(* Two input stages, read by the adapter's stage, whose functor dispatches *)
(* into a chain of two functors; the last of the chain dispatches to a     *)
(* stage with a concurrent queue.  One producer also dispatches into the   *)
(* chain itself.                                                           *)
EXTENDS QueueAdapters, TLC

In1 == 0
In2 == 1
Merge == 2
Chain == 3
LastStage == 4

MCInputs == <<In1, In2>>

MCFunctors == In1 :> <<>> @@ In2 :> <<>> @@ Merge :> <<"pf1">>
              @@ Chain :> <<"pf2", "pf3">> @@ LastStage :> <<"pf4">>

MCDispatches ==
    "pf1" :> <<Chain>> @@ "pf2" :> <<>> @@ "pf3" :> <<LastStage>> @@ "pf4" :> <<>>

(* Nobody is to visit the stage that has no queue of its own.              *)
MCMaxConcurrency == [s \in 0 .. NumberOfStages - 1 |-> IF s = Chain THEN 0 ELSE 1]

Item(c, s) == [content |-> c, to |-> s]

MCScript == "p1" :> <<Item("a", In1), Item("b", In1)>>
            @@ "p2" :> <<Item("c", In2), Item("d", Chain)>>

(* A functor that dispatches is the last to work on the message, and there *)
(* is one way to each functor.                                             *)
ASSUME MCApplication == OneAfterTheOther /\ OneWay /\ DistinctContents

(* The workers differ in nothing, and only safety is checked.              *)
MCSymmetry == Permutations(Workers)
=============================================================================
