----------------------------- MODULE RoundRobin -----------------------------
(***************************************************************************)
(* The RoundRobin policy with exhaustive polling under SchedulerBase:      *)
(* each thread tries the stages in the order of the enum, starting after   *)
(* the one it has left.                                                    *)
(***************************************************************************)
EXTENDS Integers, Sequences, FiniteSets

CONSTANTS
    NumberOfStages, Producers, Script, EntryStage, Route, MayThrow, \* see StageFlow
    MaxConcurrency, MaxNumberOfThreads, HardwareConcurrency         \* see AssignmentPolicy

VARIABLES
    queue, heap, frame, script, served, thrown,
    thread, launched, done, joined,
    threadAssignment, threadsPerStage, maximumConcurrency, call,
    next        \* next[t]: the local next of nextStage

Policy == INSTANCE AssignmentPolicy

Threads == Policy!Threads
Stage == Policy!Stage
NumberOfEntries == NumberOfStages

Init ==
    /\ Policy!Init
    /\ next = [t \in Threads |-> NumberOfEntries]

(* A plausible slip: >= NumberOfEntries - 1 in the test for the wrap.      *)
incrementStageTooSoon(s) == IF s + 1 >= NumberOfEntries - 1 THEN 0 ELSE s + 1

incrementStage(s) == IF s + 1 >= NumberOfEntries THEN 0 ELSE s + 1

(* removeCurrentAssignment returns the stage t has left; the first time,   *)
(* when t has none, next starts as NumberOfEntries.                        *)
Vacated(t) ==
    /\ Policy!Vacated(t)
    /\ next' = [next EXCEPT ![t] = threadAssignment[t]]

(* One turn of the loop: the next stage is tried. *)
TryNext(t) ==
    /\ Policy!Try(t, incrementStage(next[t]))
    /\ next' = [next EXCEPT ![t] = incrementStage(@)]

(* The loop ends; next is dead. *)
Accept(t) ==
    /\ Policy!Accept(t)
    /\ next' = [next EXCEPT ![t] = NumberOfEntries]

ThreadStep(t) ==
    \/ Vacated(t)
    \/ TryNext(t)
    \/ Accept(t)
    \/ /\ Policy!Vacate(t) \/ Policy!Swap(t) \/ Policy!Process(t)
       /\ UNCHANGED next

-----------------------------------------------------------------------------
TypeOK == Policy!TypeOK /\ next \in [Threads -> Stage \cup {NumberOfEntries}]
=============================================================================
