----------------------------- MODULE RandomVisit ----------------------------
(***************************************************************************)
(* The RandomVisit policy with exhaustive polling under SchedulerBase:     *)
(* each thread has a table of stages drawn at random by the constructor,   *)
(* tries them in the order of the table and shuffles it at its end.  A     *)
(* table need not hold every stage.                                        *)
(***************************************************************************)
EXTENDS Integers, Sequences, FiniteSets, Functions

CONSTANTS
    NumberOfStages, Producers, Script, EntryStage, Route, MayThrow, \* see StageFlow
    MaxConcurrency, MaxNumberOfThreads, HardwareConcurrency,        \* see AssignmentPolicy
    TableSizeFactor     \* how many times as large as StageEnumType a table is

VARIABLES
    queue, heap, frame, script, served, thrown,
    thread, launched, done, joined,
    threadAssignment, threadsPerStage, maximumConcurrency, call,
    visitTable, \* visitTable_[t]
    visitIndex  \* visitIndex_[t]: the entry t tries next, or the end of its table

Policy == INSTANCE AssignmentPolicy

Threads == Policy!Threads
Stage == Policy!Stage
NumberOfEntries == NumberOfStages

(* The entries of a VisitTable. *)
Entries == 1 .. NumberOfEntries * TableSizeFactor
end == NumberOfEntries * TableSizeFactor + 1

(* initVisitTable draws any stages that have room for a visitor.           *)
Init ==
    /\ Policy!Init
    /\ visitTable \in [Threads -> [Entries -> {s \in Stage : MaxConcurrency[s] # 0}]]
    /\ visitIndex = [t \in Threads |-> 1]

(* randomShuffle leaves the table in any order. *)
Shuffles(table) == {[i \in Entries |-> table[p[i]]] : p \in Bijection(Entries, Entries)}

(* A plausible slip: the index never comes back from the end.              *)
randomStageOnce(t) ==
    IF visitIndex[t] = end THEN {<<visitTable[t], end - 1>>}
    ELSE {<<visitTable[t], visitIndex[t]>>}

(* randomStage: the tables and the entry it may answer from.               *)
randomStage(t) ==
    IF visitIndex[t] = end THEN {<<table, 1>> : table \in Shuffles(visitTable[t])}
    ELSE {<<visitTable[t], visitIndex[t]>>}

(* One turn of the loop of nextStage. *)
TryRandom(t) ==
    /\ thread[t].pc = "next"
    /\ \E choice \in randomStage(t) :
          /\ Policy!Try(t, choice[1][choice[2]])
          /\ visitTable' = [visitTable EXCEPT ![t] = choice[1]]
          /\ visitIndex' = [visitIndex EXCEPT ![t] = choice[2] + 1]

ThreadStep(t) ==
    \/ /\ \/ Policy!Process(t)
          \/ Policy!Vacate(t)
          \/ Policy!Vacated(t)
          \/ Policy!Swap(t)
          \/ Policy!Accept(t)
       /\ UNCHANGED <<visitTable, visitIndex>>
    \/ TryRandom(t)
-----------------------------------------------------------------------------
TypeOK ==
    /\ Policy!TypeOK
    /\ visitTable \in [Threads -> [Entries -> Stage]]
    /\ visitIndex \in [Threads -> Entries \cup {end}]

(* The stages thread t ever tries: shuffling adds none. *)
Visits(t) == {visitTable[t][i] : i \in Entries}

(* No thread ever visits stage s. *)
Unvisited(s) == \A t \in Threads : s \notin Visits(t)
=============================================================================
