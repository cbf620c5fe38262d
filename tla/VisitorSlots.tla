---------------------------- MODULE VisitorSlots ----------------------------
(***************************************************************************)
(* What wield::schedulers::utils::ThreadAssignments promises to the        *)
(* scheduling policies, with each of its methods taken as one step: a      *)
(* thread visits at most one stage at a time, and it enters a stage only   *)
(* while the stage has room for another visitor.                           *)
(***************************************************************************)
EXTENDS Integers, FiniteSets

CONSTANTS
    Threads,            \* the processing threads the policy knows
    NumberOfStages,     \* StageEnumType::NumberOfEntries
    MaxConcurrency      \* how many threads may visit each stage at once

Stage == 0 .. NumberOfStages - 1

(* The enum value one past the last stage: "visits no stage". *)
NumberOfEntries == NumberOfStages

VARIABLE visiting       \* visiting[t]: the stage t visits, or NumberOfEntries

Visitors(s) == {t \in Threads : visiting[t] = s}

Init == visiting = [t \in Threads |-> NumberOfEntries]

(* tryAssign that returns true. *)
Enter(t, s) ==
    /\ visiting[t] = NumberOfEntries
    /\ Cardinality(Visitors(s)) < MaxConcurrency[s]
    /\ visiting' = [visiting EXCEPT ![t] = s]

(* removeCurrentAssignment of a thread that has one. *)
Leave(t) ==
    /\ visiting[t] # NumberOfEntries
    /\ visiting' = [visiting EXCEPT ![t] = NumberOfEntries]

Next == \E t \in Threads : Leave(t) \/ \E s \in Stage : Enter(t, s)

Spec == Init /\ [][Next]_visiting
=============================================================================
