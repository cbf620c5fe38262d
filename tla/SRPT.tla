-------------------------------- MODULE SRPT --------------------------------
(***************************************************************************)
(* The SRPT policy with exhaustive polling under SchedulerBase: threads    *)
(* try the stages from the end of the pipeline towards its beginning, and  *)
(* start over at the end after a batch that had messages, which the        *)
(* threads tell each other through one shared flag.                        *)
(***************************************************************************)
EXTENDS Integers, Sequences, FiniteSets

CONSTANTS
    NumberOfStages, Producers, Script, EntryStage, Route, MayThrow, \* see StageFlow
    MaxConcurrency, MaxNumberOfThreads, HardwareConcurrency         \* see AssignmentPolicy

VARIABLES
    queue, heap, frame, script, served, thrown,
    thread, launched, done, joined,
    threadAssignment, threadsPerStage, maximumConcurrency, call,
    next,           \* next[t]: the local next of nextStage
    hadMessages     \* hadMessages_, shared by all threads

Policy == INSTANCE AssignmentPolicy

Threads == Policy!Threads
Stage == Policy!Stage
NumberOfEntries == NumberOfStages
LastStage == NumberOfStages - 1

Init ==
    /\ Policy!Init
    /\ next = [t \in Threads |-> NumberOfEntries]
    /\ hadMessages = FALSE

(* std::size_t, narrowed to 16 bits: every width that holds             *)
(* NumberOfEntries wraps below zero to a number that is no stage.          *)
Values == 65536     \* 2^16
size_t(i) == i % Values

(* A plausible slip: the comparison takes stage 0 for wrapped, too.        *)
decrementStageTooSoon(s) ==
    IF size_t(s - 1) \in 1 .. LastStage THEN size_t(s - 1) ELSE LastStage

(* The subtraction wraps below stage 0, which the comparison catches.      *)
decrementStage(s) ==
    IF size_t(s - 1) >= NumberOfEntries THEN LastStage ELSE size_t(s - 1)

(* Where the search starts: at the end again if the last batch had         *)
(* messages, but at the second last stage for a thread that leaves the     *)
(* last one.                                                               *)
searchFrom(original) ==
    IF ~hadMessages THEN original
    ELSE IF original = LastStage THEN original
    ELSE NumberOfEntries

-----------------------------------------------------------------------------
(* removeCurrentAssignment returns; the flag is read.  A thread that has   *)
(* no assignment starts at the end in either case: next is NumberOfEntries.*)
Vacated(t) ==
    /\ Policy!Vacated(t)
    /\ next' = [next EXCEPT ![t] = searchFrom(threadAssignment[t])]
    /\ UNCHANGED hadMessages

TryNext(t) ==
    /\ Policy!Try(t, decrementStage(next[t]))
    /\ next' = [next EXCEPT ![t] = decrementStage(@)]
    /\ UNCHANGED hadMessages

Accept(t) ==
    /\ Policy!Accept(t)
    /\ next' = [next EXCEPT ![t] = NumberOfEntries]
    /\ UNCHANGED hadMessages

Search(t) ==
    /\ Policy!Vacate(t) \/ Policy!Swap(t)
    /\ UNCHANGED <<next, hadMessages>>

(* batchEnd. *)
BatchEnd(t) ==
    /\ thread[t].pc = "ended"
    /\ Policy!Process(t)
    /\ hadMessages' = thread[t].hadMessage
    /\ UNCHANGED next

Process(t) ==
    /\ thread[t].pc # "ended"
    /\ Policy!Process(t)
    /\ UNCHANGED <<next, hadMessages>>

ThreadStep(t) ==
    \/ Vacated(t)
    \/ TryNext(t)
    \/ Accept(t)
    \/ Search(t)
    \/ BatchEnd(t)
    \/ Process(t)

-----------------------------------------------------------------------------
TypeOK ==
    /\ Policy!TypeOK
    /\ next \in [Threads -> Stage \cup {NumberOfEntries}]
    /\ hadMessages \in BOOLEAN
=============================================================================
