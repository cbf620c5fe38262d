--------------------------- MODULE ThreadPerStage ---------------------------
(***************************************************************************)
(* The ThreadPerStage policy with exhaustive polling under SchedulerBase:  *)
(* as many threads as stages, whatever the hardware, and thread t only     *)
(* ever processes stage t.  It uses no ThreadAssignments.                  *)
(***************************************************************************)
EXTENDS Integers, Sequences, FiniteSets

CONSTANTS
    NumberOfStages, Producers, Script, EntryStage, Route, MayThrow  \* see StageFlow

VARIABLES
    queue, heap, frame, script, served, thrown, thread, launched, done, joined \* see SchedulerBase

numberOfThreads == NumberOfStages

Base == INSTANCE SchedulerBase WITH NumberOfThreads <- numberOfThreads

Threads == Base!Threads

Init == Base!Init

nextStage(t) == Base!Visit(t, t)

ThreadStep(t) == Base!Process(t) \/ nextStage(t)
=============================================================================
