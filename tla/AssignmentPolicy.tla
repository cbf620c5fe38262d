-------------------------- MODULE AssignmentPolicy --------------------------
(***************************************************************************)
(* SchedulerBase under any policy built on ThreadAssignments: nextStage    *)
(* gives the thread's assignment up and then tries stages, here in any     *)
(* order, until one accepts the thread.  RoundRobin, SRPT and RandomVisit  *)
(* are such policies and differ in the order only.                         *)
(***************************************************************************)
EXTENDS Integers, Sequences, FiniteSets, FiniteSetsExt

CONSTANTS
    NumberOfStages, Producers, Script, EntryStage, Route, MayThrow, \* see StageFlow
    MaxConcurrency,     \* the MaxConcurrencyContainer of the policy
    MaxNumberOfThreads, \* the size of threadAssignment_
    HardwareConcurrency \* std::thread::hardware_concurrency()

VARIABLES
    queue, heap, frame, script, served, thrown,                            \* see StageFlow
    thread, launched, done, joined,                                \* see SchedulerBase
    threadAssignment, threadsPerStage, maximumConcurrency, call    \* see ThreadAssignments

(* utils::numberOfThreads.                                                 *)
numberOfThreads(n) == Min({Max({1, HardwareConcurrency}), n})

Base == INSTANCE SchedulerBase WITH NumberOfThreads <- numberOfThreads(MaxNumberOfThreads)
Assignments == INSTANCE ThreadAssignments WITH Threads <- 0 .. MaxNumberOfThreads - 1

baseVars == <<queue, heap, frame, script, served, thrown, thread, launched, done, joined>>
assignmentVars == <<threadAssignment, threadsPerStage, maximumConcurrency, call>>
vars == <<queue, heap, frame, script, served, thrown, thread, launched, done, joined,
          threadAssignment, threadsPerStage, maximumConcurrency, call>>
Threads == Base!Threads
Stage == Base!Stage
NumberOfEntries == NumberOfStages

ASSUME AssignmentPolicyAssumption ==
    /\ NumberOfStages \in Nat \ {0}
    /\ MaxConcurrency \in [Stage -> Nat]
    /\ MaxNumberOfThreads \in Nat
    /\ HardwareConcurrency \in Nat
    /\ Producers \cap Threads = {}
    /\ Script \in [Producers -> Seq(Base!Flow!Content)]
    /\ EntryStage \in [Producers -> Stage]
    /\ Route \in [Stage -> Seq(Base!Flow!Dispatch)]
    /\ MayThrow \in BOOLEAN

Init == Base!Init /\ Assignments!Init

-----------------------------------------------------------------------------
(* nextStage(t) *)

(* removeCurrentAssignment, of a thread that has one. *)
Vacate(t) ==
    /\ thread[t].pc = "next"
    /\ Assignments!RemoveBegin(t)
    /\ UNCHANGED baseVars

Vacated(t) ==
    /\ Assignments!RemoveEnd(t)
    /\ UNCHANGED baseVars

(* A plausible slip: nextStage does not give the old assignment up.        *)
TryWithoutRemoving(t, s) ==
    /\ thread[t].pc = "next"
    /\ Assignments!TryRefused(t, s) \/ Assignments!TryLoad(t, s)
    /\ UNCHANGED baseVars

(* tryAssign(t, s) starts, and may return false at once.                   *)
Try(t, s) ==
    /\ thread[t].pc = "next"
    /\ ~Assignments!Assigned(t)
    /\ Assignments!TryRefused(t, s) \/ Assignments!TryLoad(t, s)
    /\ UNCHANGED baseVars

(* The compare-and-swap of tryAssign. *)
Swap(t) ==
    /\ Assignments!Swap(t) \/ Assignments!SwapFails(t)
    /\ UNCHANGED baseVars

(* tryAssign returns true: nextStage returns the stage. *)
Accept(t) ==
    /\ Assignments!Assign(t)
    /\ Base!Visit(t, call[t].next)

(* The steps of thread t inside nextStage and outside it. *)
NextStage(t) ==
    \/ Vacate(t)
    \/ Vacated(t)
    \/ \E s \in Stage : Try(t, s)
    \/ Swap(t)
    \/ Accept(t)

Process(t) == Base!Process(t) /\ UNCHANGED assignmentVars

(* Every step that no policy has a part in. *)
Surroundings ==
    /\ Base!Owner \/ \E p \in Producers : Base!Produce(p)
    /\ UNCHANGED assignmentVars

Next ==
    \/ Surroundings
    \/ \E t \in Threads : NextStage(t) \/ Process(t)

Spec == Init /\ [][Next]_vars
-----------------------------------------------------------------------------
TypeOK ==
    /\ Base!TypeOK
    /\ Assignments!TypeOK

(* A thread inside process() holds a slot of the stage it processes: no    *)
(* functor ever runs in more threads than the maximum concurrency of its   *)
(* stage, also after threads have died in a functor.                       *)
Processing(s) == {t \in Threads : thread[t].pc \in {"poll", "work"} /\ thread[t].stage = s}

FunctorConcurrency ==
    \A s \in Stage : Cardinality(Processing(s)) <= MaxConcurrency[s]

(* The assignments keep all that ThreadAssignments promises when a         *)
(* scheduler drives them.                                                  *)
KeepsProtocol == Assignments!Spec

(* The stages form a chain, and no stage has more than one slot.           *)
OneSlotChain ==
    /\ Base!Flow!InAChain
    /\ \A s \in Stage : MaxConcurrency[s] <= 1

(* Where every stage has one slot and the stages form a chain, messages    *)
(* are handled in order.                                                   *)
ImplementsPipeline == Base!Flow!ImplementsPipeline
=============================================================================
