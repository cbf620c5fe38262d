------------------------------ MODULE Policies ------------------------------
(***************************************************************************)
(* One application under each of the policies that choose a stage without  *)
(* looking at the messages: RoundRobin, SRPT, RandomVisit and              *)
(* ThreadPerStage.  Which of them the scheduler is built with is chosen    *)
(* once, at the beginning.                                                 *)
(***************************************************************************)
EXTENDS Integers, Sequences, FiniteSets

CONSTANTS
    NumberOfStages, Producers, Script, EntryStage, Route, MayThrow, \* see StageFlow
    MaxConcurrency, MaxNumberOfThreads, HardwareConcurrency,        \* see AssignmentPolicy
    TableSizeFactor,            \* see RandomVisit
    Chosen                      \* the policies to choose from

VARIABLES
    queue, heap, frame, script, served, thrown,
    thread, launched, done, joined,
    threadAssignment, threadsPerStage, maximumConcurrency, call,
    next, hadMessages,          \* see RoundRobin and SRPT
    visitTable, visitIndex,     \* see RandomVisit
    policy                      \* the SchedulingPolicy of the scheduler

RoundRobin == INSTANCE RoundRobin
SRPT == INSTANCE SRPT
RandomVisit == INSTANCE RandomVisit
ThreadPerStage == INSTANCE ThreadPerStage

Policy == INSTANCE AssignmentPolicy

vars == <<queue, heap, frame, script, served, thrown, thread, launched, done, joined,
          threadAssignment, threadsPerStage, maximumConcurrency, call,
          next, hadMessages, visitTable, visitIndex, policy>>
Threads == Policy!Threads
Stage == Policy!Stage

assignmentVars == <<threadAssignment, threadsPerStage, maximumConcurrency, call>>
searchVars == <<next, hadMessages>>
tableVars == <<visitTable, visitIndex>>

(* ThreadPerStage has as many threads as stages.  RandomVisit needs a      *)
(* stage with room for a visitor: without one, initVisitTable would draw   *)
(* for ever.                                                               *)
ASSUME PoliciesAssumption ==
    /\ Policy!AssignmentPolicyAssumption
    /\ Chosen \subseteq {"RoundRobin", "SRPT", "RandomVisit", "ThreadPerStage"}
    /\ "ThreadPerStage" \in Chosen => Threads = Stage
    /\ TableSizeFactor \in Nat \ {0}
    /\ "RandomVisit" \in Chosen => \E s \in Stage : MaxConcurrency[s] # 0

(* The members of the policies that are not chosen keep a value of no      *)
(* interest.                                                               *)
Init ==
    /\ policy \in Chosen
    /\ RoundRobin!Init
    /\ SRPT!Init
    /\ IF policy = "RandomVisit" THEN RandomVisit!Init
       ELSE visitTable = <<>> /\ visitIndex = <<>>

-----------------------------------------------------------------------------
Around(A) == A /\ Policy!Surroundings /\ UNCHANGED <<searchVars, tableVars, policy>>

ThreadStep(t) ==
    /\ \/ /\ policy = "RoundRobin"
          /\ RoundRobin!ThreadStep(t)
          /\ UNCHANGED <<hadMessages, tableVars>>
       \/ /\ policy = "SRPT"
          /\ SRPT!ThreadStep(t)
          /\ UNCHANGED tableVars
       \/ /\ policy = "RandomVisit"
          /\ RandomVisit!ThreadStep(t)
          /\ UNCHANGED searchVars
       \/ /\ policy = "ThreadPerStage"
          /\ ThreadPerStage!ThreadStep(t)
          /\ UNCHANGED <<assignmentVars, searchVars, tableVars>>
    /\ UNCHANGED policy

Next ==
    \/ Around(TRUE)
    \/ \E t \in Threads : ThreadStep(t)

(* The operating system runs every thread: each processing thread, each    *)
(* producer and the thread in start() and join().  Nobody has to stop().   *)
(* Of a shuffle nothing is assumed, not even that it ever changes the      *)
(* order of the table.                                                     *)
Fairness ==
    /\ \A t \in Threads : WF_vars(ThreadStep(t))
    /\ \A p \in Producers : WF_vars(Around(Policy!Base!Produce(p)))
    /\ WF_vars(Around(Policy!Base!Launch \/ Policy!Base!Join))

Spec == Init /\ [][Next]_vars /\ Fairness
-----------------------------------------------------------------------------
TypeOK ==
    /\ RoundRobin!TypeOK
    /\ SRPT!TypeOK
    /\ policy = "RandomVisit" => RandomVisit!TypeOK
    /\ policy \in Chosen

(* Every stage has processed every message, and every message is freed.    *)
Finished ==
    /\ Policy!Base!Flow!AllServed
    /\ \A m \in DOMAIN heap : ~heap[m].live

(* The threads that have ended, by the end of tryProcess or by an          *)
(* exception, and hold a slot of stage s for good.                         *)
Deserters(s) == {t \in Threads : thread[t].pc = "exited" /\ threadAssignment[t] = s}

(* The stages thread t ever tries. *)
Tries(t) == IF policy = "RandomVisit" THEN RandomVisit!Visits(t) ELSE Stage

(* Thread t looks for a stage, and threads that have ended hold every slot *)
(* of the stages it tries.                                                 *)
LockedOut(t) ==
    /\ thread[t].pc = "next"
    /\ \A s \in Tries(t) : Cardinality(Deserters(s)) >= MaxConcurrency[s]

(* Before stop(), every stage processes every message and then every       *)
(* message is freed, unless a functor throws: no stage starves, however    *)
(* few threads there are and however often they find stages busy, and the  *)
(* first stages do not under SRPT, which prefers the last; only            *)
(* RandomVisit may have left a stage out of all its tables.  After stop(), *)
(* join() returns, also when functors have thrown and their threads have   *)
(* died with their slots, unless a thread is locked out.                   *)
ServesThenStops ==
    []<>(IF done THEN joined \/ \E t \in Threads : LockedOut(t)
         ELSE \/ Finished
              \/ thrown # {}
              \/ policy = "RandomVisit" /\ \E s \in Stage : RandomVisit!Unvisited(s))

(* SRPT's flag is there to "track whether last assigned stage had          *)
(* messages": a batch in which a functor has run sets it when it ends,     *)
(* although another thread may clear it before anybody looks.              *)
FlagTracksMessages == \A t \in Threads : thread[t].pc = "work" ~> hadMessages
=============================================================================
