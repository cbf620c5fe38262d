-------------------------------- MODULE Color -------------------------------
(***************************************************************************)
(* The Color policy with exhaustive polling under SchedulerBase, and its   *)
(* dispatcher.  Each dispatch pushes the message to its stage and then the *)
(* name of the stage to one work queue; a thread that needs a stage pops a *)
(* name and tries that stage, and forgets the name when it is refused.     *)
(*                                                                         *)
(* With an empty work queue the thread tries NumberOfEntries, which        *)
(* indexes the arrays of ThreadAssignments one past their end.  The word   *)
(* after threadsPerStage_ is maximumConcurrency_[0], the member that       *)
(* follows it; the word after maximumConcurrency_ belongs to whatever      *)
(* follows the policy (in a SchedulerBase that owns its policy, the head   *)
(* of the list of threads, a large number once a thread runs).             *)
(***************************************************************************)
EXTENDS Integers, Sequences, FiniteSets, SequencesExt

CONSTANTS
    NumberOfStages, Producers, Script, EntryStage, Route, MayThrow, \* see StageFlow
    MaxConcurrency, MaxNumberOfThreads, HardwareConcurrency,        \* see AssignmentPolicy
    Beyond              \* the values the word after maximumConcurrency_ may hold

VARIABLES
    queue, heap, frame, script, served, thrown,
    thread, launched, done, joined,
    threadAssignment, threadsPerStage, maximumConcurrency, call,
    workQueue,  \* workQueue_, the names of stages
    naming,     \* naming[a]: the stage whose name a's dispatch has still to push
    next,       \* next[t]: the local next of nextStage
    dropped     \* history: the stages whose name a refused thread has forgotten

Policy == INSTANCE AssignmentPolicy

vars == <<queue, heap, frame, script, served, thrown, thread, launched, done, joined,
          threadAssignment, threadsPerStage, maximumConcurrency, call,
          workQueue, naming, next, dropped>>
policyVars == <<queue, heap, frame, script, served, thrown, thread, launched, done, joined,
                threadAssignment, threadsPerStage, maximumConcurrency, call>>
colorVars == <<workQueue, naming, next, dropped>>

Threads == Policy!Threads
Stage == Policy!Stage
NumberOfEntries == NumberOfStages
Actor == Producers \cup Threads

ASSUME ColorAssumption ==
    /\ Policy!AssignmentPolicyAssumption
    /\ Beyond \subseteq Nat

Init ==
    /\ Policy!Init
    /\ workQueue = <<>>
    /\ naming = [a \in Actor |-> NumberOfEntries]
    /\ next = [t \in Threads |-> NumberOfEntries]
    /\ dropped = {}

-----------------------------------------------------------------------------
(* Dispatcher::dispatch, of a message or of a copy *)

(* A plausible slip: only a message that finds the queue empty is named.   *)
AfterFirstPush(a) ==
    /\ naming[a] = NumberOfEntries
    /\ naming' = IF /\ frame[a].carry # Policy!Base!Flow!Null
                   /\ queue[Head(frame[a].todo).to] = <<>>
                 THEN [naming EXCEPT ![a] = Head(frame[a].todo).to]
                 ELSE naming
    /\ UNCHANGED <<workQueue, next, dropped>>

(* The push of the base class; every other step of an actor that is not    *)
(* inside dispatch leaves the names alone.                                 *)
AfterPush(a) ==
    /\ naming[a] = NumberOfEntries
    /\ naming' = IF frame[a].carry # Policy!Base!Flow!Null
                 THEN [naming EXCEPT ![a] = Head(frame[a].todo).to]
                 ELSE naming
    /\ UNCHANGED <<workQueue, next, dropped>>

(* The stage's name is pushed, and dispatch returns. *)
Name(a) ==
    /\ naming[a] # NumberOfEntries
    /\ workQueue' = Append(workQueue, naming[a])
    /\ naming' = [naming EXCEPT ![a] = NumberOfEntries]
    /\ UNCHANGED <<policyVars, next, dropped>>

Produce(p) ==
    \/ /\ Policy!Surroundings
       /\ Policy!Base!Produce(p)
       /\ AfterPush(p)
    \/ Name(p)

Process(t) ==
    \/ /\ Policy!Process(t)
       /\ AfterPush(t)
    \/ Name(t)

-----------------------------------------------------------------------------
(* nextStage(t) *)

Vacate(t) ==
    /\ Policy!Vacate(t) \/ Policy!Vacated(t)
    /\ UNCHANGED colorVars

(* At the top of the loop. *)
Searching(t) ==
    /\ thread[t].pc = "next"
    /\ call[t].op = "outside"
    /\ ~Policy!Assignments!Assigned(t)
    /\ next[t] = NumberOfEntries

dequeNextStage(t) ==
    /\ Searching(t)
    /\ workQueue # <<>>
    /\ next' = [next EXCEPT ![t] = Head(workQueue)]
    /\ workQueue' = Tail(workQueue)
    /\ UNCHANGED <<policyVars, naming, dropped>>

(* try_pop finds no name, and tryAssign(t, NumberOfEntries) finds what lies*)
(* behind the arrays: whether it succeeds, and then increments             *)
(* maximumConcurrency_[0], or not, nextStage goes on searching.            *)
TryPastTheEnd(t) ==
    /\ Searching(t)
    /\ workQueue = <<>>
    /\ \E beyond \in Beyond : maximumConcurrency[0] < beyond
    /\ maximumConcurrency' = [maximumConcurrency EXCEPT ![0] = @ + 1]
    /\ UNCHANGED <<queue, heap, frame, script, served, thrown, thread, launched, done, joined,
                   threadAssignment, threadsPerStage, call, colorVars>>

(* tryAssign is about to return false. *)
Refused(t) ==
    IF call[t].op = "loaded" THEN ~Policy!Assignments!Unchanged(t)
    ELSE ~Policy!Assignments!HasRoom(next[t])

(* A plausible slip: a refused thread goes on searching with the stage     *)
(* after the one it has popped.                                            *)
AttemptElsewhere(t) ==
    /\ next[t] # NumberOfEntries
    /\ Policy!Try(t, next[t]) \/ Policy!Swap(t)
    /\ IF Refused(t)
       THEN next' = [next EXCEPT ![t] = (@ + 1) % NumberOfStages]
       ELSE UNCHANGED next
    /\ UNCHANGED <<workQueue, naming, dropped>>

(* A step of tryAssign(t, next): refused, the thread forgets the name.     *)
Attempt(t) ==
    /\ next[t] # NumberOfEntries
    /\ Policy!Try(t, next[t]) \/ Policy!Swap(t)
    /\ IF Refused(t)
       THEN /\ next' = [next EXCEPT ![t] = NumberOfEntries]
            /\ dropped' = dropped \cup {next[t]}
       ELSE UNCHANGED <<next, dropped>>
    /\ UNCHANGED <<workQueue, naming>>

(* nextStage returns the stage. *)
Accept(t) ==
    /\ Policy!Accept(t)
    /\ next' = [next EXCEPT ![t] = NumberOfEntries]
    /\ UNCHANGED <<workQueue, naming, dropped>>

nextStage(t) ==
    \/ Vacate(t)
    \/ dequeNextStage(t)
    \/ TryPastTheEnd(t)
    \/ Attempt(t)
    \/ Accept(t)

-----------------------------------------------------------------------------
ThreadStep(t) == nextStage(t) \/ Process(t)

Owner(A) == A /\ Policy!Surroundings /\ Policy!Base!Owner /\ UNCHANGED colorVars

Next ==
    \/ Owner(TRUE)
    \/ \E p \in Producers : Produce(p)
    \/ \E t \in Threads : ThreadStep(t)

(* The operating system runs every thread; nobody has to stop().           *)
Fairness ==
    /\ \A t \in Threads : WF_vars(ThreadStep(t))
    /\ \A p \in Producers : WF_vars(Produce(p))
    /\ WF_vars(Owner(Policy!Base!Launch \/ Policy!Base!Join))

Spec == Init /\ [][Next]_vars /\ Fairness
-----------------------------------------------------------------------------
TypeOK ==
    /\ Policy!TypeOK
    /\ workQueue \in Seq(Stage)
    /\ naming \in [Actor -> Stage \cup {NumberOfEntries}]
    /\ next \in [Threads -> Stage \cup {NumberOfEntries}]
    /\ dropped \subseteq Stage

(* Somebody is about to look at the queue of stage s, or its name is on    *)
(* its way to somebody who will.                                           *)
Attended(s) ==
    \/ s \in ToSet(workQueue)
    \/ \E a \in Actor : naming[a] = s
    \/ \E t \in Threads : next[t] = s
    \/ Policy!Processing(s) # {}

(* A waiting message always has a name in the work queue, a dispatcher     *)
(* about to push one or a thread on its way to it, although threads empty  *)
(* a queue ahead of the names that are still to come and leave names that  *)
(* lead to empty queues: only a refused thread makes a stage forgotten.    *)
NeverForgotten == \A s \in Stage \ dropped : queue[s] # <<>> => Attended(s)

(* No functor but that of the first stage runs in more threads than its    *)
(* maximum concurrency, whatever lies behind the arrays.                   *)
LaterStagesRespected ==
    \A s \in Stage \ {0} : Cardinality(Policy!Processing(s)) <= MaxConcurrency[s]

(* Unless the scheduler is stopped, a functor throws or a name has been    *)
(* forgotten, every stage processes every message and every message is     *)
(* freed.                                                                  *)
ServedUnlessDropped ==
    <>(\/ done \/ thrown # {} \/ dropped # {}
       \/ /\ Policy!Base!Flow!AllServed
          /\ \A m \in DOMAIN heap : ~heap[m].live)

(* After stop(), every thread that is in a batch ends (one that is in      *)
(* nextStage does not look at done_ and may stay there for good).          *)
StopEndsBatches ==
    \A t \in Threads :
        done /\ thread[t].pc \notin {"unborn", "next"} ~> thread[t].pc = "exited"

(* "A stage [...] consists of a queue, and a function to apply to messages *)
(* in the queue": unless the scheduler is stopped, every message is        *)
(* processed by every stage it is dispatched to.                           *)
EverythingServed == <>(done \/ Policy!Base!Flow!AllServed)

(* "the concurrency map is set to one-thread per stage": no functor runs   *)
(* in more threads than its maximum concurrency.                           *)
FunctorConcurrency == Policy!FunctorConcurrency
=============================================================================
