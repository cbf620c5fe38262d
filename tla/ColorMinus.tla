----------------------------- MODULE ColorMinus -----------------------------
(***************************************************************************)
(* The ColorMinus policy with exhaustive polling under SchedulerBase, its  *)
(* dispatcher, and the MessageCount they share.  Each dispatch pushes the  *)
(* message to its stage and then counts it; a thread that needs a stage    *)
(* tries the one with the largest estimated depth and takes its count as   *)
(* seen, whether it may visit the stage or not.                            *)
(*                                                                         *)
(* The counters are plain integers that all threads read and write without *)
(* synchronisation, so that every load and every store is a step.          *)
(***************************************************************************)
EXTENDS Integers, Sequences, FiniteSets, SequencesExt

CONSTANTS
    NumberOfStages, Producers, Script, EntryStage, Route, MayThrow, \* see StageFlow
    MaxConcurrency, MaxNumberOfThreads, HardwareConcurrency         \* see AssignmentPolicy

VARIABLES
    queue, heap, frame, script, served, thrown,
    thread, launched, done, joined,
    threadAssignment, threadsPerStage, maximumConcurrency, call,
    previous,   \* previous_[s]
    current,    \* current_[s]
    tally,      \* tally[a]: where a's dispatch is in increment (see NotCounting)
    search,     \* search[t]: where t is in the loop of nextStage, and its locals
    misjudged   \* history: the stages whose messages were taken as seen by a
                \* refused thread, or whose counter has lost an increment

Policy == INSTANCE AssignmentPolicy

vars == <<queue, heap, frame, script, served, thrown, thread, launched, done, joined,
          threadAssignment, threadsPerStage, maximumConcurrency, call,
          previous, current, tally, search, misjudged>>
baseVars == <<queue, heap, frame, script, served, thrown, thread, launched, done, joined>>
policyVars == <<baseVars, threadAssignment, threadsPerStage, maximumConcurrency, call>>
countVars == <<previous, current, tally, search, misjudged>>

Threads == Policy!Threads
Stage == Policy!Stage
NumberOfEntries == NumberOfStages
Actor == Producers \cup Threads

ASSUME ColorMinusAssumption == Policy!AssignmentPolicyAssumption

(* stage: the counter to increment; value: what was loaded from it. *)
Unread == -1
NotCounting == [stage |-> NumberOfEntries, value |-> Unread]

(* i, previousValue, stage, mark: the locals of highwaterStage and         *)
(* estimatedDepth; value: what updatePrevious has loaded.                  *)
Scanning == [at |-> "previous", i |-> 0, previousValue |-> 0, stage |-> 0, mark |-> 0,
             value |-> 0]

Init ==
    /\ Policy!Init
    /\ previous = [s \in Stage |-> 0]
    /\ current = [s \in Stage |-> 0]
    /\ tally = [a \in Actor |-> NotCounting]
    /\ search = [t \in Threads |-> Scanning]
    /\ misjudged = {}

-----------------------------------------------------------------------------
(* Dispatcher::dispatch, of a message or of a copy *)

(* A plausible slip: the dispatch of copies does not count them.           *)
AfterPushOfOriginal(a) ==
    /\ tally[a] = NotCounting
    /\ tally' = IF frame[a].carry # Policy!Base!Flow!Null /\ ~Head(frame[a].todo).clone
                THEN [tally EXCEPT ![a].stage = Head(frame[a].todo).to]
                ELSE tally
    /\ UNCHANGED <<previous, current, search, misjudged>>

(* A plausible slip: the dispatcher counts the message, then pushes it.    *)
AfterRetain(a) ==
    /\ tally[a] = NotCounting
    /\ tally' = IF frame[a].carry = Policy!Base!Flow!Null /\ frame'[a].carry # Policy!Base!Flow!Null
                THEN [tally EXCEPT ![a].stage = Head(frame[a].todo).to]
                ELSE tally
    /\ UNCHANGED <<previous, current, search, misjudged>>

(* The push of the base class; every other step of an actor that is not    *)
(* inside dispatch leaves the counters alone.                              *)
AfterPush(a) ==
    /\ tally[a] = NotCounting
    /\ tally' = IF frame[a].carry # Policy!Base!Flow!Null
                THEN [tally EXCEPT ![a].stage = Head(frame[a].todo).to]
                ELSE tally
    /\ UNCHANGED <<previous, current, search, misjudged>>

(* increment: the load ... *)
IncrementLoad(a) ==
    /\ tally[a].stage # NumberOfEntries
    /\ tally[a].value = Unread
    /\ tally' = [tally EXCEPT ![a].value = current[tally[a].stage]]
    /\ UNCHANGED <<policyVars, previous, current, search, misjudged>>

(* ... and the store, which undoes the increments made in between. *)
IncrementStore(a) ==
    LET s == tally[a].stage IN
    /\ tally[a].value # Unread
    /\ current' = [current EXCEPT ![s] = tally[a].value + 1]
    /\ misjudged' = IF current[s] = tally[a].value THEN misjudged ELSE misjudged \cup {s}
    /\ tally' = [tally EXCEPT ![a] = NotCounting]
    /\ UNCHANGED <<policyVars, previous, search>>

Increment(a) == IncrementLoad(a) \/ IncrementStore(a)

Produce(p) ==
    \/ /\ Policy!Surroundings
       /\ Policy!Base!Produce(p)
       /\ AfterPush(p)
    \/ Increment(p)

Process(t) ==
    \/ /\ Policy!Process(t)
       /\ AfterPush(t)
    \/ Increment(t)

-----------------------------------------------------------------------------
(* nextStage(t) *)

Vacate(t) ==
    /\ search[t] = Scanning
    /\ Policy!Vacate(t) \/ Policy!Vacated(t)
    /\ UNCHANGED countVars

(* One turn of the loop of highwaterStage, which calls estimatedDepth(i):  *)
(* the load of previous_[i] ...                                            *)
LoadPrevious(t) ==
    /\ thread[t].pc = "next"
    /\ call[t].op = "outside"
    /\ ~Policy!Assignments!Assigned(t)
    /\ search[t].at = "previous"
    /\ search' = [search EXCEPT ![t].previousValue = previous[search[t].i],
                                ![t].at = "current"]
    /\ UNCHANGED <<policyVars, previous, current, tally, misjudged>>

(* estimatedDepth, once both values are loaded. *)
depth(previousValue, currentValue) ==
    IF previousValue < currentValue THEN currentValue - previousValue ELSE 0

(* ... and the load of current_[i]: a deeper stage becomes the candidate.  *)
LoadCurrent(t) ==
    LET i == search[t].i
        stageDepth == depth(search[t].previousValue, current[i])
        deeper == stageDepth > search[t].mark
        last == i = NumberOfStages - 1
    IN
    /\ search[t].at = "current"
    /\ search' = [search EXCEPT ![t] =
          [at |-> IF last THEN "try" ELSE "previous",
           i |-> IF last THEN 0 ELSE i + 1,
           previousValue |-> 0,
           stage |-> IF deeper THEN i ELSE @.stage,
           mark |-> IF last THEN 0 ELSE IF deeper THEN stageDepth ELSE @.mark,
           value |-> 0]]
    /\ UNCHANGED <<policyVars, previous, current, tally, misjudged>>

(* tryAssign is about to return false. *)
Refused(t) ==
    IF call[t].op = "loaded" THEN ~Policy!Assignments!Unchanged(t)
    ELSE ~Policy!Assignments!HasRoom(search[t].stage)

(* A step of tryAssign(t, stage). *)
Attempt(t) ==
    /\ search[t].at = "try"
    /\ Policy!Try(t, search[t].stage) \/ Policy!Swap(t)
    /\ IF Refused(t)
       THEN /\ search' = [search EXCEPT ![t].at = "observe"]
            /\ misjudged' = misjudged \cup {search[t].stage}
       ELSE UNCHANGED <<search, misjudged>>
    /\ UNCHANGED <<previous, current, tally>>

(* tryAssign returns true. *)
Assign(t) ==
    /\ search[t].at = "try"
    /\ Policy!Assignments!Assign(t)
    /\ search' = [search EXCEPT ![t].at = "observe"]
    /\ UNCHANGED <<baseVars, previous, current, tally, misjudged>>

(* updatePrevious(stage): the load ... *)
ObserveLoad(t) ==
    /\ search[t].at = "observe"
    /\ search' = [search EXCEPT ![t].value = current[search[t].stage], ![t].at = "observed"]
    /\ UNCHANGED <<policyVars, previous, current, tally, misjudged>>

(* ... and the store; then nextStage returns the stage or searches again.  *)
ObserveStore(t) ==
    /\ search[t].at = "observed"
    /\ previous' = [previous EXCEPT ![search[t].stage] = search[t].value]
    /\ search' = [search EXCEPT ![t] = Scanning]
    /\ IF Policy!Assignments!Assigned(t)
       THEN Policy!Base!Visit(t, search[t].stage)
       ELSE UNCHANGED baseVars
    /\ UNCHANGED <<threadAssignment, threadsPerStage, maximumConcurrency, call,
                   current, tally, misjudged>>

nextStage(t) ==
    \/ Vacate(t)
    \/ LoadPrevious(t)
    \/ LoadCurrent(t)
    \/ Attempt(t)
    \/ Assign(t)
    \/ ObserveLoad(t)
    \/ ObserveStore(t)

-----------------------------------------------------------------------------
ThreadStep(t) == nextStage(t) \/ Process(t)

Owner(A) == A /\ Policy!Surroundings /\ Policy!Base!Owner /\ UNCHANGED countVars

Next ==
    \/ Owner(TRUE)
    \/ \E p \in Producers : Produce(p)
    \/ \E t \in Threads : ThreadStep(t)

(* The operating system runs every thread; nobody has to stop().           *)
Fairness ==
    /\ \A t \in Threads : WF_vars(ThreadStep(t))
    /\ \A p \in Producers : WF_vars(Produce(p))
    /\ WF_vars(Owner(Policy!Base!Launch \/ Policy!Base!Join))

Spec == Init /\ [][Next]_vars /\ Fairness
-----------------------------------------------------------------------------
TypeOK ==
    /\ Policy!TypeOK
    /\ previous \in [Stage -> Nat]
    /\ current \in [Stage -> Nat]
    /\ tally \in [Actor -> [stage : Stage \cup {NumberOfEntries}, value : Nat \cup {Unread}]]
    /\ search \in [Threads -> [at : {"previous", "current", "try", "observe", "observed"},
                               i : Stage, previousValue : Nat, stage : Stage, mark : Nat,
                               value : Nat]]
    /\ misjudged \subseteq Stage

(* The stage is known to have work, a dispatcher is about to say so, or a  *)
(* thread is on its way to it.                                             *)
Attended(s) ==
    \/ previous[s] < current[s]
    \/ \E a \in Actor : tally[a].stage = s
    \/ \E t \in Threads :
          /\ threadAssignment[t] = s
          /\ search[t].at \in {"observe", "observed"} \/ thread[t].pc \in {"poll", "work"}

(* A functor has thrown in a visitor of the stage, which keeps its slot.   *)
Abandoned(s) ==
    \E t \in Threads :
        thread[t].pc = "exited" /\ thread[t].hadMessage /\ threadAssignment[t] = s

(* A message that waits is never taken as seen before the visit that will  *)
(* find it, unless a functor has thrown in that visit, a thread was refused*)
(* the stage after it had counted on it, or two dispatches have counted    *)
(* over each other.                                                        *)
NeverForgotten ==
    \A s \in Stage \ misjudged : queue[s] # <<>> => Attended(s) \/ Abandoned(s)

(* Unless the scheduler is stopped, a functor throws or a stage has been   *)
(* misjudged, every stage processes every message and every message is     *)
(* freed.  The first stage may be misjudged: a thread that finds no work   *)
(* anywhere goes there.                                                    *)
ServedUnlessMisjudged ==
    <>(\/ done \/ thrown # {} \/ misjudged \ {0} # {}
       \/ /\ Policy!Base!Flow!AllServed
          /\ \A s \in Stage : queue[s] = <<>>
          /\ \A m \in DOMAIN heap : ~heap[m].live)

(* "As events are enqueued with a stage, a monotonically increasing        *)
(* counter is incremented": no counter ever falls.                         *)
CountersGrow == [][\A s \in Stage : current'[s] >= current[s]]_vars
=============================================================================
