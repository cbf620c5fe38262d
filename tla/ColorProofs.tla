----------------------------- MODULE ColorProofs ----------------------------
(***************************************************************************)
(* Color, for any stages, slots, threads, routes and messages and whatever *)
(* lies behind the arrays: no waiting message is forgotten but by a refused*)
(* thread, and only the first stage can be over-visited.                   *)
(***************************************************************************)
EXTENDS Color, FiniteSetTheorems, FunctionTheorems, SequenceTheorems, TLAPS

(* What is proved of all policies.  The search past the end of the arrays  *)
(* breaks what they know of the slots, not what they know of threads and   *)
(* messages.                                                               *)
Proved == INSTANCE AssignmentPolicyProofs

(* The slots as they are if nobody looks at the maximum concurrency of the *)
(* first stage, and which therefore the search past the end leaves alone.  *)
Relaxed(f) == [s \in Stage |-> IF s = 0 THEN MaxNumberOfThreads + 1 ELSE f[s]]

Slots == INSTANCE ThreadAssignmentsProofs
    WITH Threads <- 0 .. MaxNumberOfThreads - 1, MaxConcurrency <- Relaxed(MaxConcurrency),
         maximumConcurrency <- Relaxed(maximumConcurrency)

-----------------------------------------------------------------------------
(* The operators of the instances are the same.                            *)
LEMMA SameSteps ==
    /\ Policy!Base!Init <=> Proved!Base!Init
    /\ Policy!Surroundings <=> Proved!Surroundings
    /\ \A t : /\ Policy!Process(t) <=> Proved!Process(t)
              /\ Policy!Base!Process(t) <=> Proved!Base!Process(t)
              /\ Policy!Base!Produce(t) <=> Proved!Base!Produce(t)
              /\ Policy!Vacate(t) <=> Proved!Vacate(t)
              /\ Policy!Vacated(t) <=> Proved!Vacated(t)
              /\ \A s : Policy!Try(t, s) <=> Proved!Try(t, s)
              /\ Policy!Swap(t) <=> Proved!Swap(t)
              /\ Policy!Accept(t) <=> Proved!Accept(t)
<1>1. Policy!Base!Init <=> Proved!Base!Init
    BY DEF Policy!Base!Init, Proved!Base!Init, Policy!Base!Flow!Init,
           Proved!Base!Flow!Init, Policy!Base!Threads, Proved!Base!Threads,
           Policy!Base!NumberOfEntries, Proved!Base!NumberOfEntries,
           Policy!Base!Flow!Stage, Proved!Base!Flow!Stage, Policy!Base!Flow!Actor,
           Proved!Base!Flow!Actor, Policy!Base!Flow!Idle, Proved!Base!Flow!Idle,
           Policy!numberOfThreads, Proved!numberOfThreads,
           Policy!Base!Flow!NumberOfEntries, Proved!Base!Flow!NumberOfEntries,
           Policy!Base!Flow!Null, Proved!Base!Flow!Null, Policy!Min, Proved!Min,
           Policy!Max, Proved!Max
<1>2. Policy!Surroundings <=> Proved!Surroundings
    BY DEF Policy!Surroundings, Proved!Surroundings, Policy!Base!Threads,
           Proved!Base!Threads, Policy!Base!Owner, Proved!Base!Owner,
           Policy!Base!Produce, Proved!Base!Produce, Policy!assignmentVars,
           Proved!assignmentVars, Policy!Base!Flow!Idle, Proved!Base!Flow!Idle,
           Policy!numberOfThreads, Proved!numberOfThreads,
           Policy!Base!Flow!NumberOfEntries, Proved!Base!Flow!NumberOfEntries,
           Policy!Base!Launch, Proved!Base!Launch, Policy!Base!Stop, Proved!Base!Stop,
           Policy!Base!Join, Proved!Base!Join, Policy!Base!Flow!Produce,
           Proved!Base!Flow!Produce, Policy!Base!schedulerVars,
           Proved!Base!schedulerVars, Policy!Base!flowVars, Proved!Base!flowVars,
           Policy!Base!Flow!Null, Proved!Base!Flow!Null, Policy!Base!Goto,
           Proved!Base!Goto, Policy!Base!Flow!Create, Proved!Base!Flow!Create,
           Policy!Base!Flow!Send, Proved!Base!Flow!Send, Policy!Base!Flow!Release,
           Proved!Base!Flow!Release, Policy!Base!Flow!Allocated,
           Proved!Base!Flow!Allocated, Policy!Base!Flow!Retain, Proved!Base!Flow!Retain,
           Policy!Base!Flow!Copy, Proved!Base!Flow!Copy, Policy!Base!Flow!Push,
           Proved!Base!Flow!Push, Policy!Base!Flow!DropRef, Proved!Base!Flow!DropRef,
           Policy!Base!Flow!Dispatching, Proved!Base!Flow!Dispatching,
           Policy!Base!Flow!AddRef, Proved!Base!Flow!AddRef, Policy!Min, Proved!Min,
           Policy!Max, Proved!Max
<1>3. ASSUME NEW t PROVE /\ Policy!Process(t) <=> Proved!Process(t)
                         /\ Policy!Base!Process(t) <=> Proved!Base!Process(t)
  <2>1. /\ Policy!Base!CheckDone(t) <=> Proved!Base!CheckDone(t)
        /\ Policy!Base!PollMessage(t) <=> Proved!Base!PollMessage(t)
        /\ Policy!Base!PollEmpty(t) <=> Proved!Base!PollEmpty(t)
        /\ Policy!Base!BatchEnd(t) <=> Proved!Base!BatchEnd(t)
      BY DEF Policy!Base!Flow!Idle, Proved!Base!Flow!Idle,
             Policy!Base!Flow!NumberOfEntries, Proved!Base!Flow!NumberOfEntries,
             Policy!Base!CheckDone, Proved!Base!CheckDone, Policy!Base!PollMessage,
             Proved!Base!PollMessage, Policy!Base!PollEmpty, Proved!Base!PollEmpty,
             Policy!Base!BatchEnd, Proved!Base!BatchEnd, Policy!Base!flowVars,
             Proved!Base!flowVars, Policy!Base!Flow!Null, Proved!Base!Flow!Null,
             Policy!Base!Goto, Proved!Base!Goto, Policy!Base!Flow!TryPop,
             Proved!Base!Flow!TryPop, Policy!Base!Polled, Proved!Base!Polled
  <2>2. /\ Policy!Base!Work(t) <=> Proved!Base!Work(t)
        /\ Policy!Base!Processed(t) <=> Proved!Base!Processed(t)
        /\ Policy!Base!Fail(t) <=> Proved!Base!Fail(t)
      BY DEF Policy!Base!Threads, Proved!Base!Threads, Policy!Base!Flow!Idle,
             Proved!Base!Flow!Idle, Policy!numberOfThreads, Proved!numberOfThreads,
             Policy!Base!Flow!NumberOfEntries, Proved!Base!Flow!NumberOfEntries,
             Policy!Base!schedulerVars, Proved!Base!schedulerVars, Policy!Base!Work,
             Proved!Base!Work, Policy!Base!Processed, Proved!Base!Processed,
             Policy!Base!Fail, Proved!Base!Fail, Policy!Base!Flow!Null,
             Proved!Base!Flow!Null, Policy!Base!Goto, Proved!Base!Goto,
             Policy!Base!Flow!Send, Proved!Base!Flow!Send, Policy!Base!Flow!Release,
             Proved!Base!Flow!Release, Policy!Base!Polled, Proved!Base!Polled,
             Policy!Base!Flow!Throw, Proved!Base!Flow!Throw, Policy!Base!Flow!Allocated,
             Proved!Base!Flow!Allocated, Policy!Base!Flow!Retain,
             Proved!Base!Flow!Retain, Policy!Base!Flow!Copy, Proved!Base!Flow!Copy,
             Policy!Base!Flow!Push, Proved!Base!Flow!Push, Policy!Base!Flow!DropRef,
             Proved!Base!Flow!DropRef, Policy!Base!Flow!Dispatching,
             Proved!Base!Flow!Dispatching, Policy!Base!Flow!AddRef,
             Proved!Base!Flow!AddRef, Policy!Min, Proved!Min, Policy!Max, Proved!Max
  <2> QED
      BY <2>1, <2>2
      DEF Policy!Process, Proved!Process, Policy!Base!Process, Proved!Base!Process,
          Policy!assignmentVars, Proved!assignmentVars
<1>4. ASSUME NEW t PROVE Policy!Base!Produce(t) <=> Proved!Base!Produce(t)
    BY DEF Policy!Base!Threads, Proved!Base!Threads, Policy!Base!Produce,
           Proved!Base!Produce, Policy!Base!Flow!Idle, Proved!Base!Flow!Idle,
           Policy!numberOfThreads, Proved!numberOfThreads,
           Policy!Base!Flow!NumberOfEntries, Proved!Base!Flow!NumberOfEntries,
           Policy!Base!Flow!Produce, Proved!Base!Flow!Produce,
           Policy!Base!schedulerVars, Proved!Base!schedulerVars, Policy!Base!Flow!Null,
           Proved!Base!Flow!Null, Policy!Base!Flow!Create, Proved!Base!Flow!Create,
           Policy!Base!Flow!Send, Proved!Base!Flow!Send, Policy!Base!Flow!Release,
           Proved!Base!Flow!Release, Policy!Base!Flow!Allocated,
           Proved!Base!Flow!Allocated, Policy!Base!Flow!Retain, Proved!Base!Flow!Retain,
           Policy!Base!Flow!Copy, Proved!Base!Flow!Copy, Policy!Base!Flow!Push,
           Proved!Base!Flow!Push, Policy!Base!Flow!DropRef, Proved!Base!Flow!DropRef,
           Policy!Base!Flow!Dispatching, Proved!Base!Flow!Dispatching,
           Policy!Base!Flow!AddRef, Proved!Base!Flow!AddRef, Policy!Min, Proved!Min,
           Policy!Max, Proved!Max
<1>5. ASSUME NEW t PROVE /\ Policy!Vacate(t) <=> Proved!Vacate(t)
                         /\ Policy!Vacated(t) <=> Proved!Vacated(t)
    BY DEF Policy!Vacate, Proved!Vacate, Policy!Vacated, Proved!Vacated,
           Policy!Assignments!RemoveBegin, Proved!Assignments!RemoveBegin,
           Policy!baseVars, Proved!baseVars, Policy!Assignments!RemoveEnd,
           Proved!Assignments!RemoveEnd, Policy!Assignments!Assigned,
           Proved!Assignments!Assigned, Policy!Assignments!NumberOfEntries,
           Proved!Assignments!NumberOfEntries, Policy!Assignments!Outside,
           Proved!Assignments!Outside
<1>6. ASSUME NEW t PROVE /\ \A s : Policy!Try(t, s) <=> Proved!Try(t, s)
                         /\ Policy!Swap(t) <=> Proved!Swap(t)
    BY DEF Policy!Try, Proved!Try, Policy!Swap, Proved!Swap, Policy!baseVars,
           Proved!baseVars, Policy!Assignments!Assigned, Proved!Assignments!Assigned,
           Policy!Assignments!TryRefused, Proved!Assignments!TryRefused,
           Policy!Assignments!TryLoad, Proved!Assignments!TryLoad,
           Policy!Assignments!Swap, Proved!Assignments!Swap,
           Policy!Assignments!SwapFails, Proved!Assignments!SwapFails,
           Policy!Assignments!NumberOfEntries, Proved!Assignments!NumberOfEntries,
           Policy!Assignments!Outside, Proved!Assignments!Outside,
           Policy!Assignments!HasRoom, Proved!Assignments!HasRoom,
           Policy!Assignments!vars, Proved!Assignments!vars,
           Policy!Assignments!Unchanged, Proved!Assignments!Unchanged
<1>7. ASSUME NEW t PROVE Policy!Accept(t) <=> Proved!Accept(t)
    BY DEF Policy!Accept, Proved!Accept, Policy!Assignments!Assign,
           Proved!Assignments!Assign, Policy!Base!Visit, Proved!Base!Visit,
           Policy!Assignments!NumberOfEntries, Proved!Assignments!NumberOfEntries,
           Policy!Assignments!Outside, Proved!Assignments!Outside, Policy!Base!flowVars,
           Proved!Base!flowVars
<1> QED
    BY <1>1, <1>2, <1>3, <1>4, <1>5, <1>6, <1>7

LEMMA SameTypes == Policy!Base!Flow!TypeOK <=> Proved!Base!Flow!TypeOK
BY
DEF Policy!Base!Flow!TypeOK, Proved!Base!Flow!TypeOK,
    Policy!Base!Flow!Stage, Proved!Base!Flow!Stage,
    Policy!Base!Flow!Message, Proved!Base!Flow!Message,
    Policy!Base!Flow!Content, Proved!Base!Flow!Content,
    Policy!Base!Flow!ToSet, Proved!Base!Flow!ToSet,
    Policy!Base!Flow!Actor, Proved!Base!Flow!Actor,
    Policy!Base!Flow!Null, Proved!Base!Flow!Null,
    Policy!Base!Flow!Dispatch, Proved!Base!Flow!Dispatch,
    Policy!Base!Flow!NumberOfEntries, Proved!Base!Flow!NumberOfEntries,
    Policy!Base!Threads, Proved!Base!Threads,
    Policy!numberOfThreads, Proved!numberOfThreads, Policy!Min, Proved!Min,
    Policy!Max, Proved!Max

LEMMA SameMessages ==
    /\ Policy!Base!Flow!RefCountExact <=> Proved!Base!Flow!RefCountExact
    /\ Policy!Base!Flow!NothingLost <=> Proved!Base!Flow!NothingLost
BY
DEF Policy!Base!Flow!RefCountExact, Proved!Base!Flow!RefCountExact,
    Policy!Base!Flow!Cardinality, Proved!Base!Flow!Cardinality,
    Policy!Base!Flow!NothingLost, Proved!Base!Flow!NothingLost,
    Policy!Base!Flow!ToSet, Proved!Base!Flow!ToSet,
    Policy!Base!Flow!Message, Proved!Base!Flow!Message,
    Policy!Base!Flow!QueueSlots, Proved!Base!Flow!QueueSlots,
    Policy!Base!Flow!Owners, Proved!Base!Flow!Owners,
    Policy!Base!Flow!Carriers, Proved!Base!Flow!Carriers,
    Policy!Base!Flow!AtRest, Proved!Base!Flow!AtRest,
    Policy!Base!Flow!Stage, Proved!Base!Flow!Stage,
    Policy!Base!Flow!Actor, Proved!Base!Flow!Actor,
    Policy!Base!Flow!Idle, Proved!Base!Flow!Idle,
    Policy!Base!Threads, Proved!Base!Threads,
    Policy!Base!Flow!Null, Proved!Base!Flow!Null,
    Policy!Base!Flow!NumberOfEntries, Proved!Base!Flow!NumberOfEntries,
    Policy!numberOfThreads, Proved!numberOfThreads, Policy!Min, Proved!Min,
    Policy!Max, Proved!Max

LEMMA SameThreads ==
    /\ Threads = Proved!Threads
    /\ Stage = Proved!Stage /\ Stage = 0 .. NumberOfStages - 1
    /\ NumberOfEntries = Proved!NumberOfEntries
BY
DEF Threads, Stage, NumberOfEntries,
    Policy!Threads, Proved!Threads, Policy!Stage, Proved!Stage,
    Policy!NumberOfEntries, Proved!NumberOfEntries,
    Policy!Base!Threads, Proved!Base!Threads,
    Policy!Base!Stage, Proved!Base!Stage,
    Policy!numberOfThreads, Proved!numberOfThreads,
    Policy!Base!Flow!Stage, Proved!Base!Flow!Stage, Policy!Min, Proved!Min,
    Policy!Max, Proved!Max

LEMMA ProvedAssumption == Proved!AssignmentPolicyAssumption
BY ColorAssumption
DEF Policy!AssignmentPolicyAssumption, Proved!AssignmentPolicyAssumption,
    Policy!Base!Flow!Content, Proved!Base!Flow!Content,
    Policy!Base!Flow!ToSet, Proved!Base!Flow!ToSet,
    Policy!Base!Flow!Dispatch, Proved!Base!Flow!Dispatch,
    Policy!Stage, Proved!Stage, Policy!Threads, Proved!Threads,
    Policy!Base!Flow!Stage, Proved!Base!Flow!Stage,
    Policy!Base!Stage, Proved!Base!Stage,
    Policy!Base!Threads, Proved!Base!Threads,
    Policy!numberOfThreads, Proved!numberOfThreads, Policy!Min, Proved!Min,
    Policy!Max, Proved!Max

LEMMA Parameters ==
    /\ NumberOfStages \in Nat \ {0}
    /\ MaxConcurrency \in [Stage -> Nat]
    /\ MaxNumberOfThreads \in Nat
    /\ Threads \subseteq 0 .. MaxNumberOfThreads - 1
    /\ NumberOfEntries \notin Stage /\ 0 \in Stage
BY ProvedAssumption, SameThreads, Proved!ThreadsKnown
DEF Proved!AssignmentPolicyAssumption, NumberOfEntries

-----------------------------------------------------------------------------
(* The slots                                                               *)

LEMMA SlotsAssumption == Slots!ThreadAssignmentsAssumption
<1>1. IsFiniteSet(0 .. MaxNumberOfThreads - 1)
    BY FS_Interval, Parameters
<1>2. Slots!IsFiniteSet(0 .. MaxNumberOfThreads - 1)
    BY <1>1 DEF Slots!IsFiniteSet, IsFiniteSet
<1>3. Relaxed(MaxConcurrency) \in [Stage -> Nat]
    BY Parameters DEF Relaxed
<1> QED
    BY <1>2, <1>3, Parameters, SameThreads
    DEF Slots!ThreadAssignmentsAssumption, Slots!Stage

LEMMA InitSlots == Init => Slots!IInv
<1>1. Init => Slots!Init
    BY SameThreads
    DEF Init, Policy!Init, Policy!Assignments!Init, Slots!Init, Policy!Assignments!Outside,
        Slots!Outside, Policy!Assignments!NumberOfEntries, Slots!NumberOfEntries,
        Policy!Assignments!Stage, Slots!Stage, Relaxed
<1> QED
    BY <1>1, SlotsAssumption, Slots!InitIInv

(* There are never more visitors than threads.                             *)
LEMMA FewVisitors ==
    ASSUME Slots!IInv, NEW s \in Stage
    PROVE  threadsPerStage[s] \in Nat /\ threadsPerStage[s] <= MaxNumberOfThreads
<1>1. threadsPerStage[s] = Cardinality(Slots!Visitors(s)) /\ threadsPerStage[s] \in Nat
    BY SameThreads
    DEF Slots!IInv, Slots!TypeOK, Slots!VisitorCountExact, Slots!Stage, Slots!Cardinality,
        Cardinality
<1>2. Slots!Visitors(s) \subseteq 0 .. MaxNumberOfThreads - 1
    BY DEF Slots!Visitors
<1>3. /\ IsFiniteSet(0 .. MaxNumberOfThreads - 1)
      /\ Cardinality(0 .. MaxNumberOfThreads - 1) = MaxNumberOfThreads
  <2>1. 0 \in Int /\ MaxNumberOfThreads - 1 \in Int /\ MaxNumberOfThreads \in Nat
      BY Parameters
  <2>2. /\ IsFiniteSet(0 .. MaxNumberOfThreads - 1)
        /\ Cardinality(0 .. MaxNumberOfThreads - 1)
               = IF 0 > MaxNumberOfThreads - 1 THEN 0 ELSE (MaxNumberOfThreads - 1) - 0 + 1
      BY <2>1, FS_Interval
  <2> QED
      BY <2>1, <2>2
<1> QED
    BY <1>1, <1>2, <1>3, FS_Subset

LEMMA SlotsQuiet ==
    ASSUME Slots!IInv, UNCHANGED <<threadAssignment, threadsPerStage, call>>,
           Relaxed(maximumConcurrency)' = Relaxed(maximumConcurrency)
    PROVE  Slots!IInv'
<1>1. UNCHANGED Slots!vars
    BY DEF Slots!vars
<1> QED
    BY <1>1, SlotsAssumption, Slots!StutterIInv

LEMMA SlotsNextStage ==
    ASSUME Slots!IInv, NEW t \in Threads,
           \/ Policy!Vacate(t) \/ Policy!Vacated(t)
           \/ \E s \in Stage : Policy!Try(t, s)
           \/ Policy!Swap(t)
           \/ Policy!Accept(t)
    PROVE  Slots!IInv'
<1>1. maximumConcurrency' = maximumConcurrency
      /\ Relaxed(maximumConcurrency)' = Relaxed(maximumConcurrency)
    BY DEF Policy!Vacate, Policy!Vacated, Policy!Try, Policy!Swap, Policy!Accept,
           Policy!Assignments!RemoveBegin, Policy!Assignments!RemoveEnd,
           Policy!Assignments!TryRefused, Policy!Assignments!TryLoad, Policy!Assignments!Swap,
           Policy!Assignments!SwapFails, Policy!Assignments!Assign, Policy!Assignments!vars,
           Relaxed
<1>2. CASE Policy!Vacate(t) \/ Policy!Vacated(t)
  <2>1. Slots!NextStage(t)
      BY <1>1, <1>2
      DEF Policy!Vacate, Policy!Vacated,
          Policy!Assignments!RemoveBegin, Slots!RemoveBegin, Policy!Assignments!RemoveEnd,
          Slots!RemoveEnd, Policy!Assignments!Assigned, Slots!Assigned,
          Policy!Assignments!Outside, Slots!Outside, Policy!Assignments!NumberOfEntries,
          Slots!NumberOfEntries, Slots!NextStage
  <2> QED
      BY <2>1, Parameters, SlotsAssumption, Slots!NextIInv DEF Slots!Next
<1>3. ASSUME NEW s \in Stage, Policy!Try(t, s) PROVE Slots!IInv'
  <2>1. CASE Policy!Assignments!TryRefused(t, s)
      BY <1>1, <2>1, SlotsQuiet DEF Policy!Assignments!TryRefused, Policy!Assignments!vars
  <2>2. CASE Policy!Assignments!TryLoad(t, s)
    <3>1. Slots!HasRoom(s)
        BY <2>2, FewVisitors, Parameters
        DEF Policy!Assignments!TryLoad, Policy!Assignments!HasRoom, Slots!HasRoom, Relaxed
    <3>2. ~Slots!Assigned(t) /\ s \in Slots!Stage
        BY <1>3, SameThreads
        DEF Policy!Try, Policy!Assignments!Assigned, Slots!Assigned,
            Policy!Assignments!NumberOfEntries, Slots!NumberOfEntries, Slots!Stage
    <3>3. Slots!TryLoad(t, s)
        BY <1>1, <2>2, <3>1 DEF Policy!Assignments!TryLoad, Slots!TryLoad
    <3>4. Slots!NextStage(t)
        BY <3>2, <3>3 DEF Slots!NextStage
    <3> QED
        BY <3>4, Parameters, SlotsAssumption, Slots!NextIInv DEF Slots!Next
  <2> QED
      BY <1>3, <2>1, <2>2 DEF Policy!Try
<1>4. CASE Policy!Swap(t)
  <2>1. Slots!NextStage(t)
      BY <1>1, <1>4
      DEF Policy!Swap, Policy!Assignments!Swap, Slots!Swap, Policy!Assignments!SwapFails,
          Slots!SwapFails, Policy!Assignments!Unchanged, Slots!Unchanged,
          Policy!Assignments!Outside, Slots!Outside, Policy!Assignments!NumberOfEntries,
          Slots!NumberOfEntries, Slots!NextStage
  <2> QED
      BY <2>1, Parameters, SlotsAssumption, Slots!NextIInv DEF Slots!Next
<1>5. CASE Policy!Accept(t)
  <2>1. Slots!NextStage(t)
      BY <1>1, <1>5
      DEF Policy!Accept, Policy!Assignments!Assign, Slots!Assign,
          Policy!Assignments!Outside, Slots!Outside, Policy!Assignments!NumberOfEntries,
          Slots!NumberOfEntries, Slots!NextStage
  <2> QED
      BY <2>1, Parameters, SlotsAssumption, Slots!NextIInv DEF Slots!Next
<1> QED
    BY <1>2, <1>3, <1>4, <1>5

-----------------------------------------------------------------------------
(* The slots, the threads and the messages together                        *)
Kept == Slots!IInv /\ Proved!BatchInSlot /\ Proved!Data!Arriving

LEMMA InitKept == Init => Kept
<1>1. Init => Proved!BatchInSlot /\ Proved!Data!Arriving
  <2>1. Proved!Assignments!Outside = Policy!Assignments!Outside
        /\ Proved!Assignments!NumberOfEntries = Policy!Assignments!NumberOfEntries
        /\ Proved!Assignments!Stage = Policy!Assignments!Stage
      BY DEF Proved!Assignments!Outside, Policy!Assignments!Outside,
             Proved!Assignments!NumberOfEntries, Policy!Assignments!NumberOfEntries,
             Proved!Assignments!Stage, Policy!Assignments!Stage
  <2>2. Init => Proved!Init
      BY <2>1, SameSteps
      DEF Init, Policy!Init, Proved!Init, Policy!Assignments!Init, Proved!Assignments!Init
  <2> QED
      BY <2>2, ProvedAssumption, Proved!InitSound DEF Proved!Sound
<1> QED
    BY <1>1, InitSlots DEF Kept

(* The methods of the assignments are called for stages, and by threads    *)
(* that have none.                                                         *)
CallsConsistent ==
    \A t \in Threads :
        call[t].op \in {"loaded", "swapped"} =>
            call[t].next \in Stage /\ threadAssignment[t] = NumberOfEntries

LEMMA KeptCalls == Kept => Proved!CallsKnown /\ CallsConsistent
<1> SUFFICES ASSUME Kept PROVE Proved!CallsKnown /\ CallsConsistent
    OBVIOUS
<1>1. Slots!Stage = Stage /\ Slots!NumberOfEntries = NumberOfEntries
      /\ Slots!Call = Proved!Assignments!Call
    BY SameThreads
    DEF Slots!Stage, Slots!NumberOfEntries, NumberOfEntries, Slots!Call,
        Proved!Assignments!Call, Proved!Assignments!Stage, Proved!Assignments!NumberOfEntries
<1>2. /\ threadAssignment \in [0 .. MaxNumberOfThreads - 1 -> Stage \cup {NumberOfEntries}]
      /\ call \in [0 .. MaxNumberOfThreads - 1 -> Proved!Assignments!Call]
      /\ \A t \in 0 .. MaxNumberOfThreads - 1 :
            call[t].op \in {"loaded", "swapped"} =>
                call[t].next \in Stage /\ threadAssignment[t] = NumberOfEntries
    BY <1>1 DEF Kept, Slots!IInv, Slots!TypeOK, Slots!CallConsistent, Slots!Assigned
<1> QED
    BY <1>2, SameThreads, Parameters DEF Proved!CallsKnown, CallsConsistent

LEMMA KeptOutside ==
    ASSUME Kept,
           Policy!Surroundings \/ \E t \in Threads : Policy!Process(t)
    PROVE  Kept'
<1>1. Slots!IInv'
  <2>1. UNCHANGED <<threadAssignment, threadsPerStage, maximumConcurrency, call>>
      BY DEF Policy!Surroundings, Policy!Process, Policy!assignmentVars
  <2>2. Relaxed(maximumConcurrency)' = Relaxed(maximumConcurrency)
      BY <2>1 DEF Relaxed
  <2> QED
      BY <2>1, <2>2, SlotsQuiet DEF Kept
<1>2. CASE Policy!Surroundings
  <2>1. Proved!Surroundings
      BY <1>2, SameSteps
  <2>2. Proved!BatchInSlot'
      BY <2>1, ProvedAssumption, Proved!SurroundingsBatch DEF Kept
  <2>3. [Proved!Base!Flow!Next]_Proved!Base!Flow!vars
      BY <2>1, ProvedAssumption, Proved!FlowSurroundings
  <2>4. Proved!Data!Arriving'
      BY <2>3, ProvedAssumption, Proved!DataStep DEF Kept
  <2> QED
      BY <1>1, <2>2, <2>4 DEF Kept
<1>3. ASSUME NEW t \in Threads, Policy!Process(t)
      PROVE  Kept'
  <2>1. Proved!Process(t) /\ Proved!Base!Process(t) /\ t \in Proved!Threads
      BY <1>3, SameSteps, SameThreads DEF Proved!Process
  <2>2. Proved!BatchInSlot'
      BY <2>1, ProvedAssumption, Proved!ProcessBatch DEF Kept
  <2>3. [Proved!Base!Flow!Next]_Proved!Base!Flow!vars
      BY <2>1, ProvedAssumption, Proved!FlowProcess DEF Kept, Proved!BatchInSlot
  <2>4. Proved!Data!Arriving'
      BY <2>3, ProvedAssumption, Proved!DataStep DEF Kept
  <2> QED
      BY <1>1, <2>2, <2>4 DEF Kept
<1> QED
    BY <1>2, <1>3

LEMMA KeptNextStage ==
    ASSUME Kept, NEW t \in Threads,
           \/ Policy!Vacate(t) \/ Policy!Vacated(t)
           \/ \E s \in Stage : Policy!Try(t, s)
           \/ Policy!Swap(t)
           \/ Policy!Accept(t)
    PROVE  Kept'
<1>1. Slots!IInv'
    BY SlotsNextStage DEF Kept
<1>2. Proved!NextStage(t) /\ t \in Proved!Threads
    BY SameSteps, SameThreads DEF Proved!NextStage
<1>3. Proved!BatchInSlot'
    BY <1>2, KeptCalls, ProvedAssumption, Proved!NextStageBatch DEF Kept
<1>4. [Proved!Base!Flow!Next]_Proved!Base!Flow!vars
    BY <1>2, ProvedAssumption, Proved!FlowNextStage
<1>5. Proved!Data!Arriving'
    BY <1>4, ProvedAssumption, Proved!DataStep DEF Kept
<1> QED
    BY <1>1, <1>3, <1>5 DEF Kept

(* A step that at most moves names or the bound of the first stage.        *)
LEMMA KeptQuiet ==
    ASSUME Kept,
           UNCHANGED <<queue, heap, frame, script, served, thrown, thread, launched, done, joined,
                       threadAssignment, threadsPerStage, call>>,
           Relaxed(maximumConcurrency)' = Relaxed(maximumConcurrency)
    PROVE  Kept'
<1>1. Slots!IInv'
    BY SlotsQuiet DEF Kept
<1>2. Proved!BatchInSlot'
    BY DEF Kept, Proved!BatchInSlot
<1>3. UNCHANGED Proved!Base!Flow!vars
    BY DEF Proved!Base!Flow!vars
<1>4. Proved!Data!Arriving'
    BY <1>3, ProvedAssumption, Proved!DataStep DEF Kept
<1> QED
    BY <1>1, <1>2, <1>4 DEF Kept

-----------------------------------------------------------------------------
(* Counting names, in the work queue and in the locals of the threads      *)

(* The slots of the queues q that hold m.                                  *)
Places(q, m) == {x \in (DOMAIN q) \X Nat : x[2] \in DOMAIN q[x[1]] /\ q[x[1]][x[2]] = m}

(* The actors whose variable, of the variables v, holds m.                 *)
Holders(v, m) == {a \in DOMAIN v : v[a] = m}

Same(x, y) == IF x = y THEN 1 ELSE 0

(* r is what a push of x to queue s makes of the queues q.                 *)
Pushed(q, r, s, x) ==
    /\ s \in DOMAIN q /\ DOMAIN r = DOMAIN q
    /\ r[s] = Append(q[s], x)
    /\ \A u \in DOMAIN q : u # s => r[u] = q[u]

(* r is what a pop of x from queue s makes of the queues q.                *)
Popped(q, r, s, x) ==
    /\ s \in DOMAIN q /\ DOMAIN r = DOMAIN q
    /\ q[s] # <<>> /\ x = Head(q[s]) /\ r[s] = Tail(q[s])
    /\ \A u \in DOMAIN q : u # s => r[u] = q[u]

(* An assignment to variable a takes the variables from v to w.            *)
Assigned(v, w, a) ==
    /\ a \in DOMAIN v /\ DOMAIN w = DOMAIN v
    /\ \A b \in DOMAIN v : b # a => w[b] = v[b]

LEMMA InPlaces ==
    ASSUME NEW q, NEW u \in DOMAIN q, NEW i \in Nat, i \in DOMAIN q[u], NEW m, q[u][i] = m
    PROVE  <<u, i>> \in Places(q, m)
BY DEF Places

(* A push fills one slot, of the message pushed.                           *)
LEMMA PushPlaces ==
    ASSUME NEW S, NEW M, NEW q \in [S -> Seq(M)], NEW r, NEW s, NEW x \in M,
           Pushed(q, r, s, x), NEW m, IsFiniteSet(Places(q, m))
    PROVE  /\ IsFiniteSet(Places(r, m))
           /\ Cardinality(Places(r, m)) = Cardinality(Places(q, m)) + Same(x, m)
<1> DEFINE last == <<s, Len(q[s]) + 1>>
<1>1. /\ s \in S /\ q[s] \in Seq(M) /\ Len(q[s]) \in Nat /\ DOMAIN q[s] = 1 .. Len(q[s])
      /\ DOMAIN r = DOMAIN q /\ DOMAIN r = S
    BY LenProperties DEF Pushed
<1>2. /\ DOMAIN r[s] = 1 .. Len(q[s]) + 1
      /\ \A i \in 1 .. Len(q[s]) : r[s][i] = q[s][i]
      /\ r[s][Len(q[s]) + 1] = x
      /\ \A u \in S : u # s => r[u] = q[u]
  <2>1. r[s] = Append(q[s], x) /\ Append(q[s], x) \in Seq(M)
      BY <1>1 DEF Pushed
  <2>2. \A u \in S : u # s => r[u] = q[u]
      BY DEF Pushed
  <2> QED
      BY <1>1, <2>1, <2>2, AppendProperties, LenProperties
<1>3. last \notin Places(q, m)
    BY <1>1 DEF Places
<1>4. Places(r, m) = IF x = m THEN Places(q, m) \cup {last} ELSE Places(q, m)
  <2>1. ASSUME NEW y \in Places(r, m) PROVE y \in Places(q, m) \/ (x = m /\ y = last)
    <3>1. CASE y[1] = s
        BY <1>1, <1>2, <2>1, <3>1 DEF Places
    <3>2. CASE y[1] # s
        BY <1>1, <1>2, <2>1, <3>2 DEF Places
    <3> QED
        BY <3>1, <3>2
  <2>2. ASSUME NEW y \in Places(q, m) PROVE y \in Places(r, m)
    <3>1. CASE y[1] = s
        BY <1>1, <1>2, <2>2, <3>1 DEF Places
    <3>2. CASE y[1] # s
        BY <1>1, <1>2, <2>2, <3>2 DEF Places
    <3> QED
        BY <3>1, <3>2
  <2>3. x = m => last \in Places(r, m)
      BY <1>1, <1>2 DEF Places
  <2> QED
      BY <2>1, <2>2, <2>3
<1> HIDE DEF last
<1> QED
  <2>1. Cardinality(Places(q, m)) \in Nat
      BY FS_CardinalityType
  <2>2. /\ IsFiniteSet(Places(q, m) \cup {last})
        /\ Cardinality(Places(q, m) \cup {last}) = Cardinality(Places(q, m)) + 1
      BY <1>3, FS_AddElement
  <2>3. CASE x = m
      BY <1>4, <2>2, <2>3 DEF Same
  <2>4. CASE x # m
      BY <1>4, <2>1, <2>4 DEF Same
  <2> QED
      BY <2>3, <2>4

(* A pop empties one slot, of the message at the head, and moves the rest. *)
LEMMA PopPlaces ==
    ASSUME NEW S, NEW M, NEW q \in [S -> Seq(M)], NEW r, NEW s, NEW x,
           Popped(q, r, s, x), NEW m, IsFiniteSet(Places(q, m))
    PROVE  /\ IsFiniteSet(Places(r, m))
           /\ Cardinality(Places(r, m)) = Cardinality(Places(q, m)) - Same(x, m)
<1> DEFINE first == <<s, 1>>
<1> DEFINE rest == Places(q, m) \ {first}
<1> DEFINE back == [y \in rest |-> IF y[1] = s THEN <<s, y[2] - 1>> ELSE y]
<1>1. /\ s \in S /\ q[s] \in Seq(M) /\ DOMAIN q[s] = 1 .. Len(q[s])
      /\ Len(q[s]) \in Nat /\ Len(q[s]) > 0
      /\ DOMAIN r = DOMAIN q /\ DOMAIN r = S
      /\ x = q[s][1]
    BY LenProperties, EmptySeq DEF Popped
<1>2. /\ DOMAIN r[s] = 1 .. Len(q[s]) - 1
      /\ \A i \in 1 .. Len(q[s]) - 1 : r[s][i] = q[s][i + 1]
      /\ \A u \in S : u # s => r[u] = q[u]
  <2>1. q[s] # <<>> /\ r[s] = Tail(q[s])
      BY DEF Popped
  <2>2. \A u \in S : u # s => r[u] = q[u]
      BY DEF Popped
  <2> QED
      BY <1>1, <2>1, <2>2, HeadTailProperties, LenProperties
<1>3. first \in Places(q, m) <=> x = m
    BY <1>1 DEF Places
<1>4. /\ IsFiniteSet(rest)
      /\ Cardinality(rest) = Cardinality(Places(q, m)) - Same(x, m)
  <2>1. Cardinality(Places(q, m)) \in Nat
      BY FS_CardinalityType
  <2>2. /\ IsFiniteSet(rest)
        /\ Cardinality(rest) = IF first \in Places(q, m) THEN Cardinality(Places(q, m)) - 1
                                                        ELSE Cardinality(Places(q, m))
      BY FS_RemoveElement
  <2> QED
      BY <1>3, <2>1, <2>2 DEF Same
<1>5. \A y \in rest : /\ y = <<y[1], y[2]>> /\ y[1] \in S /\ y[2] \in Nat
                      /\ y[2] \in DOMAIN q[y[1]] /\ q[y[1]][y[2]] = m
                      /\ y[1] = s => y[2] > 1
    BY <1>1 DEF Places
<1>6. back \in [rest -> Places(r, m)]
  <2> SUFFICES ASSUME NEW y \in rest PROVE back[y] \in Places(r, m)
      OBVIOUS
  <2>1. CASE y[1] = s
    <3> DEFINE i == y[2] - 1
    <3> DEFINE n == Len(q[s])
    <3>1. y[2] \in 2 .. n /\ q[s][y[2]] = m /\ n \in Nat /\ s \in DOMAIN r
      <4>1. y[2] \in Nat /\ y[2] > 1
          BY <1>5, <2>1
      <4>2. y[2] \in DOMAIN q[s] /\ q[s][y[2]] = m
          BY <1>5, <2>1
      <4> QED
          BY <1>1, <4>1, <4>2
    <3>2. back[y] = <<s, i>>
        BY <2>1
    <3>3. i \in 1 .. n - 1 /\ i + 1 = y[2]
        BY <3>1
    <3>4. i \in DOMAIN r[s] /\ r[s][i] = m
      <4> HIDE DEF i
      <4> QED
          BY <1>2, <3>1, <3>3
    <3> HIDE DEF i
    <3> QED
      <4>1. i \in Nat
          BY <3>1, <3>3
      <4>2. <<s, i>> \in Places(r, m)
          BY <3>1, <3>4, <4>1, InPlaces
      <4> QED
          BY <3>2, <4>2
  <2>2. CASE y[1] # s
    <3>1. back[y] = y
        BY <2>2
    <3> QED
        BY <1>1, <1>2, <1>5, <2>2, <3>1 DEF Places
  <2> QED
      BY <2>1, <2>2
<1>7. \A y, z \in rest : back[y] = back[z] => y = z
  <2> SUFFICES ASSUME NEW y \in rest, NEW z \in rest, back[y] = back[z]
               PROVE  y = z
      OBVIOUS
  <2>1. back[y][1] = y[1] /\ back[z][1] = z[1]
      BY <1>5
  <2>2. CASE y[1] = s
    <3>1. back[y] = <<s, y[2] - 1>> /\ back[z] = <<s, z[2] - 1>> /\ z[1] = s
        BY <2>1, <2>2
    <3>2. y[2] - 1 = z[2] - 1
        BY <3>1
    <3>3. y[2] \in Nat /\ z[2] \in Nat /\ y = <<y[1], y[2]>> /\ z = <<z[1], z[2]>>
        BY <1>5
    <3>4. y[2] = z[2]
        BY <3>2, <3>3
    <3> QED
        BY <2>2, <3>1, <3>3, <3>4
  <2>3. CASE y[1] # s
      BY <1>5, <2>1, <2>3
  <2> QED
      BY <2>2, <2>3
<1>8. ASSUME NEW z \in Places(r, m)
      PROVE  \E y \in rest : back[y] = z
  <2>1. /\ z = <<z[1], z[2]>> /\ z[1] \in S /\ z[2] \in Nat
        /\ z[2] \in DOMAIN r[z[1]] /\ r[z[1]][z[2]] = m
      BY <1>1, <1>8 DEF Places
  <2>2. CASE z[1] = s
    <3>1. <<s, z[2] + 1>> \in rest
        BY <1>1, <1>2, <2>1, <2>2 DEF Places
    <3>2. back[<<s, z[2] + 1>>] = z
        BY <2>1, <2>2, <3>1
    <3> QED
        BY <3>1, <3>2
  <2>3. CASE z[1] # s
    <3>1. z \in rest
        BY <1>1, <1>2, <2>1, <2>3 DEF Places
    <3>2. back[z] = z
        BY <2>3, <3>1
    <3> QED
        BY <3>1, <3>2
  <2> QED
      BY <2>2, <2>3
<1> HIDE DEF rest, back
<1>9. ExistsBijection(rest, Places(r, m))
    BY <1>6, <1>7, <1>8, Fun_IsBij DEF ExistsBijection
<1> QED
    BY <1>4, <1>9, FS_Bijection

(* An assignment to one variable takes from the holders of its old value   *)
(* and adds to those of its new one.                                       *)
LEMMA AssignHolders ==
    ASSUME NEW v, NEW w, NEW a, Assigned(v, w, a), NEW m, IsFiniteSet(Holders(v, m))
    PROVE  /\ IsFiniteSet(Holders(w, m))
           /\ Cardinality(Holders(w, m))
                  = Cardinality(Holders(v, m)) + Same(w[a], m) - Same(v[a], m)
<1>1. Holders(w, m) = IF w[a] = m THEN Holders(v, m) \cup {a} ELSE Holders(v, m) \ {a}
    BY DEF Holders, Assigned
<1>2. a \in Holders(v, m) <=> v[a] = m
    BY DEF Holders, Assigned
<1>3. Cardinality(Holders(v, m)) \in Nat
    BY FS_CardinalityType
<1>4. CASE w[a] = m
  <2>1. /\ IsFiniteSet(Holders(v, m) \cup {a})
        /\ Cardinality(Holders(v, m) \cup {a})
              = IF a \in Holders(v, m) THEN Cardinality(Holders(v, m))
                                       ELSE Cardinality(Holders(v, m)) + 1
      BY FS_AddElement
  <2>2. Holders(w, m) = Holders(v, m) \cup {a}
      BY <1>1, <1>4
  <2>3. Same(w[a], m) = 1
      BY <1>4 DEF Same
  <2>4. Same(v[a], m) = IF a \in Holders(v, m) THEN 1 ELSE 0
      BY <1>2 DEF Same
  <2>5. IsFiniteSet(Holders(w, m))
      BY <2>1, <2>2
  <2>6. Cardinality(Holders(w, m)) = IF a \in Holders(v, m) THEN Cardinality(Holders(v, m))
                                       ELSE Cardinality(Holders(v, m)) + 1
      BY <2>1, <2>2
  <2> QED
      BY <1>3, <2>5, <2>6, <2>3, <2>4
<1>5. CASE w[a] # m
  <2>1. /\ IsFiniteSet(Holders(v, m) \ {a})
        /\ Cardinality(Holders(v, m) \ {a})
              = IF a \in Holders(v, m) THEN Cardinality(Holders(v, m)) - 1
                                       ELSE Cardinality(Holders(v, m))
      BY FS_RemoveElement
  <2>2. Holders(w, m) = Holders(v, m) \ {a}
      BY <1>1, <1>5
  <2>3. Same(w[a], m) = 0
      BY <1>5 DEF Same
  <2>4. Same(v[a], m) = IF a \in Holders(v, m) THEN 1 ELSE 0
      BY <1>2 DEF Same
  <2>5. IsFiniteSet(Holders(w, m))
      BY <2>1, <2>2
  <2>6. Cardinality(Holders(w, m)) = IF a \in Holders(v, m) THEN Cardinality(Holders(v, m)) - 1
                                       ELSE Cardinality(Holders(v, m))
      BY <2>1, <2>2
  <2> QED
      BY <1>3, <2>5, <2>6, <2>3, <2>4
<1> QED
    BY <1>4, <1>5

-----------------------------------------------------------------------------
(* The names                                                               *)

Names ==
    /\ workQueue \in Seq(Stage)
    /\ naming \in [Actor -> Stage \cup {NumberOfEntries}]
    /\ next \in [Threads -> Stage \cup {NumberOfEntries}]
    /\ dropped \subseteq Stage
    /\ maximumConcurrency \in [Stage -> Nat]
    /\ \A t \in Threads : call[t].op \in {"loaded", "swapped"} => next[t] = call[t].next

workQueues == [x \in {0} |-> workQueue]

(* polling[t]: the stage at whose queue t is about to look.                *)
polling == [t \in Threads |-> IF thread[t].pc = "poll" THEN thread[t].stage ELSE NumberOfEntries]

(* The names of stage s and those they have led there.                     *)
Finite(s) ==
    /\ IsFiniteSet(Places(workQueues, s))
    /\ IsFiniteSet(Holders(naming, s))
    /\ IsFiniteSet(Holders(next, s))
    /\ IsFiniteSet(Holders(polling, s))

Ways(s) ==
    Cardinality(Places(workQueues, s)) + Cardinality(Holders(naming, s))
        + Cardinality(Holders(next, s)) + Cardinality(Holders(polling, s))

(* A message keeps the name that its dispatch pushed, or that of another   *)
(* message to the same stage: there are never more messages than names.    *)
Enough(s) == s \notin dropped => Len(queue[s]) <= Ways(s)

Counted == \A s \in Stage : Finite(s) /\ Enough(s)

IInv == Kept /\ Names /\ Counted

LEMMA Numbers ==
    ASSUME NEW s, Finite(s)
    PROVE  /\ Cardinality(Places(workQueues, s)) \in Nat
           /\ Cardinality(Holders(naming, s)) \in Nat
           /\ Cardinality(Holders(next, s)) \in Nat
           /\ Cardinality(Holders(polling, s)) \in Nat
BY FS_CardinalityType DEF Finite

LEMMA OneMore ==
    ASSUME NEW S, NEW q \in Seq(S), NEW x
    PROVE  Len(Append(q, x)) = Len(q) + 1
OBVIOUS

LEMMA KeptQueues == Kept => queue \in [Stage -> Seq(DOMAIN heap)]
BY ProvedAssumption, Proved!QueuesTyped, SameThreads DEF Kept

LEMMA QueueLengths ==
    ASSUME Kept, NEW s \in Stage
    PROVE  Len(queue[s]) \in Nat /\ (queue[s] = <<>> => Len(queue[s]) = 0)
BY KeptQueues, LenProperties, EmptySeq

LEMMA KeptThreads ==
    ASSUME Kept
    PROVE  /\ thread \in [Threads -> [pc : Proved!Base!ThreadState,
                                      stage : Stage \cup {NumberOfEntries}, hadMessage : BOOLEAN]]
           /\ \A t \in Threads : thread[t].pc \in {"poll", "work"} => thread[t].stage \in Stage
           /\ \A t \in Threads : call[t].op # "outside" => thread[t].pc = "next"
BY SameThreads DEF Kept, Proved!BatchInSlot

LEMMA InitIInv == Init => IInv
<1> SUFFICES ASSUME Init PROVE IInv
    OBVIOUS
<1>1. Kept
    BY InitKept
<1>2. /\ workQueue = <<>> /\ dropped = {}
      /\ naming = [a \in Actor |-> NumberOfEntries] /\ next = [t \in Threads |-> NumberOfEntries]
    BY DEF Init
<1>3. \A t \in Threads : thread[t].pc = "unborn"
    BY SameThreads DEF Init, Policy!Init, Policy!Base!Init, Threads, Policy!Threads
<1>4. \A t \in Threads : call[t].op = "outside"
    BY <1>1, <1>3, KeptThreads
<1>5. maximumConcurrency \in [Stage -> Nat]
    BY Parameters DEF Init, Policy!Init, Policy!Assignments!Init
<1>6. Names
    BY <1>2, <1>4, <1>5 DEF Names
<1>7. ASSUME NEW s \in Stage PROVE Finite(s) /\ Enough(s)
  <2>1. s # NumberOfEntries
      BY Parameters
  <2>2. Holders(naming, s) = {} /\ Holders(next, s) = {} /\ Holders(polling, s) = {}
      BY <1>2, <1>3, <2>1 DEF Holders, polling
  <2>3. Places(workQueues, s) = {}
      BY <1>2 DEF Places, workQueues
  <2>4. queue[s] = <<>>
      BY SameThreads DEF Init, Policy!Init, Policy!Base!Init, Policy!Base!Flow!Init,
             Policy!Base!Flow!Stage
  <2>5. Len(queue[s]) = 0
      BY <1>1, <2>4, QueueLengths
  <2> QED
      BY <2>2, <2>3, <2>5, FS_EmptySet DEF Finite, Enough, Ways
<1> QED
    BY <1>1, <1>6, <1>7 DEF IInv, Counted

(* How the numbers may change: Ways by a, messages by at most that.        *)
LEMMA StillEnough ==
    ASSUME IInv, NEW s \in Stage, Finite(s)', Kept',
           \/ s \in dropped'
           \/ queue'[s] = <<>>
           \/ /\ s \notin dropped
              /\ \E d \in Int : /\ Ways(s)' >= Ways(s) + d
                                /\ Len(queue'[s]) <= Len(queue[s]) + d
    PROVE  Enough(s)'
<1>1. Finite(s) /\ Enough(s)
    BY DEF IInv, Counted
<1>2. Ways(s) \in Nat /\ Ways(s)' \in Nat
  <2>1. Ways(s) \in Nat
      BY <1>1, Numbers DEF Ways
  <2>2. /\ Cardinality(Places(workQueues, s))' \in Nat
        /\ Cardinality(Holders(naming, s))' \in Nat
        /\ Cardinality(Holders(next, s))' \in Nat
        /\ Cardinality(Holders(polling, s))' \in Nat
      BY FS_CardinalityType DEF Finite
  <2>3. Ways(s)' \in Nat
      BY <2>2 DEF Ways
  <2> QED
      BY <2>1, <2>3
<1>3. Len(queue[s]) \in Nat /\ Len(queue'[s]) \in Nat
      /\ (queue'[s] = <<>> => Len(queue'[s]) = 0)
  <2>1. Len(queue[s]) \in Nat
      BY QueueLengths DEF IInv
  <2>2. (queue \in [Stage -> Seq(DOMAIN heap)])'
      BY KeptQueues, PTL
  <2> QED
      BY <2>1, <2>2, LenProperties, EmptySeq
<1>4. CASE s \in dropped'
    BY <1>4 DEF Enough
<1>5. CASE queue'[s] = <<>>
    BY <1>2, <1>3, <1>5 DEF Enough
<1>6. ASSUME s \notin dropped, NEW d \in Int, Ways(s)' >= Ways(s) + d,
             Len(queue'[s]) <= Len(queue[s]) + d
      PROVE  Enough(s)'
    BY <1>1, <1>2, <1>3, <1>6 DEF Enough
<1> QED
    BY <1>4, <1>5, <1>6

-----------------------------------------------------------------------------
(* Dispatches, and all that a thread does in a batch                       *)

(* Where a thread looks changes in a batch by a poll, after which it looks *)
(* again unless it has found nothing or takes the message.                 *)
LEMMA ProcessPolling ==
    ASSUME Kept, NEW t \in Threads, Policy!Process(t)
    PROVE  /\ Assigned(polling, polling', t)
           /\ \/ polling'[t] = polling[t]
              \/ polling[t] = NumberOfEntries
              \/ polling[t] \in Stage /\ Proved!Pops(t, polling[t])
                 /\ polling'[t] = NumberOfEntries
              \/ polling[t] \in Stage /\ queue'[polling[t]] = <<>>
<1>1. /\ thread \in [Threads -> [pc : Proved!Base!ThreadState,
                                 stage : Stage \cup {NumberOfEntries}, hadMessage : BOOLEAN]]
      /\ thread[t].pc = "poll" => thread[t].stage \in Stage
    BY KeptThreads
<1>2. \A u \in Threads : u # t => thread'[u] = thread[u]
    BY <1>1
    DEF Policy!Process, Policy!Base!Process, Policy!Base!CheckDone, Policy!Base!PollMessage,
        Policy!Base!PollEmpty, Policy!Base!Work, Policy!Base!Processed, Policy!Base!Fail,
        Policy!Base!BatchEnd, Policy!Base!Goto, Policy!Base!Polled, Policy!Base!schedulerVars
<1>3. Assigned(polling, polling', t)
    BY <1>2 DEF Assigned, polling
<1>4. CASE thread[t].pc # "poll"
    BY <1>3, <1>4 DEF polling
<1>5. CASE thread[t].pc = "poll"
  <2>1. polling[t] = thread[t].stage
      BY <1>5 DEF polling
  <2>2. CASE Policy!Base!PollMessage(t)
    <3>1. thread' = [thread EXCEPT ![t].pc = "work"]
        BY <2>2 DEF Policy!Base!PollMessage, Policy!Base!Goto
    <3>2. thread'[t].pc = "work"
        BY <1>1, <3>1
    <3>3. /\ queue[thread[t].stage] # <<>>
          /\ queue' = [queue EXCEPT ![thread[t].stage] = Tail(@)]
        BY <2>2 DEF Policy!Base!PollMessage, Policy!Base!Flow!TryPop
    <3>4. queue'[thread[t].stage] = Tail(queue[thread[t].stage])
        BY <1>1, <1>5, <3>3, KeptQueues
    <3>5. Proved!Pops(t, thread[t].stage)
        BY <1>5, <3>1, <3>3, <3>4 DEF Proved!Pops
    <3>6. polling'[t] = NumberOfEntries
        BY <3>2 DEF polling
    <3> QED
        BY <1>1, <1>3, <1>5, <2>1, <3>5, <3>6
  <2>3. CASE Policy!Base!PollEmpty(t)
      BY <1>1, <1>3, <1>5, <2>1, <2>3 DEF Policy!Base!PollEmpty, Policy!Base!flowVars
  <2>4. CASE Policy!Base!Work(t)
      BY <1>3, <2>4 DEF Policy!Base!Work, Policy!Base!schedulerVars, polling
  <2> QED
      BY <1>5, <2>2, <2>3, <2>4
      DEF Policy!Process, Policy!Base!Process, Policy!Base!CheckDone, Policy!Base!Processed,
          Policy!Base!Fail, Policy!Base!BatchEnd, Policy!Base!Goto, Policy!Base!Polled
<1> QED
    BY <1>3, <1>4, <1>5

LEMMA SurroundingsPolling ==
    ASSUME Kept, Policy!Surroundings
    PROVE  polling' = polling
<1>1. CASE Policy!Base!Launch
    BY <1>1, KeptThreads DEF Policy!Base!Launch, Policy!Base!Goto, polling
<1>2. CASE Policy!Base!Stop \/ Policy!Base!Join
    BY <1>2 DEF Policy!Base!Stop, Policy!Base!Join, polling
<1>3. CASE \E p \in Producers : Policy!Base!Produce(p)
    BY <1>3 DEF Policy!Base!Produce, Policy!Base!schedulerVars, polling
<1> QED
    BY <1>1, <1>2, <1>3 DEF Policy!Surroundings, Policy!Base!Owner

(* A dispatch that pushes a message to stage s goes on to name s.          *)
LEMMA NamesPush ==
    ASSUME Kept, Names, NEW a \in Actor, AfterPush(a)
    PROVE  /\ naming' \in [Actor -> Stage \cup {NumberOfEntries}]
           /\ Assigned(naming, naming', a)
           /\ naming[a] = NumberOfEntries
           /\ \A s \in Stage : Proved!Pushes(a, s) => naming'[a] = s
           /\ UNCHANGED <<workQueue, next, dropped>>
<1>1. /\ naming[a] = NumberOfEntries
      /\ naming' = IF frame[a].carry # Policy!Base!Flow!Null
                   THEN [naming EXCEPT ![a] = Head(frame[a].todo).to]
                   ELSE naming
      /\ UNCHANGED <<workQueue, next, dropped>>
    BY DEF AfterPush
<1>2. Policy!Base!Flow!Null = Proved!Base!Flow!Null
    BY DEF Policy!Base!Flow!Null, Proved!Base!Flow!Null
<1>3. frame[a].carry # Proved!Base!Flow!Null => Head(frame[a].todo).to \in Stage
  <2>1. a \in Producers \cup Proved!Threads
      BY SameThreads DEF Actor
  <2> QED
      BY <2>1, ProvedAssumption, Proved!DispatchKnown, SameThreads DEF Kept
<1> QED
    BY <1>1, <1>2, <1>3 DEF Names, Assigned, Proved!Pushes

LEMMA CountedPush ==
    ASSUME IInv, Kept', NEW a \in Actor, AfterPush(a),
           \/ a \in Producers /\ Policy!Surroundings /\ Policy!Base!Produce(a)
           \/ a \in Threads /\ Policy!Process(a)
    PROVE  Counted'
<1> SUFFICES ASSUME NEW s \in Stage PROVE Finite(s)' /\ Enough(s)'
    BY DEF Counted
<1>1. Kept /\ Names /\ Finite(s)
    BY DEF IInv, Counted
<1>2. s # NumberOfEntries
    BY Parameters
<1>3. workQueues' = workQueues /\ next' = next /\ dropped' = dropped
    BY <1>1, NamesPush DEF workQueues
<1>4. /\ IsFiniteSet(Holders(naming', s))
      /\ Cardinality(Holders(naming', s)) = Cardinality(Holders(naming, s)) + Same(naming'[a], s)
  <2>1. Assigned(naming, naming', a) /\ naming[a] = NumberOfEntries
      BY <1>1, NamesPush
  <2>2. IsFiniteSet(Holders(naming, s)) /\ Cardinality(Holders(naming, s)) \in Nat
      BY <1>1, Numbers DEF Finite
  <2>3. Same(naming[a], s) = 0 /\ Same(naming'[a], s) \in Int
      BY <1>2, <2>1 DEF Same
  <2>4. /\ IsFiniteSet(Holders(naming', s))
        /\ Cardinality(Holders(naming', s))
              = Cardinality(Holders(naming, s)) + Same(naming'[a], s) - Same(naming[a], s)
      BY <2>1, <2>2, AssignHolders
  <2> QED
      BY <2>2, <2>3, <2>4
<1>5. queue'[s] = queue[s] \/ Proved!Pushes(a, s) \/ (a \in Threads /\ Proved!Pops(a, s))
  <2>1. CASE a \in Producers /\ Policy!Base!Produce(a)
      BY <1>1, <2>1, SameSteps, ProvedAssumption, Proved!ProduceQueues, SameThreads DEF Kept
  <2>2. CASE a \in Threads /\ Policy!Process(a)
    <3>1. Proved!Base!Process(a)
        BY <2>2, SameSteps DEF Proved!Process
    <3> QED
        BY <1>1, <2>2, <3>1, ProvedAssumption, Proved!ProcessQueues, SameThreads DEF Kept
  <2> QED
      BY <2>1, <2>2
<1>6. /\ Proved!Pushes(a, s) => /\ Same(naming'[a], s) = 1
                                /\ Len(queue'[s]) = Len(queue[s]) + 1
      /\ Proved!Pops(a, s) => Len(queue'[s]) = Len(queue[s]) - 1
  <2>1. queue[s] \in Seq(DOMAIN heap)
      BY <1>1, KeptQueues
  <2>2. Proved!Pushes(a, s) => Same(naming'[a], s) = 1
      BY <1>1, NamesPush DEF Same
  <2>3. Proved!Pushes(a, s) => Len(queue'[s]) = Len(queue[s]) + 1
    <3>1. Proved!Pushes(a, s) => queue'[s] = Append(queue[s], frame[a].carry)
        BY DEF Proved!Pushes
    <3> QED
        BY <2>1, <3>1, OneMore
  <2>4. Proved!Pops(a, s) => Len(queue'[s]) = Len(queue[s]) - 1
    <3>1. Proved!Pops(a, s) => queue[s] # <<>> /\ queue'[s] = Tail(queue[s])
        BY DEF Proved!Pops
    <3> QED
        BY <2>1, <3>1, HeadTailProperties
  <2> QED
      BY <2>2, <2>3, <2>4
<1>7. Same(naming'[a], s) \in {0, 1}
    BY DEF Same
<1>8. /\ IsFiniteSet(Holders(polling', s))
      /\ \/ Cardinality(Holders(polling', s)) >= Cardinality(Holders(polling, s))
            /\ (queue'[s] = queue[s] \/ Proved!Pushes(a, s))
         \/ queue'[s] = <<>>
         \/ /\ Proved!Pops(a, s)
            /\ Cardinality(Holders(polling', s)) >= Cardinality(Holders(polling, s)) - 1
  <2>1. IsFiniteSet(Holders(polling, s)) /\ Cardinality(Holders(polling, s)) \in Nat
      BY <1>1, Numbers DEF Finite
  <2>2. CASE a \in Producers /\ Policy!Surroundings /\ Policy!Base!Produce(a)
    <3>1. polling' = polling
        BY <1>1, <2>2, SurroundingsPolling
    <3>2. ~Proved!Pops(a, s) \/ a \notin Threads
        BY <2>2, ProvedAssumption, SameThreads DEF Proved!AssignmentPolicyAssumption
    <3> QED
        BY <1>5, <2>1, <3>1, <3>2
  <2>3. CASE a \in Threads /\ Policy!Process(a)
    <3>1. Assigned(polling, polling', a)
        BY <1>1, <2>3, ProcessPolling
    <3>2. /\ IsFiniteSet(Holders(polling', s))
          /\ Cardinality(Holders(polling', s))
                = Cardinality(Holders(polling, s)) + Same(polling'[a], s) - Same(polling[a], s)
        BY <2>1, <3>1, AssignHolders
    <3>3. /\ Same(polling'[a], s) \in {0, 1} /\ Same(polling[a], s) \in {0, 1}
          /\ polling'[a] = s => Same(polling'[a], s) = 1
          /\ polling[a] # s => Same(polling[a], s) = 0
        BY DEF Same
    <3>4. CASE Proved!Pops(a, s)
        BY <2>1, <3>2, <3>3, <3>4
    <3>5. CASE ~Proved!Pops(a, s)
      <4>1. polling[a] # s \/ polling'[a] = s \/ queue'[s] = <<>>
          BY <1>1, <1>2, <2>3, <3>5, ProcessPolling
      <4> QED
          BY <1>5, <2>1, <3>2, <3>3, <3>5, <4>1
    <3> QED
        BY <3>4, <3>5
  <2> QED
      BY <2>2, <2>3
<1>9. Finite(s)'
    BY <1>1, <1>3, <1>4, <1>8 DEF Finite
<1>10. \/ s \in dropped'
       \/ queue'[s] = <<>>
       \/ /\ s \notin dropped
          /\ \E d \in Int : /\ Ways(s)' >= Ways(s) + d
                            /\ Len(queue'[s]) <= Len(queue[s]) + d
  <2>1. /\ Cardinality(Places(workQueues, s)) \in Nat
        /\ Cardinality(Holders(naming, s)) \in Nat
        /\ Cardinality(Holders(next, s)) \in Nat
        /\ Cardinality(Holders(polling, s)) \in Nat
        /\ Cardinality(Holders(polling', s)) \in Nat
        /\ Len(queue[s]) \in Nat
      BY <1>1, <1>8, Numbers, FS_CardinalityType, QueueLengths
  <2>2. Ways(s)' = Cardinality(Places(workQueues, s)) + Cardinality(Holders(naming', s))
                     + Cardinality(Holders(next, s)) + Cardinality(Holders(polling', s))
      BY <1>3 DEF Ways
  <2>3. CASE queue'[s] = <<>>
      BY <2>3
  <2>4. CASE /\ Proved!Pops(a, s)
             /\ Cardinality(Holders(polling', s)) >= Cardinality(Holders(polling, s)) - 1
    <3>1. Ways(s)' >= Ways(s) + (-1) /\ Len(queue'[s]) <= Len(queue[s]) + (-1)
        BY <1>4, <1>6, <1>7, <2>1, <2>2, <2>4 DEF Ways
    <3> QED
        BY <1>3, <3>1
  <2>5. CASE /\ Cardinality(Holders(polling', s)) >= Cardinality(Holders(polling, s))
             /\ Proved!Pushes(a, s)
    <3>1. Ways(s)' >= Ways(s) + 1 /\ Len(queue'[s]) <= Len(queue[s]) + 1
        BY <1>4, <1>6, <2>1, <2>2, <2>5 DEF Ways
    <3> QED
        BY <1>3, <3>1
  <2>6. CASE /\ Cardinality(Holders(polling', s)) >= Cardinality(Holders(polling, s))
             /\ queue'[s] = queue[s]
    <3>1. Ways(s)' >= Ways(s) + 0 /\ Len(queue'[s]) <= Len(queue[s]) + 0
        BY <1>4, <1>7, <2>1, <2>2, <2>6 DEF Ways
    <3> QED
        BY <1>3, <3>1
  <2> QED
      BY <1>8, <2>3, <2>4, <2>5, <2>6
<1> QED
    BY <1>9, <1>10, StillEnough

LEMMA PushStep ==
    ASSUME IInv, NEW a \in Actor, AfterPush(a),
           \/ a \in Producers /\ Policy!Surroundings /\ Policy!Base!Produce(a)
           \/ a \in Threads /\ Policy!Process(a)
    PROVE  IInv'
<1>1. Kept'
    BY KeptOutside DEF IInv
<1>2. UNCHANGED <<maximumConcurrency, call>>
    BY DEF Policy!Surroundings, Policy!Process, Policy!assignmentVars
<1>3. Names'
    BY <1>2, NamesPush DEF IInv, Names
<1>4. Counted'
    BY <1>1, CountedPush
<1> QED
    BY <1>1, <1>3, <1>4 DEF IInv

LEMMA NameStep ==
    ASSUME IInv, NEW a \in Actor, Name(a)
    PROVE  IInv'
<1>1. /\ naming[a] \in Stage
      /\ workQueue' = Append(workQueue, naming[a])
      /\ naming' = [naming EXCEPT ![a] = NumberOfEntries]
      /\ UNCHANGED <<policyVars, next, dropped>>
    BY DEF Name, IInv, Names
<1>2. UNCHANGED <<queue, thread, maximumConcurrency, call>>
    BY <1>1 DEF policyVars
<1>3. Kept'
    BY <1>1, KeptQuiet DEF IInv, policyVars, Relaxed
<1>4. Names'
    BY <1>1, <1>2 DEF IInv, Names
<1>5. ASSUME NEW s \in Stage PROVE Finite(s)' /\ Enough(s)'
  <2>1. Finite(s)
      BY DEF IInv, Counted
  <2>2. next' = next /\ polling' = polling
      BY <1>1, <1>2 DEF polling
  <2>3. /\ IsFiniteSet(Places(workQueues', s))
        /\ Cardinality(Places(workQueues', s))
              = Cardinality(Places(workQueues, s)) + Same(naming[a], s)
    <3>1. workQueues \in [{0} -> Seq(Stage)] /\ Pushed(workQueues, workQueues', 0, naming[a])
        BY <1>1 DEF IInv, Names, workQueues, Pushed
    <3> QED
        BY <1>1, <2>1, <3>1, PushPlaces DEF Finite
  <2>4. /\ IsFiniteSet(Holders(naming', s))
        /\ Cardinality(Holders(naming', s))
              = Cardinality(Holders(naming, s)) + Same(naming'[a], s) - Same(naming[a], s)
    <3>1. Assigned(naming, naming', a)
        BY <1>1 DEF IInv, Names, Assigned
    <3> QED
        BY <2>1, <3>1, AssignHolders DEF Finite
  <2>5. Same(naming[a], s) \in {0, 1} /\ Same(naming'[a], s) = 0
      BY <1>1, Parameters DEF Same, IInv, Names
  <2>6. Finite(s)'
      BY <2>1, <2>2, <2>3, <2>4 DEF Finite
  <2>7. Ways(s)' >= Ways(s) + 0
      BY <2>1, <2>2, <2>3, <2>4, <2>5, Numbers DEF Ways
  <2>8. Len(queue'[s]) <= Len(queue[s]) + 0
      BY <1>2, QueueLengths DEF IInv
  <2> QED
      BY <1>1, <1>3, <2>6, <2>7, <2>8, StillEnough DEF Enough
<1> QED
    BY <1>3, <1>4, <1>5 DEF IInv, Counted

-----------------------------------------------------------------------------
(* nextStage                                                               *)

(* A step that moves no name and no message, and no thread to or from a    *)
(* queue.                                                                  *)
LEMMA CountedQuiet ==
    ASSUME IInv, Kept', UNCHANGED <<queue, workQueue, naming, next, dropped>>,
           polling' = polling
    PROVE  Counted'
<1> SUFFICES ASSUME NEW s \in Stage PROVE Finite(s)' /\ Enough(s)'
    BY DEF Counted
<1>1. workQueues' = workQueues
    BY DEF workQueues
<1>2. Finite(s) /\ Enough(s)
    BY DEF IInv, Counted
<1> QED
    BY <1>1, <1>2 DEF Finite, Enough, Ways

LEMMA OwnerStep ==
    ASSUME IInv, Owner(TRUE)
    PROVE  IInv'
<1>1. Policy!Surroundings /\ UNCHANGED <<queue, workQueue, naming, next, dropped>>
    BY DEF Owner, colorVars, Policy!Base!Owner, Policy!Base!Launch, Policy!Base!Stop,
           Policy!Base!Join, Policy!Base!flowVars
<1>2. Kept' /\ polling' = polling
    BY <1>1, KeptOutside, SurroundingsPolling DEF IInv
<1>3. UNCHANGED <<maximumConcurrency, call>>
    BY <1>1 DEF Policy!Surroundings, Policy!assignmentVars
<1>4. Names'
    BY <1>1, <1>3 DEF IInv, Names
<1> QED
    BY <1>1, <1>2, <1>4, CountedQuiet DEF IInv

LEMMA VacateStep ==
    ASSUME IInv, NEW t \in Threads, Vacate(t)
    PROVE  IInv'
<1>1. /\ UNCHANGED <<queue, thread, workQueue, naming, next, dropped, maximumConcurrency>>
      /\ call[t].op \notin {"loaded", "swapped"}
    BY DEF Vacate, colorVars, Policy!Vacate, Policy!Vacated, Policy!baseVars,
           Policy!Assignments!RemoveBegin, Policy!Assignments!RemoveEnd
<1>2. Kept'
    BY KeptNextStage DEF IInv, Vacate
<1>3. \A u \in Threads : call'[u].op \in {"loaded", "swapped"} => call'[u] = call[u]
  <2>1. call \in [0 .. MaxNumberOfThreads - 1 -> Proved!Assignments!Call]
        /\ Threads \subseteq 0 .. MaxNumberOfThreads - 1
      BY KeptCalls, Parameters DEF IInv, Proved!CallsKnown
  <2>2. \/ call' = [call EXCEPT ![t].op = "removing"]
        \/ call' = [call EXCEPT ![t] = Policy!Assignments!Outside]
      BY DEF Vacate, Policy!Vacate, Policy!Vacated,
             Policy!Assignments!RemoveBegin, Policy!Assignments!RemoveEnd
  <2>3. \A u \in Threads : u # t => call'[u] = call[u]
      BY <2>1, <2>2
  <2>4. call'[t].op \in {"removing", "outside"}
    <3>1. CASE call' = [call EXCEPT ![t].op = "removing"]
        BY <2>1, <3>1 DEF Proved!Assignments!Call
    <3>2. CASE call' = [call EXCEPT ![t] = Policy!Assignments!Outside]
        BY <2>1, <3>2 DEF Policy!Assignments!Outside
    <3> QED
        BY <2>2, <3>1, <3>2
  <2> QED
      BY <2>3, <2>4
<1>4. Names'
    BY <1>1, <1>3 DEF IInv, Names
<1>5. polling' = polling
    BY <1>1 DEF polling
<1> QED
    BY <1>1, <1>2, <1>4, <1>5, CountedQuiet DEF IInv

LEMMA TryPastTheEndStep ==
    ASSUME IInv, NEW t \in Threads, TryPastTheEnd(t)
    PROVE  IInv'
<1>1. /\ maximumConcurrency' = [maximumConcurrency EXCEPT ![0] = @ + 1]
      /\ UNCHANGED <<queue, heap, frame, script, served, thrown, thread, launched, done, joined,
                     threadAssignment, threadsPerStage, call, workQueue, naming, next, dropped>>
    BY DEF TryPastTheEnd, colorVars
<1>2. maximumConcurrency \in [Stage -> Nat]
    BY DEF IInv, Names
<1>3. Relaxed(maximumConcurrency)' = Relaxed(maximumConcurrency)
    BY <1>1, <1>2 DEF Relaxed
<1>4. Kept'
    BY <1>1, <1>3, KeptQuiet DEF IInv
<1>5. maximumConcurrency' \in [Stage -> Nat]
    BY <1>1, <1>2, Parameters
<1>6. Names'
    BY <1>1, <1>5 DEF IInv, Names
<1>7. polling' = polling
    BY <1>1 DEF polling
<1> QED
    BY <1>1, <1>4, <1>6, <1>7, CountedQuiet DEF IInv

LEMMA DequeStep ==
    ASSUME IInv, NEW t \in Threads, dequeNextStage(t)
    PROVE  IInv'
<1>1. /\ next[t] = NumberOfEntries /\ call[t].op = "outside"
      /\ workQueue # <<>>
      /\ next' = [next EXCEPT ![t] = Head(workQueue)]
      /\ workQueue' = Tail(workQueue)
      /\ UNCHANGED <<policyVars, naming, dropped>>
    BY DEF dequeNextStage, Searching
<1>2. UNCHANGED <<queue, thread, maximumConcurrency, call>>
    BY <1>1 DEF policyVars
<1>3. Kept'
    BY <1>1, KeptQuiet DEF IInv, policyVars, Relaxed
<1>4. Head(workQueue) \in Stage /\ Tail(workQueue) \in Seq(Stage)
    BY <1>1, HeadTailProperties DEF IInv, Names
<1>5. Names'
    BY <1>1, <1>2, <1>4 DEF IInv, Names
<1>6. ASSUME NEW s \in Stage PROVE Finite(s)' /\ Enough(s)'
  <2>1. Finite(s)
      BY DEF IInv, Counted
  <2>2. naming' = naming /\ polling' = polling
      BY <1>1, <1>2 DEF polling
  <2>3. /\ IsFiniteSet(Places(workQueues', s))
        /\ Cardinality(Places(workQueues', s))
              = Cardinality(Places(workQueues, s)) - Same(Head(workQueue), s)
    <3>1. /\ workQueues \in [{0} -> Seq(Stage)]
          /\ Popped(workQueues, workQueues', 0, Head(workQueue))
        BY <1>1 DEF IInv, Names, workQueues, Popped
    <3> QED
        BY <2>1, <3>1, PopPlaces DEF Finite
  <2>4. /\ IsFiniteSet(Holders(next', s))
        /\ Cardinality(Holders(next', s))
              = Cardinality(Holders(next, s)) + Same(next'[t], s) - Same(next[t], s)
    <3>1. Assigned(next, next', t)
        BY <1>1 DEF IInv, Names, Assigned
    <3> QED
        BY <2>1, <3>1, AssignHolders DEF Finite
  <2>5. /\ Same(next'[t], s) = Same(Head(workQueue), s)
        /\ Same(Head(workQueue), s) \in {0, 1} /\ Same(next[t], s) = 0
      BY <1>1, Parameters DEF Same, IInv, Names
  <2>6. Finite(s)'
      BY <2>1, <2>2, <2>3, <2>4 DEF Finite
  <2>7. Ways(s)' >= Ways(s) + 0
      BY <2>1, <2>2, <2>3, <2>4, <2>5, Numbers DEF Ways
  <2>8. Len(queue'[s]) <= Len(queue[s]) + 0
      BY <1>2, QueueLengths DEF IInv
  <2> QED
      BY <1>1, <1>3, <2>6, <2>7, <2>8, StillEnough DEF Enough
<1> QED
    BY <1>3, <1>5, <1>6 DEF IInv, Counted

(* A refused thread forgets its name, and the stage is then no longer      *)
(* promised anything.                                                      *)
LEMMA AttemptStep ==
    ASSUME IInv, NEW t \in Threads, Attempt(t)
    PROVE  IInv'
<1>1. /\ next[t] \in Stage
      /\ Policy!Try(t, next[t]) \/ Policy!Swap(t)
      /\ \/ /\ Refused(t)
            /\ next' = [next EXCEPT ![t] = NumberOfEntries]
            /\ dropped' = dropped \cup {next[t]}
         \/ ~Refused(t) /\ next' = next /\ dropped' = dropped
      /\ UNCHANGED <<workQueue, naming>>
    BY DEF Attempt, IInv, Names
<1>2. Kept'
    BY <1>1, KeptNextStage DEF IInv
<1>3. UNCHANGED <<queue, thread, maximumConcurrency>>
    BY <1>1
    DEF Policy!Try, Policy!Swap, Policy!baseVars, Policy!Assignments!TryRefused,
        Policy!Assignments!TryLoad, Policy!Assignments!Swap, Policy!Assignments!SwapFails,
        Policy!Assignments!vars
<1>4. \A u \in Threads : call'[u].op \in {"loaded", "swapped"} => next'[u] = call'[u].next
  <2>1. /\ call \in [0 .. MaxNumberOfThreads - 1 -> Proved!Assignments!Call]
        /\ t \in 0 .. MaxNumberOfThreads - 1 /\ Threads \subseteq 0 .. MaxNumberOfThreads - 1
      BY KeptCalls, Parameters DEF IInv, Proved!CallsKnown
  <2>2. /\ next \in [Threads -> Stage \cup {NumberOfEntries}]
        /\ \A u \in Threads : call[u].op \in {"loaded", "swapped"} => next[u] = call[u].next
      BY DEF IInv, Names
  <2>3. CASE Policy!Assignments!TryRefused(t, next[t])
    <3>1. call' = call /\ call[t].op = "outside"
        BY <2>3 DEF Policy!Assignments!TryRefused, Policy!Assignments!vars
    <3> QED
        BY <1>1, <2>2, <3>1
  <2>4. CASE Policy!Assignments!TryLoad(t, next[t])
    <3>1. ~Refused(t)
        BY <2>4 DEF Refused, Policy!Assignments!TryLoad
    <3>2. call' = [call EXCEPT ![t] = [op |-> "loaded", next |-> next[t],
                                       currentVisitors |-> threadsPerStage[next[t]]]]
        BY <2>4 DEF Policy!Assignments!TryLoad
    <3> QED
        BY <1>1, <2>1, <2>2, <3>1, <3>2
  <2>5. CASE Policy!Assignments!Swap(t)
    <3>1. ~Refused(t)
        BY <2>5 DEF Refused, Policy!Assignments!Swap
    <3>2. call' = [call EXCEPT ![t].op = "swapped"] /\ call[t].op = "loaded"
        BY <2>5 DEF Policy!Assignments!Swap
    <3>3. \A u \in Threads : call'[u].next = call[u].next /\ (u # t => call'[u] = call[u])
        BY <2>1, <3>2 DEF Proved!Assignments!Call
    <3> QED
        BY <1>1, <2>2, <3>1, <3>2, <3>3
  <2>6. CASE Policy!Assignments!SwapFails(t)
    <3>1. call' = [call EXCEPT ![t] = Policy!Assignments!Outside]
        BY <2>6 DEF Policy!Assignments!SwapFails
    <3>2. call'[t].op = "outside" /\ \A u \in Threads : u # t => call'[u] = call[u]
        BY <2>1, <3>1 DEF Policy!Assignments!Outside
    <3>3. \A u \in Threads : u # t => next'[u] = next[u]
        BY <1>1, <2>2
    <3> QED
        BY <2>2, <3>2, <3>3
  <2> QED
      BY <1>1, <2>3, <2>4, <2>5, <2>6 DEF Policy!Try, Policy!Swap
<1>5. Names'
    BY <1>1, <1>3, <1>4 DEF IInv, Names
<1>6. ASSUME NEW s \in Stage PROVE Finite(s)' /\ Enough(s)'
  <2>1. Finite(s)
      BY DEF IInv, Counted
  <2>2. workQueues' = workQueues /\ naming' = naming /\ polling' = polling
      BY <1>1, <1>3 DEF polling, workQueues
  <2>3. /\ IsFiniteSet(Holders(next', s))
        /\ Cardinality(Holders(next', s))
              = Cardinality(Holders(next, s)) + Same(next'[t], s) - Same(next[t], s)
    <3>1. Assigned(next, next', t)
        BY <1>1 DEF IInv, Names, Assigned
    <3> QED
        BY <2>1, <3>1, AssignHolders DEF Finite
  <2>4. Finite(s)'
      BY <2>1, <2>2, <2>3 DEF Finite
  <2>5. /\ Same(next'[t], s) \in {0, 1} /\ Same(next[t], s) \in {0, 1}
        /\ (s = next[t] /\ s \in dropped') \/ Same(next'[t], s) >= Same(next[t], s)
    <3>1. CASE next'[t] = next[t]
        BY <3>1 DEF Same
    <3>2. CASE next[t] = s /\ s \in dropped'
        BY <3>2 DEF Same
    <3>3. CASE next[t] # s
        BY <3>3 DEF Same
    <3> QED
        BY <1>1, <3>1, <3>2, <3>3
  <2>6. s \in dropped' \/ Ways(s)' >= Ways(s) + 0
      BY <2>1, <2>2, <2>3, <2>5, Numbers DEF Ways
  <2>7. Len(queue'[s]) <= Len(queue[s]) + 0
      BY <1>3, QueueLengths DEF IInv
  <2> QED
      BY <1>1, <1>2, <2>4, <2>6, <2>7, StillEnough DEF Enough
<1> QED
    BY <1>2, <1>5, <1>6 DEF IInv, Counted

(* The name has led a thread to its stage.                                 *)
LEMMA AcceptStep ==
    ASSUME IInv, NEW t \in Threads, Accept(t)
    PROVE  IInv'
<1>1. /\ Policy!Accept(t) /\ call[t].op = "swapped" /\ next[t] = call[t].next
      /\ next' = [next EXCEPT ![t] = NumberOfEntries]
      /\ UNCHANGED <<workQueue, naming, dropped>>
    BY DEF Accept, Policy!Accept, Policy!Assignments!Assign, IInv, Names
<1>2. Kept'
    BY <1>1, KeptNextStage DEF IInv
<1>3. /\ UNCHANGED <<queue, maximumConcurrency>>
      /\ call' = [call EXCEPT ![t] = Policy!Assignments!Outside]
      /\ thread[t].pc = "next"
      /\ thread' = [thread EXCEPT ![t] = [pc |-> "poll", stage |-> next[t], hadMessage |-> TRUE]]
    BY <1>1 DEF Policy!Accept, Policy!Assignments!Assign, Policy!Base!Visit, Policy!Base!flowVars
<1>4. \A u \in Threads : call'[u].op \in {"loaded", "swapped"} => next'[u] = call'[u].next
  <2>1. call \in [0 .. MaxNumberOfThreads - 1 -> Proved!Assignments!Call]
        /\ Threads \subseteq 0 .. MaxNumberOfThreads - 1
      BY KeptCalls, Parameters DEF IInv, Proved!CallsKnown
  <2>2. call'[t].op = "outside" /\ \A u \in Threads : u # t => call'[u] = call[u]
      BY <1>3, <2>1 DEF Policy!Assignments!Outside
  <2>3. \A u \in Threads : u # t => next'[u] = next[u]
      BY <1>1 DEF IInv, Names
  <2> QED
      BY <2>2, <2>3 DEF IInv, Names
<1>5. Names'
    BY <1>1, <1>3, <1>4 DEF IInv, Names
<1>6. ASSUME NEW s \in Stage PROVE Finite(s)' /\ Enough(s)'
  <2>1. Finite(s)
      BY DEF IInv, Counted
  <2>2. workQueues' = workQueues /\ naming' = naming
      BY <1>1 DEF workQueues
  <2>3. /\ IsFiniteSet(Holders(next', s))
        /\ Cardinality(Holders(next', s))
              = Cardinality(Holders(next, s)) + Same(next'[t], s) - Same(next[t], s)
    <3>1. Assigned(next, next', t)
        BY <1>1 DEF IInv, Names, Assigned
    <3> QED
        BY <2>1, <3>1, AssignHolders DEF Finite
  <2>4. polling[t] = NumberOfEntries /\ polling'[t] = next[t] /\ Assigned(polling, polling', t)
    <3>1. /\ \A u \in Threads : u # t => thread'[u] = thread[u]
          /\ thread'[t].pc = "poll" /\ thread'[t].stage = next[t]
        BY <1>3, KeptThreads DEF IInv
    <3> QED
        BY <1>3, <3>1 DEF polling, Assigned
  <2>5. /\ IsFiniteSet(Holders(polling', s))
        /\ Cardinality(Holders(polling', s))
              = Cardinality(Holders(polling, s)) + Same(polling'[t], s) - Same(polling[t], s)
      BY <2>1, <2>4, AssignHolders DEF Finite
  <2>6. /\ Same(polling'[t], s) = Same(next[t], s) /\ Same(next[t], s) \in {0, 1}
        /\ Same(polling[t], s) = 0 /\ Same(next'[t], s) = 0
      BY <1>1, <2>4, Parameters DEF Same, IInv, Names
  <2>7. Finite(s)'
      BY <2>1, <2>2, <2>3, <2>5 DEF Finite
  <2>8. Ways(s)' >= Ways(s) + 0
      BY <2>1, <2>2, <2>3, <2>5, <2>6, Numbers DEF Ways
  <2>9. Len(queue'[s]) <= Len(queue[s]) + 0
      BY <1>3, QueueLengths DEF IInv
  <2> QED
      BY <1>1, <1>2, <2>7, <2>8, <2>9, StillEnough DEF Enough
<1> QED
    BY <1>2, <1>5, <1>6 DEF IInv, Counted

LEMMA NextIInv ==
    ASSUME IInv, [Next]_vars
    PROVE  IInv'
<1>1. CASE UNCHANGED vars
  <2>1. UNCHANGED <<policyVars, workQueue, naming, next, dropped>>
      BY <1>1 DEF vars, policyVars
  <2>2. Kept'
      BY <2>1, KeptQuiet DEF IInv, policyVars, Relaxed
  <2>3. polling' = polling /\ UNCHANGED <<queue, call, maximumConcurrency>>
      BY <2>1 DEF polling, policyVars
  <2>4. Names'
      BY <2>1, <2>3 DEF IInv, Names
  <2> QED
      BY <2>1, <2>2, <2>3, <2>4, CountedQuiet DEF IInv
<1>2. CASE Owner(TRUE)
    BY <1>2, OwnerStep
<1>3. ASSUME NEW p \in Producers, Produce(p)
      PROVE  IInv'
    BY <1>3, PushStep, NameStep DEF Produce, Actor
<1>4. ASSUME NEW t \in Threads, ThreadStep(t)
      PROVE  IInv'
  <2>1. CASE Process(t)
      BY <2>1, PushStep, NameStep DEF Process, Actor
  <2>2. CASE nextStage(t)
      BY <2>2, VacateStep, DequeStep, TryPastTheEndStep, AttemptStep, AcceptStep DEF nextStage
  <2> QED
      BY <1>4, <2>1, <2>2 DEF ThreadStep
<1> QED
    BY <1>1, <1>2, <1>3, <1>4 DEF Next

LEMMA Invariance == Spec => []IInv
BY InitIInv, NextIInv, PTL DEF Spec

-----------------------------------------------------------------------------
LEMMA IInvTypes ==
    ASSUME IInv
    PROVE  TypeOK
<1>1. Policy!Base!TypeOK
  <2>1. Policy!Base!Flow!TypeOK
      BY SameTypes, ProvedAssumption, Proved!ArrivingPromises DEF IInv, Kept
  <2>2. /\ thread \in [Threads -> [pc : Proved!Base!ThreadState,
                                   stage : Stage \cup {NumberOfEntries}, hadMessage : BOOLEAN]]
        /\ launched \in 0 .. Proved!numberOfThreads(MaxNumberOfThreads)
        /\ done \in BOOLEAN /\ joined \in BOOLEAN
      BY SameThreads DEF IInv, Kept, Proved!BatchInSlot
  <2>3. Proved!numberOfThreads(MaxNumberOfThreads) = Policy!numberOfThreads(MaxNumberOfThreads)
      BY DEF Proved!numberOfThreads, Policy!numberOfThreads, Proved!Min, Policy!Min,
             Proved!Max, Policy!Max
  <2>4. /\ Policy!Base!Threads = Threads /\ Policy!Base!Stage = Stage
        /\ Policy!Base!NumberOfEntries = NumberOfEntries
        /\ Policy!Base!ThreadState = Proved!Base!ThreadState
      BY DEF Threads, Policy!Threads, Stage, Policy!Stage, Policy!Base!NumberOfEntries,
             Policy!Base!Flow!NumberOfEntries, NumberOfEntries, Policy!Base!ThreadState,
             Proved!Base!ThreadState
  <2> QED
      BY <2>1, <2>2, <2>3, <2>4 DEF Policy!Base!TypeOK
<1>2. Policy!Assignments!TypeOK
  <2>1. /\ threadAssignment \in [0 .. MaxNumberOfThreads - 1 ->
                                   Slots!Stage \cup {Slots!NumberOfEntries}]
        /\ threadsPerStage \in [Slots!Stage -> Nat]
        /\ call \in [0 .. MaxNumberOfThreads - 1 -> Slots!Call]
      BY DEF IInv, Kept, Slots!IInv, Slots!TypeOK
  <2>2. maximumConcurrency \in [Slots!Stage -> Nat]
      BY SameThreads DEF IInv, Names, Slots!Stage
  <2> QED
      BY <2>1, <2>2
      DEF Policy!Assignments!TypeOK, Slots!Call, Policy!Assignments!Call, Slots!Stage,
          Policy!Assignments!Stage, Slots!NumberOfEntries, Policy!Assignments!NumberOfEntries
<1> QED
    BY <1>1, <1>2 DEF TypeOK, Policy!TypeOK, IInv, Names

(* The types of everything Color keeps; the word that a search past the    *)
(* end increments is the only one to grow beyond what it was set to.       *)
THEOREM Types == Spec => []TypeOK
BY Invariance, IInvTypes, PTL

LEMMA CountedRemembers ==
    ASSUME IInv
    PROVE  NeverForgotten
<1> SUFFICES ASSUME NEW s \in Stage, s \notin dropped, queue[s] # <<>>, ~Attended(s)
             PROVE  FALSE
    BY DEF NeverForgotten
<1>1. Finite(s) /\ Len(queue[s]) <= Ways(s)
    BY DEF IInv, Counted, Enough
<1>2. Len(queue[s]) \in Nat /\ Len(queue[s]) > 0
    BY KeptQueues, LenProperties, EmptySeq DEF IInv
<1>3. Holders(naming, s) = {} /\ Holders(next, s) = {}
    BY DEF Attended, Holders, IInv, Names
<1>4. Holders(polling, s) = {}
  <2>1. Policy!Processing(s) = {}
      BY DEF Attended
  <2>2. \A t \in Threads : ~(thread[t].pc = "poll" /\ thread[t].stage = s)
      BY <2>1 DEF Policy!Processing, Threads
  <2> QED
      BY <2>2, Parameters DEF Holders, polling
<1>5. Places(workQueues, s) = {}
  <2>1. \A i \in DOMAIN workQueue : workQueue[i] # s
      BY DEF Attended, ToSet
  <2> QED
      BY <2>1 DEF Places, workQueues
<1>6. Ways(s) = 0
    BY <1>3, <1>4, <1>5, FS_EmptySet DEF Ways
<1> QED
    BY <1>1, <1>2, <1>6

(* A waiting message has a name that will lead a thread to it, or has lost *)
(* it to a refused thread: also when threads empty a queue ahead of the    *)
(* names still to come, or die in a functor with names left behind.        *)
THEOREM Remembered == Spec => []NeverForgotten
BY Invariance, CountedRemembers, PTL

LEMMA KeptRespects ==
    ASSUME Kept
    PROVE  LaterStagesRespected
<1> SUFFICES ASSUME NEW s \in Stage, s # 0
             PROVE  Cardinality(Policy!Processing(s)) <= MaxConcurrency[s]
    BY DEF LaterStagesRespected
<1>1. Policy!Processing(s) \subseteq Slots!Visitors(s)
  <2> SUFFICES ASSUME NEW t \in Policy!Processing(s) PROVE t \in Slots!Visitors(s)
      OBVIOUS
  <2>1. t \in Threads /\ thread[t].pc \in {"poll", "work"} /\ thread[t].stage = s
      BY DEF Policy!Processing, Threads
  <2>2. threadAssignment[t] = s /\ call[t].op = "outside"
      BY <2>1, SameThreads DEF Kept, Proved!BatchInSlot
  <2> QED
      BY <2>1, <2>2, Parameters DEF Slots!Visitors, Slots!visiting
<1>2. IsFiniteSet(Slots!Visitors(s))
  <2>1. Slots!Visitors(s) \subseteq 0 .. MaxNumberOfThreads - 1
      BY DEF Slots!Visitors
  <2>2. IsFiniteSet(0 .. MaxNumberOfThreads - 1)
      BY FS_Interval, Parameters
  <2> QED
      BY <2>1, <2>2, FS_Subset
<1>3. /\ Cardinality(Policy!Processing(s)) \in Nat
      /\ Cardinality(Slots!Visitors(s)) \in Nat
      /\ Cardinality(Policy!Processing(s)) <= Cardinality(Slots!Visitors(s))
    BY <1>1, <1>2, FS_Subset, FS_CardinalityType
<1>4. Cardinality(Slots!Visitors(s)) <= Relaxed(MaxConcurrency)[s]
    BY SameThreads
    DEF Kept, Slots!IInv, Slots!ConcurrencyRespected, Slots!Stage, Slots!Cardinality, Cardinality
<1>5. Relaxed(MaxConcurrency)[s] = MaxConcurrency[s] /\ MaxConcurrency[s] \in Nat
    BY Parameters DEF Relaxed
<1> QED
    BY <1>3, <1>4, <1>5

(* The search past the end of the arrays over-visits the first stage at    *)
(* most: the slots of every other stage still bound its concurrency.       *)
THEOREM LaterStages == Spec => []LaterStagesRespected
<1>1. IInv => LaterStagesRespected
    BY KeptRespects DEF IInv
<1> QED
    BY <1>1, Invariance, PTL

(* The search past the end does not disturb a message: the counts stay     *)
(* exact, and none is lost but by an exception.                            *)
THEOREM MessagesKept ==
    Spec => [](Policy!Base!Flow!RefCountExact /\ Policy!Base!Flow!NothingLost)
<1>1. IInv => Policy!Base!Flow!RefCountExact /\ Policy!Base!Flow!NothingLost
    BY ProvedAssumption, Proved!ArrivingPromises, SameMessages DEF IInv, Kept
<1> QED
    BY <1>1, Invariance, PTL
=============================================================================
