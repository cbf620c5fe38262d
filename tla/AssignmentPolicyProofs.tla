----------------------- MODULE AssignmentPolicyProofs -----------------------
(***************************************************************************)
(* Every policy built on ThreadAssignments, for every number of threads,   *)
(* stages and cores, every MaxConcurrency and all routes of messages: the  *)
(* scheduler keeps to the protocol of the slots, so that what is proved of *)
(* ThreadAssignments holds of it, and a thread in a functor holds a slot   *)
(* of the functor's stage, so that the slots bound the concurrency.  What  *)
(* is proved of StageFlow holds of its messages.                           *)
(***************************************************************************)
EXTENDS AssignmentPolicy, FiniteSetTheorems, SequenceTheorems, TLAPS

(* The theorems about ThreadAssignments, for the threads it is sized for.  *)
Slots == INSTANCE ThreadAssignmentsProofs WITH Threads <- 0 .. MaxNumberOfThreads - 1

-----------------------------------------------------------------------------
(* The threads *)

(* start() never launches a thread for which there is no threadAssignment_,*)
(* and launches at least one, whatever hardware_concurrency() says.        *)
LEMMA NumberOfThreadsBounded ==
    /\ numberOfThreads(MaxNumberOfThreads) \in Nat
    /\ MaxNumberOfThreads > 0 => numberOfThreads(MaxNumberOfThreads) > 0
    /\ numberOfThreads(MaxNumberOfThreads) <= MaxNumberOfThreads
<1> DEFINE cores == Max({1, HardwareConcurrency})
<1>1. cores \in Nat \ {0}
  <2>1. HardwareConcurrency \in Nat
      BY AssignmentPolicyAssumption
  <2>2. \E x \in {1, HardwareConcurrency} : \A y \in {1, HardwareConcurrency} : x >= y
      BY <2>1
  <2> QED
      BY <2>1, <2>2 DEF Max
<1> HIDE DEF cores
<1>2. \E x \in {cores, MaxNumberOfThreads} : \A y \in {cores, MaxNumberOfThreads} : x <= y
    BY <1>1, AssignmentPolicyAssumption
<1>3. Min({cores, MaxNumberOfThreads}) \in {cores, MaxNumberOfThreads}
      /\ Min({cores, MaxNumberOfThreads}) <= MaxNumberOfThreads
    BY <1>1, <1>2, AssignmentPolicyAssumption DEF Min
<1> QED
    BY <1>1, <1>3, AssignmentPolicyAssumption DEF cores, numberOfThreads

LEMMA ThreadsKnown == Threads \subseteq 0 .. MaxNumberOfThreads - 1
BY NumberOfThreadsBounded, AssignmentPolicyAssumption DEF Threads, Base!Threads

LEMMA SlotsAssumption == Slots!ThreadAssignmentsAssumption
<1>1. IsFiniteSet(0 .. MaxNumberOfThreads - 1)
    BY FS_Interval, AssignmentPolicyAssumption
<1>2. Slots!IsFiniteSet(0 .. MaxNumberOfThreads - 1)
    BY <1>1 DEF Slots!IsFiniteSet, IsFiniteSet
<1> QED
    BY <1>2, AssignmentPolicyAssumption
    DEF Slots!ThreadAssignmentsAssumption, Slots!Stage, Stage, Base!Stage, Base!Flow!Stage

-----------------------------------------------------------------------------
(* The scheduler drives the assignments as their specification allows.     *)

LEMMA InitAssignments == Init => Assignments!Init
BY DEF Init

LEMMA Quiet == UNCHANGED assignmentVars => UNCHANGED Assignments!vars
BY DEF assignmentVars, Assignments!vars

LEMMA NextAssignments ==
    ASSUME [Next]_vars
    PROVE  [Assignments!Next]_Assignments!vars
<1>1. CASE UNCHANGED vars
    BY <1>1 DEF vars, Assignments!vars
<1>2. CASE Surroundings
    BY <1>2, Quiet DEF Surroundings
<1>3. ASSUME NEW t \in Threads, Process(t)
      PROVE  [Assignments!Next]_Assignments!vars
    BY <1>3, Quiet DEF Process
<1>4. ASSUME NEW t \in Threads, NextStage(t)
      PROVE  [Assignments!Next]_Assignments!vars
  <2>1. t \in 0 .. MaxNumberOfThreads - 1
      BY <1>4, ThreadsKnown
  <2>2. CASE Vacate(t)
      BY <2>1, <2>2 DEF Vacate, Assignments!Next, Assignments!NextStage
  <2>3. CASE Vacated(t)
      BY <2>1, <2>3 DEF Vacated, Assignments!Next, Assignments!NextStage
  <2>4. CASE \E s \in Stage : Try(t, s)
      BY <2>1, <2>4
      DEF Try, Assignments!Next, Assignments!NextStage,
          Stage, Base!Stage, Base!Flow!Stage, Assignments!Stage
  <2>5. CASE Swap(t)
      BY <2>1, <2>5 DEF Swap, Assignments!Next, Assignments!NextStage
  <2>6. CASE Accept(t)
      BY <2>1, <2>6 DEF Accept, Assignments!Next, Assignments!NextStage
  <2> QED
      BY <1>4, <2>2, <2>3, <2>4, <2>5, <2>6 DEF NextStage
<1> QED
    BY <1>1, <1>2, <1>3, <1>4 DEF Next

(* What a scheduler does to its ThreadAssignments, under any policy that   *)
(* gives its assignment up before it tries stages, are exactly calls that  *)
(* the protocol allows.                                                    *)
THEOREM Protocol == Spec => KeepsProtocol
BY InitAssignments, NextAssignments, PTL DEF Spec, KeepsProtocol, Assignments!Spec

-----------------------------------------------------------------------------
(* The specification the policies use and the one the theorems are about   *)
(* are the same, so the inductive invariant of ThreadAssignments holds.    *)

LEMMA SameInit == Assignments!Init => Slots!Init
BY DEF Assignments!Init, Slots!Init, Assignments!Outside, Slots!Outside,
       Assignments!NumberOfEntries, Slots!NumberOfEntries, Assignments!Stage, Slots!Stage

LEMMA SameNextStage ==
    ASSUME NEW t, Assignments!NextStage(t)
    PROVE  Slots!NextStage(t)
<1>1. CASE Assignments!RemoveBegin(t) \/ Assignments!RemoveEnd(t)
    BY <1>1
    DEF Assignments!RemoveBegin, Slots!RemoveBegin, Assignments!RemoveEnd, Slots!RemoveEnd,
        Assignments!Assigned, Slots!Assigned, Assignments!Outside, Slots!Outside,
        Assignments!NumberOfEntries, Slots!NumberOfEntries, Slots!NextStage
<1>2. CASE ~Assignments!Assigned(t) /\ \E s \in Assignments!Stage :
               Assignments!TryRefused(t, s) \/ Assignments!TryLoad(t, s)
    BY <1>2
    DEF Assignments!TryRefused, Slots!TryRefused, Assignments!TryLoad, Slots!TryLoad,
        Assignments!HasRoom, Slots!HasRoom, Assignments!vars, Slots!vars,
        Assignments!Assigned, Slots!Assigned, Assignments!Stage, Slots!Stage,
        Assignments!NumberOfEntries, Slots!NumberOfEntries, Slots!NextStage
<1>3. CASE Assignments!Swap(t) \/ Assignments!SwapFails(t)
    BY <1>3
    DEF Assignments!Swap, Slots!Swap, Assignments!SwapFails, Slots!SwapFails,
        Assignments!Unchanged, Slots!Unchanged, Assignments!Outside, Slots!Outside,
        Assignments!NumberOfEntries, Slots!NumberOfEntries, Slots!NextStage
<1>4. CASE Assignments!Assign(t)
    BY <1>4
    DEF Assignments!Assign, Slots!Assign, Assignments!Outside, Slots!Outside,
        Assignments!NumberOfEntries, Slots!NumberOfEntries, Slots!NextStage
<1> QED
    BY <1>1, <1>2, <1>3, <1>4 DEF Assignments!NextStage

LEMMA SameNext == [Assignments!Next]_Assignments!vars => [Slots!Next]_Slots!vars
BY SameNextStage DEF Assignments!Next, Slots!Next, Assignments!vars, Slots!vars

LEMMA InitSlots == Init => Slots!IInv
BY InitAssignments, SameInit, SlotsAssumption, Slots!InitIInv

(* A step of the assignments, whoever takes it. *)
LEMMA SlotsStep ==
    ASSUME Slots!IInv, [Assignments!Next]_Assignments!vars
    PROVE  Slots!IInv'
BY SameNext, SlotsAssumption, Slots!NextIInv

LEMMA SlotsInPolicy == Spec => [](Slots!IInv)
<1>1. Slots!IInv /\ [Next]_vars => Slots!IInv'
    BY NextAssignments, SlotsStep
<1> QED
    BY <1>1, InitSlots, PTL DEF Spec

(* The types of what the methods keep, and that a slot is one of a stage.  *)
CallsKnown ==
    /\ threadAssignment \in [0 .. MaxNumberOfThreads - 1 -> Stage \cup {NumberOfEntries}]
    /\ call \in [0 .. MaxNumberOfThreads - 1 -> Assignments!Call]
    /\ \A t \in 0 .. MaxNumberOfThreads - 1 :
          call[t].op \in {"loaded", "swapped"} => call[t].next \in Stage

LEMMA SlotsKnown == Slots!IInv => CallsKnown
BY DEF CallsKnown, Slots!IInv, Slots!TypeOK, Slots!CallConsistent, Slots!Call, Assignments!Call,
       Slots!Stage, Stage, Base!Stage, Base!Flow!Stage, Assignments!Stage,
       Slots!NumberOfEntries, NumberOfEntries, Assignments!NumberOfEntries

-----------------------------------------------------------------------------
(* A thread is in a batch only while its assignment names the stage of the *)
(* batch, and it is inside a method of the assignments only in nextStage.  *)
BatchInSlot ==
    /\ thread \in [Threads -> [pc : Base!ThreadState, stage : Stage \cup {NumberOfEntries},
                               hadMessage : BOOLEAN]]
    /\ launched \in 0 .. numberOfThreads(MaxNumberOfThreads)
    /\ done \in BOOLEAN /\ joined \in BOOLEAN
    /\ \A t \in Threads :
          /\ thread[t].pc \in {"poll", "work"} => thread[t].stage \in Stage
          /\ thread[t].pc \in {"poll", "work"} => threadAssignment[t] = thread[t].stage
          /\ call[t].op # "outside" => thread[t].pc = "next"

LEMMA InitBatch == Init => BatchInSlot
<1> SUFFICES ASSUME Init PROVE BatchInSlot
    OBVIOUS
<1>1. launched \in 0 .. numberOfThreads(MaxNumberOfThreads)
    BY NumberOfThreadsBounded DEF Init, Base!Init
<1>2. done \in BOOLEAN /\ joined \in BOOLEAN
    BY DEF Init, Base!Init
<1>3. \A t \in Threads : thread[t].pc = "unborn" /\ call[t].op = "outside"
    BY ThreadsKnown DEF Init, Base!Init, Assignments!Init, Assignments!Outside, Threads
<1>4. thread \in [Threads -> [pc : Base!ThreadState, stage : Stage \cup {NumberOfEntries},
                              hadMessage : BOOLEAN]]
    BY DEF Init, Base!Init, Base!ThreadState, Threads, Stage, Base!NumberOfEntries,
           Base!Flow!NumberOfEntries, NumberOfEntries
<1> QED
    BY <1>1, <1>2, <1>3, <1>4 DEF BatchInSlot

(* The instances agree about the stages. *)
LEMMA StageFacts == Slots!Stage = Stage
                    /\ Base!Stage = Stage /\ Slots!NumberOfEntries = NumberOfEntries
BY DEF Stage, Base!Stage, Base!Flow!Stage, Slots!Stage, Slots!NumberOfEntries, NumberOfEntries

LEMMA SurroundingsBatch ==
    ASSUME BatchInSlot, Surroundings
    PROVE  BatchInSlot'
<1>1. thread' = thread \/ \E t \in Threads : Base!Goto(t, "unborn", "check")
  <2>1. CASE Base!Launch
    <3>1. launched \in Threads
        BY <2>1, NumberOfThreadsBounded
        DEF Base!Launch, BatchInSlot, Threads, Base!Threads
    <3> QED
        BY <2>1, <3>1 DEF Base!Launch
  <2>2. CASE Base!Stop \/ Base!Join
      BY <2>2 DEF Base!Stop, Base!Join
  <2>3. CASE \E p \in Producers : Base!Produce(p)
      BY <2>3 DEF Base!Produce, Base!schedulerVars
  <2> QED
      BY <2>1, <2>2, <2>3 DEF Surroundings, Base!Owner
<1>2. \/ launched' = launched
      \/ launched < numberOfThreads(MaxNumberOfThreads) /\ launched' = launched + 1
    BY DEF Surroundings, Base!Owner, Base!Launch, Base!Stop, Base!Join, Base!Produce,
           Base!schedulerVars
<1>3. launched' \in 0 .. numberOfThreads(MaxNumberOfThreads)
    BY <1>2, NumberOfThreadsBounded DEF BatchInSlot
<1>4. done' \in BOOLEAN /\ joined' \in BOOLEAN
  <2>1. CASE Base!Launch \/ \E p \in Producers : Base!Produce(p)
      BY <2>1 DEF Base!Launch, Base!Produce, Base!schedulerVars, BatchInSlot
  <2>2. CASE Base!Stop
      BY <2>2 DEF Base!Stop, BatchInSlot
  <2>3. CASE Base!Join
      BY <2>3 DEF Base!Join, BatchInSlot
  <2> QED
      BY <2>1, <2>2, <2>3 DEF Surroundings, Base!Owner
<1> QED
    BY <1>1, <1>3, <1>4 DEF Surroundings, assignmentVars, BatchInSlot, Base!Goto, Base!ThreadState

LEMMA ProcessBatch ==
    ASSUME BatchInSlot, NEW t \in Threads, Process(t)
    PROVE  BatchInSlot'
<1>1. threadAssignment' = threadAssignment /\ call' = call
    BY DEF Process, assignmentVars
<1>2. CASE Base!CheckDone(t) \/ Base!BatchEnd(t) \/ Base!Fail(t)
    BY <1>1, <1>2
    DEF Base!CheckDone, Base!BatchEnd, Base!Fail, Base!Goto, BatchInSlot, Base!ThreadState
<1>3. CASE Base!PollMessage(t) \/ Base!PollEmpty(t) \/ Base!Processed(t)
    BY <1>1, <1>3
    DEF Base!PollMessage, Base!PollEmpty, Base!Processed, Base!Polled, Base!Goto,
        BatchInSlot, Base!ThreadState
<1>4. CASE Base!Work(t)
    BY <1>1, <1>4 DEF Base!Work, Base!schedulerVars, BatchInSlot
<1> QED
    BY <1>2, <1>3, <1>4 DEF Process, Base!Process

LEMMA NextStageBatch ==
    ASSUME CallsKnown, BatchInSlot, NEW t \in Threads, NextStage(t)
    PROVE  BatchInSlot'
<1> USE ThreadsKnown DEF CallsKnown, Assignments!Call
<1>1. CASE Vacate(t)
    BY <1>1 DEF Vacate, Assignments!RemoveBegin, baseVars, BatchInSlot
<1>2. CASE Vacated(t)
    BY <1>2 DEF Vacated, Assignments!RemoveEnd, Assignments!Outside, baseVars, BatchInSlot
<1>3. CASE \E s \in Stage : Try(t, s)
    BY <1>3 DEF Try, Assignments!TryRefused, Assignments!TryLoad, Assignments!vars,
                baseVars, BatchInSlot
<1>4. CASE Swap(t)
    BY <1>4 DEF Swap, Assignments!Swap, Assignments!SwapFails, Assignments!Outside,
                baseVars, BatchInSlot
<1>5. CASE Accept(t)
  <2>1. call[t].next \in Stage
      BY <1>5 DEF Accept, Assignments!Assign
  <2>2. /\ thread' = [thread EXCEPT ![t] =
                        [pc |-> "poll", stage |-> call[t].next, hadMessage |-> TRUE]]
        /\ UNCHANGED <<launched, done, joined>>
      BY <1>5 DEF Accept, Base!Visit
  <2>3. /\ call' = [call EXCEPT ![t] = Assignments!Outside]
        /\ threadAssignment' = [threadAssignment EXCEPT ![t] = call[t].next]
      BY <1>5 DEF Accept, Assignments!Assign
  <2> QED
      BY <2>1, <2>2, <2>3 DEF Assignments!Outside, BatchInSlot, Base!ThreadState
<1> QED
    BY <1>1, <1>2, <1>3, <1>4, <1>5 DEF NextStage

LEMMA BatchesInSlots == Spec => []BatchInSlot
<1>1. Slots!IInv /\ BatchInSlot /\ [Next]_vars => BatchInSlot'
    BY SlotsKnown, SurroundingsBatch, ProcessBatch, NextStageBatch DEF Next, vars, BatchInSlot
<1> QED
    BY <1>1, InitBatch, SlotsInPolicy, PTL DEF Spec

LEMMA SlotsBoundBatches ==
    ASSUME Slots!IInv, BatchInSlot
    PROVE  FunctorConcurrency
<1> SUFFICES ASSUME NEW s \in Stage
             PROVE  Cardinality(Processing(s)) <= MaxConcurrency[s]
    BY DEF FunctorConcurrency
<1>1. Processing(s) \subseteq Slots!Visitors(s)
    BY ThreadsKnown
    DEF Processing, BatchInSlot, Slots!Visitors, Slots!visiting
<1>2. IsFiniteSet(Slots!Visitors(s))
  <2>1. Slots!Visitors(s) \subseteq 0 .. MaxNumberOfThreads - 1
      BY DEF Slots!Visitors
  <2>2. IsFiniteSet(0 .. MaxNumberOfThreads - 1)
      BY FS_Interval, AssignmentPolicyAssumption
  <2> QED
      BY <2>1, <2>2, FS_Subset
<1>3. /\ Cardinality(Processing(s)) \in Nat
      /\ Cardinality(Slots!Visitors(s)) \in Nat
      /\ Cardinality(Processing(s)) <= Cardinality(Slots!Visitors(s))
    BY <1>1, <1>2, FS_Subset, FS_CardinalityType
<1>4. Cardinality(Slots!Visitors(s)) <= MaxConcurrency[s]
    BY StageFacts DEF Slots!IInv, Slots!ConcurrencyRespected, Slots!Cardinality, Cardinality
<1> QED
    BY <1>3, <1>4, AssignmentPolicyAssumption

(* No functor ever runs in more threads than the maximum concurrency of    *)
(* its stage, also after threads have died with their slots.               *)
THEOREM Concurrency == Spec => []FunctorConcurrency
BY SlotsBoundBatches, BatchesInSlots, SlotsInPolicy, PTL

-----------------------------------------------------------------------------
(* The scheduler only chooses who processes which stage when: what the     *)
(* threads do to the messages are the steps of StageFlow.                  *)

(* The theorems about StageFlow, for the threads start() launches.         *)
Data == INSTANCE StageFlowProofs WITH Workers <- Threads

LEMMA DataStage ==
    /\ Data!Stage = Stage /\ Base!Flow!Stage = Stage /\ Base!Stage = Stage
    /\ Data!NumberOfEntries = NumberOfEntries /\ Base!Flow!NumberOfEntries = NumberOfEntries
    /\ Base!NumberOfEntries = NumberOfEntries
    /\ Data!Idle = Base!Flow!Idle /\ Data!Null = Base!Flow!Null
    /\ Data!Actor = Base!Flow!Actor
    /\ Data!Content = Base!Flow!Content /\ Data!Dispatch = Base!Flow!Dispatch
    /\ Data!Message = Base!Flow!Message
BY DEF Stage, Base!Stage, Base!Flow!Stage, Data!Stage, NumberOfEntries,
       Base!NumberOfEntries, Base!Flow!NumberOfEntries, Data!NumberOfEntries,
       Data!Idle, Base!Flow!Idle, Data!Null, Base!Flow!Null, Data!Actor, Base!Flow!Actor,
       Threads, Data!Content, Base!Flow!Content, Data!Dispatch, Base!Flow!Dispatch,
       Data!Message, Base!Flow!Message, Data!ToSet, Base!Flow!ToSet

LEMMA DataAssumption == Data!StageFlowAssumption
BY AssignmentPolicyAssumption, DataStage DEF Data!StageFlowAssumption

LEMMA DataInit == Base!Flow!Init => Data!Init
BY DataStage DEF Base!Flow!Init, Data!Init

LEMMA SameTryPop == ASSUME NEW t, NEW s, Base!Flow!TryPop(t, s) PROVE Data!TryPop(t, s)
BY DataStage DEF Base!Flow!TryPop, Data!TryPop

LEMMA SameSend == ASSUME NEW a, Base!Flow!Send(a) PROVE Data!Send(a)
<1>1. Base!Flow!Retain(a) => Data!Retain(a)
    BY DataStage
    DEF Base!Flow!Retain, Data!Retain, Base!Flow!Dispatching, Data!Dispatching,
        Base!Flow!AddRef, Data!AddRef
<1>2. Base!Flow!Copy(a) => Data!Copy(a)
    BY DataStage
    DEF Base!Flow!Copy, Data!Copy, Base!Flow!Dispatching, Data!Dispatching,
        Base!Flow!Allocated, Data!Allocated
<1>3. Base!Flow!Push(a) => Data!Push(a)
    BY DataStage DEF Base!Flow!Push, Data!Push
<1> QED
    BY <1>1, <1>2, <1>3 DEF Base!Flow!Send, Data!Send

LEMMA SameRelease == ASSUME NEW a, Base!Flow!Release(a) PROVE Data!Release(a)
BY DataStage DEF Base!Flow!Release, Data!Release, Base!Flow!DropRef, Data!DropRef, Threads

LEMMA SameThrow == ASSUME NEW a, Base!Flow!Throw(a) PROVE Data!Throw(a)
BY DataStage DEF Base!Flow!Throw, Data!Throw, Base!Flow!DropRef, Data!DropRef

LEMMA SameProduce == ASSUME NEW p, Base!Flow!Produce(p) PROVE Data!Produce(p)
<1>1. Base!Flow!Create(p) => Data!Create(p)
    BY DataStage DEF Base!Flow!Create, Data!Create, Base!Flow!Allocated, Data!Allocated
<1> QED
    BY <1>1, SameSend, SameRelease DEF Base!Flow!Produce, Data!Produce

LEMMA DataNext == [Base!Flow!Next]_Base!Flow!vars => [Data!Next]_Data!vars
BY DataStage, SameTryPop, SameSend, SameRelease, SameThrow, SameProduce
DEF Base!Flow!Next, Data!Next, Base!Flow!vars, Data!vars, Threads

LEMMA FlowQuiet == UNCHANGED Base!flowVars => UNCHANGED Base!Flow!vars
BY DEF Base!flowVars, Base!Flow!vars

LEMMA FlowProcess ==
    ASSUME NEW t \in Threads, Base!Process(t),
           thread[t].pc = "poll" => thread[t].stage \in Stage
    PROVE  [Base!Flow!Next]_Base!Flow!vars
<1>1. CASE Base!CheckDone(t) \/ Base!PollEmpty(t) \/ Base!BatchEnd(t)
    BY <1>1, FlowQuiet DEF Base!CheckDone, Base!PollEmpty, Base!BatchEnd
<1>2. CASE Base!PollMessage(t)
  <2>1. thread[t].stage \in Base!Flow!Stage
      BY <1>2, DataStage DEF Base!PollMessage, Base!Goto
  <2> QED
      BY <1>2, <2>1 DEF Base!PollMessage, Base!Flow!Next, Threads
<1>3. CASE Base!Work(t)
    BY <1>3 DEF Base!Work, Base!Flow!Next, Threads
<1>4. CASE Base!Processed(t)
    BY <1>4 DEF Base!Processed, Base!Flow!Next, Threads
<1>5. CASE Base!Fail(t)
    BY <1>5 DEF Base!Fail, Base!Flow!Next, Threads
<1> QED
    BY <1>1, <1>2, <1>3, <1>4, <1>5 DEF Base!Process

LEMMA FlowSurroundings ==
    ASSUME Surroundings
    PROVE  [Base!Flow!Next]_Base!Flow!vars
<1>1. CASE Base!Owner
    BY <1>1, FlowQuiet DEF Base!Owner, Base!Launch, Base!Stop, Base!Join
<1>2. CASE \E p \in Producers : Base!Produce(p)
    BY <1>2 DEF Base!Produce, Base!Flow!Next
<1> QED
    BY <1>1, <1>2 DEF Surroundings

LEMMA FlowNextStage ==
    ASSUME NEW t \in Threads, NextStage(t)
    PROVE  UNCHANGED Base!Flow!vars
<1>1. UNCHANGED Base!flowVars
    BY DEF NextStage, Vacate, Vacated, Try, Swap, Accept, baseVars, Base!Visit, Base!flowVars
<1> QED
    BY <1>1, FlowQuiet

LEMMA FlowNext ==
    ASSUME BatchInSlot, [Next]_vars
    PROVE  [Base!Flow!Next]_Base!Flow!vars
<1>1. CASE UNCHANGED vars
    BY <1>1 DEF vars, Base!Flow!vars
<1>2. ASSUME NEW t \in Threads, Process(t)
      PROVE  [Base!Flow!Next]_Base!Flow!vars
    BY <1>2, FlowProcess DEF Process, BatchInSlot
<1> QED
    BY <1>1, <1>2, FlowSurroundings, FlowNextStage DEF Next

(* Under every policy the data path of the running system is StageFlow:    *)
(* also when threads stop or die, no step of the scheduler disturbs a      *)
(* message, its count or a queue.                                          *)
THEOREM DataPath == Spec => Base!Flow!Spec
<1>1. Init => Base!Flow!Init
    BY DEF Init, Base!Init
<1> QED
    BY <1>1, FlowNext, BatchesInSlots, PTL DEF Spec, Base!Flow!Spec

(* A step of the data path, whoever takes it. *)
LEMMA DataStep ==
    ASSUME Data!Arriving, [Base!Flow!Next]_Base!Flow!vars
    PROVE  Data!Arriving'
BY DataNext, DataAssumption, Data!NextArriving

(* What a dispatch about to push goes to is a stage. *)
LEMMA DispatchKnown ==
    ASSUME Data!Arriving, NEW a \in Producers \cup Threads, frame[a].carry # Base!Flow!Null
    PROVE  Head(frame[a].todo).to \in Stage
<1>1. a \in Data!Actor /\ frame[a].carry # Data!Null
    BY DataStage DEF Data!Actor
<1>2. frame[a].todo \in Seq(Data!Dispatch) /\ frame[a].todo # <<>>
    BY <1>1, DataAssumption, Data!Busy DEF Data!Arriving, Data!IInv, Data!Frames
<1>3. Head(frame[a].todo) \in Data!Dispatch
    BY <1>2, HeadTailProperties
<1> QED
    BY <1>3, DataStage DEF Data!Dispatch

(* A producer or a processing thread changes a queue by the push of the    *)
(* dispatch it is in, and a processing thread also as it polls a message.  *)
Pushes(a, s) ==
    /\ frame[a].carry # Base!Flow!Null
    /\ s = Head(frame[a].todo).to
    /\ queue'[s] = Append(queue[s], frame[a].carry)

Pops(t, s) ==
    /\ thread[t].pc = "poll" /\ thread[t].stage = s
    /\ thread' = [thread EXCEPT ![t].pc = "work"]
    /\ queue[s] # <<>> /\ queue'[s] = Tail(queue[s])

LEMMA QueuesTyped == Data!Arriving => queue \in [Stage -> Seq(DOMAIN heap)]
BY DataStage DEF Data!Arriving, Data!IInv, Data!Typed, Data!TypeOK, Data!Message

LEMMA SendQueues ==
    ASSUME Data!Arriving, NEW a, Base!Flow!Send(a), NEW s \in Stage
    PROVE  queue'[s] = queue[s] \/ Pushes(a, s)
BY QueuesTyped
DEF Base!Flow!Send, Base!Flow!Retain, Base!Flow!Copy, Base!Flow!Push, Pushes

LEMMA ProduceQueues ==
    ASSUME Data!Arriving, NEW p, Base!Produce(p), NEW s \in Stage
    PROVE  queue'[s] = queue[s] \/ Pushes(p, s)
BY SendQueues
DEF Base!Produce, Base!Flow!Produce, Base!Flow!Create, Base!Flow!Release

LEMMA ProcessQueues ==
    ASSUME Data!Arriving, NEW t, Base!Process(t), NEW s \in Stage
    PROVE  queue'[s] = queue[s] \/ Pushes(t, s) \/ Pops(t, s)
<1>1. CASE Base!CheckDone(t) \/ Base!PollEmpty(t) \/ Base!BatchEnd(t)
    BY <1>1 DEF Base!CheckDone, Base!PollEmpty, Base!BatchEnd, Base!flowVars
<1>2. CASE Base!PollMessage(t)
    BY <1>2, QueuesTyped DEF Base!PollMessage, Base!Goto, Base!Flow!TryPop, Pops
<1>3. CASE Base!Work(t)
    BY <1>3, SendQueues DEF Base!Work
<1>4. CASE Base!Processed(t) \/ Base!Fail(t)
    BY <1>4 DEF Base!Processed, Base!Fail, Base!Flow!Release, Base!Flow!Throw
<1> QED
    BY <1>1, <1>2, <1>3, <1>4 DEF Base!Process

-----------------------------------------------------------------------------
(* All that holds of the slots, the threads and the messages together.     *)
Sound == Slots!IInv /\ BatchInSlot /\ Data!Arriving

LEMMA InitSound == Init => Sound
<1>1. Init => Data!Arriving
    BY DataInit, DataAssumption, Data!InitArriving DEF Init, Base!Init
<1> QED
    BY <1>1, InitSlots, InitBatch DEF Sound

LEMMA NextSound ==
    ASSUME Sound, [Next]_vars
    PROVE  Sound'
<1>1. Slots!IInv'
    BY NextAssignments, SlotsStep DEF Sound
<1>2. BatchInSlot'
    BY SlotsKnown, SurroundingsBatch, ProcessBatch, NextStageBatch
    DEF Next, vars, BatchInSlot, Sound
<1>3. Data!Arriving'
    BY FlowNext, DataStep DEF Sound
<1> QED
    BY <1>1, <1>2, <1>3 DEF Sound

LEMMA AlwaysSound == Spec => []Sound
BY InitSound, NextSound, PTL DEF Spec

LEMMA ArrivingPromises ==
    ASSUME Data!Arriving
    PROVE  Base!Flow!TypeOK /\ Base!Flow!RefCountExact /\ Base!Flow!NothingLost
<1>1. Data!TypeOK /\ Data!RefCountExact /\ Data!NothingLost
    BY DataAssumption, Data!ArrivingAtRest, Data!IInvCounts
    DEF Data!Arriving, Data!IInv, Data!Typed
<1>2. Base!Flow!TypeOK
    BY <1>1, DataStage DEF Data!TypeOK, Base!Flow!TypeOK
<1>3. Base!Flow!RefCountExact
  <2>1. \A S : Data!Cardinality(S) = Base!Flow!Cardinality(S)
      BY DEF Data!Cardinality, Base!Flow!Cardinality
  <2>2. \A m : /\ Data!QueueSlots(m) = Base!Flow!QueueSlots(m)
               /\ Data!Owners(m) = Base!Flow!Owners(m)
               /\ Data!Carriers(m) = Base!Flow!Carriers(m)
      BY DataStage
      DEF Data!QueueSlots, Base!Flow!QueueSlots, Data!Owners, Base!Flow!Owners,
          Data!Carriers, Base!Flow!Carriers
  <2> QED
      BY <1>1, <2>1, <2>2, DataStage DEF Data!RefCountExact, Base!Flow!RefCountExact
<1>4. Base!Flow!NothingLost
    BY <1>1, DataStage
    DEF Data!NothingLost, Base!Flow!NothingLost, Data!AtRest, Base!Flow!AtRest,
        Data!ToSet, Base!Flow!ToSet
<1> QED
    BY <1>2, <1>3, <1>4

(* The types of what the scheduler keeps of its threads. *)
ThreadsTyped ==
    /\ thread \in [Threads -> [pc : Base!ThreadState, stage : Stage \cup {NumberOfEntries},
                               hadMessage : BOOLEAN]]
    /\ launched \in 0 .. numberOfThreads(MaxNumberOfThreads)
    /\ done \in BOOLEAN /\ joined \in BOOLEAN

LEMMA KnownTypes ==
    ASSUME Slots!IInv, ThreadsTyped, Data!Arriving
    PROVE  TypeOK
<1>1. Assignments!TypeOK
    BY DEF Slots!IInv, Slots!TypeOK, Assignments!TypeOK, Slots!Call, Assignments!Call,
           Slots!Stage, Assignments!Stage, Slots!NumberOfEntries, Assignments!NumberOfEntries
<1>2. Base!TypeOK
    BY DataStage, ArrivingPromises DEF ThreadsTyped, Base!TypeOK, Threads
<1> QED
    BY <1>1, <1>2 DEF TypeOK

LEMMA SoundTypes == Sound => TypeOK
BY KnownTypes DEF Sound, BatchInSlot, ThreadsTyped

(* So the counts stay exact, whatever the threads of the scheduler do, and *)
(* no message is lost but by an exception.                                 *)
THEOREM MessagesKept == Spec => [](Base!Flow!RefCountExact /\ Base!Flow!NothingLost)
<1>1. Sound => Base!Flow!RefCountExact /\ Base!Flow!NothingLost
    BY ArrivingPromises DEF Sound
<1> QED
    BY <1>1, AlwaysSound, PTL

(* The types of everything the scheduler keeps, in every thread and stage. *)
THEOREM Types == Spec => []TypeOK
BY SoundTypes, AlwaysSound, PTL

LEMMA OnceInit ==
    ASSUME Base!Flow!DistinctContents, Init
    PROVE  Data!AllOnce
<1>1. Data!Init
    BY DataInit DEF Init, Base!Init
<1>2. Data!DistinctContents
    BY DEF Data!DistinctContents, Base!Flow!DistinctContents
<1> QED
    BY <1>1, <1>2, DataAssumption, Data!OnceInit

LEMMA OnceNext == Sound /\ Data!AllOnce /\ [Next]_vars => Data!AllOnce'
<1> SUFFICES ASSUME Sound, Data!AllOnce, [Next]_vars PROVE Data!AllOnce'
    OBVIOUS
<1>1. [Data!Next]_Data!vars
    BY FlowNext, DataNext DEF Sound
<1>2. Data!IInv
    BY DEF Sound, Data!Arriving
<1> QED
    BY <1>1, <1>2, DataAssumption, Data!OnceNext

LEMMA OncePromise ==
    ASSUME Base!Flow!OneWay, Sound, Data!AllOnce
    PROVE  Base!Flow!AtMostOnce
<1>1. Data!OneWay
    BY DataStage DEF Data!OneWay, Base!Flow!OneWay, Data!Way, Base!Flow!Way
<1>2. Data!AtMostOnce
    BY <1>1, DataAssumption, Data!NoneTwice DEF Sound, Data!Arriving
<1>3. \A S : Data!Cardinality(S) = Base!Flow!Cardinality(S)
    BY DEF Data!Cardinality, Base!Flow!Cardinality
<1>4. \A s, c : Data!Occurrences(s, c) = Base!Flow!Occurrences(s, c)
    BY <1>3 DEF Data!Occurrences, Base!Flow!Occurrences, Threads
<1> QED
    BY <1>2, <1>4, DataStage DEF Data!AtMostOnce, Base!Flow!AtMostOnce

(* Nor does a stage process a message twice, whichever thread a policy     *)
(* sends to it and whenever, if there is one way at most to it.            *)
THEOREM NeverTwice ==
    ASSUME Base!Flow!OneWay, Base!Flow!DistinctContents PROVE Spec => []Base!Flow!AtMostOnce
<1>1. Init => Sound /\ Data!AllOnce
    BY InitSound, OnceInit
<1>2. Sound /\ Data!AllOnce /\ [Next]_vars => Sound' /\ Data!AllOnce'
    BY NextSound, OnceNext
<1>3. Sound /\ Data!AllOnce => Base!Flow!AtMostOnce
    BY OncePromise
<1> QED
    BY <1>1, <1>2, <1>3, PTL DEF Spec

-----------------------------------------------------------------------------
(* Order *)

(* A functor runs only in a thread that is in the batch of its stage.      *)
AtWork ==
    \A t \in Threads : frame[t].at \in Stage =>
        thread[t].pc = "work" /\ thread[t].stage = frame[t].at

LEMMA FramesTyped == Data!Arriving => frame \in [Producers \cup Threads -> Data!Frames]
BY DataStage, DataAssumption DEF Data!Arriving, Data!IInv, Data!Typed, Data!TypeOK, Data!Frames, Data!Actor

LEMMA IdleNowhere == Base!Flow!Idle.at \notin Stage
BY AssignmentPolicyAssumption
DEF Base!Flow!Idle, Base!Flow!NumberOfEntries, Stage, Base!Stage, Base!Flow!Stage

LEMMA SendAt ==
    ASSUME Data!Arriving, NEW a, Base!Flow!Send(a), NEW t \in Threads
    PROVE  frame'[t].at = frame[t].at
<1>1. frame \in [Producers \cup Threads -> Data!Frames]
    BY FramesTyped
<1>2. CASE Base!Flow!Retain(a)
    BY <1>1, <1>2 DEF Base!Flow!Retain, Data!Frames
<1>3. CASE Base!Flow!Copy(a)
    BY <1>1, <1>3 DEF Base!Flow!Copy, Data!Frames
<1>4. CASE Base!Flow!Push(a)
    BY <1>1, <1>4 DEF Base!Flow!Push, Data!Frames
<1> QED
    BY <1>2, <1>3, <1>4 DEF Base!Flow!Send

LEMMA InitAtWork == Init => AtWork
BY IdleNowhere DEF Init, Base!Init, Base!Flow!Init, Base!Flow!Actor, AtWork, Threads

LEMMA SurroundingsAtWork ==
    ASSUME BatchInSlot, Data!Arriving, AtWork, Surroundings
    PROVE  AtWork'
<1>1. CASE Base!Launch
  <2>1. launched \in Threads /\ thread[launched].pc = "unborn"
      BY <1>1, NumberOfThreadsBounded
      DEF Base!Launch, Base!Goto, BatchInSlot, Threads, Base!Threads
  <2>2. frame[launched].at \notin Stage
      BY <2>1 DEF AtWork
  <2>3. /\ frame' = frame
        /\ \A t \in Threads : t # launched => thread'[t] = thread[t]
      BY <1>1 DEF Base!Launch, Base!Goto, Base!flowVars, BatchInSlot
  <2> QED
      BY <2>2, <2>3 DEF AtWork
<1>2. CASE Base!Stop \/ Base!Join
    BY <1>2 DEF Base!Stop, Base!Join, Base!flowVars, AtWork
<1>3. ASSUME NEW p \in Producers, Base!Produce(p) PROVE AtWork'
  <2>1. thread' = thread
      BY <1>3 DEF Base!Produce, Base!schedulerVars
  <2>2. \A t \in Threads : p # t
      BY AssignmentPolicyAssumption
  <2>3. \A t \in Threads : frame'[t].at = frame[t].at
    <3>1. CASE Base!Flow!Send(p)
        BY <3>1, SendAt
    <3>2. CASE Base!Flow!Create(p) \/ Base!Flow!Release(p)
        BY <2>2, <3>2, FramesTyped DEF Base!Flow!Create, Base!Flow!Release
    <3> QED
        BY <1>3, <3>1, <3>2 DEF Base!Produce, Base!Flow!Produce
  <2> QED
      BY <2>1, <2>3 DEF AtWork
<1> QED
    BY <1>1, <1>2, <1>3 DEF Surroundings, Base!Owner

LEMMA ProcessAtWork ==
    ASSUME BatchInSlot, Data!Arriving, AtWork, NEW t \in Threads, Base!Process(t)
    PROVE  AtWork'
<1>1. thread \in [Threads -> [pc : Base!ThreadState, stage : Stage \cup {NumberOfEntries},
                              hadMessage : BOOLEAN]]
    BY DEF BatchInSlot
<1>2. CASE Base!CheckDone(t) \/ Base!PollEmpty(t) \/ Base!BatchEnd(t)
  <2>1. thread[t].pc # "work" /\ \A u \in Threads : u # t => thread'[u] = thread[u]
      BY <1>1, <1>2 DEF Base!CheckDone, Base!PollEmpty, Base!BatchEnd, Base!Goto, Base!Polled
  <2>2. frame' = frame
      BY <1>2 DEF Base!CheckDone, Base!PollEmpty, Base!BatchEnd, Base!flowVars
  <2>3. frame[t].at \notin Stage
      BY <2>1 DEF AtWork
  <2> QED
      BY <2>1, <2>2, <2>3 DEF AtWork
<1>3. CASE Base!PollMessage(t)
  <2>1. /\ thread'[t].pc = "work" /\ thread'[t].stage = thread[t].stage
        /\ \A u \in Threads : u # t => thread'[u] = thread[u]
      BY <1>1, <1>3 DEF Base!PollMessage, Base!Goto
  <2>2. /\ frame'[t].at = thread[t].stage
        /\ \A u \in Threads : u # t => frame'[u] = frame[u]
      BY <1>3, FramesTyped DEF Base!PollMessage, Base!Flow!TryPop
  <2> QED
      BY <2>1, <2>2 DEF AtWork
<1>4. CASE Base!Work(t)
  <2>1. thread' = thread
      BY <1>4 DEF Base!Work, Base!schedulerVars
  <2>2. \A u \in Threads : frame'[u].at = frame[u].at
      BY <1>4, SendAt DEF Base!Work
  <2> QED
      BY <2>1, <2>2 DEF AtWork
<1>5. CASE Base!Processed(t) \/ Base!Fail(t)
  <2>1. \A u \in Threads : u # t => thread'[u] = thread[u]
      BY <1>1, <1>5 DEF Base!Processed, Base!Fail, Base!Goto, Base!Polled
  <2>2. /\ frame'[t].at \notin Stage
        /\ \A u \in Threads : u # t => frame'[u] = frame[u]
      BY <1>5, FramesTyped, IdleNowhere
      DEF Base!Processed, Base!Fail, Base!Flow!Release, Base!Flow!Throw
  <2> QED
      BY <2>1, <2>2 DEF AtWork
<1> QED
    BY <1>2, <1>3, <1>4, <1>5 DEF Base!Process

LEMMA NextStageAtWork ==
    ASSUME BatchInSlot, AtWork, NEW t \in Threads, NextStage(t)
    PROVE  AtWork'
<1>1. UNCHANGED frame
    BY DEF NextStage, Vacate, Vacated, Try, Swap, Accept, baseVars, Base!Visit, Base!flowVars
<1>2. thread' = thread \/ Base!Visit(t, call[t].next)
    BY DEF NextStage, Vacate, Vacated, Try, Swap, Accept, baseVars
<1>3. CASE Base!Visit(t, call[t].next)
  <2>1. thread[t].pc # "work" /\ \A u \in Threads : u # t => thread'[u] = thread[u]
      BY <1>3 DEF Base!Visit, BatchInSlot
  <2>2. frame[t].at \notin Stage
      BY <2>1 DEF AtWork
  <2> QED
      BY <1>1, <2>1, <2>2 DEF AtWork
<1> QED
    BY <1>1, <1>2, <1>3 DEF AtWork

LEMMA NextAtWork == Sound /\ AtWork /\ [Next]_vars => AtWork'
<1> SUFFICES ASSUME Sound, AtWork, [Next]_vars PROVE AtWork'
    OBVIOUS
<1>1. CASE UNCHANGED vars
    BY <1>1 DEF vars, AtWork
<1>2. BatchInSlot /\ Data!Arriving
    BY DEF Sound
<1> QED
    BY <1>1, <1>2, SurroundingsAtWork, ProcessAtWork, NextStageAtWork DEF Next, Process

LEMMA TwoOfThem == ASSUME NEW v, NEW w, v # w PROVE Cardinality({v, w}) = 2
<1>1. IsFiniteSet({v}) /\ Cardinality({v}) = 1
    BY FS_Singleton
<1>2. {v, w} = {v} \cup {w} /\ w \notin {v}
    OBVIOUS
<1> DEFINE S == {v}
<1> HIDE DEF S
<1>3. IsFiniteSet(S) /\ Cardinality(S) = 1 /\ w \notin S
    BY <1>1, <1>2 DEF S
<1>4. Cardinality(S \cup {w}) = 2
    BY <1>3, FS_AddElement
<1> QED
    BY <1>2, <1>4 DEF S

(* So one slot for each stage keeps functors of one stage apart.           *)
LEMMA OneSlotOneVisitor == OneSlotChain /\ Sound /\ AtWork => Data!OneVisitor
<1> SUFFICES ASSUME OneSlotChain, Sound, AtWork, NEW v \in Threads, NEW w \in Threads,
                    frame[v].at \in Stage, frame[v].at = frame[w].at
             PROVE  v = w
    BY DataStage DEF Data!OneVisitor
<1> DEFINE s == frame[v].at
<1>1. /\ Cardinality(Processing(s)) <= MaxConcurrency[s]
      /\ MaxConcurrency[s] <= 1 /\ MaxConcurrency[s] \in Nat
  <2>1. FunctorConcurrency
      BY SlotsBoundBatches DEF Sound
  <2> QED
      BY <2>1, AssignmentPolicyAssumption DEF FunctorConcurrency, OneSlotChain
<1>2. {v, w} \subseteq Processing(s)
    BY DEF AtWork, Processing
<1>3. IsFiniteSet(Processing(s))
  <2>1. Processing(s) \subseteq 0 .. MaxNumberOfThreads - 1
      BY ThreadsKnown DEF Processing
  <2>2. IsFiniteSet(0 .. MaxNumberOfThreads - 1)
      BY FS_Interval, AssignmentPolicyAssumption
  <2> QED
      BY <2>1, <2>2, FS_Subset
<1>4. Cardinality({v, w}) <= Cardinality(Processing(s)) /\ Cardinality({v, w}) \in Nat
    BY <1>2, <1>3, FS_Subset, FS_CardinalityType
<1>5. v # w => Cardinality({v, w}) = 2
    BY TwoOfThem
<1>6. Cardinality(Processing(s)) \in Nat
    BY <1>3, FS_CardinalityType
<1> QED
    BY <1>1, <1>4, <1>5, <1>6

(* The Pipeline of the scheduler's data path, and that of the theorems     *)
(* about it, are the same.                                                 *)
LEMMA SameHandled ==
    /\ \A s : Data!Handled(s) = Base!Flow!Handled(s)
    /\ \A s : Data!Handled(s)' = Base!Flow!Handled(s)'
<1>1. \A S : Data!Cardinality(S) = Base!Flow!Cardinality(S)
    BY DEF Data!Cardinality, Base!Flow!Cardinality
<1>2. \A f : Data!IsInjective(f) <=> Base!Flow!IsInjective(f)
    BY DEF Data!IsInjective, Base!Flow!IsInjective
<1>3. \A S : Data!SetToSeq(S) = Base!Flow!SetToSeq(S)
    BY <1>1, <1>2 DEF Data!SetToSeq, Base!Flow!SetToSeq
<1> QED
    BY <1>3 DEF Data!Handled, Base!Flow!Handled, Data!Unfinished, Base!Flow!Unfinished, Threads

LEMMA SameMapped ==
    /\ Data!inbox = Base!Flow!inbox /\ (Data!inbox)' = (Base!Flow!inbox)'
    /\ Data!pending = Base!Flow!pending /\ (Data!pending)' = (Base!Flow!pending)'
    /\ Data!delivered = Base!Flow!delivered /\ (Data!delivered)' = (Base!Flow!delivered)'
<1>1. Data!inbox = Base!Flow!inbox /\ (Data!inbox)' = (Base!Flow!inbox)'
    BY SameHandled, DataStage
    DEF Data!inbox, Base!Flow!inbox, Data!Contents, Base!Flow!Contents
<1>2. Data!pending = Base!Flow!pending /\ (Data!pending)' = (Base!Flow!pending)'
    BY DEF Data!pending, Base!Flow!pending
<1>3. Data!delivered = Base!Flow!delivered /\ (Data!delivered)' = (Base!Flow!delivered)'
    BY DEF Data!delivered, Base!Flow!delivered
<1> QED
    BY <1>1, <1>2, <1>3

LEMMA SameFifoInit == Data!Fifo!Init => Base!Flow!Fifo!Init
BY SameMapped
DEF Data!Fifo!Init, Base!Flow!Fifo!Init, Data!Fifo!Stage, Base!Flow!Fifo!Stage

LEMMA SameFifoNext == [Data!Fifo!Next]_Data!Fifo!vars => [Base!Flow!Fifo!Next]_Base!Flow!Fifo!vars
<1>1. Data!Fifo!Stage = Base!Flow!Fifo!Stage /\ Data!Fifo!LastStage = Base!Flow!Fifo!LastStage
    BY DEF Data!Fifo!Stage, Base!Flow!Fifo!Stage, Data!Fifo!LastStage, Base!Flow!Fifo!LastStage
<1>2. \A p : Data!Fifo!Inject(p) => Base!Flow!Fifo!Inject(p)
    BY SameMapped DEF Data!Fifo!Inject, Base!Flow!Fifo!Inject
<1>3. \A s : Data!Fifo!Move(s) => Base!Flow!Fifo!Move(s)
    BY <1>1, SameMapped DEF Data!Fifo!Move, Base!Flow!Fifo!Move
<1>4. \A s : Data!Fifo!Lose(s) => Base!Flow!Fifo!Lose(s)
    BY SameMapped DEF Data!Fifo!Lose, Base!Flow!Fifo!Lose
<1>5. Data!Fifo!Deliver => Base!Flow!Fifo!Deliver
    BY <1>1, SameMapped DEF Data!Fifo!Deliver, Base!Flow!Fifo!Deliver
<1>6. UNCHANGED Data!Fifo!vars => UNCHANGED Base!Flow!Fifo!vars
    BY SameMapped DEF Data!Fifo!vars, Base!Flow!Fifo!vars
<1> QED
    BY <1>1, <1>2, <1>3, <1>4, <1>5, <1>6 DEF Data!Fifo!Next, Base!Flow!Fifo!Next

LEMMA OrderInit == Init => Data!OnRoute /\ Base!Flow!Fifo!Init
BY DataInit, DataAssumption, Data!OnRouteInit, Data!FifoInit, SameFifoInit DEF Init, Base!Init

LEMMA OrderRoute == OneSlotChain /\ Sound /\ Data!OnRoute /\ [Next]_vars => Data!OnRoute'
<1> SUFFICES ASSUME OneSlotChain, Sound, Data!OnRoute, [Next]_vars PROVE Data!OnRoute'
    OBVIOUS
<1>1. Data!InAChain
    BY DataStage DEF OneSlotChain, Data!InAChain, Base!Flow!InAChain
<1>2. [Data!Next]_Data!vars /\ Data!Typed
    BY FlowNext, DataNext DEF Sound, Data!Arriving, Data!IInv
<1> QED
    BY <1>1, <1>2, DataAssumption, Data!OnRouteNext

LEMMA OrderInbox == Sound /\ Data!OneVisitor => Data!InboxKnown
BY DataAssumption, Data!InboxIs DEF Sound, Data!Arriving, Data!IInv

LEMMA OrderNext ==
    /\ OneSlotChain /\ Sound /\ Data!OnRoute /\ Data!OneVisitor /\ (Data!OneVisitor)'
    /\ Data!InboxKnown /\ (Data!InboxKnown)' /\ [Next]_vars
    => [Base!Flow!Fifo!Next]_Base!Flow!Fifo!vars
<1> SUFFICES ASSUME OneSlotChain, Sound, Data!OnRoute, Data!OneVisitor, (Data!OneVisitor)',
                    Data!InboxKnown, (Data!InboxKnown)', [Next]_vars
             PROVE  [Base!Flow!Fifo!Next]_Base!Flow!Fifo!vars
    OBVIOUS
<1>1. Data!InAChain
    BY DataStage DEF OneSlotChain, Data!InAChain, Base!Flow!InAChain
<1>2. [Data!Next]_Data!vars /\ Data!IInv
    BY FlowNext, DataNext DEF Sound, Data!Arriving
<1>3. [Data!Fifo!Next]_Data!Fifo!vars
    BY <1>1, <1>2, DataAssumption, Data!FifoNext
<1> QED
    BY <1>3, SameFifoNext

(* Under every policy, where no stage has more than one slot, messages     *)
(* reach each stage of a chain in the order they were sent: the slots keep *)
(* the functors of a stage apart, although any thread may come to run them *)
(* and a thread that dies in one never gives its slot back.                *)
THEOREM InOrder == ASSUME OneSlotChain PROVE Spec => ImplementsPipeline
<1>1. Init => Sound /\ AtWork /\ Data!OnRoute /\ Base!Flow!Fifo!Init
    BY InitSound, InitAtWork, OrderInit
<1>2. OneSlotChain /\ Sound /\ AtWork /\ Data!OnRoute /\ [Next]_vars
      => Sound' /\ AtWork' /\ Data!OnRoute'
    BY NextSound, NextAtWork, OrderRoute
<1>3. OneSlotChain /\ Sound /\ AtWork => Data!OneVisitor /\ Data!InboxKnown
    BY OneSlotOneVisitor, OrderInbox
<1>4. OneSlotChain
    OBVIOUS
<1> QED
    BY <1>1, <1>2, <1>3, <1>4, OrderNext, PTL
    DEF Spec, ImplementsPipeline, Base!Flow!ImplementsPipeline, Base!Flow!Fifo!Spec
=============================================================================
