-------------------------- MODULE ColorMinusProofs --------------------------
(***************************************************************************)
(* ColorMinus, for any stages, slots, threads, routes and messages, with or*)
(* without exceptions: it keeps the slots and the messages as every policy *)
(* does, and never takes a waiting message as seen, but for the reasons    *)
(* that misjudged and Abandoned name.                                      *)
(***************************************************************************)
EXTENDS ColorMinus, TLAPS

(* What is proved of all policies.  ColorMinus is not one of them as it    *)
(* stands, since it takes another step between tryAssign and the return of *)
(* nextStage, but all of its steps keep their inductive invariant.         *)
Proved == INSTANCE AssignmentPolicyProofs

-----------------------------------------------------------------------------
(* The operators of the two instances are the same.                        *)
LEMMA SameSteps ==
    /\ Policy!Init <=> Proved!Init
    /\ Policy!Surroundings <=> Proved!Surroundings
    /\ \A t : /\ Policy!Process(t) <=> Proved!Process(t)
              /\ Policy!Vacate(t) <=> Proved!Vacate(t)
              /\ Policy!Vacated(t) <=> Proved!Vacated(t)
              /\ \A s : Policy!Try(t, s) <=> Proved!Try(t, s)
              /\ Policy!Swap(t) <=> Proved!Swap(t)
              /\ Policy!Assignments!Assign(t) <=> Proved!Assignments!Assign(t)
              /\ \A s : Policy!Base!Visit(t, s) <=> Proved!Base!Visit(t, s)
<1>1. Policy!Init <=> Proved!Init
    BY DEF Policy!Init, Proved!Init, Policy!Base!Init, Proved!Base!Init,
           Policy!Assignments!Init, Proved!Assignments!Init, Policy!Assignments!Outside,
           Proved!Assignments!Outside, Policy!Base!Flow!Init, Proved!Base!Flow!Init,
           Policy!Base!Threads, Proved!Base!Threads, Policy!Base!NumberOfEntries,
           Proved!Base!NumberOfEntries, Policy!Assignments!NumberOfEntries,
           Proved!Assignments!NumberOfEntries, Policy!Assignments!Stage,
           Proved!Assignments!Stage, Policy!Base!Flow!Stage, Proved!Base!Flow!Stage,
           Policy!Base!Flow!Actor, Proved!Base!Flow!Actor, Policy!Base!Flow!Idle,
           Proved!Base!Flow!Idle, Policy!Base!Flow!NumberOfEntries,
           Proved!Base!Flow!NumberOfEntries, Policy!Base!Flow!Null,
           Proved!Base!Flow!Null, Policy!numberOfThreads, Proved!numberOfThreads,
           Policy!Min, Proved!Min, Policy!Max, Proved!Max
<1>2. Policy!Surroundings <=> Proved!Surroundings
    BY DEF Policy!Surroundings, Proved!Surroundings, Policy!Base!Owner,
           Proved!Base!Owner, Policy!Base!Produce, Proved!Base!Produce,
           Policy!assignmentVars, Proved!assignmentVars, Policy!Base!flowVars,
           Proved!Base!flowVars, Policy!Base!Threads, Proved!Base!Threads,
           Policy!Base!Launch, Proved!Base!Launch, Policy!Base!Stop, Proved!Base!Stop,
           Policy!Base!Join, Proved!Base!Join, Policy!Base!Flow!Produce,
           Proved!Base!Flow!Produce, Policy!Base!schedulerVars,
           Proved!Base!schedulerVars, Policy!Base!Flow!Idle, Proved!Base!Flow!Idle,
           Policy!Base!Flow!NumberOfEntries, Proved!Base!Flow!NumberOfEntries,
           Policy!Base!Goto, Proved!Base!Goto, Policy!Base!Flow!Create,
           Proved!Base!Flow!Create, Policy!Base!Flow!Send, Proved!Base!Flow!Send,
           Policy!Base!Flow!Release, Proved!Base!Flow!Release, Policy!Base!Flow!Null,
           Proved!Base!Flow!Null, Policy!Base!Flow!Allocated,
           Proved!Base!Flow!Allocated, Policy!Base!Flow!Retain, Proved!Base!Flow!Retain,
           Policy!Base!Flow!Copy, Proved!Base!Flow!Copy, Policy!Base!Flow!Push,
           Proved!Base!Flow!Push, Policy!Base!Flow!DropRef, Proved!Base!Flow!DropRef,
           Policy!Base!Flow!Dispatching, Proved!Base!Flow!Dispatching,
           Policy!Base!Flow!AddRef, Proved!Base!Flow!AddRef, Policy!numberOfThreads,
           Proved!numberOfThreads, Policy!Min, Proved!Min, Policy!Max, Proved!Max
<1>3. ASSUME NEW t PROVE Policy!Process(t) <=> Proved!Process(t)
  <2>1. /\ Policy!Base!CheckDone(t) <=> Proved!Base!CheckDone(t)
        /\ Policy!Base!PollMessage(t) <=> Proved!Base!PollMessage(t)
        /\ Policy!Base!PollEmpty(t) <=> Proved!Base!PollEmpty(t)
        /\ Policy!Base!BatchEnd(t) <=> Proved!Base!BatchEnd(t)
      BY DEF Policy!Base!flowVars, Proved!Base!flowVars, Policy!Base!CheckDone,
             Proved!Base!CheckDone, Policy!Base!PollMessage, Proved!Base!PollMessage,
             Policy!Base!PollEmpty, Proved!Base!PollEmpty, Policy!Base!BatchEnd,
             Proved!Base!BatchEnd, Policy!Base!Flow!Idle, Proved!Base!Flow!Idle,
             Policy!Base!Flow!NumberOfEntries, Proved!Base!Flow!NumberOfEntries,
             Policy!Base!Goto, Proved!Base!Goto, Policy!Base!Flow!TryPop,
             Proved!Base!Flow!TryPop, Policy!Base!Polled, Proved!Base!Polled,
             Policy!Base!Flow!Null, Proved!Base!Flow!Null
  <2>2. /\ Policy!Base!Work(t) <=> Proved!Base!Work(t)
        /\ Policy!Base!Processed(t) <=> Proved!Base!Processed(t)
        /\ Policy!Base!Fail(t) <=> Proved!Base!Fail(t)
      BY DEF Policy!Base!Threads, Proved!Base!Threads, Policy!Base!schedulerVars,
             Proved!Base!schedulerVars, Policy!Base!Work, Proved!Base!Work,
             Policy!Base!Processed, Proved!Base!Processed, Policy!Base!Fail,
             Proved!Base!Fail, Policy!Base!Flow!Idle, Proved!Base!Flow!Idle,
             Policy!Base!Flow!NumberOfEntries, Proved!Base!Flow!NumberOfEntries,
             Policy!Base!Goto, Proved!Base!Goto, Policy!Base!Flow!Send,
             Proved!Base!Flow!Send, Policy!Base!Flow!Release, Proved!Base!Flow!Release,
             Policy!Base!Polled, Proved!Base!Polled, Policy!Base!Flow!Throw,
             Proved!Base!Flow!Throw, Policy!Base!Flow!Null, Proved!Base!Flow!Null,
             Policy!Base!Flow!Allocated, Proved!Base!Flow!Allocated,
             Policy!Base!Flow!Retain, Proved!Base!Flow!Retain, Policy!Base!Flow!Copy,
             Proved!Base!Flow!Copy, Policy!Base!Flow!Push, Proved!Base!Flow!Push,
             Policy!Base!Flow!DropRef, Proved!Base!Flow!DropRef,
             Policy!Base!Flow!Dispatching, Proved!Base!Flow!Dispatching,
             Policy!Base!Flow!AddRef, Proved!Base!Flow!AddRef, Policy!numberOfThreads,
             Proved!numberOfThreads, Policy!Min, Proved!Min, Policy!Max, Proved!Max
  <2> QED
      BY <2>1, <2>2
      DEF Policy!Process, Proved!Process, Policy!Base!Process, Proved!Base!Process,
          Policy!assignmentVars, Proved!assignmentVars
<1>4. ASSUME NEW t PROVE /\ Policy!Vacate(t) <=> Proved!Vacate(t)
                         /\ Policy!Vacated(t) <=> Proved!Vacated(t)
    BY DEF Policy!Vacate, Proved!Vacate, Policy!Vacated, Proved!Vacated,
           Policy!Assignments!RemoveBegin, Proved!Assignments!RemoveBegin,
           Policy!baseVars, Proved!baseVars, Policy!Assignments!RemoveEnd,
           Proved!Assignments!RemoveEnd, Policy!Assignments!Assigned,
           Proved!Assignments!Assigned, Policy!Assignments!Outside,
           Proved!Assignments!Outside, Policy!Assignments!NumberOfEntries,
           Proved!Assignments!NumberOfEntries
<1>5. ASSUME NEW t PROVE /\ \A s : Policy!Try(t, s) <=> Proved!Try(t, s)
                         /\ Policy!Swap(t) <=> Proved!Swap(t)
    BY DEF Policy!Try, Proved!Try, Policy!Swap, Proved!Swap, Policy!baseVars,
           Proved!baseVars, Policy!Assignments!Assigned, Proved!Assignments!Assigned,
           Policy!Assignments!TryRefused, Proved!Assignments!TryRefused,
           Policy!Assignments!TryLoad, Proved!Assignments!TryLoad,
           Policy!Assignments!Swap, Proved!Assignments!Swap,
           Policy!Assignments!SwapFails, Proved!Assignments!SwapFails,
           Policy!Assignments!Outside, Proved!Assignments!Outside,
           Policy!Assignments!NumberOfEntries, Proved!Assignments!NumberOfEntries,
           Policy!Assignments!HasRoom, Proved!Assignments!HasRoom,
           Policy!Assignments!vars, Proved!Assignments!vars,
           Policy!Assignments!Unchanged, Proved!Assignments!Unchanged
<1>6. ASSUME NEW t PROVE /\ Policy!Assignments!Assign(t) <=> Proved!Assignments!Assign(t)
                         /\ \A s : Policy!Base!Visit(t, s) <=> Proved!Base!Visit(t, s)
    BY DEF Policy!Assignments!Assign, Proved!Assignments!Assign, Policy!Base!Visit,
           Proved!Base!Visit, Policy!Assignments!Outside, Proved!Assignments!Outside,
           Policy!Base!flowVars, Proved!Base!flowVars,
           Policy!Assignments!NumberOfEntries, Proved!Assignments!NumberOfEntries
<1> QED
    BY <1>1, <1>2, <1>3, <1>4, <1>5, <1>6

LEMMA SameProduce == \A p : Policy!Base!Produce(p) <=> Proved!Base!Produce(p)
BY
DEF Policy!Base!Produce, Proved!Base!Produce,
    Policy!Base!Flow!Produce, Proved!Base!Flow!Produce,
    Policy!Base!schedulerVars, Proved!Base!schedulerVars,
    Policy!Base!Flow!Create, Proved!Base!Flow!Create,
    Policy!Base!Flow!Send, Proved!Base!Flow!Send,
    Policy!Base!Flow!Release, Proved!Base!Flow!Release,
    Policy!Base!Flow!Idle, Proved!Base!Flow!Idle,
    Policy!Base!Flow!Allocated, Proved!Base!Flow!Allocated,
    Policy!Base!Flow!Retain, Proved!Base!Flow!Retain,
    Policy!Base!Flow!Copy, Proved!Base!Flow!Copy,
    Policy!Base!Flow!Push, Proved!Base!Flow!Push,
    Policy!Base!Threads, Proved!Base!Threads,
    Policy!Base!Flow!Null, Proved!Base!Flow!Null,
    Policy!Base!Flow!DropRef, Proved!Base!Flow!DropRef,
    Policy!Base!Flow!NumberOfEntries, Proved!Base!Flow!NumberOfEntries,
    Policy!Base!Flow!Dispatching, Proved!Base!Flow!Dispatching,
    Policy!Base!Flow!AddRef, Proved!Base!Flow!AddRef,
    Policy!numberOfThreads, Proved!numberOfThreads, Policy!Min, Proved!Min,
    Policy!Max, Proved!Max

LEMMA SameTypes == Policy!TypeOK <=> Proved!TypeOK
BY
DEF Policy!TypeOK, Proved!TypeOK, Policy!Base!TypeOK, Proved!Base!TypeOK,
    Policy!Assignments!TypeOK, Proved!Assignments!TypeOK,
    Policy!numberOfThreads, Proved!numberOfThreads,
    Policy!Base!Flow!TypeOK, Proved!Base!Flow!TypeOK,
    Policy!Base!Threads, Proved!Base!Threads,
    Policy!Base!ThreadState, Proved!Base!ThreadState,
    Policy!Base!Stage, Proved!Base!Stage,
    Policy!Base!NumberOfEntries, Proved!Base!NumberOfEntries,
    Policy!Assignments!Stage, Proved!Assignments!Stage,
    Policy!Assignments!NumberOfEntries, Proved!Assignments!NumberOfEntries,
    Policy!Assignments!Call, Proved!Assignments!Call,
    Policy!Base!Flow!Stage, Proved!Base!Flow!Stage,
    Policy!Base!Flow!Message, Proved!Base!Flow!Message,
    Policy!Base!Flow!Content, Proved!Base!Flow!Content,
    Policy!Base!Flow!ToSet, Proved!Base!Flow!ToSet,
    Policy!Base!Flow!Actor, Proved!Base!Flow!Actor,
    Policy!Base!Flow!Null, Proved!Base!Flow!Null,
    Policy!Base!Flow!Dispatch, Proved!Base!Flow!Dispatch,
    Policy!Base!Flow!NumberOfEntries, Proved!Base!Flow!NumberOfEntries,
    Policy!Min, Proved!Min, Policy!Max, Proved!Max

LEMMA SameBounds == Policy!FunctorConcurrency <=> Proved!FunctorConcurrency
BY
DEF Policy!FunctorConcurrency, Proved!FunctorConcurrency,
    Policy!Cardinality, Proved!Cardinality, Policy!Stage, Proved!Stage,
    Policy!Processing, Proved!Processing,
    Policy!Base!Stage, Proved!Base!Stage, Policy!Threads, Proved!Threads,
    Policy!Base!Flow!Stage, Proved!Base!Flow!Stage,
    Policy!Base!Threads, Proved!Base!Threads,
    Policy!numberOfThreads, Proved!numberOfThreads, Policy!Min, Proved!Min,
    Policy!Max, Proved!Max

LEMMA SameMessages ==
    /\ Policy!Base!Flow!RefCountExact <=> Proved!Base!Flow!RefCountExact
    /\ Policy!Base!Flow!NothingLost <=> Proved!Base!Flow!NothingLost
BY
DEF Policy!Base!Flow!RefCountExact, Proved!Base!Flow!RefCountExact,
    Policy!Base!Flow!Cardinality, Proved!Base!Flow!Cardinality,
    Policy!Base!Flow!NothingLost, Proved!Base!Flow!NothingLost,
    Policy!Base!Flow!ToSet, Proved!Base!Flow!ToSet,
    Policy!Base!Flow!Message, Proved!Base!Flow!Message,
    Policy!Base!Flow!QueueSlots, Proved!Base!Flow!QueueSlots,
    Policy!Base!Flow!Owners, Proved!Base!Flow!Owners,
    Policy!Base!Flow!Carriers, Proved!Base!Flow!Carriers,
    Policy!Base!Flow!AtRest, Proved!Base!Flow!AtRest,
    Policy!Base!Flow!Stage, Proved!Base!Flow!Stage,
    Policy!Base!Flow!Actor, Proved!Base!Flow!Actor,
    Policy!Base!Flow!Idle, Proved!Base!Flow!Idle,
    Policy!Base!Threads, Proved!Base!Threads,
    Policy!Base!Flow!Null, Proved!Base!Flow!Null,
    Policy!Base!Flow!NumberOfEntries, Proved!Base!Flow!NumberOfEntries,
    Policy!numberOfThreads, Proved!numberOfThreads, Policy!Min, Proved!Min,
    Policy!Max, Proved!Max

LEMMA SameThreads ==
    /\ Threads = Proved!Threads
    /\ Stage = Proved!Stage
    /\ NumberOfEntries = Proved!NumberOfEntries
BY
DEF Threads, Stage, NumberOfEntries,
    Policy!Threads, Proved!Threads, Policy!Stage, Proved!Stage,
    Policy!NumberOfEntries, Proved!NumberOfEntries,
    Policy!Base!Threads, Proved!Base!Threads,
    Policy!Base!Stage, Proved!Base!Stage,
    Policy!Base!Flow!Stage, Proved!Base!Flow!Stage,
    Policy!numberOfThreads, Proved!numberOfThreads, Policy!Min, Proved!Min,
    Policy!Max, Proved!Max

LEMMA ProvedAssumption == Proved!AssignmentPolicyAssumption
BY ColorMinusAssumption
DEF Policy!AssignmentPolicyAssumption, Proved!AssignmentPolicyAssumption,
    Policy!Base!Flow!Content, Proved!Base!Flow!Content,
    Policy!Base!Flow!ToSet, Proved!Base!Flow!ToSet,
    Policy!Base!Flow!Dispatch, Proved!Base!Flow!Dispatch,
    Policy!Stage, Proved!Stage, Policy!Threads, Proved!Threads,
    Policy!Base!Flow!Stage, Proved!Base!Flow!Stage,
    Policy!Base!Stage, Proved!Base!Stage,
    Policy!Base!Threads, Proved!Base!Threads,
    Policy!numberOfThreads, Proved!numberOfThreads, Policy!Min, Proved!Min,
    Policy!Max, Proved!Max
-----------------------------------------------------------------------------
(* The search                                                              *)

(* Where thread t is in nextStage.  A thread that has tried a stage has it *)
(* or was refused, which has misjudged the stage.                          *)
InSearch(t) ==
    /\ thread[t].pc \in {"poll", "work"} => thread[t].hadMessage
    /\ call[t].op \in {"loaded", "swapped"} =>
          search[t].at = "try" /\ call[t].next = search[t].stage
    /\ search[t].at \in {"observe", "observed"} =>
          /\ call[t].op = "outside"
          /\ \/ threadAssignment[t] = search[t].stage
             \/ (threadAssignment[t] = NumberOfEntries /\ search[t].stage \in misjudged)

(* What is taken as seen has been counted.                                 *)
Observed(s) ==
    /\ previous[s] <= current[s]
    /\ \A t \in Threads :
          search[t].at = "observed" /\ search[t].stage = s => search[t].value <= current[s]

Searches ==
    /\ \A t \in Threads : InSearch(t)
    /\ \A s \in Stage \ misjudged : Observed(s)

Counters ==
    /\ previous \in [Stage -> Nat]
    /\ current \in [Stage -> Nat]
    /\ tally \in [Actor -> [stage : Stage \cup {NumberOfEntries}, value : Nat \cup {Unread}]]
    /\ \A a \in Actor : tally[a].value # Unread => tally[a].stage \in Stage
    /\ search \in [Threads -> [at : {"previous", "current", "try", "observe", "observed"},
                               i : Stage, previousValue : Nat, stage : Stage, mark : Nat,
                               value : Nat]]
    /\ misjudged \subseteq Stage

IInv == Proved!Sound /\ Counters /\ Searches /\ NeverForgotten

(* What the policies in general know of their threads.                     *)
Placement ==
    /\ thread \in [Threads -> [pc : Proved!Base!ThreadState, stage : Stage \cup {NumberOfEntries},
                               hadMessage : BOOLEAN]]
    /\ DOMAIN threadAssignment = 0 .. MaxNumberOfThreads - 1
    /\ DOMAIN call = 0 .. MaxNumberOfThreads - 1
    /\ Threads \subseteq 0 .. MaxNumberOfThreads - 1
    /\ \A t \in Threads :
          /\ threadAssignment[t] \in Stage \cup {NumberOfEntries}
          /\ call[t] \in [op : {"outside", "removing", "loaded", "swapped"},
                          next : Stage \cup {NumberOfEntries}, currentVisitors : Nat]
          /\ thread[t].pc \in {"poll", "work"} =>
                thread[t].stage \in Stage /\ threadAssignment[t] = thread[t].stage
          /\ call[t].op # "outside" => thread[t].pc = "next"
          /\ call[t].op \in {"loaded", "swapped"} =>
                threadAssignment[t] = NumberOfEntries /\ call[t].next \in Stage

LEMMA NoStage == NumberOfEntries \notin Stage /\ 0 \in Stage /\ NumberOfStages - 1 \in Stage
BY ProvedAssumption, SameThreads
DEF Proved!AssignmentPolicyAssumption, Stage, Policy!Stage, Policy!Base!Stage,
    Policy!Base!Flow!Stage, NumberOfEntries

LEMMA SoundPlacement == Proved!Sound => Placement
<1> SUFFICES ASSUME Proved!Sound PROVE Placement
    OBVIOUS
<1>1. Proved!BatchInSlot /\ Proved!CallsKnown /\ Proved!Slots!CallConsistent
    BY ProvedAssumption, Proved!SlotsKnown DEF Proved!Sound, Proved!Slots!IInv
<1>2. Threads \subseteq 0 .. MaxNumberOfThreads - 1
    BY ProvedAssumption, Proved!ThreadsKnown, SameThreads
<1>3. \A t \in 0 .. MaxNumberOfThreads - 1 :
         call[t].op \in {"loaded", "swapped"} => threadAssignment[t] = NumberOfEntries
    BY <1>1
    DEF Proved!Slots!CallConsistent, Proved!Slots!Assigned, Proved!Slots!NumberOfEntries,
        NumberOfEntries
<1>4. Proved!Assignments!Call = [op : {"outside", "removing", "loaded", "swapped"},
                          next : Stage \cup {NumberOfEntries}, currentVisitors : Nat]
    BY DEF Proved!Assignments!Call, Proved!Assignments!Stage, Proved!Assignments!NumberOfEntries,
           Stage, NumberOfEntries, Policy!Stage, Policy!Base!Stage, Policy!Base!Flow!Stage
<1> QED
    BY <1>1, <1>2, <1>3, <1>4, SameThreads
    DEF Placement, Proved!BatchInSlot, Proved!CallsKnown

LEMMA InitIInv == Init => IInv
<1> SUFFICES ASSUME Init PROVE IInv
    OBVIOUS
<1>1. Proved!Sound
    BY SameSteps, ProvedAssumption, Proved!InitSound DEF Init
<1>2. Counters
    BY NoStage DEF Init, Counters, NotCounting, Scanning, Unread
<1>3. \A t \in Threads : call[t].op = "outside" /\ thread[t].pc = "unborn"
    BY <1>1, SoundPlacement
    DEF Placement, Init, Policy!Init, Policy!Assignments!Init, Policy!Assignments!Outside,
        Policy!Base!Init, Threads, Policy!Threads
<1>4. Searches
    BY <1>3 DEF Init, Searches, InSearch, Observed, Scanning
<1>5. \A s \in Stage : queue[s] = <<>>
    BY DEF Init, Policy!Init, Policy!Base!Init, Policy!Base!Flow!Init, Stage, Policy!Stage,
           Policy!Base!Stage
<1> QED
    BY <1>1, <1>2, <1>4, <1>5 DEF IInv, NeverForgotten

-----------------------------------------------------------------------------
(* The invariant of all policies                                           *)

LEMMA SoundPolicyStep ==
    ASSUME Proved!Sound,
           \/ Policy!Surroundings
           \/ \E t \in Threads :
                 \/ Policy!Process(t)
                 \/ Policy!Vacate(t) \/ Policy!Vacated(t)
                 \/ \E s \in Stage : Policy!Try(t, s)
                 \/ Policy!Swap(t)
    PROVE  Proved!Sound'
<1>1. Proved!Next
    BY SameSteps, SameThreads DEF Proved!Next, Proved!NextStage
<1> QED
    BY <1>1, ProvedAssumption, Proved!NextSound

LEMMA SoundQuiet ==
    ASSUME Proved!Sound, UNCHANGED policyVars
    PROVE  Proved!Sound'
<1>1. UNCHANGED Proved!vars
    BY DEF policyVars, baseVars, Proved!vars
<1> QED
    BY <1>1, ProvedAssumption, Proved!NextSound

LEMMA SoundAssign ==
    ASSUME Proved!Sound, NEW t \in Threads, Policy!Assignments!Assign(t), UNCHANGED baseVars
    PROVE  Proved!Sound'
<1>1. Proved!Assignments!Assign(t) /\ t \in 0 .. MaxNumberOfThreads - 1
    BY SameSteps, SoundPlacement DEF Placement
<1>2. Proved!Assignments!Next
    BY <1>1 DEF Proved!Assignments!Next, Proved!Assignments!NextStage
<1>3. Proved!Slots!IInv'
    BY <1>2, ProvedAssumption, Proved!SlotsStep DEF Proved!Sound
<1>4. Proved!Data!Arriving'
  <2>1. UNCHANGED Proved!Base!Flow!vars
      BY DEF baseVars, Proved!Base!Flow!vars
  <2> QED
      BY <2>1, ProvedAssumption, Proved!DataStep DEF Proved!Sound
<1>5. Proved!BatchInSlot'
  <2>1. /\ call[t].op = "swapped"
        /\ threadAssignment' = [threadAssignment EXCEPT ![t] = call[t].next]
        /\ call' = [call EXCEPT ![t] = Policy!Assignments!Outside]
      BY DEF Policy!Assignments!Assign
  <2>2. thread[t].pc = "next" /\ Placement
      BY <2>1, SoundPlacement DEF Placement
  <2>3. UNCHANGED <<thread, launched, done, joined>> /\ Proved!BatchInSlot
      BY DEF baseVars, Proved!Sound
  <2> QED
      BY <2>1, <2>2, <2>3, SameThreads
      DEF Placement, Proved!BatchInSlot, Policy!Assignments!Outside
<1> QED
    BY <1>3, <1>4, <1>5 DEF Proved!Sound

LEMMA SoundVisit ==
    ASSUME Proved!Sound, NEW t \in Threads, NEW s \in Stage, Policy!Base!Visit(t, s),
           threadAssignment[t] = s, call[t].op = "outside",
           UNCHANGED <<threadAssignment, threadsPerStage, maximumConcurrency, call>>
    PROVE  Proved!Sound'
<1>1. Proved!Slots!IInv'
  <2>1. UNCHANGED Proved!Assignments!vars
      BY DEF Proved!Assignments!vars
  <2> QED
      BY <2>1, ProvedAssumption, Proved!SlotsStep DEF Proved!Sound
<1>2. Proved!Data!Arriving'
  <2>1. UNCHANGED Proved!Base!Flow!vars
      BY DEF Policy!Base!Visit, Policy!Base!flowVars, Proved!Base!Flow!vars
  <2> QED
      BY <2>1, ProvedAssumption, Proved!DataStep DEF Proved!Sound
<1>3. Proved!BatchInSlot'
  <2>1. /\ thread[t].pc = "next"
        /\ thread' = [thread EXCEPT ![t] = [pc |-> "poll", stage |-> s, hadMessage |-> TRUE]]
        /\ UNCHANGED <<launched, done, joined>>
      BY DEF Policy!Base!Visit
  <2>2. Placement /\ Proved!BatchInSlot
      BY SoundPlacement DEF Proved!Sound
  <2> QED
      BY <2>1, <2>2, SameThreads
      DEF Placement, Proved!BatchInSlot, Proved!Base!ThreadState
<1> QED
    BY <1>1, <1>2, <1>3 DEF Proved!Sound

-----------------------------------------------------------------------------
(* Dispatches, and all that a thread does in a batch                       *)

LEMMA CountersAfterPush ==
    ASSUME IInv, NEW a \in Actor, AfterPush(a)
    PROVE  Counters'
<1>1. ASSUME frame[a].carry # Policy!Base!Flow!Null
      PROVE  Head(frame[a].todo).to \in Stage
  <2>1. Proved!Data!Arriving /\ a \in Producers \cup Proved!Threads
        /\ frame[a].carry # Proved!Base!Flow!Null
      BY <1>1, SameThreads
      DEF IInv, Proved!Sound, Actor, Policy!Base!Flow!Null, Proved!Base!Flow!Null
  <2> QED
      BY <2>1, ProvedAssumption, Proved!DispatchKnown, SameThreads
<1>2. UNCHANGED <<previous, current, search, misjudged>>
    BY DEF AfterPush
<1>3. CASE frame[a].carry # Policy!Base!Flow!Null
  <2>1. tally' = [tally EXCEPT ![a].stage = Head(frame[a].todo).to]
      BY <1>3 DEF AfterPush
  <2> QED
      BY <1>1, <1>2, <1>3, <2>1 DEF IInv, Counters
<1>4. CASE frame[a].carry = Policy!Base!Flow!Null
  <2>1. tally' = tally
      BY <1>4 DEF AfterPush
  <2> QED
      BY <1>2, <2>1 DEF IInv, Counters
<1> QED
    BY <1>3, <1>4

(* A thread leaves its stage with the queue empty, or dies.                *)
LeavesWell(t) ==
    /\ thread[t].pc \in {"poll", "work"} =>
          \/ thread'[t].pc \in {"poll", "work"}
          \/ thread'[t].pc = "exited" /\ thread'[t].hadMessage
          \/ queue'[thread[t].stage] = <<>>
    /\ thread[t].pc = "exited" => thread'[t] = thread[t]
    /\ thread'[t].pc \in {"poll", "work"} => thread'[t].hadMessage

LEMMA SearchesInBatch ==
    ASSUME IInv, UNCHANGED <<threadAssignment, call, previous, current, search, misjudged>>,
           \A t \in Threads : LeavesWell(t)
    PROVE  Searches'
BY DEF IInv, Searches, InSearch, Observed, LeavesWell

LEMMA NeverForgottenInBatch ==
    ASSUME IInv, NEW a \in Actor, AfterPush(a), UNCHANGED threadAssignment,
           \A s \in Stage : queue'[s] # <<>> => queue[s] # <<>> \/ Proved!Pushes(a, s),
           \A t \in Threads : LeavesWell(t)
    PROVE  NeverForgotten'
<1> SUFFICES ASSUME NEW s \in Stage, s \notin misjudged', queue'[s] # <<>>
             PROVE  Attended(s)' \/ Abandoned(s)'
    BY DEF NeverForgotten
<1>1. UNCHANGED <<previous, current, search, misjudged>> /\ tally[a] = NotCounting
    BY DEF AfterPush
<1>2. CASE Proved!Pushes(a, s)
  <2>1. tally' = [tally EXCEPT ![a].stage = s]
      BY <1>2 DEF AfterPush, Proved!Pushes, Policy!Base!Flow!Null, Proved!Base!Flow!Null
  <2>2. tally'[a].stage = s
      BY <2>1 DEF IInv, Counters
  <2> QED
      BY <2>2 DEF Attended
<1>3. CASE queue[s] # <<>>
  <2>1. Attended(s) \/ Abandoned(s)
      BY <1>1, <1>3 DEF IInv, NeverForgotten
  <2>2. CASE previous[s] < current[s]
      BY <1>1, <2>2 DEF Attended
  <2>3. ASSUME NEW b \in Actor, tally[b].stage = s PROVE Attended(s)'
    <3>1. b # a
        BY <1>1, <2>3, NoStage DEF NotCounting
    <3>2. tally'[b] = tally[b]
        BY <3>1 DEF AfterPush, IInv, Counters
    <3> QED
        BY <2>3, <3>2 DEF Attended
  <2>4. ASSUME NEW t \in Threads, threadAssignment[t] = s,
               search[t].at \in {"observe", "observed"}
        PROVE  Attended(s)'
      BY <1>1, <2>4 DEF Attended
  <2>5. ASSUME NEW t \in Threads, threadAssignment[t] = s, thread[t].pc \in {"poll", "work"}
        PROVE  Attended(s)' \/ Abandoned(s)'
    <3>1. thread[t].stage = s
        BY <2>5, SoundPlacement DEF IInv, Placement
    <3>2. \/ thread'[t].pc \in {"poll", "work"}
          \/ thread'[t].pc = "exited" /\ thread'[t].hadMessage
        BY <2>5, <3>1 DEF LeavesWell
    <3> QED
        BY <2>5, <3>2 DEF Attended, Abandoned
  <2>6. CASE Abandoned(s)
      BY <2>6 DEF Abandoned, LeavesWell
  <2> QED
      BY <2>1, <2>2, <2>3, <2>4, <2>5, <2>6 DEF Attended
<1> QED
    BY <1>2, <1>3

LEMMA ThreadsStay ==
    ASSUME IInv, Policy!Surroundings
    PROVE  \A t \in Threads : LeavesWell(t)
<1> SUFFICES ASSUME NEW t \in Threads PROVE LeavesWell(t)
    OBVIOUS
<1>1. \/ thread'[t] = thread[t]
      \/ (thread[t].pc = "unborn" /\ thread'[t].pc = "check")
  <2>1. CASE Policy!Base!Launch
      BY <2>1, SoundPlacement DEF IInv, Placement, Policy!Base!Launch, Policy!Base!Goto
  <2>2. CASE Policy!Base!Stop \/ Policy!Base!Join
      BY <2>2 DEF Policy!Base!Stop, Policy!Base!Join
  <2>3. CASE \E p \in Producers : Policy!Base!Produce(p)
      BY <2>3 DEF Policy!Base!Produce, Policy!Base!schedulerVars
  <2> QED
      BY <2>1, <2>2, <2>3 DEF Policy!Surroundings, Policy!Base!Owner
<1> QED
    BY <1>1 DEF LeavesWell, IInv, Searches, InSearch

LEMMA BatchLeavesWell ==
    ASSUME IInv, NEW t \in Threads, Policy!Process(t)
    PROVE  \A u \in Threads : LeavesWell(u)
<1> SUFFICES ASSUME NEW u \in Threads PROVE LeavesWell(u)
    OBVIOUS
<1>1. thread \in [Threads -> [pc : Proved!Base!ThreadState, stage : Stage \cup {NumberOfEntries},
                              hadMessage : BOOLEAN]]
      /\ (thread[u].pc \in {"poll", "work"} => thread[u].hadMessage)
    BY SoundPlacement DEF IInv, Placement, Searches, InSearch
<1>2. CASE Policy!Base!CheckDone(t) \/ Policy!Base!BatchEnd(t) \/ Policy!Base!Fail(t)
    BY <1>1, <1>2
    DEF Policy!Base!CheckDone, Policy!Base!BatchEnd, Policy!Base!Fail, Policy!Base!Goto,
        LeavesWell
<1>3. CASE Policy!Base!PollMessage(t) \/ Policy!Base!Processed(t)
    BY <1>1, <1>3
    DEF Policy!Base!PollMessage, Policy!Base!Processed, Policy!Base!Polled, Policy!Base!Goto,
        LeavesWell
<1>4. CASE Policy!Base!PollEmpty(t)
    BY <1>1, <1>4
    DEF Policy!Base!PollEmpty, Policy!Base!Polled, Policy!Base!flowVars, LeavesWell
<1>5. CASE Policy!Base!Work(t)
    BY <1>1, <1>5 DEF Policy!Base!Work, Policy!Base!schedulerVars, LeavesWell
<1> QED
    BY <1>2, <1>3, <1>4, <1>5 DEF Policy!Process, Policy!Base!Process

LEMMA BatchStep ==
    ASSUME IInv, NEW a \in Actor, AfterPush(a),
           \/ a \in Producers /\ Policy!Surroundings /\ Policy!Base!Produce(a)
           \/ a \in Threads /\ Policy!Process(a)
    PROVE  IInv'
<1>1. Proved!Sound'
    BY SoundPolicyStep DEF IInv
<1>2. Proved!Data!Arriving
    BY DEF IInv, Proved!Sound
<1>3. \A s \in Stage : queue'[s] # <<>> => queue[s] # <<>> \/ Proved!Pushes(a, s)
  <2>1. CASE a \in Producers /\ Policy!Base!Produce(a)
    <3>1. Proved!Base!Produce(a)
        BY <2>1, SameProduce
    <3> QED
        BY <1>2, <3>1, ProvedAssumption, Proved!ProduceQueues, SameThreads
  <2>2. CASE a \in Threads /\ Policy!Process(a)
    <3>1. Proved!Base!Process(a)
        BY <2>2, SameSteps DEF Proved!Process
    <3>2. \A s \in Stage : queue'[s] = queue[s] \/ Proved!Pushes(a, s) \/ Proved!Pops(a, s)
        BY <1>2, <3>1, ProvedAssumption, Proved!ProcessQueues, SameThreads
    <3> QED
        BY <3>2 DEF Proved!Pops
  <2> QED
      BY <2>1, <2>2
<1>4. /\ \A t \in Threads : LeavesWell(t)
      /\ UNCHANGED <<threadAssignment, call>>
    BY ThreadsStay, BatchLeavesWell
    DEF Policy!Surroundings, Policy!Process, Policy!assignmentVars
<1>5. UNCHANGED <<previous, current, search, misjudged>>
    BY DEF AfterPush
<1> QED
    BY <1>1, <1>3, <1>4, <1>5, CountersAfterPush, SearchesInBatch, NeverForgottenInBatch
    DEF IInv

LEMMA OwnerStep ==
    ASSUME IInv, Owner(TRUE)
    PROVE  IInv'
<1>1. Proved!Sound' /\ \A t \in Threads : LeavesWell(t)
    BY SoundPolicyStep, ThreadsStay DEF IInv, Owner
<1>2. UNCHANGED <<queue, threadAssignment, call, previous, current, tally, search, misjudged>>
    BY DEF Owner, countVars, Policy!Base!Owner, Policy!Base!Launch, Policy!Base!Stop,
           Policy!Base!Join, Policy!Base!flowVars, Policy!Surroundings, Policy!assignmentVars
<1>3. Counters'
    BY <1>2 DEF IInv, Counters
<1>4. Searches'
    BY <1>1, <1>2, SearchesInBatch
<1>5. NeverForgotten'
  <2> SUFFICES ASSUME NEW s \in Stage, s \notin misjudged, queue[s] # <<>>
               PROVE  Attended(s)' \/ Abandoned(s)'
      BY <1>2 DEF NeverForgotten
  <2>1. Attended(s) \/ Abandoned(s)
      BY DEF IInv, NeverForgotten
  <2>2. ASSUME NEW t \in Threads, threadAssignment[t] = s, thread[t].pc \in {"poll", "work"}
        PROVE  Attended(s)' \/ Abandoned(s)'
    <3>1. thread[t].stage = s
        BY <2>2, SoundPlacement DEF IInv, Placement
    <3> QED
        BY <1>1, <1>2, <2>2, <3>1 DEF LeavesWell, Attended, Abandoned
  <2>3. CASE Abandoned(s)
      BY <1>1, <1>2, <2>3 DEF Abandoned, LeavesWell
  <2> QED
      BY <1>2, <2>1, <2>2, <2>3 DEF Attended
<1> QED
    BY <1>1, <1>3, <1>4, <1>5 DEF IInv

-----------------------------------------------------------------------------
(* increment                                                               *)

LEMMA IncrementLoadStep ==
    ASSUME IInv, NEW a \in Actor, IncrementLoad(a)
    PROVE  IInv'
<1>1. /\ tally[a].stage # NumberOfEntries
      /\ tally' = [tally EXCEPT ![a].value = current[tally[a].stage]]
      /\ UNCHANGED <<queue, thread, threadAssignment, call, previous, current, search, misjudged>>
    BY DEF IncrementLoad, policyVars, baseVars
<1>2. Proved!Sound'
    BY SoundQuiet DEF IInv, IncrementLoad
<1>3. Counters'
    BY <1>1 DEF IInv, Counters
<1>4. Searches'
    BY <1>1 DEF IInv, Searches, InSearch, Observed
<1>5. \A b \in Actor : tally'[b].stage = tally[b].stage
    BY <1>1 DEF IInv, Counters
<1>6. NeverForgotten'
    BY <1>1, <1>5 DEF IInv, NeverForgotten, Attended, Abandoned
<1> QED
    BY <1>2, <1>3, <1>4, <1>6 DEF IInv

(* The sum is stored: where no increment is lost the counter has grown.    *)
LEMMA IncrementStoreStep ==
    ASSUME IInv, NEW a \in Actor, IncrementStore(a)
    PROVE  IInv'
<1> DEFINE s == tally[a].stage
<1>1. /\ tally[a].value # Unread /\ s \in Stage /\ tally[a].value \in Nat
      /\ current' = [current EXCEPT ![s] = tally[a].value + 1]
      /\ misjudged' = IF current[s] = tally[a].value THEN misjudged ELSE misjudged \cup {s}
      /\ tally' = [tally EXCEPT ![a] = NotCounting]
      /\ UNCHANGED <<queue, thread, threadAssignment, call, previous, search>>
    BY DEF IncrementStore, policyVars, baseVars, IInv, Counters
<1>2. Proved!Sound'
    BY SoundQuiet DEF IInv, IncrementStore
<1>3. Counters'
    BY <1>1 DEF IInv, Counters, NotCounting
<1>4. /\ misjudged \subseteq misjudged'
      /\ \A u \in Stage \ misjudged' : current'[u] = IF u = s THEN current[u] + 1 ELSE current[u]
      /\ current \in [Stage -> Nat] /\ previous \in [Stage -> Nat]
    BY <1>1 DEF IInv, Counters
<1>5. \A u \in Stage \ misjudged' : current'[u] >= current[u]
    BY <1>4
<1>6. Searches'
  <2>1. \A t \in Threads : InSearch(t)'
      BY <1>1, <1>4 DEF IInv, Searches, InSearch
  <2>2. ASSUME NEW u \in Stage \ misjudged' PROVE Observed(u)'
    <3>1. Observed(u) /\ current[u] \in Nat /\ current'[u] \in Nat /\ current'[u] >= current[u]
        BY <1>3, <1>4, <1>5 DEF IInv, Searches, Counters
    <3>2. previous'[u] \in Nat /\ previous'[u] = previous[u] /\ search' = search
          /\ \A t \in Threads : search[t].value \in Nat
        BY <1>1, <1>4 DEF IInv, Counters
    <3> QED
        BY <3>1, <3>2 DEF Observed
  <2> QED
      BY <2>1, <2>2 DEF Searches
<1>7. NeverForgotten'
  <2> SUFFICES ASSUME NEW u \in Stage, u \notin misjudged', queue'[u] # <<>>
               PROVE  Attended(u)' \/ Abandoned(u)'
      BY DEF NeverForgotten
  <2>1. Attended(u) \/ Abandoned(u)
      BY <1>1, <1>4 DEF IInv, NeverForgotten
  <2>2. previous[u] <= current[u] /\ previous[u] \in Nat /\ current[u] \in Nat
      BY <1>4 DEF IInv, Searches, Observed
  <2>3. CASE u = s
      BY <1>1, <1>4, <2>2, <2>3 DEF Attended
  <2>4. CASE u # s
    <3>1. ASSUME NEW b \in Actor, tally[b].stage = u PROVE tally'[b].stage = u
        BY <1>1, <2>4, <3>1 DEF IInv, Counters
    <3> QED
        BY <1>1, <1>4, <2>1, <2>4, <3>1 DEF Attended, Abandoned
  <2> QED
      BY <2>3, <2>4
<1> QED
    BY <1>2, <1>3, <1>6, <1>7 DEF IInv

-----------------------------------------------------------------------------
(* nextStage                                                               *)

LEMMA VacateStep ==
    ASSUME IInv, NEW t \in Threads, Vacate(t)
    PROVE  IInv'
<1>1. Proved!Sound'
    BY SoundPolicyStep DEF IInv, Vacate
<1>2. UNCHANGED <<queue, thread, previous, current, tally, search, misjudged>>
    BY DEF Vacate, countVars, Policy!Vacate, Policy!Vacated, Policy!baseVars
<1>3. Counters'
    BY <1>2 DEF IInv, Counters
<1>4. search[t] = Scanning /\ Placement
    BY SoundPlacement DEF Vacate, IInv
<1>5. CASE Policy!Vacate(t)
  <2>1. UNCHANGED threadAssignment /\ call' = [call EXCEPT ![t].op = "removing"]
      BY <1>5 DEF Policy!Vacate, Policy!Assignments!RemoveBegin
  <2>2. Searches'
      BY <1>2, <1>4, <2>1 DEF IInv, Searches, InSearch, Observed, Placement, Scanning
  <2>3. NeverForgotten'
      BY <1>2, <2>1 DEF IInv, NeverForgotten, Attended, Abandoned
  <2> QED
      BY <1>1, <1>3, <2>2, <2>3 DEF IInv
<1>6. CASE Policy!Vacated(t)
  <2>1. /\ call[t].op = "removing"
        /\ threadAssignment' = [threadAssignment EXCEPT ![t] = Policy!Assignments!NumberOfEntries]
        /\ call' = [call EXCEPT ![t] = Policy!Assignments!Outside]
      BY <1>6 DEF Policy!Vacated, Policy!Assignments!RemoveEnd
  <2>2. \A u \in Threads :
          /\ u # t => call'[u] = call[u] /\ threadAssignment'[u] = threadAssignment[u]
          /\ u = t => call'[u].op = "outside" /\ thread[u].pc = "next"
      BY <1>4, <2>1 DEF Placement, Policy!Assignments!Outside
  <2>3. Searches'
      BY <1>2, <1>4, <2>2 DEF IInv, Searches, InSearch, Observed, Scanning
  <2>4. NeverForgotten'
      BY <1>2, <1>4, <2>2 DEF IInv, NeverForgotten, Attended, Abandoned, Scanning
  <2> QED
      BY <1>1, <1>3, <2>3, <2>4 DEF IInv
<1> QED
    BY <1>5, <1>6 DEF Vacate

(* A step that changes nothing but the locals of one thread's search, and  *)
(* takes it neither to nor from the update of the counter.                 *)
LEMMA ScanStep ==
    ASSUME IInv, NEW t \in Threads, UNCHANGED <<policyVars, previous, current, tally, misjudged>>,
           search[t].at \in {"previous", "current"},
           NEW x \in [at : {"previous", "current", "try"}, i : Stage, previousValue : Nat,
                      stage : Stage, mark : Nat, value : Nat],
           search' = [search EXCEPT ![t] = x]
    PROVE  IInv'
<1>1. Proved!Sound'
    BY SoundQuiet DEF IInv
<1>2. UNCHANGED <<queue, thread, threadAssignment, call, previous, current, tally, misjudged>>
    BY DEF policyVars, baseVars
<1>3. Counters'
    BY <1>2 DEF IInv, Counters
<1>4. /\ \A u \in Threads : u # t => search'[u] = search[u]
      /\ search'[t].at \in {"previous", "current", "try"}
    BY DEF IInv, Counters
<1>5. Searches'
    BY <1>2, <1>4 DEF IInv, Searches, InSearch, Observed
<1>6. NeverForgotten'
    BY <1>2, <1>4 DEF IInv, NeverForgotten, Attended, Abandoned
<1> QED
    BY <1>1, <1>3, <1>5, <1>6 DEF IInv

LEMMA LoadPreviousStep ==
    ASSUME IInv, NEW t \in Threads, LoadPrevious(t)
    PROVE  IInv'
<1> DEFINE x == [search[t] EXCEPT !.previousValue = previous[search[t].i], !.at = "current"]
<1>1. /\ x \in [at : {"previous", "current", "try"}, i : Stage, previousValue : Nat,
                stage : Stage, mark : Nat, value : Nat]
      /\ search' = [search EXCEPT ![t] = x]
    BY DEF LoadPrevious, IInv, Counters
<1> HIDE DEF x
<1> QED
    BY <1>1, ScanStep DEF LoadPrevious

LEMMA LoadCurrentStep ==
    ASSUME IInv, NEW t \in Threads, LoadCurrent(t)
    PROVE  IInv'
<1> DEFINE i == search[t].i
           stageDepth == depth(search[t].previousValue, current[i])
           deeper == stageDepth > search[t].mark
           last == i = NumberOfStages - 1
           x == [at |-> IF last THEN "try" ELSE "previous",
                 i |-> IF last THEN 0 ELSE i + 1,
                 previousValue |-> 0,
                 stage |-> IF deeper THEN i ELSE search[t].stage,
                 mark |-> IF last THEN 0 ELSE IF deeper THEN stageDepth ELSE search[t].mark,
                 value |-> 0]
<1>1. /\ i \in Stage /\ search[t].previousValue \in Nat /\ search[t].stage \in Stage
      /\ search[t].mark \in Nat /\ current[i] \in Nat
    BY DEF IInv, Counters
<1>2. stageDepth \in Nat
    BY <1>1 DEF depth
<1>3. (IF last THEN 0 ELSE i + 1) \in Stage
    BY <1>1, NoStage, ProvedAssumption
    DEF Proved!AssignmentPolicyAssumption, Stage, Policy!Stage, Policy!Base!Stage,
        Policy!Base!Flow!Stage
<1>4. search' = [search EXCEPT ![t] = x]
    BY DEF LoadCurrent, IInv, Counters
<1>5. x \in [at : {"previous", "current", "try"}, i : Stage, previousValue : Nat,
             stage : Stage, mark : Nat, value : Nat]
  <2> HIDE DEF stageDepth, deeper, last, i
  <2> QED
      BY <1>1, <1>2, <1>3 DEF i
<1> HIDE DEF x
<1> QED
    BY <1>4, <1>5, ScanStep DEF LoadCurrent

(* tryAssign: a thread that is refused is about to take the stage as seen. *)
LEMMA AttemptStep ==
    ASSUME IInv, NEW t \in Threads, Attempt(t)
    PROVE  IInv'
<1> DEFINE s == search[t].stage
<1>1. /\ s \in Stage /\ search[t].at = "try" /\ Placement /\ InSearch(t)
      /\ UNCHANGED <<previous, current, tally>>
    BY SoundPlacement DEF Attempt, IInv, Counters, Searches
<1>2. Proved!Sound'
    BY <1>1, SoundPolicyStep DEF IInv, Attempt
<1>3. UNCHANGED <<queue, thread, threadAssignment>>
    BY DEF Attempt, Policy!Try, Policy!Swap, Policy!baseVars, Policy!Assignments!TryRefused,
           Policy!Assignments!TryLoad, Policy!Assignments!Swap, Policy!Assignments!SwapFails,
           Policy!Assignments!vars
<1>4. CASE Refused(t)
  <2>1. /\ search' = [search EXCEPT ![t].at = "observe"]
        /\ misjudged' = misjudged \cup {s}
      BY <1>4 DEF Attempt
  <2>2. /\ threadAssignment[t] = NumberOfEntries
        /\ \A u \in Threads : u # t => call'[u] = call[u]
        /\ call'[t].op = "outside"
    <3>1. CASE Policy!Try(t, s)
      <4>1. threadAssignment[t] = NumberOfEntries /\ call[t].op = "outside"
          BY <3>1
          DEF Policy!Try, Policy!Assignments!TryRefused, Policy!Assignments!TryLoad,
              Policy!Assignments!Assigned, Policy!Assignments!NumberOfEntries, NumberOfEntries
      <4>2. ~Policy!Assignments!HasRoom(s)
          BY <1>4, <4>1 DEF Refused
      <4>3. call' = call
          BY <3>1, <4>2
          DEF Policy!Try, Policy!Assignments!TryRefused, Policy!Assignments!TryLoad,
              Policy!Assignments!vars
      <4> QED
          BY <4>1, <4>3
    <3>2. CASE Policy!Swap(t)
      <4>1. call[t].op = "loaded"
          BY <3>2 DEF Policy!Swap, Policy!Assignments!Swap, Policy!Assignments!SwapFails
      <4>2. ~Policy!Assignments!Unchanged(t)
          BY <1>4, <4>1 DEF Refused
      <4>3. call' = [call EXCEPT ![t] = Policy!Assignments!Outside]
          BY <3>2, <4>2 DEF Policy!Swap, Policy!Assignments!Swap, Policy!Assignments!SwapFails
      <4> QED
          BY <1>1, <4>1, <4>3 DEF Placement, Policy!Assignments!Outside
    <3> QED
        BY <3>1, <3>2 DEF Attempt
  <2>3. Counters'
      BY <1>1, <2>1 DEF IInv, Counters
  <2>4. /\ \A u \in Threads : u # t => search'[u] = search[u]
        /\ search'[t].at = "observe" /\ search'[t].stage = s
        /\ misjudged \subseteq misjudged' /\ s \in misjudged'
      BY <2>1 DEF IInv, Counters
  <2>5. Searches'
    <3>1. \A u \in Threads : InSearch(u)'
        BY <1>3, <2>2, <2>4 DEF IInv, Searches, InSearch
    <3>2. \A u \in Stage \ misjudged' : Observed(u)'
        BY <1>1, <2>4 DEF IInv, Searches, Observed
    <3> QED
        BY <3>1, <3>2 DEF Searches
  <2>6. NeverForgotten'
      BY <1>1, <1>3, <2>4 DEF IInv, NeverForgotten, Attended, Abandoned
  <2> QED
      BY <1>2, <2>3, <2>5, <2>6 DEF IInv
<1>5. CASE ~Refused(t)
  <2>1. UNCHANGED <<search, misjudged>>
      BY <1>5 DEF Attempt
  <2>2. /\ \A u \in Threads : u # t => call'[u] = call[u]
        /\ call'[t].op \in {"loaded", "swapped"} => call'[t].next = s
    <3>1. CASE Policy!Try(t, s)
      <4>1. Policy!Assignments!TryLoad(t, s)
          BY <1>5, <3>1 DEF Policy!Try, Policy!Assignments!TryRefused, Refused
      <4> QED
          BY <1>1, <4>1 DEF Policy!Assignments!TryLoad, Placement
    <3>2. CASE Policy!Swap(t)
      <4>1. call[t].op = "loaded"
          BY <3>2 DEF Policy!Swap, Policy!Assignments!Swap, Policy!Assignments!SwapFails
      <4>2. call' = [call EXCEPT ![t].op = "swapped"]
          BY <1>5, <3>2, <4>1
          DEF Policy!Swap, Policy!Assignments!Swap, Policy!Assignments!SwapFails, Refused
      <4> QED
          BY <1>1, <4>1, <4>2 DEF Placement, InSearch
    <3> QED
        BY <3>1, <3>2 DEF Attempt
  <2>3. Counters'
      BY <1>1, <2>1 DEF IInv, Counters
  <2>4. Searches'
      BY <1>1, <1>3, <2>1, <2>2 DEF IInv, Searches, InSearch, Observed
  <2>5. NeverForgotten'
      BY <1>1, <1>3, <2>1 DEF IInv, NeverForgotten, Attended, Abandoned
  <2> QED
      BY <1>2, <2>3, <2>4, <2>5 DEF IInv
<1> QED
    BY <1>4, <1>5

LEMMA AssignStep ==
    ASSUME IInv, NEW t \in Threads, Assign(t)
    PROVE  IInv'
<1>1. /\ call[t].op = "swapped"
      /\ threadAssignment' = [threadAssignment EXCEPT ![t] = call[t].next]
      /\ call' = [call EXCEPT ![t] = Policy!Assignments!Outside]
      /\ search' = [search EXCEPT ![t].at = "observe"]
      /\ UNCHANGED <<queue, thread, previous, current, tally, misjudged>>
    BY DEF Assign, Policy!Assignments!Assign, baseVars
<1>2. Proved!Sound'
    BY SoundAssign DEF IInv, Assign
<1>3. Placement /\ InSearch(t)
    BY SoundPlacement DEF IInv, Searches
<1>4. Counters'
    BY <1>1 DEF IInv, Counters
<1>5. /\ \A u \in Threads : u # t => /\ call'[u] = call[u] /\ search'[u] = search[u]
                                     /\ threadAssignment'[u] = threadAssignment[u]
      /\ call'[t].op = "outside" /\ search'[t].at = "observe"
      /\ search'[t].stage = search[t].stage /\ threadAssignment'[t] = search[t].stage
      /\ threadAssignment[t] = NumberOfEntries
    BY <1>1, <1>3 DEF IInv, Counters, Placement, InSearch, Policy!Assignments!Outside
<1>6. Searches'
    BY <1>1, <1>5 DEF IInv, Searches, InSearch, Observed
<1>7. NeverForgotten'
    BY <1>1, <1>5, NoStage DEF IInv, NeverForgotten, Attended, Abandoned
<1> QED
    BY <1>2, <1>4, <1>6, <1>7 DEF IInv

LEMMA ObserveLoadStep ==
    ASSUME IInv, NEW t \in Threads, ObserveLoad(t)
    PROVE  IInv'
<1>1. /\ search[t].at = "observe" /\ search[t].stage \in Stage
      /\ UNCHANGED <<queue, thread, threadAssignment, call, previous, current, tally, misjudged>>
    BY DEF ObserveLoad, policyVars, baseVars, IInv, Counters
<1>2. Proved!Sound'
    BY SoundQuiet DEF IInv, ObserveLoad
<1>3. Counters'
    BY <1>1 DEF ObserveLoad, IInv, Counters
<1>4. /\ \A u \in Threads : u # t => search'[u] = search[u]
      /\ search'[t].at = "observed" /\ search'[t].stage = search[t].stage
      /\ search'[t].value = current[search[t].stage]
      /\ current \in [Stage -> Nat]
    BY DEF ObserveLoad, IInv, Counters
<1>5. Searches'
  <2>1. \A u \in Threads : InSearch(u)'
      BY <1>1, <1>4 DEF IInv, Searches, InSearch
  <2>2. \A s \in Stage \ misjudged' : Observed(s)'
      BY <1>1, <1>4 DEF IInv, Searches, Observed
  <2> QED
      BY <2>1, <2>2 DEF Searches
<1>6. NeverForgotten'
    BY <1>1, <1>4 DEF IInv, NeverForgotten, Attended, Abandoned
<1> QED
    BY <1>2, <1>3, <1>5, <1>6 DEF IInv

(* The count is taken as seen as the visit begins that will see it.        *)
LEMMA ObserveStoreStep ==
    ASSUME IInv, NEW t \in Threads, ObserveStore(t)
    PROVE  IInv'
<1> DEFINE s == search[t].stage
<1>1. /\ search[t].at = "observed" /\ s \in Stage /\ search[t].value \in Nat
      /\ previous' = [previous EXCEPT ![s] = search[t].value]
      /\ search' = [search EXCEPT ![t] = Scanning]
      /\ UNCHANGED <<threadAssignment, call, current, tally, misjudged>>
      /\ UNCHANGED <<threadAssignment, threadsPerStage, maximumConcurrency, call>>
    BY DEF ObserveStore, IInv, Counters
<1>2. Placement /\ InSearch(t)
    BY SoundPlacement DEF IInv, Searches
<1>3. \/ /\ threadAssignment[t] = s
         /\ Policy!Base!Visit(t, s)
      \/ /\ threadAssignment[t] = NumberOfEntries /\ s \in misjudged
         /\ UNCHANGED baseVars
  <2>1. CASE threadAssignment[t] = s
      BY <1>1, <2>1, NoStage
      DEF ObserveStore, Policy!Assignments!Assigned, Policy!Assignments!NumberOfEntries,
          NumberOfEntries
  <2>2. CASE threadAssignment[t] = NumberOfEntries /\ s \in misjudged
      BY <1>1, <2>2
      DEF ObserveStore, Policy!Assignments!Assigned, Policy!Assignments!NumberOfEntries,
          NumberOfEntries
  <2> QED
      BY <1>1, <1>2, <2>1, <2>2 DEF InSearch
<1>4. Proved!Sound'
  <2>1. CASE threadAssignment[t] = s /\ Policy!Base!Visit(t, s)
      BY <1>1, <1>2, <2>1, SoundVisit DEF IInv, InSearch
  <2>2. CASE UNCHANGED baseVars
      BY <1>1, <2>2, SoundQuiet DEF IInv, policyVars
  <2> QED
      BY <1>3, <2>1, <2>2
<1>5. Counters'
    BY <1>1, NoStage DEF IInv, Counters, Scanning
<1>6. /\ queue' = queue
      /\ \A u \in Threads : u # t => thread'[u] = thread[u] /\ search'[u] = search[u]
      /\ search'[t] = Scanning
      /\ \/ thread'[t] = thread[t] /\ threadAssignment[t] = NumberOfEntries /\ s \in misjudged
         \/ /\ thread[t].pc = "next" /\ thread'[t].pc = "poll" /\ thread'[t].hadMessage
            /\ threadAssignment[t] = s
  <2>1. CASE threadAssignment[t] = s /\ Policy!Base!Visit(t, s)
      BY <1>1, <1>2, <2>1
      DEF Policy!Base!Visit, Policy!Base!flowVars, Placement, IInv, Counters
  <2>2. CASE threadAssignment[t] = NumberOfEntries /\ s \in misjudged /\ UNCHANGED baseVars
      BY <1>1, <2>2 DEF baseVars, IInv, Counters
  <2> QED
      BY <1>3, <2>1, <2>2
<1>7. \A u \in Stage : previous'[u] = IF u = s THEN search[t].value ELSE previous[u]
    BY <1>1 DEF IInv, Counters
<1>8. Searches'
  <2>1. \A u \in Threads : InSearch(u)'
      BY <1>1, <1>6 DEF IInv, Searches, InSearch, Scanning
  <2>2. ASSUME NEW u \in Stage \ misjudged' PROVE Observed(u)'
      BY <1>1, <1>6, <1>7 DEF IInv, Searches, Observed, Scanning
  <2> QED
      BY <2>1, <2>2 DEF Searches
<1>9. NeverForgotten'
  <2> SUFFICES ASSUME NEW u \in Stage, u \notin misjudged, queue[u] # <<>>
               PROVE  Attended(u)' \/ Abandoned(u)'
      BY <1>1, <1>6 DEF NeverForgotten
  <2>1. CASE u = s
      BY <1>1, <1>6, <2>1 DEF Attended
  <2>2. CASE u # s
    <3>1. Attended(u) \/ Abandoned(u)
        BY DEF IInv, NeverForgotten
    <3>2. threadAssignment[t] # u
        BY <1>6, <2>2, NoStage
    <3> QED
        BY <1>1, <1>6, <1>7, <2>2, <3>1, <3>2 DEF Attended, Abandoned
  <2> QED
      BY <2>1, <2>2
<1> QED
    BY <1>4, <1>5, <1>8, <1>9 DEF IInv

-----------------------------------------------------------------------------
LEMMA NextIInv ==
    ASSUME IInv, [Next]_vars
    PROVE  IInv'
<1>1. CASE UNCHANGED vars
  <2>1. UNCHANGED <<policyVars, queue, thread, threadAssignment, call,
                    previous, current, tally, search, misjudged>>
      BY <1>1 DEF vars, policyVars, baseVars
  <2> QED
      BY <2>1, SoundQuiet
      DEF IInv, Counters, Searches, InSearch, Observed, NeverForgotten, Attended, Abandoned
<1>2. CASE Owner(TRUE)
    BY <1>2, OwnerStep
<1>3. ASSUME NEW p \in Producers, Produce(p) PROVE IInv'
    BY <1>3, BatchStep, IncrementLoadStep, IncrementStoreStep DEF Produce, Increment, Actor
<1>4. ASSUME NEW t \in Threads, Process(t) PROVE IInv'
    BY <1>4, BatchStep, IncrementLoadStep, IncrementStoreStep DEF Process, Increment, Actor
<1>5. ASSUME NEW t \in Threads, nextStage(t) PROVE IInv'
    BY <1>5, VacateStep, LoadPreviousStep, LoadCurrentStep, AttemptStep, AssignStep,
       ObserveLoadStep, ObserveStoreStep DEF nextStage
<1> QED
    BY <1>1, <1>2, <1>3, <1>4, <1>5 DEF Next, ThreadStep

LEMMA Invariance == Spec => []IInv
BY InitIInv, NextIInv, PTL DEF Spec

(* The counters and the locals of dispatches and searches keep their types,*)
(* and so does all that the policy shares with the others: no count of     *)
(* visitors wraps.                                                         *)
THEOREM Types == Spec => []TypeOK
<1>1. IInv => TypeOK
    BY ProvedAssumption, Proved!SoundTypes, SameTypes DEF IInv, Counters, TypeOK
<1> QED
    BY <1>1, Invariance, PTL

(* Each waiting message has a thread that visits its stage, a dispatch that*)
(* is about to count it or a counter that says so, unless its visitor died,*)
(* a thread was refused the stage or an increment was lost.                *)
THEOREM Remembered == Spec => []NeverForgotten
<1>1. IInv => NeverForgotten
    BY DEF IInv
<1> QED
    BY <1>1, Invariance, PTL

(* No functor runs in more threads than the maximum concurrency of its     *)
(* stage, although the slot is taken well before the visit begins.         *)
THEOREM Concurrency == Spec => []Policy!FunctorConcurrency
<1>1. IInv => Policy!FunctorConcurrency
    BY ProvedAssumption, Proved!SlotsBoundBatches, SameBounds DEF IInv, Proved!Sound
<1> QED
    BY <1>1, Invariance, PTL

(* The messages are counted exactly and none is lost but by an exception.  *)
THEOREM MessagesKept ==
    Spec => [](Policy!Base!Flow!RefCountExact /\ Policy!Base!Flow!NothingLost)
<1>1. IInv => Policy!Base!Flow!RefCountExact /\ Policy!Base!Flow!NothingLost
    BY ProvedAssumption, Proved!ArrivingPromises, SameMessages DEF IInv, Proved!Sound
<1> QED
    BY <1>1, Invariance, PTL
=============================================================================
