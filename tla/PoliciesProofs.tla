--------------------------- MODULE PoliciesProofs ---------------------------
(***************************************************************************)
(* RoundRobin, SRPT and RandomVisit are policies as AssignmentPolicy       *)
(* specifies them, so that what is proved of it holds of each of them;     *)
(* ThreadPerStage, which uses no slots, handles the messages as they do.   *)
(***************************************************************************)
EXTENDS Policies, FunctionTheorems, TLAPS

Proved == INSTANCE AssignmentPolicyProofs

-----------------------------------------------------------------------------
(* The operators of the instances are the same.                            *)

LEMMA SamePolicy ==
    /\ Policy!Init <=> Proved!Init
    /\ Policy!Surroundings <=> Proved!Surroundings
    /\ Policy!Next <=> Proved!Next
    /\ Policy!FunctorConcurrency <=> Proved!FunctorConcurrency
    /\ Policy!Base!Flow!RefCountExact <=> Proved!Base!Flow!RefCountExact
    /\ Policy!Base!Flow!NothingLost <=> Proved!Base!Flow!NothingLost
<1>1. Policy!Init <=> Proved!Init
    BY DEF Policy!Init, Proved!Init, Policy!Base!Init, Proved!Base!Init,
           Policy!Assignments!Init, Proved!Assignments!Init, Policy!Base!Flow!Stage,
           Proved!Base!Flow!Stage, Policy!Base!Threads, Proved!Base!Threads,
           Policy!Base!Flow!Init, Proved!Base!Flow!Init, Policy!Base!NumberOfEntries,
           Proved!Base!NumberOfEntries, Policy!Assignments!NumberOfEntries,
           Proved!Assignments!NumberOfEntries, Policy!Assignments!Stage,
           Proved!Assignments!Stage, Policy!Assignments!Outside,
           Proved!Assignments!Outside, Policy!numberOfThreads, Proved!numberOfThreads,
           Policy!Base!Flow!Actor, Proved!Base!Flow!Actor, Policy!Base!Flow!Idle,
           Proved!Base!Flow!Idle, Policy!Base!Flow!NumberOfEntries,
           Proved!Base!Flow!NumberOfEntries, Policy!Base!Flow!Null,
           Proved!Base!Flow!Null, Policy!Min, Proved!Min, Policy!Max, Proved!Max
<1>2. Policy!TypeOK <=> Proved!TypeOK
    BY DEF Policy!TypeOK, Proved!TypeOK, Policy!Base!Flow!ToSet, Proved!Base!Flow!ToSet,
           Policy!Base!TypeOK, Proved!Base!TypeOK, Policy!Assignments!TypeOK,
           Proved!Assignments!TypeOK, Policy!Base!Flow!Message,
           Proved!Base!Flow!Message, Policy!Base!Flow!Stage, Proved!Base!Flow!Stage,
           Policy!Base!Threads, Proved!Base!Threads, Policy!Base!NumberOfEntries,
           Proved!Base!NumberOfEntries, Policy!Assignments!NumberOfEntries,
           Proved!Assignments!NumberOfEntries, Policy!Assignments!Stage,
           Proved!Assignments!Stage, Policy!numberOfThreads, Proved!numberOfThreads,
           Policy!Base!Flow!TypeOK, Proved!Base!Flow!TypeOK, Policy!Base!ThreadState,
           Proved!Base!ThreadState, Policy!Base!Stage, Proved!Base!Stage,
           Policy!Assignments!Call, Proved!Assignments!Call, Policy!Base!Flow!Actor,
           Proved!Base!Flow!Actor, Policy!Base!Flow!NumberOfEntries,
           Proved!Base!Flow!NumberOfEntries, Policy!Base!Flow!Null,
           Proved!Base!Flow!Null, Policy!Base!Flow!Content, Proved!Base!Flow!Content,
           Policy!Base!Flow!Dispatch, Proved!Base!Flow!Dispatch, Policy!Min, Proved!Min,
           Policy!Max, Proved!Max
<1>3. ASSUME NEW t PROVE Policy!Process(t) <=> Proved!Process(t)
  <2>1. /\ Policy!Base!CheckDone(t) <=> Proved!Base!CheckDone(t)
        /\ Policy!Base!PollMessage(t) <=> Proved!Base!PollMessage(t)
        /\ Policy!Base!PollEmpty(t) <=> Proved!Base!PollEmpty(t)
        /\ Policy!Base!BatchEnd(t) <=> Proved!Base!BatchEnd(t)
      BY DEF Policy!Base!CheckDone, Proved!Base!CheckDone, Policy!Base!PollMessage,
             Proved!Base!PollMessage, Policy!Base!PollEmpty, Proved!Base!PollEmpty,
             Policy!Base!BatchEnd, Proved!Base!BatchEnd, Policy!Base!Goto,
             Proved!Base!Goto, Policy!Base!flowVars, Proved!Base!flowVars,
             Policy!Base!Flow!TryPop, Proved!Base!Flow!TryPop, Policy!Base!Polled,
             Proved!Base!Polled, Policy!Base!Flow!Idle, Proved!Base!Flow!Idle,
             Policy!Base!Flow!NumberOfEntries, Proved!Base!Flow!NumberOfEntries,
             Policy!Base!Flow!Null, Proved!Base!Flow!Null
  <2>2. /\ Policy!Base!Work(t) <=> Proved!Base!Work(t)
        /\ Policy!Base!Processed(t) <=> Proved!Base!Processed(t)
        /\ Policy!Base!Fail(t) <=> Proved!Base!Fail(t)
      BY DEF Policy!Base!Work, Proved!Base!Work, Policy!Base!Processed,
             Proved!Base!Processed, Policy!Base!Fail, Proved!Base!Fail,
             Policy!Base!schedulerVars, Proved!Base!schedulerVars, Policy!Base!Threads,
             Proved!Base!Threads, Policy!Base!Goto, Proved!Base!Goto,
             Policy!Base!Polled, Proved!Base!Polled, Policy!Base!Flow!Send,
             Proved!Base!Flow!Send, Policy!Base!Flow!Release, Proved!Base!Flow!Release,
             Policy!Base!Flow!Throw, Proved!Base!Flow!Throw, Policy!numberOfThreads,
             Proved!numberOfThreads, Policy!Base!Flow!Idle, Proved!Base!Flow!Idle,
             Policy!Base!Flow!NumberOfEntries, Proved!Base!Flow!NumberOfEntries,
             Policy!Base!Flow!Null, Proved!Base!Flow!Null, Policy!Base!Flow!Retain,
             Proved!Base!Flow!Retain, Policy!Base!Flow!Copy, Proved!Base!Flow!Copy,
             Policy!Base!Flow!Push, Proved!Base!Flow!Push, Policy!Base!Flow!DropRef,
             Proved!Base!Flow!DropRef, Policy!Base!Flow!Allocated,
             Proved!Base!Flow!Allocated, Policy!Base!Flow!Dispatching,
             Proved!Base!Flow!Dispatching, Policy!Base!Flow!AddRef,
             Proved!Base!Flow!AddRef, Policy!Min, Proved!Min, Policy!Max, Proved!Max
  <2> QED
      BY <2>1, <2>2
      DEF Policy!Process, Proved!Process, Policy!Base!Process, Proved!Base!Process,
          Policy!assignmentVars, Proved!assignmentVars
<1>4. ASSUME NEW t PROVE  /\ Policy!Vacate(t) <=> Proved!Vacate(t)
                          /\ Policy!Vacated(t) <=> Proved!Vacated(t)
                          /\ \A s : Policy!Try(t, s) <=> Proved!Try(t, s)
                          /\ Policy!Swap(t) <=> Proved!Swap(t)
                          /\ Policy!Accept(t) <=> Proved!Accept(t)
    BY DEF Policy!Vacate, Proved!Vacate, Policy!Vacated, Proved!Vacated, Policy!Try,
           Proved!Try, Policy!Swap, Proved!Swap, Policy!Accept, Proved!Accept,
           Policy!Assignments!NumberOfEntries, Proved!Assignments!NumberOfEntries,
           Policy!Assignments!Outside, Proved!Assignments!Outside, Policy!Base!flowVars,
           Proved!Base!flowVars, Policy!Assignments!RemoveBegin,
           Proved!Assignments!RemoveBegin, Policy!baseVars, Proved!baseVars,
           Policy!Assignments!RemoveEnd, Proved!Assignments!RemoveEnd,
           Policy!Assignments!Assigned, Proved!Assignments!Assigned,
           Policy!Assignments!TryRefused, Proved!Assignments!TryRefused,
           Policy!Assignments!TryLoad, Proved!Assignments!TryLoad,
           Policy!Assignments!Swap, Proved!Assignments!Swap,
           Policy!Assignments!SwapFails, Proved!Assignments!SwapFails,
           Policy!Assignments!Assign, Proved!Assignments!Assign, Policy!Base!Visit,
           Proved!Base!Visit, Policy!Assignments!HasRoom, Proved!Assignments!HasRoom,
           Policy!Assignments!vars, Proved!Assignments!vars,
           Policy!Assignments!Unchanged, Proved!Assignments!Unchanged
<1>5. Policy!Surroundings <=> Proved!Surroundings
    BY DEF Policy!Surroundings, Proved!Surroundings, Policy!Base!Owner,
           Proved!Base!Owner, Policy!Base!Produce, Proved!Base!Produce,
           Policy!assignmentVars, Proved!assignmentVars, Policy!Base!Launch,
           Proved!Base!Launch, Policy!Base!Stop, Proved!Base!Stop, Policy!Base!Join,
           Proved!Base!Join, Policy!Base!Flow!Produce, Proved!Base!Flow!Produce,
           Policy!Base!schedulerVars, Proved!Base!schedulerVars, Policy!Base!Threads,
           Proved!Base!Threads, Policy!Base!Goto, Proved!Base!Goto,
           Policy!Base!flowVars, Proved!Base!flowVars, Policy!Base!Flow!Send,
           Proved!Base!Flow!Send, Policy!Base!Flow!Release, Proved!Base!Flow!Release,
           Policy!numberOfThreads, Proved!numberOfThreads, Policy!Base!Flow!Idle,
           Proved!Base!Flow!Idle, Policy!Base!Flow!Create, Proved!Base!Flow!Create,
           Policy!Base!Flow!NumberOfEntries, Proved!Base!Flow!NumberOfEntries,
           Policy!Base!Flow!Null, Proved!Base!Flow!Null, Policy!Base!Flow!Retain,
           Proved!Base!Flow!Retain, Policy!Base!Flow!Copy, Proved!Base!Flow!Copy,
           Policy!Base!Flow!Push, Proved!Base!Flow!Push, Policy!Base!Flow!DropRef,
           Proved!Base!Flow!DropRef, Policy!Base!Flow!Allocated,
           Proved!Base!Flow!Allocated, Policy!Base!Flow!Dispatching,
           Proved!Base!Flow!Dispatching, Policy!Base!Flow!AddRef,
           Proved!Base!Flow!AddRef, Policy!Min, Proved!Min, Policy!Max, Proved!Max
<1>6. Policy!Next <=> Proved!Next
    BY <1>3, <1>4, <1>5
    DEF Policy!Next, Proved!Next, Policy!NextStage, Proved!NextStage,
        Policy!Threads, Proved!Threads, Policy!Base!Flow!Stage, Proved!Base!Flow!Stage,
        Policy!Stage, Proved!Stage, Policy!Base!Threads, Proved!Base!Threads,
        Policy!numberOfThreads, Proved!numberOfThreads, Policy!Base!Stage,
        Proved!Base!Stage, Policy!Min, Proved!Min, Policy!Max, Proved!Max
<1>7. /\ Policy!FunctorConcurrency <=> Proved!FunctorConcurrency
      /\ Policy!Base!Flow!RefCountExact <=> Proved!Base!Flow!RefCountExact
      /\ Policy!Base!Flow!NothingLost <=> Proved!Base!Flow!NothingLost
    BY DEF Policy!Base!Flow!RefCountExact, Proved!Base!Flow!RefCountExact,
           Policy!Base!Flow!Cardinality, Proved!Base!Flow!Cardinality,
           Policy!Base!Flow!NothingLost, Proved!Base!Flow!NothingLost,
           Policy!Base!Flow!ToSet, Proved!Base!Flow!ToSet, Policy!FunctorConcurrency,
           Proved!FunctorConcurrency, Policy!Cardinality, Proved!Cardinality,
           Policy!Threads, Proved!Threads, Policy!Base!Flow!Message,
           Proved!Base!Flow!Message, Policy!Base!Flow!QueueSlots,
           Proved!Base!Flow!QueueSlots, Policy!Base!Flow!Owners,
           Proved!Base!Flow!Owners, Policy!Base!Flow!Carriers,
           Proved!Base!Flow!Carriers, Policy!Base!Flow!AtRest, Proved!Base!Flow!AtRest,
           Policy!Base!Flow!Stage, Proved!Base!Flow!Stage, Policy!Stage, Proved!Stage,
           Policy!Processing, Proved!Processing, Policy!Base!Threads,
           Proved!Base!Threads, Policy!numberOfThreads, Proved!numberOfThreads,
           Policy!Base!Stage, Proved!Base!Stage, Policy!Base!Flow!Actor,
           Proved!Base!Flow!Actor, Policy!Base!Flow!Idle, Proved!Base!Flow!Idle,
           Policy!Base!Flow!NumberOfEntries, Proved!Base!Flow!NumberOfEntries,
           Policy!Base!Flow!Null, Proved!Base!Flow!Null, Policy!Min, Proved!Min,
           Policy!Max, Proved!Max
<1> QED
    BY <1>1, <1>2, <1>3, <1>4, <1>5, <1>6, <1>7

LEMMA SameRoundRobin ==
    /\ RoundRobin!Policy!Init <=> Proved!Init
    /\ RoundRobin!Policy!TypeOK <=> Proved!TypeOK
    /\ \A t : /\ RoundRobin!Policy!Process(t) <=> Proved!Process(t)
              /\ RoundRobin!Policy!Vacate(t) <=> Proved!Vacate(t)
              /\ RoundRobin!Policy!Vacated(t) <=> Proved!Vacated(t)
              /\ \A s : RoundRobin!Policy!Try(t, s) <=> Proved!Try(t, s)
              /\ RoundRobin!Policy!Swap(t) <=> Proved!Swap(t)
              /\ RoundRobin!Policy!Accept(t) <=> Proved!Accept(t)
<1>1. RoundRobin!Policy!Init <=> Proved!Init
    BY DEF RoundRobin!Policy!Init, Proved!Init, RoundRobin!Policy!Base!Init,
           Proved!Base!Init, RoundRobin!Policy!Assignments!Init,
           Proved!Assignments!Init, RoundRobin!Policy!Base!Flow!Init,
           Proved!Base!Flow!Init, RoundRobin!Policy!Base!Threads, Proved!Base!Threads,
           RoundRobin!Policy!Base!NumberOfEntries, Proved!Base!NumberOfEntries,
           RoundRobin!Policy!Assignments!NumberOfEntries,
           Proved!Assignments!NumberOfEntries, RoundRobin!Policy!Assignments!Stage,
           Proved!Assignments!Stage, RoundRobin!Policy!Assignments!Outside,
           Proved!Assignments!Outside, RoundRobin!Policy!numberOfThreads,
           Proved!numberOfThreads, RoundRobin!Policy!Base!Flow!Stage,
           Proved!Base!Flow!Stage, RoundRobin!Policy!Base!Flow!Actor,
           Proved!Base!Flow!Actor, RoundRobin!Policy!Base!Flow!Idle,
           Proved!Base!Flow!Idle, RoundRobin!Policy!Base!Flow!NumberOfEntries,
           Proved!Base!Flow!NumberOfEntries, RoundRobin!Policy!Base!Flow!Null,
           Proved!Base!Flow!Null, RoundRobin!Policy!Min, Proved!Min,
           RoundRobin!Policy!Max, Proved!Max
<1>2. RoundRobin!Policy!TypeOK <=> Proved!TypeOK
    BY DEF RoundRobin!Policy!TypeOK, Proved!TypeOK, RoundRobin!Policy!Base!TypeOK,
           Proved!Base!TypeOK, RoundRobin!Policy!Assignments!TypeOK,
           Proved!Assignments!TypeOK, RoundRobin!Policy!Base!Threads,
           Proved!Base!Threads, RoundRobin!Policy!Base!NumberOfEntries,
           Proved!Base!NumberOfEntries, RoundRobin!Policy!Assignments!NumberOfEntries,
           Proved!Assignments!NumberOfEntries, RoundRobin!Policy!Assignments!Stage,
           Proved!Assignments!Stage, RoundRobin!Policy!numberOfThreads,
           Proved!numberOfThreads, RoundRobin!Policy!Base!Flow!TypeOK,
           Proved!Base!Flow!TypeOK, RoundRobin!Policy!Base!ThreadState,
           Proved!Base!ThreadState, RoundRobin!Policy!Base!Stage, Proved!Base!Stage,
           RoundRobin!Policy!Assignments!Call, Proved!Assignments!Call,
           RoundRobin!Policy!Base!Flow!Stage, Proved!Base!Flow!Stage,
           RoundRobin!Policy!Base!Flow!Actor, Proved!Base!Flow!Actor,
           RoundRobin!Policy!Base!Flow!NumberOfEntries,
           Proved!Base!Flow!NumberOfEntries, RoundRobin!Policy!Base!Flow!Message,
           Proved!Base!Flow!Message, RoundRobin!Policy!Base!Flow!Content,
           Proved!Base!Flow!Content, RoundRobin!Policy!Base!Flow!ToSet,
           Proved!Base!Flow!ToSet, RoundRobin!Policy!Base!Flow!Null,
           Proved!Base!Flow!Null, RoundRobin!Policy!Base!Flow!Dispatch,
           Proved!Base!Flow!Dispatch, RoundRobin!Policy!Min, Proved!Min,
           RoundRobin!Policy!Max, Proved!Max
<1>3. ASSUME NEW t PROVE RoundRobin!Policy!Process(t) <=> Proved!Process(t)
  <2>1. /\ RoundRobin!Policy!Base!CheckDone(t) <=> Proved!Base!CheckDone(t)
        /\ RoundRobin!Policy!Base!PollMessage(t) <=> Proved!Base!PollMessage(t)
        /\ RoundRobin!Policy!Base!PollEmpty(t) <=> Proved!Base!PollEmpty(t)
        /\ RoundRobin!Policy!Base!BatchEnd(t) <=> Proved!Base!BatchEnd(t)
      BY DEF RoundRobin!Policy!Base!CheckDone, Proved!Base!CheckDone,
             RoundRobin!Policy!Base!PollMessage, Proved!Base!PollMessage,
             RoundRobin!Policy!Base!PollEmpty, Proved!Base!PollEmpty,
             RoundRobin!Policy!Base!BatchEnd, Proved!Base!BatchEnd,
             RoundRobin!Policy!Base!flowVars, Proved!Base!flowVars,
             RoundRobin!Policy!Base!Flow!Idle, Proved!Base!Flow!Idle,
             RoundRobin!Policy!Base!Flow!NumberOfEntries,
             Proved!Base!Flow!NumberOfEntries, RoundRobin!Policy!Base!Goto,
             Proved!Base!Goto, RoundRobin!Policy!Base!Flow!TryPop,
             Proved!Base!Flow!TryPop, RoundRobin!Policy!Base!Polled, Proved!Base!Polled,
             RoundRobin!Policy!Base!Flow!Null, Proved!Base!Flow!Null
  <2>2. /\ RoundRobin!Policy!Base!Work(t) <=> Proved!Base!Work(t)
        /\ RoundRobin!Policy!Base!Processed(t) <=> Proved!Base!Processed(t)
        /\ RoundRobin!Policy!Base!Fail(t) <=> Proved!Base!Fail(t)
      BY DEF RoundRobin!Policy!Base!Threads, Proved!Base!Threads,
             RoundRobin!Policy!Base!Work, Proved!Base!Work,
             RoundRobin!Policy!Base!Processed, Proved!Base!Processed,
             RoundRobin!Policy!Base!Fail, Proved!Base!Fail,
             RoundRobin!Policy!numberOfThreads, Proved!numberOfThreads,
             RoundRobin!Policy!Base!Flow!Idle, Proved!Base!Flow!Idle,
             RoundRobin!Policy!Base!Flow!NumberOfEntries,
             Proved!Base!Flow!NumberOfEntries, RoundRobin!Policy!Base!Goto,
             Proved!Base!Goto, RoundRobin!Policy!Base!Polled, Proved!Base!Polled,
             RoundRobin!Policy!Base!Flow!Send, Proved!Base!Flow!Send,
             RoundRobin!Policy!Base!schedulerVars, Proved!Base!schedulerVars,
             RoundRobin!Policy!Base!Flow!Release, Proved!Base!Flow!Release,
             RoundRobin!Policy!Base!Flow!Throw, Proved!Base!Flow!Throw,
             RoundRobin!Policy!Base!Flow!Null, Proved!Base!Flow!Null,
             RoundRobin!Policy!Base!Flow!Retain, Proved!Base!Flow!Retain,
             RoundRobin!Policy!Base!Flow!Copy, Proved!Base!Flow!Copy,
             RoundRobin!Policy!Base!Flow!Push, Proved!Base!Flow!Push,
             RoundRobin!Policy!Base!Flow!DropRef, Proved!Base!Flow!DropRef,
             RoundRobin!Policy!Base!Flow!Dispatching, Proved!Base!Flow!Dispatching,
             RoundRobin!Policy!Base!Flow!AddRef, Proved!Base!Flow!AddRef,
             RoundRobin!Policy!Base!Flow!Allocated, Proved!Base!Flow!Allocated,
             RoundRobin!Policy!Min, Proved!Min, RoundRobin!Policy!Max, Proved!Max
  <2> QED
      BY <2>1, <2>2
      DEF RoundRobin!Policy!Process, Proved!Process, RoundRobin!Policy!Base!Process,
          Proved!Base!Process, RoundRobin!Policy!assignmentVars, Proved!assignmentVars
<1>4. ASSUME NEW t PROVE  /\ RoundRobin!Policy!Vacate(t) <=> Proved!Vacate(t)
                          /\ RoundRobin!Policy!Vacated(t) <=> Proved!Vacated(t)
                          /\ \A s : RoundRobin!Policy!Try(t, s) <=> Proved!Try(t, s)
                          /\ RoundRobin!Policy!Swap(t) <=> Proved!Swap(t)
                          /\ RoundRobin!Policy!Accept(t) <=> Proved!Accept(t)
    BY DEF RoundRobin!Policy!Vacate, Proved!Vacate, RoundRobin!Policy!Vacated,
           Proved!Vacated, RoundRobin!Policy!Try, Proved!Try, RoundRobin!Policy!Swap,
           Proved!Swap, RoundRobin!Policy!Accept, Proved!Accept,
           RoundRobin!Policy!Assignments!RemoveBegin, Proved!Assignments!RemoveBegin,
           RoundRobin!Policy!baseVars, Proved!baseVars,
           RoundRobin!Policy!Assignments!RemoveEnd, Proved!Assignments!RemoveEnd,
           RoundRobin!Policy!Assignments!Assigned, Proved!Assignments!Assigned,
           RoundRobin!Policy!Assignments!TryRefused, Proved!Assignments!TryRefused,
           RoundRobin!Policy!Assignments!TryLoad, Proved!Assignments!TryLoad,
           RoundRobin!Policy!Assignments!Swap, Proved!Assignments!Swap,
           RoundRobin!Policy!Assignments!SwapFails, Proved!Assignments!SwapFails,
           RoundRobin!Policy!Assignments!Assign, Proved!Assignments!Assign,
           RoundRobin!Policy!Base!Visit, Proved!Base!Visit,
           RoundRobin!Policy!Assignments!NumberOfEntries,
           Proved!Assignments!NumberOfEntries, RoundRobin!Policy!Assignments!Outside,
           Proved!Assignments!Outside, RoundRobin!Policy!Assignments!HasRoom,
           Proved!Assignments!HasRoom, RoundRobin!Policy!Assignments!vars,
           Proved!Assignments!vars, RoundRobin!Policy!Assignments!Unchanged,
           Proved!Assignments!Unchanged, RoundRobin!Policy!Base!flowVars,
           Proved!Base!flowVars
<1> QED
    BY <1>1, <1>2, <1>3, <1>4

LEMMA SameSRPT ==
    /\ SRPT!Policy!Init <=> Proved!Init
    /\ SRPT!Policy!TypeOK <=> Proved!TypeOK
    /\ \A t : /\ SRPT!Policy!Process(t) <=> Proved!Process(t)
              /\ SRPT!Policy!Vacate(t) <=> Proved!Vacate(t)
              /\ SRPT!Policy!Vacated(t) <=> Proved!Vacated(t)
              /\ \A s : SRPT!Policy!Try(t, s) <=> Proved!Try(t, s)
              /\ SRPT!Policy!Swap(t) <=> Proved!Swap(t)
              /\ SRPT!Policy!Accept(t) <=> Proved!Accept(t)
<1>1. SRPT!Policy!Init <=> Proved!Init
    BY DEF SRPT!Policy!Init, Proved!Init, SRPT!Policy!Base!Init, Proved!Base!Init,
           SRPT!Policy!Assignments!Init, Proved!Assignments!Init,
           SRPT!Policy!Base!Flow!Init, Proved!Base!Flow!Init, SRPT!Policy!Base!Threads,
           Proved!Base!Threads, SRPT!Policy!Base!NumberOfEntries,
           Proved!Base!NumberOfEntries, SRPT!Policy!Assignments!NumberOfEntries,
           Proved!Assignments!NumberOfEntries, SRPT!Policy!Assignments!Stage,
           Proved!Assignments!Stage, SRPT!Policy!Assignments!Outside,
           Proved!Assignments!Outside, SRPT!Policy!numberOfThreads,
           Proved!numberOfThreads, SRPT!Policy!Base!Flow!Stage, Proved!Base!Flow!Stage,
           SRPT!Policy!Base!Flow!Actor, Proved!Base!Flow!Actor,
           SRPT!Policy!Base!Flow!Idle, Proved!Base!Flow!Idle,
           SRPT!Policy!Base!Flow!NumberOfEntries, Proved!Base!Flow!NumberOfEntries,
           SRPT!Policy!Base!Flow!Null, Proved!Base!Flow!Null, SRPT!Policy!Min,
           Proved!Min, SRPT!Policy!Max, Proved!Max
<1>2. SRPT!Policy!TypeOK <=> Proved!TypeOK
    BY DEF SRPT!Policy!TypeOK, Proved!TypeOK, SRPT!Policy!Base!TypeOK,
           Proved!Base!TypeOK, SRPT!Policy!Assignments!TypeOK,
           Proved!Assignments!TypeOK, SRPT!Policy!Base!Threads, Proved!Base!Threads,
           SRPT!Policy!Base!NumberOfEntries, Proved!Base!NumberOfEntries,
           SRPT!Policy!Assignments!NumberOfEntries, Proved!Assignments!NumberOfEntries,
           SRPT!Policy!Assignments!Stage, Proved!Assignments!Stage,
           SRPT!Policy!numberOfThreads, Proved!numberOfThreads,
           SRPT!Policy!Base!Flow!TypeOK, Proved!Base!Flow!TypeOK,
           SRPT!Policy!Base!ThreadState, Proved!Base!ThreadState,
           SRPT!Policy!Base!Stage, Proved!Base!Stage, SRPT!Policy!Assignments!Call,
           Proved!Assignments!Call, SRPT!Policy!Base!Flow!Stage, Proved!Base!Flow!Stage,
           SRPT!Policy!Base!Flow!Actor, Proved!Base!Flow!Actor,
           SRPT!Policy!Base!Flow!NumberOfEntries, Proved!Base!Flow!NumberOfEntries,
           SRPT!Policy!Base!Flow!Message, Proved!Base!Flow!Message,
           SRPT!Policy!Base!Flow!Content, Proved!Base!Flow!Content,
           SRPT!Policy!Base!Flow!ToSet, Proved!Base!Flow!ToSet,
           SRPT!Policy!Base!Flow!Null, Proved!Base!Flow!Null,
           SRPT!Policy!Base!Flow!Dispatch, Proved!Base!Flow!Dispatch, SRPT!Policy!Min,
           Proved!Min, SRPT!Policy!Max, Proved!Max
<1>3. ASSUME NEW t PROVE SRPT!Policy!Process(t) <=> Proved!Process(t)
  <2>1. /\ SRPT!Policy!Base!CheckDone(t) <=> Proved!Base!CheckDone(t)
        /\ SRPT!Policy!Base!PollMessage(t) <=> Proved!Base!PollMessage(t)
        /\ SRPT!Policy!Base!PollEmpty(t) <=> Proved!Base!PollEmpty(t)
        /\ SRPT!Policy!Base!BatchEnd(t) <=> Proved!Base!BatchEnd(t)
      BY DEF SRPT!Policy!Base!CheckDone, Proved!Base!CheckDone,
             SRPT!Policy!Base!PollMessage, Proved!Base!PollMessage,
             SRPT!Policy!Base!PollEmpty, Proved!Base!PollEmpty,
             SRPT!Policy!Base!BatchEnd, Proved!Base!BatchEnd, SRPT!Policy!Base!flowVars,
             Proved!Base!flowVars, SRPT!Policy!Base!Flow!Idle, Proved!Base!Flow!Idle,
             SRPT!Policy!Base!Flow!NumberOfEntries, Proved!Base!Flow!NumberOfEntries,
             SRPT!Policy!Base!Goto, Proved!Base!Goto, SRPT!Policy!Base!Flow!TryPop,
             Proved!Base!Flow!TryPop, SRPT!Policy!Base!Polled, Proved!Base!Polled,
             SRPT!Policy!Base!Flow!Null, Proved!Base!Flow!Null
  <2>2. /\ SRPT!Policy!Base!Work(t) <=> Proved!Base!Work(t)
        /\ SRPT!Policy!Base!Processed(t) <=> Proved!Base!Processed(t)
        /\ SRPT!Policy!Base!Fail(t) <=> Proved!Base!Fail(t)
      BY DEF SRPT!Policy!Base!Threads, Proved!Base!Threads, SRPT!Policy!Base!Work,
             Proved!Base!Work, SRPT!Policy!Base!Processed, Proved!Base!Processed,
             SRPT!Policy!Base!Fail, Proved!Base!Fail, SRPT!Policy!numberOfThreads,
             Proved!numberOfThreads, SRPT!Policy!Base!Flow!Idle, Proved!Base!Flow!Idle,
             SRPT!Policy!Base!Flow!NumberOfEntries, Proved!Base!Flow!NumberOfEntries,
             SRPT!Policy!Base!Goto, Proved!Base!Goto, SRPT!Policy!Base!Polled,
             Proved!Base!Polled, SRPT!Policy!Base!Flow!Send, Proved!Base!Flow!Send,
             SRPT!Policy!Base!schedulerVars, Proved!Base!schedulerVars,
             SRPT!Policy!Base!Flow!Release, Proved!Base!Flow!Release,
             SRPT!Policy!Base!Flow!Throw, Proved!Base!Flow!Throw,
             SRPT!Policy!Base!Flow!Null, Proved!Base!Flow!Null,
             SRPT!Policy!Base!Flow!Retain, Proved!Base!Flow!Retain,
             SRPT!Policy!Base!Flow!Copy, Proved!Base!Flow!Copy,
             SRPT!Policy!Base!Flow!Push, Proved!Base!Flow!Push,
             SRPT!Policy!Base!Flow!DropRef, Proved!Base!Flow!DropRef,
             SRPT!Policy!Base!Flow!Dispatching, Proved!Base!Flow!Dispatching,
             SRPT!Policy!Base!Flow!AddRef, Proved!Base!Flow!AddRef,
             SRPT!Policy!Base!Flow!Allocated, Proved!Base!Flow!Allocated,
             SRPT!Policy!Min, Proved!Min, SRPT!Policy!Max, Proved!Max
  <2> QED
      BY <2>1, <2>2
      DEF SRPT!Policy!Process, Proved!Process, SRPT!Policy!Base!Process,
          Proved!Base!Process, SRPT!Policy!assignmentVars, Proved!assignmentVars
<1>4. ASSUME NEW t PROVE  /\ SRPT!Policy!Vacate(t) <=> Proved!Vacate(t)
                          /\ SRPT!Policy!Vacated(t) <=> Proved!Vacated(t)
                          /\ \A s : SRPT!Policy!Try(t, s) <=> Proved!Try(t, s)
                          /\ SRPT!Policy!Swap(t) <=> Proved!Swap(t)
                          /\ SRPT!Policy!Accept(t) <=> Proved!Accept(t)
    BY DEF SRPT!Policy!Vacate, Proved!Vacate, SRPT!Policy!Vacated, Proved!Vacated,
           SRPT!Policy!Try, Proved!Try, SRPT!Policy!Swap, Proved!Swap,
           SRPT!Policy!Accept, Proved!Accept, SRPT!Policy!Assignments!RemoveBegin,
           Proved!Assignments!RemoveBegin, SRPT!Policy!baseVars, Proved!baseVars,
           SRPT!Policy!Assignments!RemoveEnd, Proved!Assignments!RemoveEnd,
           SRPT!Policy!Assignments!Assigned, Proved!Assignments!Assigned,
           SRPT!Policy!Assignments!TryRefused, Proved!Assignments!TryRefused,
           SRPT!Policy!Assignments!TryLoad, Proved!Assignments!TryLoad,
           SRPT!Policy!Assignments!Swap, Proved!Assignments!Swap,
           SRPT!Policy!Assignments!SwapFails, Proved!Assignments!SwapFails,
           SRPT!Policy!Assignments!Assign, Proved!Assignments!Assign,
           SRPT!Policy!Base!Visit, Proved!Base!Visit,
           SRPT!Policy!Assignments!NumberOfEntries, Proved!Assignments!NumberOfEntries,
           SRPT!Policy!Assignments!Outside, Proved!Assignments!Outside,
           SRPT!Policy!Assignments!HasRoom, Proved!Assignments!HasRoom,
           SRPT!Policy!Assignments!vars, Proved!Assignments!vars,
           SRPT!Policy!Assignments!Unchanged, Proved!Assignments!Unchanged,
           SRPT!Policy!Base!flowVars, Proved!Base!flowVars
<1> QED
    BY <1>1, <1>2, <1>3, <1>4

LEMMA SameRandomVisit ==
    /\ RandomVisit!Policy!Init <=> Proved!Init
    /\ RandomVisit!Policy!TypeOK <=> Proved!TypeOK
    /\ \A t : /\ RandomVisit!Policy!Process(t) <=> Proved!Process(t)
              /\ RandomVisit!Policy!Vacate(t) <=> Proved!Vacate(t)
              /\ RandomVisit!Policy!Vacated(t) <=> Proved!Vacated(t)
              /\ \A s : RandomVisit!Policy!Try(t, s) <=> Proved!Try(t, s)
              /\ RandomVisit!Policy!Swap(t) <=> Proved!Swap(t)
              /\ RandomVisit!Policy!Accept(t) <=> Proved!Accept(t)
<1>1. RandomVisit!Policy!Init <=> Proved!Init
    BY DEF RandomVisit!Policy!Init, Proved!Init, RandomVisit!Policy!Base!Init,
           Proved!Base!Init, RandomVisit!Policy!Assignments!Init,
           Proved!Assignments!Init, RandomVisit!Policy!Base!Flow!Init,
           Proved!Base!Flow!Init, RandomVisit!Policy!Base!Threads, Proved!Base!Threads,
           RandomVisit!Policy!Base!NumberOfEntries, Proved!Base!NumberOfEntries,
           RandomVisit!Policy!Assignments!NumberOfEntries,
           Proved!Assignments!NumberOfEntries, RandomVisit!Policy!Assignments!Stage,
           Proved!Assignments!Stage, RandomVisit!Policy!Assignments!Outside,
           Proved!Assignments!Outside, RandomVisit!Policy!numberOfThreads,
           Proved!numberOfThreads, RandomVisit!Policy!Base!Flow!Stage,
           Proved!Base!Flow!Stage, RandomVisit!Policy!Base!Flow!Actor,
           Proved!Base!Flow!Actor, RandomVisit!Policy!Base!Flow!Idle,
           Proved!Base!Flow!Idle, RandomVisit!Policy!Base!Flow!NumberOfEntries,
           Proved!Base!Flow!NumberOfEntries, RandomVisit!Policy!Base!Flow!Null,
           Proved!Base!Flow!Null, RandomVisit!Policy!Min, Proved!Min,
           RandomVisit!Policy!Max, Proved!Max
<1>2. RandomVisit!Policy!TypeOK <=> Proved!TypeOK
    BY DEF RandomVisit!Policy!TypeOK, Proved!TypeOK, RandomVisit!Policy!Base!TypeOK,
           Proved!Base!TypeOK, RandomVisit!Policy!Assignments!TypeOK,
           Proved!Assignments!TypeOK, RandomVisit!Policy!Base!Threads,
           Proved!Base!Threads, RandomVisit!Policy!Base!NumberOfEntries,
           Proved!Base!NumberOfEntries, RandomVisit!Policy!Assignments!NumberOfEntries,
           Proved!Assignments!NumberOfEntries, RandomVisit!Policy!Assignments!Stage,
           Proved!Assignments!Stage, RandomVisit!Policy!numberOfThreads,
           Proved!numberOfThreads, RandomVisit!Policy!Base!Flow!TypeOK,
           Proved!Base!Flow!TypeOK, RandomVisit!Policy!Base!ThreadState,
           Proved!Base!ThreadState, RandomVisit!Policy!Base!Stage, Proved!Base!Stage,
           RandomVisit!Policy!Assignments!Call, Proved!Assignments!Call,
           RandomVisit!Policy!Base!Flow!Stage, Proved!Base!Flow!Stage,
           RandomVisit!Policy!Base!Flow!Actor, Proved!Base!Flow!Actor,
           RandomVisit!Policy!Base!Flow!NumberOfEntries,
           Proved!Base!Flow!NumberOfEntries, RandomVisit!Policy!Base!Flow!Message,
           Proved!Base!Flow!Message, RandomVisit!Policy!Base!Flow!Content,
           Proved!Base!Flow!Content, RandomVisit!Policy!Base!Flow!ToSet,
           Proved!Base!Flow!ToSet, RandomVisit!Policy!Base!Flow!Null,
           Proved!Base!Flow!Null, RandomVisit!Policy!Base!Flow!Dispatch,
           Proved!Base!Flow!Dispatch, RandomVisit!Policy!Min, Proved!Min,
           RandomVisit!Policy!Max, Proved!Max
<1>3. ASSUME NEW t PROVE RandomVisit!Policy!Process(t) <=> Proved!Process(t)
  <2>1. /\ RandomVisit!Policy!Base!CheckDone(t) <=> Proved!Base!CheckDone(t)
        /\ RandomVisit!Policy!Base!PollMessage(t) <=> Proved!Base!PollMessage(t)
        /\ RandomVisit!Policy!Base!PollEmpty(t) <=> Proved!Base!PollEmpty(t)
        /\ RandomVisit!Policy!Base!BatchEnd(t) <=> Proved!Base!BatchEnd(t)
      BY DEF RandomVisit!Policy!Base!CheckDone, Proved!Base!CheckDone,
             RandomVisit!Policy!Base!PollMessage, Proved!Base!PollMessage,
             RandomVisit!Policy!Base!PollEmpty, Proved!Base!PollEmpty,
             RandomVisit!Policy!Base!BatchEnd, Proved!Base!BatchEnd,
             RandomVisit!Policy!Base!flowVars, Proved!Base!flowVars,
             RandomVisit!Policy!Base!Flow!Idle, Proved!Base!Flow!Idle,
             RandomVisit!Policy!Base!Flow!NumberOfEntries,
             Proved!Base!Flow!NumberOfEntries, RandomVisit!Policy!Base!Goto,
             Proved!Base!Goto, RandomVisit!Policy!Base!Flow!TryPop,
             Proved!Base!Flow!TryPop, RandomVisit!Policy!Base!Polled,
             Proved!Base!Polled, RandomVisit!Policy!Base!Flow!Null,
             Proved!Base!Flow!Null
  <2>2. /\ RandomVisit!Policy!Base!Work(t) <=> Proved!Base!Work(t)
        /\ RandomVisit!Policy!Base!Processed(t) <=> Proved!Base!Processed(t)
        /\ RandomVisit!Policy!Base!Fail(t) <=> Proved!Base!Fail(t)
      BY DEF RandomVisit!Policy!Base!Threads, Proved!Base!Threads,
             RandomVisit!Policy!Base!Work, Proved!Base!Work,
             RandomVisit!Policy!Base!Processed, Proved!Base!Processed,
             RandomVisit!Policy!Base!Fail, Proved!Base!Fail,
             RandomVisit!Policy!numberOfThreads, Proved!numberOfThreads,
             RandomVisit!Policy!Base!Flow!Idle, Proved!Base!Flow!Idle,
             RandomVisit!Policy!Base!Flow!NumberOfEntries,
             Proved!Base!Flow!NumberOfEntries, RandomVisit!Policy!Base!Goto,
             Proved!Base!Goto, RandomVisit!Policy!Base!Polled, Proved!Base!Polled,
             RandomVisit!Policy!Base!Flow!Send, Proved!Base!Flow!Send,
             RandomVisit!Policy!Base!schedulerVars, Proved!Base!schedulerVars,
             RandomVisit!Policy!Base!Flow!Release, Proved!Base!Flow!Release,
             RandomVisit!Policy!Base!Flow!Throw, Proved!Base!Flow!Throw,
             RandomVisit!Policy!Base!Flow!Null, Proved!Base!Flow!Null,
             RandomVisit!Policy!Base!Flow!Retain, Proved!Base!Flow!Retain,
             RandomVisit!Policy!Base!Flow!Copy, Proved!Base!Flow!Copy,
             RandomVisit!Policy!Base!Flow!Push, Proved!Base!Flow!Push,
             RandomVisit!Policy!Base!Flow!DropRef, Proved!Base!Flow!DropRef,
             RandomVisit!Policy!Base!Flow!Dispatching, Proved!Base!Flow!Dispatching,
             RandomVisit!Policy!Base!Flow!AddRef, Proved!Base!Flow!AddRef,
             RandomVisit!Policy!Base!Flow!Allocated, Proved!Base!Flow!Allocated,
             RandomVisit!Policy!Min, Proved!Min, RandomVisit!Policy!Max, Proved!Max
  <2> QED
      BY <2>1, <2>2
      DEF RandomVisit!Policy!Process, Proved!Process, RandomVisit!Policy!Base!Process,
          Proved!Base!Process, RandomVisit!Policy!assignmentVars, Proved!assignmentVars
<1>4. ASSUME NEW t PROVE  /\ RandomVisit!Policy!Vacate(t) <=> Proved!Vacate(t)
                          /\ RandomVisit!Policy!Vacated(t) <=> Proved!Vacated(t)
                          /\ \A s : RandomVisit!Policy!Try(t, s) <=> Proved!Try(t, s)
                          /\ RandomVisit!Policy!Swap(t) <=> Proved!Swap(t)
                          /\ RandomVisit!Policy!Accept(t) <=> Proved!Accept(t)
    BY DEF RandomVisit!Policy!Vacate, Proved!Vacate, RandomVisit!Policy!Vacated,
           Proved!Vacated, RandomVisit!Policy!Try, Proved!Try, RandomVisit!Policy!Swap,
           Proved!Swap, RandomVisit!Policy!Accept, Proved!Accept,
           RandomVisit!Policy!Assignments!RemoveBegin, Proved!Assignments!RemoveBegin,
           RandomVisit!Policy!baseVars, Proved!baseVars,
           RandomVisit!Policy!Assignments!RemoveEnd, Proved!Assignments!RemoveEnd,
           RandomVisit!Policy!Assignments!Assigned, Proved!Assignments!Assigned,
           RandomVisit!Policy!Assignments!TryRefused, Proved!Assignments!TryRefused,
           RandomVisit!Policy!Assignments!TryLoad, Proved!Assignments!TryLoad,
           RandomVisit!Policy!Assignments!Swap, Proved!Assignments!Swap,
           RandomVisit!Policy!Assignments!SwapFails, Proved!Assignments!SwapFails,
           RandomVisit!Policy!Assignments!Assign, Proved!Assignments!Assign,
           RandomVisit!Policy!Base!Visit, Proved!Base!Visit,
           RandomVisit!Policy!Assignments!NumberOfEntries,
           Proved!Assignments!NumberOfEntries, RandomVisit!Policy!Assignments!Outside,
           Proved!Assignments!Outside, RandomVisit!Policy!Assignments!HasRoom,
           Proved!Assignments!HasRoom, RandomVisit!Policy!Assignments!vars,
           Proved!Assignments!vars, RandomVisit!Policy!Assignments!Unchanged,
           Proved!Assignments!Unchanged, RandomVisit!Policy!Base!flowVars,
           Proved!Base!flowVars
<1> QED
    BY <1>1, <1>2, <1>3, <1>4

LEMMA SameThreads ==
    /\ Threads = Proved!Threads
    /\ Stage = Proved!Stage /\ Stage = 0 .. NumberOfStages - 1
    /\ Proved!NumberOfEntries = NumberOfStages
    /\ RoundRobin!Threads = Threads /\ RoundRobin!Stage = Stage
    /\ RoundRobin!NumberOfEntries = NumberOfStages
    /\ SRPT!Threads = Threads /\ SRPT!Stage = Stage /\ SRPT!NumberOfEntries = NumberOfStages
    /\ RandomVisit!Threads = Threads /\ RandomVisit!Stage = Stage
    /\ RandomVisit!NumberOfEntries = NumberOfStages
BY
DEF Threads, Policy!Threads, Proved!Threads, Stage, Policy!Stage, Proved!Stage,
    Proved!NumberOfEntries, Policy!Base!Threads, Proved!Base!Threads,
    Policy!Base!Stage, Proved!Base!Stage, Policy!Base!Flow!Stage, Proved!Base!Flow!Stage,
    Policy!numberOfThreads, Proved!numberOfThreads, Policy!Min, Proved!Min,
    Policy!Max, Proved!Max,
    RoundRobin!Threads, RoundRobin!Policy!Threads, RoundRobin!Stage, RoundRobin!Policy!Stage,
    RoundRobin!NumberOfEntries, RoundRobin!Policy!Base!Threads, RoundRobin!Policy!Base!Stage,
    RoundRobin!Policy!Base!Flow!Stage, RoundRobin!Policy!numberOfThreads,
    RoundRobin!Policy!Min, RoundRobin!Policy!Max,
    SRPT!Threads, SRPT!Policy!Threads, SRPT!Stage, SRPT!Policy!Stage,
    SRPT!NumberOfEntries, SRPT!Policy!Base!Threads, SRPT!Policy!Base!Stage,
    SRPT!Policy!Base!Flow!Stage, SRPT!Policy!numberOfThreads, SRPT!Policy!Min, SRPT!Policy!Max,
    RandomVisit!Threads, RandomVisit!Policy!Threads, RandomVisit!Stage, RandomVisit!Policy!Stage,
    RandomVisit!NumberOfEntries, RandomVisit!Policy!Base!Threads, RandomVisit!Policy!Base!Stage,
    RandomVisit!Policy!Base!Flow!Stage, RandomVisit!Policy!numberOfThreads,
    RandomVisit!Policy!Min, RandomVisit!Policy!Max

LEMMA ProvedAssumption == Proved!AssignmentPolicyAssumption
BY PoliciesAssumption, ZenonT(60)
DEF Policy!AssignmentPolicyAssumption, Proved!AssignmentPolicyAssumption,
    Policy!Base!Flow!Content, Proved!Base!Flow!Content,
    Policy!Base!Flow!ToSet, Proved!Base!Flow!ToSet,
    Policy!Base!Flow!Dispatch, Proved!Base!Flow!Dispatch,
    Policy!Stage, Proved!Stage, Policy!Threads, Proved!Threads,
    Policy!Base!Flow!Stage, Proved!Base!Flow!Stage,
    Policy!Base!Stage, Proved!Base!Stage,
    Policy!Base!Threads, Proved!Base!Threads,
    Policy!numberOfThreads, Proved!numberOfThreads, Policy!Min, Proved!Min,
    Policy!Max, Proved!Max

LEMMA Parameters ==
    /\ NumberOfStages \in Nat \ {0}
    /\ MaxConcurrency \in [Stage -> Nat]
    /\ Threads \subseteq 0 .. MaxNumberOfThreads - 1
    /\ NumberOfStages \notin Stage /\ 0 \in Stage /\ NumberOfStages - 1 \in Stage
    /\ TableSizeFactor \in Nat \ {0}
BY ProvedAssumption, PoliciesAssumption, SameThreads, Proved!ThreadsKnown
DEF Proved!AssignmentPolicyAssumption

(* Also of ThreadPerStage, whose threads are the stages.                   *)
LEMMA SameThreadPerStage ==
    ASSUME "ThreadPerStage" \in Chosen
    PROVE  /\ Threads = Stage
           /\ \A t : /\ ThreadPerStage!Base!Process(t) <=> Proved!Base!Process(t)
                     /\ \A s : ThreadPerStage!Base!Visit(t, s) <=> Proved!Base!Visit(t, s)
<1>1. Threads = Stage
    BY PoliciesAssumption
<1>2. ThreadPerStage!Base!Threads = Proved!Base!Threads
    BY <1>1, SameThreads
    DEF ThreadPerStage!Base!Threads, ThreadPerStage!numberOfThreads, Proved!Threads
<1> QED
    BY <1>1, <1>2
    DEF ThreadPerStage!Base!Process, Proved!Base!Process,
        ThreadPerStage!Base!Visit, Proved!Base!Visit,
        ThreadPerStage!Base!CheckDone, Proved!Base!CheckDone,
        ThreadPerStage!Base!PollMessage, Proved!Base!PollMessage,
        ThreadPerStage!Base!PollEmpty, Proved!Base!PollEmpty,
        ThreadPerStage!Base!Work, Proved!Base!Work,
        ThreadPerStage!Base!Processed, Proved!Base!Processed,
        ThreadPerStage!Base!Fail, Proved!Base!Fail,
        ThreadPerStage!Base!BatchEnd, Proved!Base!BatchEnd,
        ThreadPerStage!Base!flowVars, Proved!Base!flowVars,
        ThreadPerStage!Base!Goto, Proved!Base!Goto,
        ThreadPerStage!Base!Flow!TryPop, Proved!Base!Flow!TryPop,
        ThreadPerStage!Base!Polled, Proved!Base!Polled,
        ThreadPerStage!Base!Flow!Send, Proved!Base!Flow!Send,
        ThreadPerStage!Base!schedulerVars, Proved!Base!schedulerVars,
        ThreadPerStage!Base!Flow!Release, Proved!Base!Flow!Release,
        ThreadPerStage!Base!Flow!Throw, Proved!Base!Flow!Throw,
        ThreadPerStage!Base!Flow!Idle, Proved!Base!Flow!Idle,
        ThreadPerStage!Base!Flow!Null, Proved!Base!Flow!Null,
        ThreadPerStage!Base!Flow!Retain, Proved!Base!Flow!Retain,
        ThreadPerStage!Base!Flow!Copy, Proved!Base!Flow!Copy,
        ThreadPerStage!Base!Flow!Push, Proved!Base!Flow!Push,
        ThreadPerStage!Base!Flow!DropRef, Proved!Base!Flow!DropRef,
        ThreadPerStage!Base!Flow!NumberOfEntries, Proved!Base!Flow!NumberOfEntries,
        ThreadPerStage!Base!Flow!Dispatching, Proved!Base!Flow!Dispatching,
        ThreadPerStage!Base!Flow!AddRef, Proved!Base!Flow!AddRef,
        ThreadPerStage!Base!Flow!Allocated, Proved!Base!Flow!Allocated

-----------------------------------------------------------------------------
(* The policies' own variables, and what of the threads they rest on: a    *)
(* batch ends with an empty poll, which is what the flag is told.          *)
Searching ==
    /\ policy \in Chosen
    /\ next \in [Threads -> Stage \cup {NumberOfStages}]
    /\ policy = "RandomVisit" =>
          /\ visitTable \in [Threads -> [RandomVisit!Entries -> Stage]]
          /\ visitIndex \in [Threads -> RandomVisit!Entries \cup {RandomVisit!end}]
    /\ hadMessages = FALSE
    /\ \A t \in Threads : thread[t].pc = "ended" => thread[t].hadMessage = FALSE

(* A thread of ThreadPerStage only ever processes its own stage.           *)
Stationed ==
    /\ Proved!ThreadsTyped
    /\ \A t \in Threads : thread[t].pc \in {"poll", "work"} => thread[t].stage = t

IInv ==
    /\ Proved!Slots!IInv /\ Proved!Data!Arriving
    /\ IF policy = "ThreadPerStage" THEN Stationed ELSE Proved!BatchInSlot
    /\ Searching

LEMMA IInvThreads ==
    ASSUME IInv
    PROVE  /\ Proved!ThreadsTyped
           /\ thread \in [Threads -> [pc : Proved!Base!ThreadState,
                                      stage : Stage \cup {NumberOfStages}, hadMessage : BOOLEAN]]
<1>1. Proved!ThreadsTyped
    BY DEF IInv, Stationed, Proved!BatchInSlot, Proved!ThreadsTyped
<1> QED
    BY <1>1, SameThreads DEF Proved!ThreadsTyped

LEMMA InitIInv == Init => IInv
<1> SUFFICES ASSUME Init PROVE IInv
    OBVIOUS
<1>1. Proved!Init /\ Proved!Sound
    BY SameRoundRobin, ProvedAssumption, Proved!InitSound DEF Init, RoundRobin!Init
<1>2. Proved!Slots!IInv /\ Proved!Data!Arriving /\ Proved!BatchInSlot
    BY <1>1 DEF Proved!Sound
<1>3. \A t \in Threads : thread[t].pc = "unborn"
    BY <1>1, SameThreads DEF Proved!Init, Proved!Base!Init, Proved!Threads
<1>4. Stationed
    BY <1>2, <1>3 DEF Stationed, Proved!BatchInSlot, Proved!ThreadsTyped
<1>5. Searching
  <2>1. next = [t \in Threads |-> NumberOfStages] /\ hadMessages = FALSE /\ policy \in Chosen
      BY SameThreads DEF Init, SRPT!Init
  <2>2. policy = "RandomVisit" =>
           /\ visitTable \in [Threads -> [RandomVisit!Entries -> Stage]]
           /\ visitIndex \in [Threads -> RandomVisit!Entries \cup {RandomVisit!end}]
    <3> SUFFICES ASSUME policy = "RandomVisit"
                 PROVE  /\ visitTable \in [Threads -> [RandomVisit!Entries -> Stage]]
                        /\ visitIndex \in [Threads -> RandomVisit!Entries \cup {RandomVisit!end}]
        OBVIOUS
    <3>1. 1 \in RandomVisit!Entries \cup {RandomVisit!end}
      <4>1. NumberOfStages * TableSizeFactor \in Nat
          BY Parameters
      <4> QED
          BY <4>1, SameThreads DEF RandomVisit!Entries, RandomVisit!end
    <3>2. /\ visitTable \in [Threads -> [RandomVisit!Entries -> {s \in Stage : MaxConcurrency[s] # 0}]]
          /\ visitIndex = [t \in Threads |-> 1]
        BY SameThreads DEF Init, RandomVisit!Init
    <3> QED
        BY <3>1, <3>2
  <2> QED
      BY <1>3, <2>1, <2>2 DEF Searching
<1> QED
    BY <1>2, <1>4, <1>5 DEF IInv

-----------------------------------------------------------------------------
(* RoundRobin, SRPT and RandomVisit as policies                            *)

(* The stage a thread gives up is one. *)
LEMMA Slot ==
    ASSUME IInv, NEW t \in Threads
    PROVE  threadAssignment[t] \in Stage \cup {NumberOfStages}
<1>1. Proved!CallsKnown
    BY ProvedAssumption, Proved!SlotsKnown DEF IInv
<1> QED
    BY <1>1, SameThreads, Parameters DEF Proved!CallsKnown

LEMMA RoundRobinStep ==
    ASSUME IInv, NEW t \in Threads, RoundRobin!ThreadStep(t)
    PROVE  /\ Proved!NextStage(t) \/ Proved!Process(t)
           /\ next' \in [Threads -> Stage \cup {NumberOfStages}]
<1>1. next \in [Threads -> Stage \cup {NumberOfStages}]
    BY DEF IInv, Searching
<1>2. CASE RoundRobin!Vacated(t)
    BY <1>1, <1>2, SameRoundRobin, Slot DEF RoundRobin!Vacated, Proved!NextStage
<1>3. CASE RoundRobin!TryNext(t)
  <2>1. RoundRobin!incrementStage(next[t]) \in Stage
      BY <1>1, SameThreads, Parameters DEF RoundRobin!incrementStage
  <2> QED
      BY <1>1, <1>3, <2>1, SameRoundRobin, SameThreads DEF RoundRobin!TryNext, Proved!NextStage
<1>4. CASE RoundRobin!Accept(t)
    BY <1>1, <1>4, SameRoundRobin, SameThreads DEF RoundRobin!Accept, Proved!NextStage
<1>5. CASE /\ RoundRobin!Policy!Vacate(t) \/ RoundRobin!Policy!Swap(t)
              \/ RoundRobin!Policy!Process(t)
           /\ next' = next
    BY <1>1, <1>5, SameRoundRobin DEF Proved!NextStage
<1> QED
    BY <1>2, <1>3, <1>4, <1>5 DEF RoundRobin!ThreadStep

(* The flag is never set: SRPT's threads only ever go on from the stage    *)
(* they have left.                                                         *)
LEMMA SRPTStep ==
    ASSUME IInv, NEW t \in Threads, SRPT!ThreadStep(t)
    PROVE  /\ Proved!NextStage(t) \/ Proved!Process(t)
           /\ next' \in [Threads -> Stage \cup {NumberOfStages}]
           /\ hadMessages' = FALSE
<1>1. /\ next \in [Threads -> Stage \cup {NumberOfStages}]
      /\ hadMessages = FALSE
      /\ thread[t].pc = "ended" => thread[t].hadMessage = FALSE
    BY DEF IInv, Searching
<1>2. CASE SRPT!Vacated(t)
  <2>1. SRPT!searchFrom(threadAssignment[t]) = threadAssignment[t]
      BY <1>1 DEF SRPT!searchFrom
  <2> QED
      BY <1>1, <1>2, <2>1, SameSRPT, Slot DEF SRPT!Vacated, Proved!NextStage
<1>3. CASE SRPT!TryNext(t)
  <2>1. SRPT!decrementStage(next[t]) \in Stage
    <3> DEFINE wrapped == SRPT!size_t(next[t] - 1)
    <3>1. next[t] - 1 \in Int
        BY <1>1, SameThreads, Parameters
    <3>2. wrapped \in Nat
        BY <3>1 DEF SRPT!size_t, SRPT!Values
    <3> HIDE DEF wrapped
    <3>3. SRPT!decrementStage(next[t]) = IF wrapped >= NumberOfStages THEN NumberOfStages - 1
                                         ELSE wrapped
        BY SameThreads DEF SRPT!decrementStage, SRPT!LastStage, wrapped
    <3> QED
        BY <3>2, <3>3, SameThreads, Parameters
  <2> QED
      BY <1>1, <1>3, <2>1, SameSRPT, SameThreads DEF SRPT!TryNext, Proved!NextStage
<1>4. CASE SRPT!Accept(t)
    BY <1>1, <1>4, SameSRPT, SameThreads DEF SRPT!Accept, Proved!NextStage
<1>5. CASE SRPT!Search(t)
    BY <1>1, <1>5, SameSRPT DEF SRPT!Search, Proved!NextStage
<1>6. CASE SRPT!BatchEnd(t) \/ SRPT!Process(t)
    BY <1>1, <1>6, SameSRPT DEF SRPT!BatchEnd, SRPT!Process
<1> QED
    BY <1>2, <1>3, <1>4, <1>5, <1>6 DEF SRPT!ThreadStep

(* Shuffling puts no stage into a table that was not there.                *)
LEMMA RandomVisitStep ==
    ASSUME IInv, policy = "RandomVisit", NEW t \in Threads, RandomVisit!ThreadStep(t)
    PROVE  /\ Proved!NextStage(t) \/ Proved!Process(t)
           /\ visitTable' \in [Threads -> [RandomVisit!Entries -> Stage]]
           /\ visitIndex' \in [Threads -> RandomVisit!Entries \cup {RandomVisit!end}]
<1>1. /\ visitTable \in [Threads -> [RandomVisit!Entries -> Stage]]
      /\ visitIndex \in [Threads -> RandomVisit!Entries \cup {RandomVisit!end}]
    BY DEF IInv, Searching
<1>2. CASE RandomVisit!TryRandom(t)
  <2>1. PICK choice \in RandomVisit!randomStage(t) :
           /\ RandomVisit!Policy!Try(t, choice[1][choice[2]])
           /\ visitTable' = [visitTable EXCEPT ![t] = choice[1]]
           /\ visitIndex' = [visitIndex EXCEPT ![t] = choice[2] + 1]
      BY <1>2 DEF RandomVisit!TryRandom
  <2>2. choice[1] \in [RandomVisit!Entries -> Stage] /\ choice[2] \in RandomVisit!Entries
    <3>1. CASE visitIndex[t] = RandomVisit!end
      <4>1. PICK table \in RandomVisit!Shuffles(visitTable[t]) : choice = <<table, 1>>
          BY <2>1, <3>1 DEF RandomVisit!randomStage
      <4>2. PICK p \in [RandomVisit!Entries -> RandomVisit!Entries] :
               table = [i \in RandomVisit!Entries |-> visitTable[t][p[i]]]
          BY <4>1 DEF RandomVisit!Shuffles, RandomVisit!Bijection, RandomVisit!Injection
      <4>3. table \in [RandomVisit!Entries -> Stage]
          BY <1>1, <4>2
      <4>4. 1 \in RandomVisit!Entries
        <5>1. NumberOfStages * TableSizeFactor \in Nat \ {0}
            BY Parameters
        <5> QED
            BY <5>1, SameThreads DEF RandomVisit!Entries
      <4> QED
          BY <4>1, <4>3, <4>4
    <3>2. CASE visitIndex[t] # RandomVisit!end
        BY <1>1, <2>1, <3>2 DEF RandomVisit!randomStage
    <3> QED
        BY <3>1, <3>2
  <2>3. choice[1][choice[2]] \in Stage
      BY <2>2
  <2>4. choice[2] + 1 \in RandomVisit!Entries \cup {RandomVisit!end}
    <3>1. NumberOfStages * TableSizeFactor \in Nat
        BY Parameters
    <3> QED
        BY <2>2, <3>1, SameThreads DEF RandomVisit!Entries, RandomVisit!end
  <2> QED
      BY <1>1, <2>1, <2>2, <2>3, <2>4, SameRandomVisit, SameThreads DEF Proved!NextStage
<1>3. CASE /\ \/ RandomVisit!Policy!Process(t)
              \/ RandomVisit!Policy!Vacate(t)
              \/ RandomVisit!Policy!Vacated(t)
              \/ RandomVisit!Policy!Swap(t)
              \/ RandomVisit!Policy!Accept(t)
           /\ UNCHANGED <<visitTable, visitIndex>>
    BY <1>1, <1>3, SameRandomVisit DEF Proved!NextStage
<1> QED
    BY <1>2, <1>3 DEF RandomVisit!ThreadStep

-----------------------------------------------------------------------------
(* The batches                                                             *)

LEMMA EndedInBatch ==
    ASSUME IInv, NEW t \in Threads, Proved!Base!Process(t)
    PROVE  \A u \in Threads : thread'[u].pc = "ended" => thread'[u].hadMessage = FALSE
<1>1. /\ thread \in [Threads -> [pc : Proved!Base!ThreadState,
                                 stage : Stage \cup {NumberOfStages}, hadMessage : BOOLEAN]]
      /\ \A u \in Threads : thread[u].pc = "ended" => thread[u].hadMessage = FALSE
    BY IInvThreads DEF IInv, Searching
<1>2. CASE Proved!Base!CheckDone(t) \/ Proved!Base!BatchEnd(t) \/ Proved!Base!Fail(t)
    BY <1>1, <1>2
    DEF Proved!Base!CheckDone, Proved!Base!BatchEnd, Proved!Base!Fail, Proved!Base!Goto
<1>3. CASE Proved!Base!PollMessage(t) \/ Proved!Base!PollEmpty(t) \/ Proved!Base!Processed(t)
    BY <1>1, <1>3
    DEF Proved!Base!PollMessage, Proved!Base!PollEmpty, Proved!Base!Processed,
        Proved!Base!Polled, Proved!Base!Goto
<1>4. CASE Proved!Base!Work(t)
    BY <1>1, <1>4 DEF Proved!Base!Work, Proved!Base!schedulerVars
<1> QED
    BY <1>2, <1>3, <1>4 DEF Proved!Base!Process

LEMMA EndedInSearch ==
    ASSUME IInv, NEW t \in Threads,
           thread' = thread \/ \E s : Proved!Base!Visit(t, s)
    PROVE  \A u \in Threads : thread'[u].pc = "ended" => thread'[u].hadMessage = FALSE
<1>1. /\ thread \in [Threads -> [pc : Proved!Base!ThreadState,
                                 stage : Stage \cup {NumberOfStages}, hadMessage : BOOLEAN]]
      /\ \A u \in Threads : thread[u].pc = "ended" => thread[u].hadMessage = FALSE
    BY IInvThreads DEF IInv, Searching
<1>2. ASSUME NEW s, Proved!Base!Visit(t, s)
      PROVE  \A u \in Threads : thread'[u].pc = "ended" => thread'[u].hadMessage = FALSE
    BY <1>1, <1>2 DEF Proved!Base!Visit
<1> QED
    BY <1>1, <1>2

LEMMA EndedOutside ==
    ASSUME IInv, Proved!Surroundings
    PROVE  \A u \in Threads : thread'[u].pc = "ended" => thread'[u].hadMessage = FALSE
<1>1. CASE Proved!Base!Launch
    BY <1>1, IInvThreads DEF IInv, Searching, Proved!Base!Launch, Proved!Base!Goto
<1>2. CASE Proved!Base!Stop \/ Proved!Base!Join \/ \E p \in Producers : Proved!Base!Produce(p)
    BY <1>2 DEF IInv, Searching, Proved!Base!Stop, Proved!Base!Join, Proved!Base!Produce,
                Proved!Base!schedulerVars
<1> QED
    BY <1>1, <1>2 DEF Proved!Surroundings, Proved!Base!Owner

-----------------------------------------------------------------------------
(* ThreadPerStage                                                          *)

LEMMA StationedOutside ==
    ASSUME IInv, policy = "ThreadPerStage", Proved!Surroundings
    PROVE  Stationed'
<1>1. Stationed
    BY DEF IInv
<1>2. CASE Proved!Base!Launch
  <2>1. /\ thread' = [thread EXCEPT ![launched].pc = "check"]
        /\ UNCHANGED <<done, joined>>
      BY <1>2 DEF Proved!Base!Launch, Proved!Base!Goto
  <2>2. /\ launched' \in 0 .. Proved!numberOfThreads(MaxNumberOfThreads)
    <3>1. /\ launched < Proved!numberOfThreads(MaxNumberOfThreads) /\ launched' = launched + 1
          /\ launched \in 0 .. Proved!numberOfThreads(MaxNumberOfThreads)
          /\ Proved!numberOfThreads(MaxNumberOfThreads) \in Nat
        BY <1>1, <1>2, ProvedAssumption, Proved!NumberOfThreadsBounded
        DEF Stationed, Proved!ThreadsTyped, Proved!Base!Launch
    <3> QED
        BY <3>1
  <2> QED
      BY <1>1, <2>1, <2>2, SameThreads
      DEF Stationed, Proved!ThreadsTyped, Proved!Base!ThreadState
<1>3. CASE Proved!Base!Stop \/ Proved!Base!Join \/ \E p \in Producers : Proved!Base!Produce(p)
  <2>1. /\ UNCHANGED <<thread, launched>>
        /\ done' \in {done, TRUE} /\ joined' \in {joined, TRUE}
      BY <1>3 DEF Proved!Base!Stop, Proved!Base!Join, Proved!Base!Produce,
                  Proved!Base!schedulerVars
  <2> QED
      BY <1>1, <2>1 DEF Stationed, Proved!ThreadsTyped
<1> QED
    BY <1>2, <1>3 DEF Proved!Surroundings, Proved!Base!Owner

LEMMA StationedStep ==
    ASSUME IInv, policy = "ThreadPerStage", NEW t \in Threads,
           Proved!Base!Process(t) \/ Proved!Base!Visit(t, t)
    PROVE  Stationed'
<1>1. /\ thread \in [Threads -> [pc : Proved!Base!ThreadState,
                                 stage : Stage \cup {NumberOfStages}, hadMessage : BOOLEAN]]
      /\ \A u \in Threads : thread[u].pc \in {"poll", "work"} => thread[u].stage = u
      /\ Proved!ThreadsTyped
    BY IInvThreads DEF IInv, Stationed
<1>2. Threads = Stage
    BY SameThreadPerStage DEF IInv, Searching
<1>3. UNCHANGED <<launched, done, joined>>
    BY DEF Proved!Base!Process, Proved!Base!CheckDone, Proved!Base!PollMessage,
           Proved!Base!PollEmpty, Proved!Base!Work, Proved!Base!Processed, Proved!Base!Fail,
           Proved!Base!BatchEnd, Proved!Base!Visit, Proved!Base!schedulerVars
<1>4. /\ thread' \in [Threads -> [pc : Proved!Base!ThreadState,
                                  stage : Stage \cup {NumberOfStages}, hadMessage : BOOLEAN]]
      /\ \A u \in Threads : thread'[u].pc \in {"poll", "work"} => thread'[u].stage = u
  <2>1. CASE Proved!Base!CheckDone(t) \/ Proved!Base!BatchEnd(t) \/ Proved!Base!Fail(t)
      BY <1>1, <2>1
      DEF Proved!Base!CheckDone, Proved!Base!BatchEnd, Proved!Base!Fail, Proved!Base!Goto,
          Proved!Base!ThreadState
  <2>2. CASE \/ Proved!Base!PollMessage(t) \/ Proved!Base!PollEmpty(t)
             \/ Proved!Base!Processed(t)
      BY <1>1, <2>2
      DEF Proved!Base!PollMessage, Proved!Base!PollEmpty, Proved!Base!Processed,
          Proved!Base!Polled, Proved!Base!Goto, Proved!Base!ThreadState
  <2>3. CASE Proved!Base!Work(t)
      BY <1>1, <2>3 DEF Proved!Base!Work, Proved!Base!schedulerVars
  <2>4. CASE Proved!Base!Visit(t, t)
      BY <1>1, <1>2, <2>4 DEF Proved!Base!Visit, Proved!Base!ThreadState
  <2> QED
      BY <2>1, <2>2, <2>3, <2>4 DEF Proved!Base!Process
<1> QED
    BY <1>1, <1>3, <1>4, SameThreads DEF Stationed, Proved!ThreadsTyped

LEMMA ThreadPerStageStep ==
    ASSUME IInv, policy = "ThreadPerStage", NEW t \in Threads, ThreadPerStage!ThreadStep(t),
           UNCHANGED <<assignmentVars, searchVars, tableVars, policy>>
    PROVE  IInv'
<1>1. /\ "ThreadPerStage" \in Chosen
      /\ Threads = Stage
      /\ Proved!Base!Process(t) \/ Proved!Base!Visit(t, t)
    BY SameThreadPerStage
    DEF IInv, Searching, ThreadPerStage!ThreadStep, ThreadPerStage!nextStage
<1>2. Proved!Slots!IInv'
  <2>1. UNCHANGED Proved!Assignments!vars
      BY DEF assignmentVars, Proved!Assignments!vars
  <2> QED
      BY <2>1, ProvedAssumption, Proved!SlotsStep DEF IInv
<1>3. Proved!Data!Arriving'
  <2>1. CASE Proved!Base!Process(t)
    <3>1. /\ thread[t].pc = "poll" => thread[t].stage \in Proved!Stage
          /\ t \in Proved!Threads
        BY <1>1, SameThreads DEF IInv, Stationed
    <3>2. [Proved!Base!Flow!Next]_Proved!Base!Flow!vars
        BY <2>1, <3>1, ProvedAssumption, Proved!FlowProcess
    <3> QED
        BY <3>2, ProvedAssumption, Proved!DataStep DEF IInv
  <2>2. CASE Proved!Base!Visit(t, t)
    <3>1. UNCHANGED Proved!Base!Flow!vars
        BY <2>2 DEF Proved!Base!Visit, Proved!Base!flowVars, Proved!Base!Flow!vars
    <3> QED
        BY <3>1, ProvedAssumption, Proved!DataStep DEF IInv
  <2> QED
      BY <1>1, <2>1, <2>2
<1>4. Stationed'
    BY <1>1, StationedStep
<1>5. \A u \in Threads : thread'[u].pc = "ended" => thread'[u].hadMessage = FALSE
    BY <1>1, EndedInBatch, EndedInSearch
<1>6. Searching'
    BY <1>5 DEF IInv, Searching, searchVars, tableVars
<1> QED
    BY <1>2, <1>3, <1>4, <1>6 DEF IInv

-----------------------------------------------------------------------------
(* Every policy                                                            *)

LEMMA AroundStep ==
    ASSUME IInv, Around(TRUE)
    PROVE  IInv'
<1>1. Proved!Surroundings /\ UNCHANGED <<searchVars, tableVars, policy>>
    BY SamePolicy DEF Around
<1>2. Proved!Slots!IInv'
  <2>1. UNCHANGED Proved!Assignments!vars
      BY <1>1 DEF Proved!Surroundings, Proved!assignmentVars, Proved!Assignments!vars
  <2> QED
      BY <2>1, ProvedAssumption, Proved!SlotsStep DEF IInv
<1>3. Proved!Data!Arriving'
  <2>1. [Proved!Base!Flow!Next]_Proved!Base!Flow!vars
      BY <1>1, ProvedAssumption, Proved!FlowSurroundings
  <2> QED
      BY <2>1, ProvedAssumption, Proved!DataStep DEF IInv
<1>4. policy = "ThreadPerStage" => Stationed'
    BY <1>1, StationedOutside
<1>5. policy # "ThreadPerStage" => Proved!BatchInSlot'
    BY <1>1, ProvedAssumption, Proved!SurroundingsBatch DEF IInv
<1>6. Searching'
    BY <1>1, EndedOutside DEF IInv, Searching, searchVars, tableVars
<1> QED
    BY <1>1, <1>2, <1>3, <1>4, <1>5, <1>6 DEF IInv

(* What a thread does under a policy on ThreadAssignments.                 *)
LEMMA PolicyThreadStep ==
    ASSUME IInv, policy # "ThreadPerStage", NEW t \in Threads, ThreadStep(t)
    PROVE  Proved!NextStage(t) \/ Proved!Process(t)
BY RoundRobinStep, SRPTStep, RandomVisitStep DEF ThreadStep

LEMMA ThreadStepIInv ==
    ASSUME IInv, NEW t \in Threads, ThreadStep(t)
    PROVE  IInv'
<1>1. policy' = policy
    BY DEF ThreadStep
<1>2. CASE policy = "ThreadPerStage"
    BY <1>1, <1>2, ThreadPerStageStep DEF ThreadStep
<1>3. CASE policy # "ThreadPerStage"
  <2>1. Proved!NextStage(t) \/ Proved!Process(t)
      BY <1>3, PolicyThreadStep
  <2>2. Proved!Sound'
    <3>1. Proved!Sound /\ Proved!Next
        BY <1>3, <2>1, SameThreads DEF IInv, Proved!Sound, Proved!Next
    <3> QED
        BY <3>1, ProvedAssumption, Proved!NextSound
  <2>3. \A u \in Threads : thread'[u].pc = "ended" => thread'[u].hadMessage = FALSE
    <3>1. CASE Proved!Process(t)
        BY <3>1, EndedInBatch DEF Proved!Process
    <3>2. CASE Proved!NextStage(t)
      <4>1. thread' = thread \/ \E s : Proved!Base!Visit(t, s)
          BY <3>2
          DEF Proved!NextStage, Proved!Vacate, Proved!Vacated, Proved!Try, Proved!Swap,
              Proved!Accept, Proved!baseVars
      <4> QED
          BY <4>1, EndedInSearch
    <3> QED
        BY <2>1, <3>1, <3>2
  <2>4. CASE policy = "RoundRobin"
    <3>1. next' \in [Threads -> Stage \cup {NumberOfStages}] /\ hadMessages' = hadMessages
        BY <2>4, RoundRobinStep DEF ThreadStep
    <3>2. Searching'
        BY <1>1, <2>3, <2>4, <3>1 DEF IInv, Searching
    <3> QED
        BY <1>1, <1>3, <2>2, <3>2 DEF IInv, Proved!Sound
  <2>5. CASE policy = "SRPT"
    <3>1. next' \in [Threads -> Stage \cup {NumberOfStages}] /\ hadMessages' = FALSE
        BY <2>5, SRPTStep DEF ThreadStep
    <3>2. Searching'
        BY <1>1, <2>3, <2>5, <3>1 DEF IInv, Searching
    <3> QED
        BY <1>1, <1>3, <2>2, <3>2 DEF IInv, Proved!Sound
  <2>6. CASE policy = "RandomVisit"
    <3>1. /\ visitTable' \in [Threads -> [RandomVisit!Entries -> Stage]]
          /\ visitIndex' \in [Threads -> RandomVisit!Entries \cup {RandomVisit!end}]
          /\ UNCHANGED searchVars
        BY <2>6, RandomVisitStep DEF ThreadStep
    <3>2. Searching'
        BY <1>1, <2>3, <3>1 DEF IInv, Searching, searchVars
    <3> QED
        BY <1>1, <1>3, <2>2, <3>2 DEF IInv, Proved!Sound
  <2> QED
      BY <1>3, <2>4, <2>5, <2>6 DEF ThreadStep
<1> QED
    BY <1>2, <1>3

LEMMA NextIInv ==
    ASSUME IInv, [Next]_vars
    PROVE  IInv'
<1>1. CASE UNCHANGED vars
  <2>1. UNCHANGED Proved!Assignments!vars /\ UNCHANGED Proved!Base!Flow!vars
      BY <1>1 DEF vars, Proved!Assignments!vars, Proved!Base!Flow!vars
  <2>2. Proved!Slots!IInv' /\ Proved!Data!Arriving'
      BY <2>1, ProvedAssumption, Proved!SlotsStep, Proved!DataStep DEF IInv
  <2>3. IF policy' = "ThreadPerStage" THEN Stationed' ELSE Proved!BatchInSlot'
      BY <1>1 DEF vars, IInv, Stationed, Proved!ThreadsTyped, Proved!BatchInSlot
  <2>4. Searching'
      BY <1>1 DEF vars, IInv, Searching
  <2> QED
      BY <2>2, <2>3, <2>4 DEF IInv
<1> QED
    BY <1>1, AroundStep, ThreadStepIInv DEF Next

LEMMA Invariance == Spec => []IInv
BY InitIInv, NextIInv, PTL DEF Spec

-----------------------------------------------------------------------------
(* RoundRobin, SRPT and RandomVisit each implement AssignmentPolicy: they  *)
(* give their slot up before they try stages, try only stages, and use the *)
(* assignments and the scheduler in no other way.                          *)
THEOREM Refinement == Spec /\ policy # "ThreadPerStage" => Policy!Spec
<1>1. Init => Policy!Init
    BY SameRoundRobin, SamePolicy DEF Init, RoundRobin!Init
<1>2. policy # "ThreadPerStage" /\ [Next]_vars => (policy # "ThreadPerStage")'
    BY DEF Next, vars, Around, ThreadStep
<1>3. IInv /\ policy # "ThreadPerStage" /\ [Next]_vars => [Policy!Next]_Policy!vars
  <2> SUFFICES ASSUME IInv, policy # "ThreadPerStage", [Next]_vars
               PROVE  [Policy!Next]_Policy!vars
      OBVIOUS
  <2>1. CASE UNCHANGED vars
      BY <2>1 DEF vars, Policy!vars
  <2>2. CASE Around(TRUE)
      BY <2>2 DEF Around, Policy!Next
  <2>3. ASSUME NEW t \in Threads, ThreadStep(t) PROVE Policy!Next
    <3>1. Proved!Next
        BY <2>3, PolicyThreadStep, SameThreads DEF Proved!Next
    <3> QED
        BY <3>1, SamePolicy
  <2> QED
      BY <2>1, <2>2, <2>3 DEF Next
<1> QED
    BY <1>1, <1>2, <1>3, Invariance, PTL DEF Spec, Policy!Spec

(* The types of what every policy keeps: RoundRobin and SRPT never try a   *)
(* stage that there is not, and no table of RandomVisit is read past its   *)
(* end.                                                                    *)
THEOREM Types == Spec => []TypeOK
<1>1. IInv => TypeOK
  <2> SUFFICES ASSUME IInv PROVE TypeOK
      OBVIOUS
  <2>1. Proved!TypeOK
      BY IInvThreads, ProvedAssumption, Proved!KnownTypes DEF IInv
  <2> QED
      BY <2>1, SameRoundRobin, SameSRPT, SameRandomVisit, SameThreads
      DEF IInv, Searching, TypeOK, RoundRobin!TypeOK, SRPT!TypeOK, RandomVisit!TypeOK
<1> QED
    BY <1>1, Invariance, PTL

(* SRPT's flag is never set, although every batch it is set after had      *)
(* messages: the last thing the flag is told is the poll that found none.  *)
THEOREM NeverRestarts == Spec => []~hadMessages
<1>1. IInv => ~hadMessages
    BY DEF IInv, Searching
<1> QED
    BY <1>1, Invariance, PTL

(* Under every policy the slots bound the concurrency of each functor; by  *)
(* ThreadPerStage, which has none, each functor runs in its own thread.    *)
THEOREM Concurrency ==
    Spec => [](IF policy = "ThreadPerStage"
               THEN \A s \in Stage : Policy!Processing(s) \subseteq {s}
               ELSE Policy!FunctorConcurrency)
<1>1. IInv => IF policy = "ThreadPerStage"
              THEN \A s \in Stage : Policy!Processing(s) \subseteq {s}
              ELSE Policy!FunctorConcurrency
  <2> SUFFICES ASSUME IInv
               PROVE  IF policy = "ThreadPerStage"
                      THEN \A s \in Stage : Policy!Processing(s) \subseteq {s}
                      ELSE Policy!FunctorConcurrency
      OBVIOUS
  <2>1. CASE policy = "ThreadPerStage"
      BY <2>1 DEF IInv, Stationed, Policy!Processing, Threads
  <2>2. CASE policy # "ThreadPerStage"
      BY <2>2, SamePolicy, ProvedAssumption, Proved!SlotsBoundBatches DEF IInv
  <2> QED
      BY <2>1, <2>2
<1> QED
    BY <1>1, Invariance, PTL

(* Under every policy the messages are counted exactly, and none is lost   *)
(* but by an exception.                                                    *)
THEOREM MessagesKept ==
    Spec => [](Policy!Base!Flow!RefCountExact /\ Policy!Base!Flow!NothingLost)
<1>1. IInv => Policy!Base!Flow!RefCountExact /\ Policy!Base!Flow!NothingLost
    BY ProvedAssumption, Proved!ArrivingPromises, SamePolicy DEF IInv
<1> QED
    BY <1>1, Invariance, PTL

-----------------------------------------------------------------------------
(* Order                                                                   *)

LEMMA SameBehaviour == Policy!Spec => Proved!Spec
<1>1. Policy!Init => Proved!Init
    BY SamePolicy
<1>2. [Policy!Next]_Policy!vars => [Proved!Next]_Proved!vars
    BY SamePolicy DEF Policy!vars, Proved!vars
<1> QED
    BY <1>1, <1>2, PTL DEF Policy!Spec, Proved!Spec

LEMMA SameHandled ==
    /\ \A s : Proved!Base!Flow!Handled(s) = Policy!Base!Flow!Handled(s)
    /\ \A s : Proved!Base!Flow!Handled(s)' = Policy!Base!Flow!Handled(s)'
<1>1. \A S : Proved!Base!Flow!Cardinality(S) = Policy!Base!Flow!Cardinality(S)
    BY DEF Proved!Base!Flow!Cardinality, Policy!Base!Flow!Cardinality
<1>2. \A f : Proved!Base!Flow!IsInjective(f) <=> Policy!Base!Flow!IsInjective(f)
    BY DEF Proved!Base!Flow!IsInjective, Policy!Base!Flow!IsInjective
<1>3. \A S : Proved!Base!Flow!SetToSeq(S) = Policy!Base!Flow!SetToSeq(S)
    BY <1>1, <1>2 DEF Proved!Base!Flow!SetToSeq, Policy!Base!Flow!SetToSeq
<1> QED
    BY <1>3
    DEF Proved!Base!Flow!Handled, Policy!Base!Flow!Handled,
        Proved!Base!Flow!Unfinished, Policy!Base!Flow!Unfinished,
        Proved!Base!Threads, Policy!Base!Threads,
        Proved!numberOfThreads, Policy!numberOfThreads,
        Proved!Min, Policy!Min, Proved!Max, Policy!Max

LEMMA SameMapped ==
    /\ Proved!Base!Flow!inbox = Policy!Base!Flow!inbox
    /\ (Proved!Base!Flow!inbox)' = (Policy!Base!Flow!inbox)'
    /\ Proved!Base!Flow!pending = Policy!Base!Flow!pending
    /\ (Proved!Base!Flow!pending)' = (Policy!Base!Flow!pending)'
    /\ Proved!Base!Flow!delivered = Policy!Base!Flow!delivered
    /\ (Proved!Base!Flow!delivered)' = (Policy!Base!Flow!delivered)'
<1>1. /\ Proved!Base!Flow!inbox = Policy!Base!Flow!inbox
      /\ (Proved!Base!Flow!inbox)' = (Policy!Base!Flow!inbox)'
    BY SameHandled
    DEF Proved!Base!Flow!inbox, Policy!Base!Flow!inbox,
        Proved!Base!Flow!Contents, Policy!Base!Flow!Contents,
        Proved!Base!Flow!Stage, Policy!Base!Flow!Stage
<1>2. /\ Proved!Base!Flow!pending = Policy!Base!Flow!pending
      /\ (Proved!Base!Flow!pending)' = (Policy!Base!Flow!pending)'
    BY DEF Proved!Base!Flow!pending, Policy!Base!Flow!pending
<1>3. /\ Proved!Base!Flow!delivered = Policy!Base!Flow!delivered
      /\ (Proved!Base!Flow!delivered)' = (Policy!Base!Flow!delivered)'
    BY DEF Proved!Base!Flow!delivered, Policy!Base!Flow!delivered
<1> QED
    BY <1>1, <1>2, <1>3

LEMMA SameFifoNext ==
    [Proved!Base!Flow!Fifo!Next]_Proved!Base!Flow!Fifo!vars
    => [Policy!Base!Flow!Fifo!Next]_Policy!Base!Flow!Fifo!vars
<1>1. Proved!Base!Flow!Fifo!Stage = Policy!Base!Flow!Fifo!Stage /\ Proved!Base!Flow!Fifo!LastStage = Policy!Base!Flow!Fifo!LastStage
    BY DEF Proved!Base!Flow!Fifo!Stage, Policy!Base!Flow!Fifo!Stage,
        Proved!Base!Flow!Fifo!LastStage, Policy!Base!Flow!Fifo!LastStage
<1>2. \A p : Proved!Base!Flow!Fifo!Inject(p) => Policy!Base!Flow!Fifo!Inject(p)
    BY SameMapped DEF Proved!Base!Flow!Fifo!Inject, Policy!Base!Flow!Fifo!Inject
<1>3. \A s : Proved!Base!Flow!Fifo!Move(s) => Policy!Base!Flow!Fifo!Move(s)
    BY <1>1, SameMapped DEF Proved!Base!Flow!Fifo!Move, Policy!Base!Flow!Fifo!Move
<1>4. \A s : Proved!Base!Flow!Fifo!Lose(s) => Policy!Base!Flow!Fifo!Lose(s)
    BY SameMapped DEF Proved!Base!Flow!Fifo!Lose, Policy!Base!Flow!Fifo!Lose
<1>5. Proved!Base!Flow!Fifo!Deliver => Policy!Base!Flow!Fifo!Deliver
    BY <1>1, SameMapped DEF Proved!Base!Flow!Fifo!Deliver, Policy!Base!Flow!Fifo!Deliver
<1>6. UNCHANGED Proved!Base!Flow!Fifo!vars => UNCHANGED Policy!Base!Flow!Fifo!vars
    BY SameMapped DEF Proved!Base!Flow!Fifo!vars, Policy!Base!Flow!Fifo!vars
<1> QED
    BY <1>1, <1>2, <1>3, <1>4, <1>5, <1>6 DEF Proved!Base!Flow!Fifo!Next, Policy!Base!Flow!Fifo!Next

LEMMA SameFifo == Proved!ImplementsPipeline => Policy!ImplementsPipeline
<1>1. Proved!Base!Flow!Fifo!Init => Policy!Base!Flow!Fifo!Init
    BY SameMapped
    DEF Proved!Base!Flow!Fifo!Init, Policy!Base!Flow!Fifo!Init,
        Proved!Base!Flow!Fifo!Stage, Policy!Base!Flow!Fifo!Stage
<1> QED
    BY <1>1, SameFifoNext, PTL
    DEF Proved!ImplementsPipeline, Policy!ImplementsPipeline,
        Proved!Base!Flow!ImplementsPipeline, Policy!Base!Flow!ImplementsPipeline,
        Proved!Base!Flow!Fifo!Spec, Policy!Base!Flow!Fifo!Spec

(* RoundRobin, SRPT and RandomVisit keep the order of the messages, at     *)
(* every stage of a chain, where no stage has more than one slot: nothing  *)
(* in the order in which they try the stages matters for it.               *)
THEOREM InOrder ==
    ASSUME Policy!OneSlotChain
    PROVE  Spec /\ policy # "ThreadPerStage" => Policy!ImplementsPipeline
<1>1. Proved!OneSlotChain
    BY DEF Policy!OneSlotChain, Proved!OneSlotChain,
        Policy!Base!Flow!InAChain, Proved!Base!Flow!InAChain,
        Policy!Base!Flow!Stage, Proved!Base!Flow!Stage, Policy!Stage, Proved!Stage,
        Policy!Base!Stage, Proved!Base!Stage
<1>2. Proved!Spec => Proved!ImplementsPipeline
    BY <1>1, ProvedAssumption, Proved!InOrder
<1> QED
    BY <1>2, Refinement, SameBehaviour, SameFifo, PTL

(* Nor do they let a stage process a message twice, where there is one way *)
(* at most to it: a stage that two threads try at once is still visited by *)
(* as many as have slots, and each takes other messages.                   *)
THEOREM NeverTwice ==
    ASSUME Policy!Base!Flow!OneWay, Policy!Base!Flow!DistinctContents
    PROVE  Spec /\ policy # "ThreadPerStage" => []Policy!Base!Flow!AtMostOnce
<1>1. Proved!Base!Flow!OneWay /\ Proved!Base!Flow!DistinctContents
    BY DEF Policy!Base!Flow!OneWay, Proved!Base!Flow!OneWay,
        Policy!Base!Flow!Way, Proved!Base!Flow!Way,
        Policy!Base!Flow!Stage, Proved!Base!Flow!Stage,
        Policy!Base!Flow!DistinctContents, Proved!Base!Flow!DistinctContents
<1>2. Proved!Spec => []Proved!Base!Flow!AtMostOnce
    BY <1>1, ProvedAssumption, Proved!NeverTwice
<1>3. Proved!Base!Flow!AtMostOnce => Policy!Base!Flow!AtMostOnce
  <2>1. \A S : Proved!Base!Flow!Cardinality(S) = Policy!Base!Flow!Cardinality(S)
      BY DEF Proved!Base!Flow!Cardinality, Policy!Base!Flow!Cardinality
  <2>2. \A s, c : Proved!Base!Flow!Occurrences(s, c) = Policy!Base!Flow!Occurrences(s, c)
      BY <2>1, SameThreads
      DEF Proved!Base!Flow!Occurrences, Policy!Base!Flow!Occurrences,
          Proved!Base!Threads, Policy!Base!Threads,
          Proved!numberOfThreads, Policy!numberOfThreads,
          Proved!Min, Policy!Min, Proved!Max, Policy!Max
  <2>3. /\ Proved!Base!Flow!Stage = Policy!Base!Flow!Stage
        /\ Proved!Base!Flow!Content = Policy!Base!Flow!Content
      BY DEF Proved!Base!Flow!Stage, Policy!Base!Flow!Stage,
          Proved!Base!Flow!Content, Policy!Base!Flow!Content,
          Proved!Base!Flow!ToSet, Policy!Base!Flow!ToSet
  <2> QED
      BY <2>2, <2>3 DEF Proved!Base!Flow!AtMostOnce, Policy!Base!Flow!AtMostOnce
<1> QED
    BY <1>2, <1>3, Refinement, SameBehaviour, PTL
=============================================================================
