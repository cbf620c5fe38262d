---------------------------- MODULE SchedulerBase ---------------------------
(***************************************************************************)
(* SchedulerBase with exhaustive polling: start launches the processing    *)
(* threads; each asks its policy for a stage, processes that stage until   *)
(* its queue is empty, and looks at done_ between two such batches; stop   *)
(* sets done_ and join waits for the threads.                              *)
(*                                                                         *)
(* What nextStage answers is left open: a policy restricts Visit.          *)
(***************************************************************************)
EXTENDS Integers, Sequences, FiniteSets

CONSTANTS
    NumberOfStages, Producers, Script, EntryStage, Route, MayThrow, \* see StageFlow
    NumberOfThreads     \* what the policy's numberOfThreads() returns

Threads == 0 .. NumberOfThreads - 1

VARIABLES
    queue, heap, frame, script, served, thrown, \* see StageFlow
    thread,     \* thread[t]: where t is in tryProcess/process, with the stage it
                \* processes and the hadMessage_ of its PollingInformation
    launched,   \* how many threads start() has created
    done,       \* done_
    joined      \* join() has returned

Flow == INSTANCE StageFlow WITH Workers <- Threads

flowVars == <<queue, heap, frame, script, served, thrown>>
schedulerVars == <<thread, launched, done, joined>>
vars == <<queue, heap, frame, script, served, thrown, thread, launched, done, joined>>

Stage == Flow!Stage
NumberOfEntries == Flow!NumberOfEntries

Init ==
    /\ Flow!Init
    /\ thread = [t \in Threads |->
                  [pc |-> "unborn", stage |-> NumberOfEntries, hadMessage |-> FALSE]]
    /\ launched = 0
    /\ done = FALSE
    /\ joined = FALSE

Goto(t, from, to) ==
    /\ thread[t].pc = from
    /\ thread' = [thread EXCEPT ![t].pc = to]

-----------------------------------------------------------------------------
(* The thread that owns the scheduler                                      *)

(* One turn of the loop of start().                                        *)
Launch ==
    /\ launched < NumberOfThreads
    /\ Goto(launched, "unborn", "check")
    /\ launched' = launched + 1
    /\ UNCHANGED <<flowVars, done, joined>>

(* stop(), which any thread may call at any time.                          *)
Stop ==
    /\ ~done
    /\ done' = TRUE
    /\ UNCHANGED <<flowVars, thread, launched, joined>>

(* join() returns, when every thread start() created has ended.            *)
Join ==
    /\ launched = NumberOfThreads
    /\ ~joined
    /\ \A t \in Threads : thread[t].pc = "exited"
    /\ joined' = TRUE
    /\ UNCHANGED <<flowVars, thread, launched, done>>

-----------------------------------------------------------------------------
(* A processing thread                                                     *)

(* A plausible slip: the loop of tryProcess does not look at done_.        *)
CheckNothing(t) ==
    /\ Goto(t, "check", "next")
    /\ UNCHANGED <<flowVars, launched, done, joined>>

(* while(!done()).                                                         *)
CheckDone(t) ==
    /\ Goto(t, "check", IF done THEN "exited" ELSE "next")
    /\ UNCHANGED <<flowVars, launched, done, joined>>

(* nextStage returns stage s: a new PollingInformation, and batchStart.    *)
Visit(t, s) ==
    /\ thread[t].pc = "next"
    /\ thread' = [thread EXCEPT ![t] =
                   [pc |-> "poll", stage |-> s, hadMessage |-> TRUE]]
    /\ UNCHANGED <<flowVars, launched, done, joined>>

(* stage.process() finds a message and starts its functor.                 *)
PollMessage(t) ==
    /\ Goto(t, "poll", "work")
    /\ Flow!TryPop(t, thread[t].stage)
    /\ UNCHANGED <<launched, done, joined>>

(* ExhaustivePollingPolicy: incrementMessageCount, then continueProcessing *)
(* decides whether the thread stays.                                       *)
Polled(t, from, hadMessage) ==
    /\ thread[t].pc = from
    /\ thread' = [thread EXCEPT ![t].hadMessage = hadMessage,
                                ![t].pc = IF hadMessage THEN "poll" ELSE "ended"]

(* stage.process() finds the queue empty.                                  *)
PollEmpty(t) ==
    /\ Polled(t, "poll", FALSE)
    /\ queue[thread[t].stage] = <<>>
    /\ UNCHANGED <<flowVars, launched, done, joined>>

(* The functor dispatches.                                                 *)
Work(t) ==
    /\ Flow!Send(t)
    /\ UNCHANGED schedulerVars

(* stage.process() has processed a message.                                *)
Processed(t) ==
    /\ Flow!Release(t)
    /\ Polled(t, "work", TRUE)
    /\ UNCHANGED <<launched, done, joined>>

(* An exception leaves process() and the loop that calls it: tryProcess    *)
(* logs it and the thread ends, without batchEnd and without giving its    *)
(* assignment up.                                                          *)
Fail(t) ==
    /\ Flow!Throw(t)
    /\ Goto(t, "work", "exited")
    /\ UNCHANGED <<launched, done, joined>>

(* batchEnd, of which ExhaustivePollingPolicy makes nothing.               *)
BatchEnd(t) ==
    /\ Goto(t, "ended", "check")
    /\ UNCHANGED <<flowVars, launched, done, joined>>

(* Everything a processing thread does outside nextStage.                  *)
Process(t) ==
    \/ CheckDone(t)
    \/ PollMessage(t)
    \/ PollEmpty(t)
    \/ Work(t)
    \/ Processed(t)
    \/ Fail(t)
    \/ BatchEnd(t)

Produce(p) == Flow!Produce(p) /\ UNCHANGED schedulerVars

Owner == Launch \/ Stop \/ Join

-----------------------------------------------------------------------------
ThreadState == {"unborn", "check", "next", "poll", "work", "ended", "exited"}

TypeOK ==
    /\ Flow!TypeOK
    /\ thread \in [Threads -> [pc : ThreadState, stage : Stage \cup {NumberOfEntries},
                             hadMessage : BOOLEAN]]
    /\ launched \in 0 .. NumberOfThreads
    /\ done \in BOOLEAN
    /\ joined \in BOOLEAN
=============================================================================
