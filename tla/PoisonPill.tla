----------------------------- MODULE PoisonPill -----------------------------
(***************************************************************************)
(* Stopping a dataflow application from the inside, as examplePoisonPill   *)
(* does it on the ThreadPerStage policy: after its lines, main dispatches  *)
(* a pill; every functor that gets the pill counts it before it dispatches *)
(* it on, and the one that counts it for the last stage calls stop().      *)
(* The pill is one shared message, so that its counter is shared, too.     *)
(***************************************************************************)
EXTENDS Integers, Sequences, FiniteSets, SequencesExt

CONSTANTS
    NumberOfStages, Route,      \* see StageFlow
    EntryStage,         \* the stage of the pf1 functor, to which main dispatches
    Main,               \* the thread that owns the scheduler and reads the lines
    Lines,              \* the lines of the input
    Pill                \* the content of the pill

VARIABLES
    queue, heap, frame, script, served, thrown, thread, launched, done, joined, \* see SchedulerBase
    count,              \* count_ of the pill
    pillCall            \* pillCall[t]: where t's functor is in PoisonPill::done()

Messages == Append(Lines, Pill)

Application == INSTANCE ThreadPerStage
    WITH Producers <- {Main}, Script <- [p \in {Main} |-> Messages],
         EntryStage <- [p \in {Main} |-> EntryStage], MayThrow <- FALSE

vars == <<queue, heap, frame, script, served, thrown, thread, launched, done, joined, count, pillCall>>
pillVars == <<count, pillCall>>
Threads == Application!Threads

(* No functor dispatches a copy: the pill that comes to a stage is the one *)
(* whose counter main created.                                             *)
ASSUME PoisonPillAssumption ==
    /\ NumberOfStages \in Nat \ {0}
    /\ Route \in [Threads -> Seq([to : Threads, clone : {FALSE}])]
    /\ EntryStage \in Threads
    /\ Main \notin Threads
    /\ Lines \in Seq(ToSet(Lines))
    /\ Pill \notin ToSet(Lines)

(* What is dispatched to a stage comes from one place: to the entry stage  *)
(* from main, to any other from one dispatch of one functor.               *)
Tree ==
    \A r \in Threads : \A i \in DOMAIN Route[r] :
        /\ Route[r][i].to # EntryStage
        /\ \A q \in Threads : \A j \in DOMAIN Route[q] :
              Route[r][i].to = Route[q][j].to => r = q /\ i = j

Init ==
    /\ Application!Init
    /\ count = 0
    /\ pillCall = [t \in Threads |-> "none"]

(* start(), one turn of its loop. *)
Launch ==
    /\ Application!Base!Launch
    /\ UNCHANGED pillVars

(* Every message is dispatched; main's own pointer to the pill stays in    *)
(* scope until the end.                                                    *)
Fed == script[Main] = <<>> /\ frame[Main].todo = <<>>

(* main reads the lines and dispatches them, and then the pill, which it   *)
(* releases after join().                                                  *)
Feed ==
    /\ launched = Cardinality(Threads)
    /\ Fed => joined
    /\ Application!Base!Produce(Main)
    /\ UNCHANGED pillVars

(* main joins the threads. *)
Join ==
    /\ Fed
    /\ Application!Base!Join
    /\ UNCHANGED pillVars

(* A message is popped; if it is the pill, its functor first calls done(). *)
Poll(t) ==
    /\ Application!Base!PollMessage(t)
    /\ pillCall' = [pillCall EXCEPT ![t] =
                      IF heap[frame'[t].hand].content = Pill THEN "count" ELSE "none"]
    /\ UNCHANGED count

(* A plausible slip: the count starts from the second stage. *)
CountOneTooFew(t) ==
    /\ pillCall[t] = "count"
    /\ count' = count + 1
    /\ pillCall' = [pillCall EXCEPT ![t] =
                      IF count' = NumberOfStages - 1 THEN "stop" ELSE "none"]
    /\ UNCHANGED <<queue, heap, frame, script, served, thrown, thread, launched, done, joined>>

(* A plausible slip: the count is compared before it is incremented. *)
CountOneTooMany(t) ==
    /\ pillCall[t] = "count"
    /\ count' = count + 1
    /\ pillCall' = [pillCall EXCEPT ![t] =
                      IF count = NumberOfStages THEN "stop" ELSE "none"]
    /\ UNCHANGED <<queue, heap, frame, script, served, thrown, thread, launched, done, joined>>

(* PoisonPill::done(): the atomic ++count_ and the comparison. *)
Count(t) ==
    /\ pillCall[t] = "count"
    /\ count' = count + 1
    /\ pillCall' = [pillCall EXCEPT ![t] =
                      IF count' = NumberOfStages THEN "stop" ELSE "none"]
    /\ UNCHANGED <<queue, heap, frame, script, served, thrown, thread, launched, done, joined>>

(* PoisonPill::done() calls back into the scheduler. *)
CallStop(t) ==
    /\ pillCall[t] = "stop"
    /\ Application!Base!Stop
    /\ pillCall' = [pillCall EXCEPT ![t] = "none"]
    /\ UNCHANGED count

(* Everything else a processing thread does. *)
Proceed(t) ==
    /\ pillCall[t] = "none"
    /\ Application!ThreadStep(t)
    /\ ~Application!Base!PollMessage(t)
    /\ UNCHANGED pillVars

ThreadStep(t) == Poll(t) \/ Count(t) \/ CallStop(t) \/ Proceed(t)

Next ==
    \/ Launch
    \/ Feed
    \/ Join
    \/ \E t \in Threads : ThreadStep(t)

(* The operating system runs every thread. *)
Fairness ==
    /\ WF_vars(Launch \/ Feed \/ Join)
    /\ \A t \in Threads : WF_vars(ThreadStep(t))

Spec == Init /\ [][Next]_vars /\ Fairness
-----------------------------------------------------------------------------
(* When the pill stops the scheduler, every stage has processed every      *)
(* line, also those on another branch than the stage that counted last:    *)
(* the lines the example expects of pf4 are never lost to the stop.        *)
LinesBeforeStop == done => \A s \in Threads : IsPrefix(Lines, served[s])

(* The application ends by itself, and no message outlives it.             *)
Ends == <>(joined /\ \A m \in DOMAIN heap : ~heap[m].live)
=============================================================================
