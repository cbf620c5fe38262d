---------------------------- MODULE QueueAdapters ---------------------------
(***************************************************************************)
(* Stages behind other queues than a concurrent queue.  The stage Adapter  *)
(* reads the queues of the input stages through a                          *)
(* MultipleInputQueueAdapter, one visitor at a time.  A pass-through stage *)
(* (PassThroughStageQueue, or ProcessingFunctorChain when it has several   *)
(* functors) has no queue: push runs its functors in the thread that       *)
(* dispatches, inside the sender's functor.                                *)
(***************************************************************************)
EXTENDS Integers, Sequences, FiniteSets, SequencesExt

CONSTANTS
    NumberOfStages,     \* StageEnumType::NumberOfEntries
    Adapter,            \* the stage whose queue is the MultipleInputQueueAdapter
    Inputs,             \* its input stages, in the order of addQueue
    PassThrough,        \* the stages whose queue is a pass-through queue
    Functor,            \* the processing functors
    Functors,           \* Functors[s]: what stage s applies to a message, in order
    Dispatches,         \* Dispatches[f]: the stages functor f dispatches to, in order
    MaxConcurrency,     \* MaxConcurrency[s]: see ThreadAssignments
    Workers,            \* the processing threads
    Producers,          \* the threads that create messages
    Script              \* Script[p]: what p creates, and the stage it dispatches it to

Stage == 0 .. NumberOfStages - 1
NumberOfEntries == NumberOfStages
Actor == Producers \cup Workers
InputStages == ToSet(Inputs)
Content == {item.content : item \in UNION {ToSet(Script[p]) : p \in Producers}}
numberOfQueues == Len(Inputs)

(* which_ is not atomic: the adapter is for stages with one visitor.  To   *)
(* push to the adapter itself is an error ("this should never be called"). *)
ASSUME QueueAdaptersAssumption ==
    /\ NumberOfStages \in Nat
    /\ Adapter \in Stage \ (PassThrough \cup InputStages)
    /\ Inputs \in Seq(Stage \ PassThrough)
    /\ IsInjective(Inputs) /\ Inputs # <<>>
    /\ Functors \in [Stage -> Seq(Functor)]
    /\ \A s \in Stage \ InputStages : Functors[s] # <<>>
    /\ Dispatches \in [Functor -> Seq(Stage \ {Adapter})]
    /\ MaxConcurrency \in [Stage -> Nat] /\ MaxConcurrency[Adapter] = 1
    /\ Producers \cap Workers = {}
    /\ Script \in [Producers -> Seq([content : Content, to : Stage \ {Adapter}])]

VARIABLES
    queue,      \* queue[s]: the concurrent queue of s, of an input stage: its AdaptedQueue
    heap,       \* as in StageFlow
    stack,      \* stack[a]: the calls of process, or of the code that creates a message,
                \* and of push that a is in, the innermost first (see Call)
    script,     \* script[p]: what p has still to create
    at,         \* at[w]: the stage w visits, or NumberOfEntries
    dead,       \* the workers an exception has ended
    which,      \* which_, as an index of Inputs
    search,     \* queuesPolled of the call of try_pop in progress, and, as history,
                \* the input stages that had messages when it began
    processed,  \* processed[f]: history of the contents f has returned from
    thrown,     \* history: the contents in whose processing a functor threw
    leaked,     \* leaked[m]: history of how many references to m exceptions skipped
    overtaken   \* overtaken[q][r]: history of the messages taken from r while the
                \* input stage q had one waiting

vars == <<queue, heap, stack, script, at, dead, which, search,
          processed, thrown, leaked, overtaken>>
adapterVars == <<at, which, search, overtaken>>
historyVars == <<processed, thrown, leaked>>

NoSearch == [queuesPolled |-> 0, there |-> {}, on |-> FALSE]

(* functors: the functor that runs and those that follow it in the chain;  *)
(* todo: the dispatches it has still to make; carrying: whether it has     *)
(* counted the message for a dispatch and not pushed it yet.               *)
Call(m, functors) ==
    [message |-> m, functors |-> functors, todo |-> Dispatches[Head(functors)],
     carrying |-> FALSE]

Top(a) == Head(stack[a])

AddRef(m) == [heap EXCEPT ![m].refs = @ + 1]
DropRef(m) == [heap EXCEPT ![m].refs = @ - 1, ![m].live = heap[m].refs # 1]

Init ==
    /\ queue = [s \in Stage |-> <<>>]
    /\ heap = <<>>
    /\ stack = [a \in Actor |-> <<>>]
    /\ script = Script
    /\ at = [w \in Workers |-> NumberOfEntries]
    /\ dead = {}
    /\ which = 1
    /\ search = NoSearch
    /\ processed = [f \in Functor |-> <<>>]
    /\ thrown = {}
    /\ leaked = <<>>
    /\ overtaken = [q \in InputStages |-> [r \in InputStages |-> 0]]

-----------------------------------------------------------------------------
(* A producer creates a message and is about to dispatch it. *)
Create(p) ==
    /\ stack[p] = <<>>
    /\ script[p] # <<>>
    /\ heap' = Append(heap, [content |-> Head(script[p]).content, refs |-> 1, live |-> TRUE])
    /\ leaked' = Append(leaked, 0)
    /\ stack' = [stack EXCEPT ![p] =
                  <<[message |-> Len(heap) + 1, functors |-> <<>>,
                     todo |-> <<Head(script[p]).to>>, carrying |-> FALSE]>>]
    /\ script' = [script EXCEPT ![p] = Tail(@)]
    /\ UNCHANGED <<queue, dead, adapterVars, processed, thrown>>

-----------------------------------------------------------------------------
(* A worker and the stages it visits *)

Enter(w, s) ==
    /\ w \notin dead
    /\ at[w] = NumberOfEntries
    /\ Cardinality({v \in Workers : at[v] = s}) < MaxConcurrency[s]
    /\ at' = [at EXCEPT ![w] = s]
    /\ UNCHANGED <<queue, heap, stack, script, dead, which, search, historyVars, overtaken>>

Polls(w, s) == w \notin dead /\ at[w] = s /\ stack[w] = <<>>

(* The message of queue s, adopted by the smartptr of process. *)
Take(w, s) ==
    /\ stack' = [stack EXCEPT ![w] = <<Call(Head(queue[s]), Functors[at[w]])>>]
    /\ queue' = [queue EXCEPT ![s] = Tail(@)]

(* process() finds a message in a concurrent queue. *)
TryPop(w, s) ==
    /\ s # Adapter
    /\ Polls(w, s)
    /\ queue[s] # <<>>
    /\ Take(w, s)
    /\ UNCHANGED <<heap, script, dead, adapterVars, historyVars>>

(* process() finds none, as always at a pass-through stage: the worker     *)
(* leaves the stage, as exhaustive polling has it.                         *)
TryPopEmpty(w, s) ==
    /\ s # Adapter
    /\ Polls(w, s)
    /\ queue[s] = <<>>
    /\ at' = [at EXCEPT ![w] = NumberOfEntries]
    /\ UNCHANGED <<queue, heap, stack, script, dead, which, search, historyVars, overtaken>>

-----------------------------------------------------------------------------
(* MultipleInputQueueAdapter::try_pop *)

(* A plausible slip: queuesPolled is incremented before it is compared.    *)
allQueuesPolledTooSoon(queuesPolled) == queuesPolled + 1 >= numberOfQueues

allQueuesPolled(queuesPolled) == queuesPolled >= numberOfQueues

(* A plausible slip: the queue that had a message is asked again.          *)
updateNextQueueWhenEmpty ==
    which' = IF queue[Inputs[which]] # <<>> THEN which
             ELSE IF which + 1 > numberOfQueues THEN 1 ELSE which + 1

(* A plausible slip: the index is compared before it is incremented.       *)
updateNextQueueTooLate == which' = IF which > numberOfQueues THEN 1 ELSE which + 1

updateNextQueue == which' = IF which + 1 > numberOfQueues THEN 1 ELSE which + 1

SearchBegins(w) ==
    /\ Polls(w, Adapter)
    /\ ~search.on
    /\ search' = [on |-> TRUE, queuesPolled |-> 0,
                  there |-> {s \in InputStages : queue[s] # <<>>}]
    /\ UNCHANGED <<queue, heap, stack, script, at, dead, which, historyVars, overtaken>>

(* One turn of the loop, when the queue is empty. *)
PollEmpty(w) ==
    /\ Polls(w, Adapter)
    /\ search.on
    /\ ~allQueuesPolled(search.queuesPolled)
    /\ queue[Inputs[which]] = <<>>
    /\ updateNextQueue
    /\ search' = [search EXCEPT !.queuesPolled = @ + 1]
    /\ UNCHANGED <<queue, heap, stack, script, at, dead, historyVars, overtaken>>

(* The last turn: the queue has a message, which process() handles. *)
PollMessage(w) ==
    /\ Polls(w, Adapter)
    /\ search.on
    /\ ~allQueuesPolled(search.queuesPolled)
    /\ LET from == Inputs[which] IN
         /\ queue[from] # <<>>
         /\ Take(w, from)
         /\ overtaken' = [q \in InputStages |-> [r \in InputStages |->
               IF q = from THEN 0
               ELSE IF r = from /\ queue[q] # <<>> THEN overtaken[q][r] + 1
               ELSE overtaken[q][r]]]
    /\ updateNextQueue
    /\ search' = NoSearch
    /\ UNCHANGED <<heap, script, at, dead, historyVars>>

(* try_pop returns false, and the worker leaves the stage. *)
SearchFails(w) ==
    /\ Polls(w, Adapter)
    /\ search.on
    /\ allQueuesPolled(search.queuesPolled)
    /\ search' = NoSearch
    /\ at' = [at EXCEPT ![w] = NumberOfEntries]
    /\ UNCHANGED <<queue, heap, stack, script, dead, which, historyVars, overtaken>>

-----------------------------------------------------------------------------
(* The functors, and the code that creates a message *)

Running(a) == stack[a] # <<>>

(* dispatch counts the message. *)
Retain(a) ==
    /\ Running(a)
    /\ Top(a).todo # <<>>
    /\ ~Top(a).carrying
    /\ heap' = AddRef(Top(a).message)
    /\ stack' = [stack EXCEPT ![a][1].carrying = TRUE]
    /\ UNCHANGED <<queue, script, dead, adapterVars, historyVars>>

(* The call that makes the next dispatch, once it has. *)
Dispatched(a) == [Top(a) EXCEPT !.todo = Tail(@), !.carrying = FALSE]

Pushing(a, s) == Running(a) /\ Top(a).carrying /\ Head(Top(a).todo) = s

(* push to a concurrent queue. *)
Push(a, s) ==
    /\ s \notin PassThrough
    /\ Pushing(a, s)
    /\ queue' = [queue EXCEPT ![s] = Append(@, Top(a).message)]
    /\ stack' = [stack EXCEPT ![a][1] = Dispatched(a)]
    /\ UNCHANGED <<heap, script, dead, adapterVars, historyVars>>

(* A plausible slip: the chain is run from its end. *)
PushThroughBackwards(a, s) ==
    /\ s \in PassThrough
    /\ Pushing(a, s)
    /\ stack' = [stack EXCEPT ![a] =
                  <<Call(Top(a).message, Reverse(Functors[s])), Dispatched(a)>> \o Tail(@)]
    /\ UNCHANGED <<queue, heap, script, dead, adapterVars, historyVars>>

(* push to a pass-through queue: the first functor starts. *)
PushThrough(a, s) ==
    /\ s \in PassThrough
    /\ Pushing(a, s)
    /\ stack' = [stack EXCEPT ![a] =
                  <<Call(Top(a).message, Functors[s]), Dispatched(a)>> \o Tail(@)]
    /\ UNCHANGED <<queue, heap, script, dead, adapterVars, historyVars>>

(* The functor that runs has made its dispatches and returns. *)
Returns(a) ==
    /\ Running(a)
    /\ Top(a).todo = <<>>

Processed(a) ==
    processed' = IF Top(a).functors = <<>> THEN processed
                 ELSE [processed EXCEPT ![Head(Top(a).functors)] =
                         Append(@, heap[Top(a).message].content)]

(* The chain goes on to its next functor. *)
NextFunctor(a) ==
    /\ Returns(a)
    /\ Len(Top(a).functors) > 1
    /\ stack' = [stack EXCEPT ![a][1] = Call(@.message, Tail(@.functors))]
    /\ Processed(a)
    /\ UNCHANGED <<queue, heap, script, dead, adapterVars, thrown, leaked>>

(* A plausible slip: push does not give back the reference of the dispatch. *)
ReturnKeepingReference(a) ==
    /\ Returns(a)
    /\ Len(Top(a).functors) <= 1
    /\ heap' = IF Len(stack[a]) = 1 THEN DropRef(Top(a).message) ELSE heap
    /\ stack' = [stack EXCEPT ![a] = Tail(@)]
    /\ Processed(a)
    /\ UNCHANGED <<queue, script, dead, adapterVars, thrown, leaked>>

(* A plausible slip: push returns after the first functor of the chain.    *)
ReturnAfterFirst(a) ==
    /\ Returns(a)
    /\ heap' = DropRef(Top(a).message)
    /\ stack' = [stack EXCEPT ![a] = Tail(@)]
    /\ Processed(a)
    /\ UNCHANGED <<queue, script, dead, adapterVars, thrown, leaked>>

(* The last functor has returned.  In push, decrementReferenceCount gives  *)
(* the dispatch's reference back and the sender's functor goes on; in      *)
(* process, and where a message is created, the smartptr goes.             *)
Return(a) ==
    /\ Returns(a)
    /\ Len(Top(a).functors) <= 1
    /\ heap' = DropRef(Top(a).message)
    /\ stack' = [stack EXCEPT ![a] = Tail(@)]
    /\ Processed(a)
    /\ UNCHANGED <<queue, script, dead, adapterVars, thrown, leaked>>

(* A functor throws, between its dispatches.  Unwinding goes through every *)
(* call of push, which then does not give its reference back, to process   *)
(* or the code that created the message, whose smartptr does.  A worker    *)
(* ends, and keeps its stage; a producer is taken to handle the exception. *)
Throw(a) ==
    /\ Running(a)
    /\ Top(a).functors # <<>>
    /\ ~Top(a).carrying
    /\ heap' = DropRef(Last(stack[a]).message)
    /\ leaked' = [m \in DOMAIN leaked |-> leaked[m]
                    + Cardinality({i \in DOMAIN Front(stack[a]) : stack[a][i].message = m})]
    /\ stack' = [stack EXCEPT ![a] = <<>>]
    /\ dead' = dead \cup ({a} \cap Workers)
    /\ thrown' = thrown \cup {heap[Top(a).message].content}
    /\ UNCHANGED <<queue, script, adapterVars, processed>>

-----------------------------------------------------------------------------
Next ==
    \/ \E p \in Producers : Create(p)
    \/ \E w \in Workers :
          \/ \E s \in Stage \ InputStages : Enter(w, s) \/ TryPop(w, s) \/ TryPopEmpty(w, s)
          \/ SearchBegins(w)
          \/ PollEmpty(w)
          \/ PollMessage(w)
          \/ SearchFails(w)
    \/ \E a \in Actor :
          \/ Retain(a)
          \/ \E s \in Stage : Push(a, s) \/ PushThrough(a, s)
          \/ NextFunctor(a)
          \/ Return(a)
          \/ Throw(a)

Spec == Init /\ [][Next]_vars
-----------------------------------------------------------------------------
Message == DOMAIN heap

TypeOK ==
    /\ queue \in [Stage -> Seq(Message)]
    /\ heap \in Seq([content : Content, refs : Nat, live : BOOLEAN])
    /\ stack \in [Actor -> Seq([message : Message, functors : Seq(Functor),
                                todo : Seq(Stage), carrying : BOOLEAN])]
    /\ at \in [Workers -> Stage \cup {NumberOfEntries}]
    /\ dead \subseteq Workers
    /\ which \in DOMAIN Inputs
    /\ search.queuesPolled \in 0 .. numberOfQueues
    /\ DOMAIN leaked = Message

Slots(m) == UNION {{<<s, i>> : i \in {j \in DOMAIN queue[s] : queue[s][j] = m}} : s \in Stage}
Calls(m) == UNION {{<<a, i>> : i \in {j \in DOMAIN stack[a] : stack[a][j].message = m}} : a \in Actor}
Carriers(m) == {c \in Calls(m) : stack[c[1]][c[2]].carrying}

(* The count of a message is the number of queue slots, calls of process   *)
(* or push and unfinished dispatches that hold it, and of the references   *)
(* that exceptions thrown through push have left behind: a message handled *)
(* inline stays alive for its sender, and only such an exception makes it  *)
(* live for ever.                                                          *)
RefCountExact ==
    \A m \in Message :
        /\ heap[m].refs = Cardinality(Slots(m)) + Cardinality(Calls(m))
                          + Cardinality(Carriers(m)) + leaked[m]
        /\ heap[m].live = (heap[m].refs > 0)

(* Functor f of actor a works on message m: it has made no dispatch yet.   *)
Works(a, m) ==
    /\ Running(a)
    /\ Top(a).message = m
    /\ Top(a).functors # <<>>
    /\ ~Top(a).carrying
    /\ Top(a).todo = Dispatches[Head(Top(a).functors)]

(* What ProcessingFunctorChain asks of an application: of the functors of a*)
(* chain only the last dispatches.  And no functor to more than one stage. *)
OneAfterTheOther ==
    /\ \A f \in Functor : Len(Dispatches[f]) <= 1
    /\ \A s \in Stage : \A i \in 1 .. Len(Functors[s]) - 1 : Dispatches[Functors[s][i]] = <<>>

(* The caveat of ProcessingFunctorChain (dispatching earlier in the chain  *)
(* "can introduce race conditions into your application") asks enough: as  *)
(* long as only the last functor dispatches, and to one stage, no two      *)
(* functors work on a message at the same time, although the functors of a *)
(* pass-through stage run in as many threads as send to it.                *)
OneFunctorAtATime ==
    \A m \in Message : Cardinality({a \in Actor : Works(a, m)}) <= 1

(* "It will check the input queues in a round-robin fashion": while a      *)
(* message waits in one input queue, no other is served twice.             *)
InputsTakeTurns ==
    \A q, r \in InputStages : overtaken[q][r] <= 1

(* "When we've polled all queues and they're all empty": try_pop does not  *)
(* return false when a message was there as it began, also while producers *)
(* push to queues it has already polled.                                   *)
FoundIfThere ==
    search.on /\ allQueuesPolled(search.queuesPolled) => search.there = {}

AtRest ==
    /\ \A p \in Producers : script[p] = <<>>
    /\ \A s \in Stage : queue[s] = <<>>
    /\ \A a \in Actor : stack[a] = <<>>

(* The functors that a message dispatched to stage s comes to, in order.   *)
FunctorsBehind(s) == Functors[IF s \in InputStages THEN Adapter ELSE s]
Handlers(s) == ToSet(FunctorsBehind(s))

(* The stages V on the way to functor f: whatever leads to f is among      *)
(* them, each leads there through one functor, by one dispatch, and f does *)
(* not dispatch back to them.                                              *)
Leads(V, f, g) == g = f \/ \E i \in DOMAIN Dispatches[g] : Dispatches[g][i] \in V
Way(V, f) ==
    /\ \A s \in Stage : \A i, j \in DOMAIN FunctorsBehind(s) :
          Leads(V, f, FunctorsBehind(s)[i]) =>
             /\ s \in V
             /\ Leads(V, f, FunctorsBehind(s)[j]) => i = j
    /\ \A g \in Functor : \A i, j \in DOMAIN Dispatches[g] :
          Dispatches[g][i] \in V /\ Dispatches[g][j] \in V => i = j /\ g # f

(* There is at most one way from a stage to a functor.                     *)
OneWay == \A f \in Functor : \E V \in SUBSET Stage : Way(V, f)

(* No two messages are created with the same content.                      *)
DistinctContents ==
    \A p, q \in Producers : \A i \in DOMAIN Script[p], j \in DOMAIN Script[q] :
        Script[p][i].content = Script[q][j].content => p = q /\ i = j

Reached(c, s) == \A f \in Handlers(s) : c \in ToSet(processed[f]) \cup thrown

(* No functor handles a message twice, where the routes and the scripts    *)
(* bring it none twice.                                                    *)
NeverTwice == \A f \in Functor : IsInjective(processed[f])

(* When all has come to rest, every functor behind every dispatch has      *)
(* handled the message, also when the dispatch went through a pass-through *)
(* queue or one of several input queues, but for the messages a functor    *)
(* threw at.                                                               *)
NothingLost ==
    AtRest =>
        /\ \A p \in Producers : \A i \in DOMAIN Script[p] :
              Reached(Script[p][i].content, Script[p][i].to)
        /\ \A f \in Functor : \A c \in ToSet(processed[f]), s \in ToSet(Dispatches[f]) :
              Reached(c, s)

(* Each functor handles a message once at most, and at rest once.          *)
ExactlyOnce == NeverTwice /\ NothingLost
=============================================================================
