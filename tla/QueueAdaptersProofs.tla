-------------------------- MODULE QueueAdaptersProofs -----------------------
(***************************************************************************)
(* The queue adapters, for any stages, input stages, chains of functors,   *)
(* threads and scripts: that the adapter's search finds what is there and  *)
(* serves its inputs in turns, that the counts of messages handled inline  *)
(* are exact, that one functor at a time has a message in hand, and that   *)
(* every functor handles every message that is sent to it, and none twice. *)
(***************************************************************************)
EXTENDS QueueAdapters, FiniteSetTheorems, FunctionTheorems, SequenceTheorems, TLAPS

-----------------------------------------------------------------------------
(* Types.  That a count is never negative takes the counting below.        *)

Objects == [content : Content, refs : Int, live : BOOLEAN]
CallRecords == [message : Message, functors : Seq(Functor), todo : Seq(Stage), carrying : BOOLEAN]
Searches == [queuesPolled : 0 .. numberOfQueues, there : SUBSET InputStages, on : BOOLEAN]

(* Only the innermost call of a thread is in the middle of a dispatch, and *)
(* then it has one to make.                                                *)
Coherent(calls) ==
    \A i \in DOMAIN calls : calls[i].carrying => i = 1 /\ calls[i].todo # <<>>

Typed ==
    /\ queue \in [Stage -> Seq(Message)]
    /\ heap \in Seq(Objects)
    /\ stack \in [Actor -> Seq(CallRecords)]
    /\ \A a \in Actor : Coherent(stack[a])
    /\ script \in [Producers -> Seq([content : Content, to : Stage \ {Adapter}])]
    /\ at \in [Workers -> Stage \cup {NumberOfEntries}]
    /\ dead \subseteq Workers
    /\ which \in 1 .. numberOfQueues
    /\ search \in Searches

LEMMA Positions ==
    /\ numberOfQueues \in Nat \ {0}
    /\ DOMAIN Inputs = 1 .. numberOfQueues
    /\ \A i \in DOMAIN Inputs : Inputs[i] \in InputStages
    /\ \A s \in InputStages : \E i \in DOMAIN Inputs : Inputs[i] = s
    /\ InputStages \subseteq Stage
    /\ \A i, j \in DOMAIN Inputs : Inputs[i] = Inputs[j] => i = j
<1>1. Inputs \in Seq(Stage \ PassThrough) /\ Inputs # <<>>
    BY QueueAdaptersAssumption
<1>2. numberOfQueues \in Nat \ {0} /\ DOMAIN Inputs = 1 .. numberOfQueues
    BY <1>1, EmptySeq, LenProperties DEF numberOfQueues
<1>3. \A i \in DOMAIN Inputs : Inputs[i] \in Stage
    BY <1>1, LenProperties
<1> QED
    BY <1>2, <1>3, QueueAdaptersAssumption DEF InputStages, ToSet, IsInjective

LEMMA TypedInit == Init => Typed
<1> SUFFICES ASSUME Init PROVE Typed
    OBVIOUS
<1>1. NoSearch \in Searches
    BY Positions DEF NoSearch, Searches
<1>2. /\ queue \in [Stage -> Seq(Message)] /\ heap \in Seq(Objects)
      /\ stack \in [Actor -> Seq(CallRecords)]
    BY DEF Init
<1>3. \A a \in Actor : Coherent(stack[a])
    BY DEF Init, Coherent
<1>4. which \in 1 .. numberOfQueues
    BY Positions DEF Init
<1>5. at \in [Workers -> Stage \cup {NumberOfEntries}] /\ dead \subseteq Workers
    BY DEF Init
<1> QED
    BY <1>1, <1>2, <1>3, <1>4, <1>5, QueueAdaptersAssumption DEF Init, Typed

(* A step that keeps the messages there are, replaces the calls of one     *)
(* actor and perhaps one queue.                                            *)
HeapKept ==
    /\ heap' \in Seq(Objects)
    /\ Message \subseteq Message'
    /\ \A m \in Message : heap'[m].content = heap[m].content

LEMMA KeptQueues ==
    ASSUME Typed, HeapKept
    PROVE  queue \in [Stage -> Seq(Message')] /\ stack \in [Actor -> Seq(CallRecords')]
<1>1. CallRecords \subseteq CallRecords'
    BY DEF HeapKept, CallRecords
<1> QED
    BY <1>1, SeqMonotonic DEF Typed, HeapKept

LEMMA KeptStack ==
    ASSUME Typed, HeapKept, NEW a \in Actor, NEW calls \in Seq(CallRecords'), Coherent(calls),
           stack' = [stack EXCEPT ![a] = calls]
    PROVE  stack' \in [Actor -> Seq(CallRecords')] /\ \A b \in Actor : Coherent(stack'[b])
BY KeptQueues DEF Typed

LEMMA TopCall ==
    ASSUME Typed, NEW a \in Actor, stack[a] # <<>>
    PROVE  /\ stack[a] \in Seq(CallRecords) /\ Len(stack[a]) \in Nat \ {0}
           /\ DOMAIN stack[a] = 1 .. Len(stack[a])
           /\ Top(a) = stack[a][1] /\ Top(a) \in CallRecords
           /\ Top(a).carrying => Top(a).todo # <<>>
           /\ Tail(stack[a]) \in Seq(CallRecords) /\ Coherent(Tail(stack[a]))
           /\ \A i \in 1 .. Len(stack[a]) : i # 1 => ~stack[a][i].carrying
<1>1. stack[a] \in Seq(CallRecords) /\ Coherent(stack[a])
    BY DEF Typed
<1>2. /\ Len(stack[a]) \in Nat \ {0} /\ DOMAIN stack[a] = 1 .. Len(stack[a])
      /\ Top(a) = stack[a][1] /\ Top(a) \in CallRecords
      /\ Tail(stack[a]) \in Seq(CallRecords)
    BY <1>1, EmptySeq, LenProperties, HeadTailProperties DEF Top
<1>3. Coherent(Tail(stack[a]))
  <2> SUFFICES ASSUME NEW i \in DOMAIN Tail(stack[a]), Tail(stack[a])[i].carrying
               PROVE  FALSE
      BY DEF Coherent
  <2>1. i \in 1 .. Len(stack[a]) - 1 /\ Tail(stack[a])[i] = stack[a][i + 1]
      BY <1>1, <1>2, HeadTailProperties, LenProperties
  <2> QED
      BY <1>1, <1>2, <2>1 DEF Coherent
<1> QED
    BY <1>1, <1>2, <1>3 DEF Coherent

LEMMA MessageIsNumber == ASSUME Typed PROVE Message = 1 .. Len(heap) /\ Len(heap) \in Nat
BY LenProperties DEF Typed, Message

LEMMA HeapObject ==
    ASSUME Typed, NEW m \in Message
    PROVE  heap[m] \in Objects
<1>1. heap \in Seq(Objects)
    BY DEF Typed
<1> QED
    BY <1>1, ElementOfSeq, LenProperties DEF Message

(* Counting a message one way or the other.                                *)
LEMMA Counting ==
    ASSUME Typed, NEW m \in Message, NEW o \in Objects, o.content = heap[m].content,
           heap' = [heap EXCEPT ![m] = o]
    PROVE  /\ HeapKept
           /\ Message' = Message
           /\ \A n \in Message : n # m => heap'[n] = heap[n]
           /\ heap'[m] = o
<1>1. heap \in Seq(Objects)
    BY DEF Typed
<1> QED
    BY <1>1, ExceptSeq, LenProperties DEF Message, HeapKept

LEMMA Added ==
    ASSUME Typed, NEW m \in Message, heap' = AddRef(m)
    PROVE  /\ HeapKept
           /\ Message' = Message
           /\ \A n \in Message : n # m => heap'[n] = heap[n]
           /\ heap'[m].refs = heap[m].refs + 1
           /\ heap'[m].live = heap[m].live
<1> DEFINE o == [heap[m] EXCEPT !.refs = @ + 1]
<1>1. heap[m] \in Objects
    BY HeapObject
<1>2. /\ o \in Objects /\ o.content = heap[m].content
      /\ o.refs = heap[m].refs + 1 /\ o.live = heap[m].live
    BY <1>1 DEF Objects
<1>3. heap' = [heap EXCEPT ![m] = o]
    BY DEF AddRef
<1> HIDE DEF o
<1> QED
    BY <1>2, <1>3, Counting

LEMMA Dropped ==
    ASSUME Typed, NEW m \in Message, heap' = DropRef(m)
    PROVE  /\ HeapKept
           /\ Message' = Message
           /\ \A n \in Message : n # m => heap'[n] = heap[n]
           /\ heap'[m].refs = heap[m].refs - 1
           /\ heap'[m].live <=> heap[m].refs # 1
<1> DEFINE o == [heap[m] EXCEPT !.refs = @ - 1, !.live = heap[m].refs # 1]
<1>1. heap[m] \in Objects
    BY HeapObject
<1>2. /\ o \in Objects /\ o.content = heap[m].content
      /\ o.refs = heap[m].refs - 1 /\ (o.live <=> heap[m].refs # 1)
  <2>1. heap[m].refs \in Int /\ heap[m].refs - 1 \in Int
      BY <1>1 DEF Objects
  <2> QED
      BY <1>1, <2>1 DEF Objects
<1>4. heap' = [heap EXCEPT ![m] = o]
    BY DEF DropRef
<1> HIDE DEF o
<1> QED
    BY <1>2, <1>4, Counting

LEMMA TypedCreate ==
    ASSUME Typed, NEW p \in Producers, Create(p)
    PROVE  /\ Typed' /\ HeapKept
           /\ Message' = Message \cup {Len(heap) + 1} /\ Len(heap) + 1 \notin Message
           /\ \A m \in Message : heap'[m] = heap[m]
           /\ heap'[Len(heap) + 1].refs = 1 /\ heap'[Len(heap) + 1].live
<1> DEFINE o == [content |-> Head(script[p]).content, refs |-> 1, live |-> TRUE]
<1> DEFINE calls == <<[message |-> Len(heap) + 1, functors |-> <<>>,
                       todo |-> <<Head(script[p]).to>>, carrying |-> FALSE]>>
<1>1. /\ p \in Actor /\ p \notin Workers
      /\ script[p] \in Seq([content : Content, to : Stage \ {Adapter}]) /\ script[p] # <<>>
    BY QueueAdaptersAssumption DEF Create, Actor, Typed
<1>2. /\ Head(script[p]).content \in Content /\ Head(script[p]).to \in Stage
      /\ Tail(script[p]) \in Seq([content : Content, to : Stage \ {Adapter}])
  <2>1. /\ Head(script[p]) \in [content : Content, to : Stage \ {Adapter}]
        /\ Tail(script[p]) \in Seq([content : Content, to : Stage \ {Adapter}])
      BY <1>1, HeadTailProperties
  <2> QED
      BY <2>1
<1>3. o \in Objects /\ o.refs = 1 /\ o.live
    BY <1>2 DEF Objects
<1>4. heap' = Append(heap, o) /\ heap \in Seq(Objects)
    BY DEF Create, Typed
<1> HIDE DEF o
<1>5. /\ HeapKept /\ Message' = Message \cup {Len(heap) + 1} /\ Len(heap) + 1 \notin Message
      /\ \A m \in Message : heap'[m] = heap[m]
      /\ heap'[Len(heap) + 1] = o
    BY <1>3, <1>4 DEF HeapKept, Message
<1>6. calls \in Seq(CallRecords')
    BY <1>2, <1>5 DEF CallRecords
<1>7. Coherent(calls)
    BY DEF Coherent
<1>8. stack' = [stack EXCEPT ![p] = calls]
    BY DEF Create
<1> HIDE DEF calls
<1>9. stack' \in [Actor -> Seq(CallRecords')] /\ \A b \in Actor : Coherent(stack'[b])
    BY <1>1, <1>5, <1>6, <1>7, <1>8, KeptStack
<1>10. queue' \in [Stage -> Seq(Message')]
    BY <1>5, KeptQueues DEF Create
<1>11. script' \in [Producers -> Seq([content : Content, to : Stage \ {Adapter}])]
    BY <1>2 DEF Create, Typed
<1>12. Typed'
    BY <1>5, <1>9, <1>10, <1>11 DEF Create, Typed, HeapKept, adapterVars, Searches
<1> QED
    BY <1>3, <1>5, <1>12

LEMMA NothingAllocated == ASSUME Typed, heap' = heap PROVE HeapKept /\ Message' = Message
BY DEF HeapKept, Message, Typed

(* What a functor is called with.                                          *)
LEMMA NewCall ==
    ASSUME NEW m \in Message, NEW functors \in Seq(Functor), functors # <<>>
    PROVE  /\ Call(m, functors) \in CallRecords /\ ~Call(m, functors).carrying
           /\ Call(m, functors).message = m
<1>1. Head(functors) \in Functor
    BY HeadTailProperties
<1>2. Dispatches[Head(functors)] \in Seq(Stage \ {Adapter})
    BY <1>1, QueueAdaptersAssumption
<1>3. Dispatches[Head(functors)] \in Seq(Stage)
    BY <1>2, SeqMonotonic
<1> QED
    BY <1>3 DEF Call, CallRecords

LEMMA FunctorsOfStage ==
    ASSUME NEW s \in Stage, s \notin InputStages
    PROVE  Functors[s] \in Seq(Functor) /\ Functors[s] # <<>>
BY QueueAdaptersAssumption

(* A worker takes a message of a queue of the stage it visits.             *)
LEMMA TypedTake ==
    ASSUME Typed, NEW w \in Workers, NEW s \in Stage, queue[s] # <<>>, Take(w, s), heap' = heap,
           at[w] \in Stage, at[w] \notin InputStages
    PROVE  /\ queue' \in [Stage -> Seq(Message')] /\ stack' \in [Actor -> Seq(CallRecords')]
           /\ \A b \in Actor : Coherent(stack'[b])
           /\ HeapKept /\ Message' = Message
<1>1. HeapKept /\ Message' = Message /\ w \in Actor
    BY NothingAllocated DEF Actor
<1>2. queue[s] \in Seq(Message)
    BY DEF Typed
<1>3. Head(queue[s]) \in Message /\ Tail(queue[s]) \in Seq(Message)
    BY <1>2, HeadTailProperties
<1> DEFINE calls == <<Call(Head(queue[s]), Functors[at[w]])>>
<1>4. /\ Call(Head(queue[s]), Functors[at[w]]) \in CallRecords
      /\ ~Call(Head(queue[s]), Functors[at[w]]).carrying
    BY <1>3, FunctorsOfStage, NewCall
<1>5. calls \in Seq(CallRecords') /\ Coherent(calls)
    BY <1>1, <1>4 DEF Coherent, CallRecords
<1>6. stack' = [stack EXCEPT ![w] = calls]
    BY DEF Take
<1> HIDE DEF calls
<1>7. stack' \in [Actor -> Seq(CallRecords')] /\ \A b \in Actor : Coherent(stack'[b])
    BY <1>1, <1>5, <1>6, KeptStack
<1>8. queue' \in [Stage -> Seq(Message')]
    BY <1>1, <1>3 DEF Take, Typed
<1> QED
    BY <1>1, <1>7, <1>8

LEMMA NextQueue == ASSUME Typed, updateNextQueue PROVE which' \in 1 .. numberOfQueues
BY Positions DEF Typed, updateNextQueue

(* A visit to a stage, outside the functors. *)
LEMMA TypedVisit ==
    ASSUME Typed, NEW w \in Workers,
           \/ \E s \in Stage \ InputStages : Enter(w, s) \/ TryPopEmpty(w, s)
           \/ SearchBegins(w) \/ PollEmpty(w) \/ SearchFails(w)
    PROVE  Typed'
<1>1. /\ heap' = heap /\ queue' = queue /\ stack' = stack /\ script' = script /\ dead' = dead
    BY DEF Enter, TryPopEmpty, SearchBegins, PollEmpty, SearchFails
<1>2. Message' = Message /\ CallRecords' = CallRecords
    BY <1>1 DEF Message, CallRecords
<1>3. at' \in [Workers -> Stage \cup {NumberOfEntries}]
    BY DEF Enter, TryPopEmpty, SearchBegins, PollEmpty, SearchFails, Typed
<1>4. which' \in 1 .. numberOfQueues
    BY NextQueue DEF Enter, TryPopEmpty, SearchBegins, PollEmpty, SearchFails, Typed
<1>5. search' \in Searches
  <2>1. CASE SearchBegins(w)
      BY <2>1, Positions DEF SearchBegins, Searches
  <2>2. CASE PollEmpty(w)
    <3>1. /\ search \in Searches /\ search' = [search EXCEPT !.queuesPolled = @ + 1]
          /\ ~(search.queuesPolled >= numberOfQueues)
        BY <2>2 DEF PollEmpty, allQueuesPolled, Typed
    <3>2. search.queuesPolled + 1 \in 0 .. numberOfQueues
        BY <3>1, Positions DEF Searches
    <3> QED
        BY <3>1, <3>2 DEF Searches
  <2>3. CASE SearchFails(w)
      BY <2>3, Positions DEF SearchFails, NoSearch, Searches
  <2>4. CASE \E s \in Stage \ InputStages : Enter(w, s) \/ TryPopEmpty(w, s)
      BY <2>4 DEF Enter, TryPopEmpty, Typed
  <2> QED
      BY <2>1, <2>2, <2>3, <2>4
<1> QED
    BY <1>1, <1>2, <1>3, <1>4, <1>5 DEF Typed

LEMMA TypedPop ==
    ASSUME Typed, NEW w \in Workers,
           (\E s \in Stage \ InputStages : TryPop(w, s)) \/ PollMessage(w)
    PROVE  Typed' /\ HeapKept /\ Message' = Message
<1>1. CASE PollMessage(w)
  <2> DEFINE from == Inputs[which]
  <2>1. from \in Stage
      BY Positions DEF Typed
  <2>2. /\ queue[from] # <<>> /\ Take(w, from) /\ heap' = heap
        /\ at[w] = Adapter
      BY <1>1 DEF PollMessage, Polls
  <2>3. Adapter \in Stage /\ Adapter \notin InputStages
      BY QueueAdaptersAssumption
  <2> HIDE DEF from
  <2>4. /\ queue' \in [Stage -> Seq(Message')] /\ stack' \in [Actor -> Seq(CallRecords')]
        /\ \A b \in Actor : Coherent(stack'[b])
        /\ HeapKept /\ Message' = Message
      BY <2>1, <2>2, <2>3, TypedTake
  <2>5. NoSearch \in Searches
      BY Positions DEF NoSearch, Searches
  <2>6. which' \in 1 .. numberOfQueues /\ search' = NoSearch
      BY <1>1, NextQueue DEF PollMessage
  <2>7. UNCHANGED <<script, at, dead>>
      BY <1>1 DEF PollMessage
  <2> QED
      BY <2>4, <2>5, <2>6, <2>7 DEF Typed, HeapKept
<1>2. ASSUME NEW s \in Stage \ InputStages, TryPop(w, s)
      PROVE  Typed' /\ HeapKept /\ Message' = Message
  <2>1. queue[s] # <<>> /\ Take(w, s) /\ heap' = heap /\ at[w] = s
      BY <1>2 DEF TryPop, Polls
  <2>2. /\ queue' \in [Stage -> Seq(Message')] /\ stack' \in [Actor -> Seq(CallRecords')]
        /\ \A b \in Actor : Coherent(stack'[b])
        /\ HeapKept /\ Message' = Message
      BY <2>1, TypedTake
  <2>3. UNCHANGED <<script, at, dead, which, search>>
      BY <1>2 DEF TryPop, adapterVars
  <2> QED
      BY <2>2, <2>3 DEF Typed, HeapKept
<1> QED
    BY <1>1, <1>2

(* A step of a functor: the visits and the search are left alone.          *)
LEMMA TypedCall ==
    ASSUME Typed, HeapKept, NEW a \in Actor, NEW calls \in Seq(CallRecords'), Coherent(calls),
           stack' = [stack EXCEPT ![a] = calls],
           queue' \in [Stage -> Seq(Message')], dead' \subseteq Workers,
           UNCHANGED <<script, adapterVars>>
    PROVE  Typed'
<1>1. stack' \in [Actor -> Seq(CallRecords')] /\ \A b \in Actor : Coherent(stack'[b])
    BY KeptStack
<1> QED
    BY <1>1 DEF Typed, HeapKept, adapterVars, Searches

(* The innermost call, replaced by another.                                *)
LEMMA Replaced ==
    ASSUME Typed, NEW a \in Actor, stack[a] # <<>>, CallRecords \subseteq CallRecords',
           NEW c \in CallRecords', c.carrying => c.todo # <<>>
    PROVE  /\ [stack[a] EXCEPT ![1] = c] \in Seq(CallRecords')
           /\ Len([stack[a] EXCEPT ![1] = c]) = Len(stack[a])
           /\ \A i \in 1 .. Len(stack[a]) : [stack[a] EXCEPT ![1] = c][i] =
                 IF i = 1 THEN c ELSE stack[a][i]
           /\ Coherent([stack[a] EXCEPT ![1] = c])
<1>1. /\ stack[a] \in Seq(CallRecords') /\ 1 \in 1 .. Len(stack[a])
      /\ \A i \in 1 .. Len(stack[a]) : i # 1 => ~stack[a][i].carrying
  <2>1. stack[a] \in Seq(CallRecords) /\ Len(stack[a]) \in Nat \ {0}
      BY TopCall
  <2> QED
      BY <2>1, TopCall, SeqMonotonic
<1> DEFINE calls == [stack[a] EXCEPT ![1] = c]
<1>2. /\ calls \in Seq(CallRecords') /\ Len(calls) = Len(stack[a])
      /\ \A i \in 1 .. Len(stack[a]) : calls[i] = IF i = 1 THEN c ELSE stack[a][i]
    BY <1>1, ExceptSeq
<1> HIDE DEF calls
<1>3. DOMAIN calls = 1 .. Len(stack[a])
    BY <1>2, LenProperties
<1>4. Coherent(calls)
    BY <1>1, <1>2, <1>3 DEF Coherent
<1> QED
    BY <1>2, <1>4 DEF calls

LEMMA TypedRetain ==
    ASSUME Typed, NEW a \in Actor, Retain(a)
    PROVE  Typed'
<1> DEFINE m == Top(a).message
<1> DEFINE c == [Top(a) EXCEPT !.carrying = TRUE]
<1>1. stack[a] # <<>> /\ Top(a).todo # <<>> /\ heap' = AddRef(m)
    BY DEF Retain, Running
<1>2. Top(a) \in CallRecords /\ m \in Message /\ Top(a) = stack[a][1]
    BY <1>1, TopCall DEF CallRecords
<1>3. HeapKept /\ Message' = Message
    BY <1>1, <1>2, Added
<1>4. c \in CallRecords' /\ c.todo # <<>>
    BY <1>1, <1>2, <1>3 DEF CallRecords
<1>5. stack' = [stack EXCEPT ![a] = [stack[a] EXCEPT ![1] = c]]
    BY <1>2 DEF Retain
<1> HIDE DEF c
<1>6. CallRecords \subseteq CallRecords' /\ (c.carrying => c.todo # <<>>)
    BY <1>3, <1>4 DEF CallRecords
<1> DEFINE calls == [stack[a] EXCEPT ![1] = c]
<1>7. calls \in Seq(CallRecords') /\ Coherent(calls)
    BY <1>1, <1>4, <1>6, Replaced
<1> HIDE DEF calls
<1>8. stack' = [stack EXCEPT ![a] = calls]
    BY <1>5 DEF calls
<1>9. /\ queue' \in [Stage -> Seq(Message')] /\ dead' \subseteq Workers
      /\ UNCHANGED <<script, adapterVars>>
    BY <1>3 DEF Retain, Typed
<1> QED
    BY <1>3, <1>7, <1>8, <1>9, TypedCall

(* What a call that carries a message to stage s is, and will be.          *)
LEMMA Carrying ==
    ASSUME Typed, NEW a \in Actor, NEW s, Pushing(a, s)
    PROVE  /\ stack[a] # <<>> /\ Top(a) \in CallRecords /\ Top(a).message \in Message
           /\ Top(a).carrying
           /\ Dispatched(a) \in CallRecords /\ ~Dispatched(a).carrying
           /\ Dispatched(a).message = Top(a).message
<1>1. stack[a] # <<>> /\ Top(a).carrying
    BY DEF Pushing, Running
<1>2. Top(a) \in CallRecords /\ Top(a).todo # <<>>
    BY <1>1, TopCall
<1>3. Tail(Top(a).todo) \in Seq(Stage) /\ Top(a).message \in Message
    BY <1>2, HeadTailProperties DEF CallRecords
<1>4. Dispatched(a) \in CallRecords /\ ~Dispatched(a).carrying
      /\ Dispatched(a).message = Top(a).message
    BY <1>2, <1>3 DEF Dispatched, CallRecords
<1> QED
    BY <1>1, <1>2, <1>3, <1>4

LEMMA TypedPush ==
    ASSUME Typed, NEW a \in Actor, NEW s \in Stage, Push(a, s)
    PROVE  Typed' /\ HeapKept
<1>1. /\ stack[a] # <<>> /\ Top(a).message \in Message
      /\ Dispatched(a) \in CallRecords /\ ~Dispatched(a).carrying
    BY Carrying DEF Push
<1>2. HeapKept /\ Message' = Message /\ CallRecords' = CallRecords
  <2>1. heap' = heap
      BY DEF Push
  <2> QED
      BY <2>1, NothingAllocated DEF CallRecords
<1> DEFINE calls == [stack[a] EXCEPT ![1] = Dispatched(a)]
<1>3. calls \in Seq(CallRecords') /\ Coherent(calls)
    BY <1>1, <1>2, Replaced
<1>4. stack' = [stack EXCEPT ![a] = calls]
    BY DEF Push
<1> HIDE DEF calls
<1>5. queue' \in [Stage -> Seq(Message')]
  <2>1. Append(queue[s], Top(a).message) \in Seq(Message)
      BY <1>1, AppendProperties DEF Typed
  <2> QED
      BY <1>2, <2>1 DEF Push, Typed
<1>6. dead' \subseteq Workers /\ UNCHANGED <<script, adapterVars>>
    BY DEF Push, Typed
<1> QED
    BY <1>2, <1>3, <1>4, <1>5, <1>6, TypedCall

LEMMA TypedPushThrough ==
    ASSUME Typed, NEW a \in Actor, NEW s \in Stage, PushThrough(a, s)
    PROVE  Typed' /\ HeapKept
<1> DEFINE inner == Call(Top(a).message, Functors[s])
<1>1. /\ stack[a] # <<>> /\ Top(a).message \in Message
      /\ Dispatched(a) \in CallRecords /\ ~Dispatched(a).carrying
    BY Carrying DEF PushThrough
<1>2. s \notin InputStages
    BY Positions, QueueAdaptersAssumption, LenProperties DEF PushThrough, InputStages, ToSet
<1>3. inner \in CallRecords /\ ~inner.carrying
    BY <1>1, <1>2, FunctorsOfStage, NewCall
<1>4. HeapKept /\ Message' = Message /\ CallRecords' = CallRecords
  <2>1. heap' = heap
      BY DEF PushThrough
  <2> QED
      BY <2>1, NothingAllocated DEF CallRecords
<1> DEFINE calls == <<inner, Dispatched(a)>> \o Tail(stack[a])
<1>5. calls \in Seq(CallRecords') /\ Coherent(calls)
  <2> DEFINE two == <<inner, Dispatched(a)>>
  <2>1. /\ two \in Seq(CallRecords) /\ Len(two) = 2 /\ ~two[1].carrying /\ ~two[2].carrying
      BY <1>1, <1>3
  <2>2. Tail(stack[a]) \in Seq(CallRecords) /\ Len(Tail(stack[a])) \in Nat
      BY <1>1, TopCall, LenProperties
  <2>3. \A i \in 1 .. Len(Tail(stack[a])) : ~Tail(stack[a])[i].carrying
    <3>1. stack[a] \in Seq(CallRecords) /\ Len(stack[a]) \in Nat
        BY <1>1, TopCall
    <3>2. ASSUME NEW i \in 1 .. Len(Tail(stack[a]))
          PROVE  Tail(stack[a])[i] = stack[a][i + 1] /\ i + 1 \in 1 .. Len(stack[a]) /\ i + 1 # 1
        BY <1>1, <3>1, <3>2, HeadTailProperties
    <3> QED
        BY <1>1, <3>2, TopCall
  <2> HIDE DEF two
  <2>4. /\ two \o Tail(stack[a]) \in Seq(CallRecords)
        /\ DOMAIN (two \o Tail(stack[a])) = 1 .. 2 + Len(Tail(stack[a]))
        /\ \A i \in 1 .. 2 + Len(Tail(stack[a])) : (two \o Tail(stack[a]))[i] =
              IF i <= 2 THEN two[i] ELSE Tail(stack[a])[i - 2]
    <3>1. /\ two \o Tail(stack[a]) \in Seq(CallRecords)
          /\ Len(two \o Tail(stack[a])) = Len(two) + Len(Tail(stack[a]))
          /\ \A i \in 1 .. Len(two) + Len(Tail(stack[a])) : (two \o Tail(stack[a]))[i] =
                IF i <= Len(two) THEN two[i] ELSE Tail(stack[a])[i - Len(two)]
        BY <2>1, <2>2, ConcatProperties
    <3>2. DOMAIN (two \o Tail(stack[a])) = 1 .. Len(two \o Tail(stack[a]))
        BY <3>1, LenProperties
    <3> QED
        BY <2>1, <3>1, <3>2
  <2>5. \A i \in 1 .. 2 + Len(Tail(stack[a])) : ~(two \o Tail(stack[a]))[i].carrying
    <3> SUFFICES ASSUME NEW i \in 1 .. 2 + Len(Tail(stack[a]))
                 PROVE  ~(two \o Tail(stack[a]))[i].carrying
        OBVIOUS
    <3>1. CASE i <= 2
      <4>1. i = 1 \/ i = 2
          BY <3>1
      <4> QED
          BY <2>1, <2>4, <3>1, <4>1
    <3>2. CASE ~(i <= 2)
      <4>1. i - 2 \in 1 .. Len(Tail(stack[a]))
          BY <2>2, <3>2
      <4> QED
          BY <2>3, <2>4, <3>2, <4>1
    <3> QED
        BY <3>1, <3>2
  <2> QED
      BY <1>4, <2>4, <2>5 DEF Coherent, two
<1>6. stack' = [stack EXCEPT ![a] = calls]
    BY DEF PushThrough
<1> HIDE DEF calls
<1>7. queue' \in [Stage -> Seq(Message')] /\ dead' \subseteq Workers
      /\ UNCHANGED <<script, adapterVars>>
    BY <1>4 DEF PushThrough, Typed
<1> QED
    BY <1>4, <1>5, <1>6, <1>7, TypedCall

LEMMA TypedNextFunctor ==
    ASSUME Typed, NEW a \in Actor, NextFunctor(a)
    PROVE  Typed' /\ HeapKept
<1> DEFINE c == Call(Top(a).message, Tail(Top(a).functors))
<1>1. stack[a] # <<>> /\ Len(Top(a).functors) > 1
    BY DEF NextFunctor, Returns, Running
<1>2. Top(a) \in CallRecords /\ Top(a) = stack[a][1]
    BY <1>1, TopCall
<1>3. Top(a).message \in Message /\ Top(a).functors \in Seq(Functor) /\ Top(a).functors # <<>>
    BY <1>1, <1>2, EmptySeq DEF CallRecords
<1>4. Tail(Top(a).functors) \in Seq(Functor) /\ Tail(Top(a).functors) # <<>>
  <2>1. /\ Len(Tail(Top(a).functors)) = Len(Top(a).functors) - 1
        /\ Tail(Top(a).functors) \in Seq(Functor)
      BY <1>3, HeadTailProperties
  <2>2. Len(Top(a).functors) \in Nat
      BY <1>3, LenProperties
  <2> DEFINE n == Len(Top(a).functors)
  <2> DEFINE k == Len(Tail(Top(a).functors))
  <2>3. k # 0
    <3>1. n > 1 /\ k = n - 1 /\ n \in Nat
        BY <1>1, <2>1, <2>2
    <3> HIDE DEF n, k
    <3> QED
        BY <3>1
  <2> QED
      BY <2>1, <2>3, EmptySeq
<1>5. c \in CallRecords /\ ~c.carrying
    BY <1>3, <1>4, NewCall
<1>6. HeapKept /\ Message' = Message /\ CallRecords' = CallRecords
  <2>1. heap' = heap
      BY DEF NextFunctor
  <2> QED
      BY <2>1, NothingAllocated DEF CallRecords
<1>7. stack' = [stack EXCEPT ![a] = [stack[a] EXCEPT ![1] = c]]
    BY <1>2 DEF NextFunctor
<1> HIDE DEF c
<1> DEFINE calls == [stack[a] EXCEPT ![1] = c]
<1>8. calls \in Seq(CallRecords') /\ Coherent(calls)
    BY <1>1, <1>5, <1>6, Replaced
<1>9. stack' = [stack EXCEPT ![a] = calls]
    BY <1>7
<1> HIDE DEF calls
<1>10. queue' \in [Stage -> Seq(Message')] /\ dead' \subseteq Workers
      /\ UNCHANGED <<script, adapterVars>>
    BY <1>6 DEF NextFunctor, Typed
<1> QED
    BY <1>6, <1>8, <1>9, <1>10, TypedCall

LEMMA TypedReturn ==
    ASSUME Typed, NEW a \in Actor, Return(a)
    PROVE  Typed' /\ HeapKept
<1>1. stack[a] # <<>>
    BY DEF Return, Returns, Running
<1>2. /\ Top(a).message \in Message
      /\ Tail(stack[a]) \in Seq(CallRecords) /\ Coherent(Tail(stack[a]))
    BY <1>1, TopCall DEF CallRecords
<1>3. HeapKept /\ Message' = Message /\ CallRecords' = CallRecords
  <2>1. heap' = DropRef(Top(a).message)
      BY DEF Return
  <2> QED
      BY <1>2, <2>1, Dropped DEF CallRecords
<1>4. stack' = [stack EXCEPT ![a] = Tail(stack[a])]
    BY DEF Return
<1>5. queue' \in [Stage -> Seq(Message')] /\ dead' \subseteq Workers
      /\ UNCHANGED <<script, adapterVars>>
    BY <1>3 DEF Return, Typed
<1> QED
    BY <1>2, <1>3, <1>4, <1>5, TypedCall

LEMMA Outermost ==
    ASSUME Typed, NEW a \in Actor, stack[a] # <<>>
    PROVE  /\ Last(stack[a]) = stack[a][Len(stack[a])]
           /\ Last(stack[a]) \in CallRecords /\ Last(stack[a]).message \in Message
<1>1. /\ stack[a] \in Seq(CallRecords) /\ Len(stack[a]) \in 1 .. Len(stack[a])
      /\ Last(stack[a]) = stack[a][Len(stack[a])]
    BY TopCall DEF Last
<1>2. stack[a][Len(stack[a])] \in CallRecords
    BY <1>1, ElementOfSeq
<1> QED
    BY <1>1, <1>2 DEF CallRecords

LEMMA TypedThrow ==
    ASSUME Typed, NEW a \in Actor, Throw(a)
    PROVE  Typed' /\ HeapKept
<1>1. stack[a] # <<>> /\ heap' = DropRef(Last(stack[a]).message)
    BY DEF Throw, Running
<1>2. HeapKept /\ Message' = Message /\ CallRecords' = CallRecords
    BY <1>1, Outermost, Dropped DEF CallRecords
<1>3. <<>> \in Seq(CallRecords') /\ Coherent(<<>>)
    BY DEF Coherent
<1>4. stack' = [stack EXCEPT ![a] = <<>>]
    BY DEF Throw
<1>5. queue' \in [Stage -> Seq(Message')] /\ dead' \subseteq Workers
      /\ UNCHANGED <<script, adapterVars>>
    BY <1>2 DEF Throw, Typed
<1> QED
    BY <1>2, <1>3, <1>4, <1>5, TypedCall

LEMMA TypedNext == ASSUME Typed, [Next]_vars PROVE Typed'
<1>1. CASE UNCHANGED vars
    BY <1>1 DEF vars, Typed, CallRecords, Message, Searches
<1>2. CASE \E p \in Producers : Create(p)
    BY <1>2, TypedCreate
<1>3. ASSUME NEW w \in Workers,
             \/ \E s \in Stage \ InputStages : Enter(w, s) \/ TryPop(w, s) \/ TryPopEmpty(w, s)
             \/ SearchBegins(w) \/ PollEmpty(w) \/ PollMessage(w) \/ SearchFails(w)
      PROVE  Typed'
    BY <1>3, TypedVisit, TypedPop
<1>4. ASSUME NEW a \in Actor,
             \/ Retain(a) \/ NextFunctor(a) \/ Return(a) \/ Throw(a)
             \/ \E s \in Stage : Push(a, s) \/ PushThrough(a, s)
      PROVE  Typed'
    BY <1>4, TypedRetain, TypedNextFunctor, TypedReturn, TypedThrow, TypedPush, TypedPushThrough
<1> QED
    BY <1>1, <1>2, <1>3, <1>4 DEF Next

-----------------------------------------------------------------------------
(* The search of the adapter *)

(* How many queues the adapter asks, from index w on, before Inputs[i].    *)
Ahead(w, i) == IF i >= w THEN i - w ELSE i + numberOfQueues - w

(* What a queue had when the search began it still has, and the search has *)
(* not been there.                                                         *)
Searched ==
    search.on => \A i \in 1 .. numberOfQueues : Inputs[i] \in search.there =>
        queue[Inputs[i]] # <<>> /\ Ahead(which, i) < numberOfQueues - search.queuesPolled

(* A queue that has been overtaken once has a message, and is asked before *)
(* the one that has overtaken it.                                          *)
InTurn ==
    /\ overtaken \in [InputStages -> [InputStages -> {0, 1}]]
    /\ \A i, j \in 1 .. numberOfQueues : overtaken[Inputs[i]][Inputs[j]] = 1 =>
          queue[Inputs[i]] # <<>> /\ Ahead(which, i) < Ahead(which, j)

Served == Typed /\ Searched /\ InTurn

LEMMA AheadRange ==
    ASSUME NEW w \in 1 .. numberOfQueues, NEW i \in 1 .. numberOfQueues
    PROVE  Ahead(w, i) \in 0 .. numberOfQueues - 1
BY Positions DEF Ahead

LEMMA AheadSteps ==
    ASSUME NEW w \in 1 .. numberOfQueues, NEW i \in 1 .. numberOfQueues,
           NEW x, x = IF w + 1 > numberOfQueues THEN 1 ELSE w + 1
    PROVE  /\ Ahead(w, i) \in 0 .. numberOfQueues - 1
           /\ Ahead(w, i) = 0 <=> i = w
           /\ i # w => Ahead(x, i) = Ahead(w, i) - 1
           /\ i = w => Ahead(x, i) = numberOfQueues - 1
BY Positions DEF Ahead

LEMMA ServedInit == Init => Searched /\ InTurn
<1> SUFFICES ASSUME Init PROVE Searched /\ InTurn
    OBVIOUS
<1>1. ~search.on
    BY DEF Init, NoSearch
<1>2. \A q, r \in InputStages : overtaken[q][r] = 0
    BY DEF Init
<1>3. \A i, j \in 1 .. numberOfQueues : overtaken[Inputs[i]][Inputs[j]] # 1
    BY <1>2, Positions
<1> QED
    BY <1>1, <1>3 DEF Init, Searched, InTurn

(* Steps that take nothing from the input queues. *)
LEMMA ServedAside ==
    ASSUME Served, UNCHANGED <<which, overtaken>>, search' = search \/ ~search'.on,
           \A s \in InputStages : queue[s] # <<>> => queue'[s] # <<>>
    PROVE  Searched' /\ InTurn'
BY Positions DEF Served, Searched, InTurn

LEMMA ServedBegins ==
    ASSUME Served, NEW w \in Workers, SearchBegins(w)
    PROVE  Searched' /\ InTurn'
<1>1. /\ search'.queuesPolled = 0 /\ search'.there = {s \in InputStages : queue[s] # <<>>}
      /\ UNCHANGED <<queue, which, overtaken>>
    BY DEF SearchBegins
<1>2. \A i \in 1 .. numberOfQueues : Ahead(which, i) < numberOfQueues
  <2>1. \A i \in 1 .. numberOfQueues : Ahead(which, i) \in 0 .. numberOfQueues - 1
      BY AheadRange DEF Served, Typed
  <2> QED
      BY <2>1, Positions
<1>3. numberOfQueues - 0 = numberOfQueues
    BY Positions
<1>4. Searched'
    BY <1>1, <1>2, <1>3 DEF Searched
<1>5. InTurn'
    BY <1>1 DEF Served, InTurn
<1> QED
    BY <1>4, <1>5

LEMMA ServedPollEmpty ==
    ASSUME Served, NEW w \in Workers, PollEmpty(w)
    PROVE  Searched' /\ InTurn'
<1> DEFINE n == numberOfQueues
<1>1. /\ which \in 1 .. n /\ which' = IF which + 1 > n THEN 1 ELSE which + 1
      /\ queue[Inputs[which]] = <<>> /\ UNCHANGED <<queue, overtaken>>
      /\ search.queuesPolled \in 0 .. n
      /\ search'.queuesPolled = search.queuesPolled + 1
      /\ search'.there = search.there /\ search.on
    BY DEF Served, Typed, Searches, PollEmpty, updateNextQueue
<1>2. \A i \in 1 .. n : i # which =>
          /\ Ahead(which', i) = Ahead(which, i) - 1
          /\ Ahead(which, i) \in 0 .. n - 1
    BY <1>1, AheadSteps
<1>3. ASSUME NEW i \in 1 .. n, Inputs[i] \in search.there
      PROVE  queue[Inputs[i]] # <<>> /\ Ahead(which', i) < n - (search.queuesPolled + 1)
  <2>1. queue[Inputs[i]] # <<>> /\ Ahead(which, i) < n - search.queuesPolled
      BY <1>1, <1>3 DEF Served, Searched
  <2>2. /\ Ahead(which', i) = Ahead(which, i) - 1 /\ Ahead(which, i) \in 0 .. n - 1
      BY <1>1, <1>2, <2>1
  <2> QED
      BY <1>1, <2>1, <2>2, Positions
<1>4. Searched'
    BY <1>1, <1>3 DEF Searched
<1>5. ASSUME NEW i \in 1 .. n, NEW j \in 1 .. n, overtaken[Inputs[i]][Inputs[j]] = 1
      PROVE  queue[Inputs[i]] # <<>> /\ Ahead(which', i) < Ahead(which', j)
  <2>1. queue[Inputs[i]] # <<>> /\ Ahead(which, i) < Ahead(which, j)
      BY <1>5 DEF Served, InTurn
  <2>2. i # which /\ Ahead(which, i) \in 0 .. n - 1
      BY <1>1, <2>1, AheadSteps
  <2>3. j # which
    <3>1. j = which => Ahead(which, j) = 0
        BY <1>1, AheadSteps
    <3> QED
        BY <2>1, <2>2, <3>1, Positions
  <2> QED
      BY <1>2, <2>1, <2>2, <2>3, Positions
<1>6. InTurn'
    BY <1>1, <1>5 DEF Served, InTurn
<1> QED
    BY <1>4, <1>6

LEMMA ServedPollMessage ==
    ASSUME Served, NEW w \in Workers, PollMessage(w)
    PROVE  Searched' /\ InTurn'
<1> DEFINE n == numberOfQueues
<1> DEFINE from == Inputs[which]
<1>1. /\ which \in 1 .. n /\ which' = IF which + 1 > n THEN 1 ELSE which + 1
      /\ from \in InputStages /\ ~search'.on
    BY Positions DEF Served, Typed, PollMessage, updateNextQueue, NoSearch
<1>2. \A s \in InputStages : s # from => queue'[s] = queue[s]
    BY Positions DEF PollMessage, Take, Served, Typed
<1>3. \A q, r \in InputStages : overtaken'[q][r] =
          IF q = from THEN 0
          ELSE IF r = from /\ queue[q] # <<>> THEN overtaken[q][r] + 1
          ELSE overtaken[q][r]
    BY DEF PollMessage
<1>4. ASSUME NEW i \in 1 .. n, NEW j \in 1 .. n
      PROVE  /\ overtaken'[Inputs[i]][Inputs[j]] \in {0, 1}
             /\ overtaken'[Inputs[i]][Inputs[j]] = 1 =>
                   queue'[Inputs[i]] # <<>> /\ Ahead(which', i) < Ahead(which', j)
  <2>1. /\ Inputs[i] \in InputStages /\ Inputs[j] \in InputStages
        /\ Inputs[i] = from => i = which
        /\ Inputs[j] = from => j = which
      BY <1>1, Positions
  <2>2. /\ overtaken[Inputs[i]][Inputs[j]] \in {0, 1}
        /\ overtaken[Inputs[i]][Inputs[j]] = 1 =>
              queue[Inputs[i]] # <<>> /\ Ahead(which, i) < Ahead(which, j)
      BY <2>1 DEF Served, InTurn
  <2>3. /\ Ahead(which, i) \in 0 .. n - 1 /\ Ahead(which, j) \in 0 .. n - 1
        /\ i # which => Ahead(which', i) = Ahead(which, i) - 1
        /\ j # which => Ahead(which', j) = Ahead(which, j) - 1
        /\ j = which => Ahead(which, j) = 0 /\ Ahead(which', j) = n - 1
      BY <1>1, AheadSteps
  <2>4. CASE Inputs[i] = from
      BY <1>3, <2>1, <2>4
  <2>5. CASE Inputs[i] # from /\ Inputs[j] = from /\ queue[Inputs[i]] # <<>>
    <3>1. i # which /\ j = which
        BY <2>1, <2>5
    <3>2. overtaken[Inputs[i]][Inputs[j]] # 1
        BY <2>2, <2>3, <3>1, Positions
    <3>3. overtaken'[Inputs[i]][Inputs[j]] = 1 /\ queue'[Inputs[i]] # <<>>
        BY <1>2, <1>3, <2>1, <2>2, <2>5, <3>2
    <3> QED
        BY <2>3, <3>1, <3>3, Positions
  <2>6. CASE Inputs[i] # from /\ ~(Inputs[j] = from /\ queue[Inputs[i]] # <<>>)
    <3>1. overtaken'[Inputs[i]][Inputs[j]] = overtaken[Inputs[i]][Inputs[j]]
        BY <1>3, <2>1, <2>6
    <3>2. queue'[Inputs[i]] = queue[Inputs[i]] /\ i # which
        BY <1>2, <2>1, <2>6
    <3>3. queue[Inputs[i]] # <<>> => j # which
        BY <2>6
    <3> QED
        BY <2>2, <2>3, <3>1, <3>2, <3>3, Positions
  <2> QED
      BY <2>4, <2>5, <2>6
<1>5. overtaken' \in [InputStages -> [InputStages -> {0, 1}]]
  <2>1. \A q, r \in InputStages : overtaken'[q][r] \in {0, 1}
      BY <1>4, Positions
  <2> QED
      BY <2>1 DEF PollMessage
<1>6. InTurn'
    BY <1>4, <1>5 DEF InTurn
<1> QED
    BY <1>1, <1>6 DEF Searched

LEMMA ServedNext == ASSUME Served, [Next]_vars PROVE Searched' /\ InTurn'
<1>1. CASE UNCHANGED vars
    BY <1>1 DEF vars, Served, Searched, InTurn
<1>2. CASE \E p \in Producers : Create(p)
    BY <1>2, ServedAside DEF Create, adapterVars
<1>3. ASSUME NEW w \in Workers,
             \/ \E s \in Stage \ InputStages : Enter(w, s) \/ TryPop(w, s) \/ TryPopEmpty(w, s)
             \/ SearchBegins(w) \/ PollEmpty(w) \/ PollMessage(w) \/ SearchFails(w)
      PROVE  Searched' /\ InTurn'
  <2>1. ASSUME NEW s \in Stage \ InputStages, TryPop(w, s)
        PROVE  Searched' /\ InTurn'
    <3>1. \A r \in InputStages : queue'[r] = queue[r]
        BY <2>1, Positions DEF TryPop, Take, Served, Typed
    <3> QED
        BY <2>1, <3>1, ServedAside DEF TryPop, adapterVars
  <2>2. CASE \E s \in Stage \ InputStages : Enter(w, s) \/ TryPopEmpty(w, s)
      BY <2>2, ServedAside DEF Enter, TryPopEmpty
  <2>3. CASE SearchFails(w)
      BY <2>3, ServedAside DEF SearchFails, NoSearch
  <2> QED
      BY <1>3, <2>1, <2>2, <2>3, ServedBegins, ServedPollEmpty, ServedPollMessage
<1>4. ASSUME NEW a \in Actor,
             \/ Retain(a) \/ NextFunctor(a) \/ Return(a) \/ Throw(a)
             \/ \E s \in Stage : PushThrough(a, s)
      PROVE  Searched' /\ InTurn'
    BY <1>4, ServedAside DEF Retain, NextFunctor, Return, Throw, PushThrough, adapterVars
<1>5. ASSUME NEW a \in Actor, NEW s \in Stage, Push(a, s)
      PROVE  Searched' /\ InTurn'
  <2>1. queue[s] \in Seq(Message) /\ Top(a).message \in Message
      BY <1>5, Carrying DEF Push, Served, Typed
  <2>2. Append(queue[s], Top(a).message) # <<>>
      BY <2>1, AppendProperties
  <2>3. \A r \in InputStages : queue[r] # <<>> => queue'[r] # <<>>
      BY <1>5, <2>2, Positions DEF Push, Served, Typed
  <2> QED
      BY <1>5, <2>3, ServedAside DEF Push, adapterVars
<1> QED
    BY <1>1, <1>2, <1>3, <1>4, <1>5 DEF Next

LEMMA AlwaysServed == Spec => []Served
<1>1. Init => Served
    BY TypedInit, ServedInit DEF Served
<1>2. Served /\ [Next]_vars => Served'
    BY TypedNext, ServedNext DEF Served
<1> QED
    BY <1>1, <1>2, PTL DEF Spec

(* try_pop of the adapter does not return false when one of its queues had *)
(* a message as it began, however many queues there are and whatever is    *)
(* pushed to them meanwhile.                                               *)
THEOREM SearchFinds == Spec => []FoundIfThere
<1>1. Served => FoundIfThere
  <2> SUFFICES ASSUME Served, search.on, allQueuesPolled(search.queuesPolled),
                      NEW s \in search.there
               PROVE  FALSE
      BY DEF FoundIfThere
  <2>1. search.there \subseteq InputStages /\ search.queuesPolled = numberOfQueues
      BY Positions DEF Served, Typed, Searches, allQueuesPolled
  <2>2. PICK i \in 1 .. numberOfQueues : Inputs[i] = s
      BY <2>1, Positions
  <2>3. Ahead(which, i) < numberOfQueues - numberOfQueues
      BY <2>1, <2>2 DEF Served, Searched
  <2>4. Ahead(which, i) \in 0 .. numberOfQueues - 1
      BY AheadSteps DEF Served, Typed
  <2> QED
      BY <2>3, <2>4, Positions
<1> QED
    BY <1>1, AlwaysServed, PTL

(* However many input queues there are, while a message waits in one of    *)
(* them no other is served twice.                                          *)
THEOREM Turns == Spec => []InputsTakeTurns
<1>1. Served => InputsTakeTurns
    BY DEF Served, InTurn, InputsTakeTurns
<1> QED
    BY <1>1, AlwaysServed, PTL

-----------------------------------------------------------------------------
(* Counting the numbers of several sets *)

Same(x, y) == IF x = y THEN 1 ELSE 0

(* The pairs of an index and a number of its set.                          *)
Pairs(f) == {x \in (DOMAIN f) \X Nat : x[2] \in f[x[1]]}

LEMMA RowOfPairs ==
    ASSUME NEW a, NEW S
    PROVE  ExistsBijection(S, {a} \X S) /\ ExistsBijection({a} \X S, S)
<1> DEFINE there == [i \in S |-> <<a, i>>]
<1> DEFINE back == [x \in {a} \X S |-> x[2]]
<1>1. there \in Bijection(S, {a} \X S)
  <2>1. there \in [S -> {a} \X S]
      OBVIOUS
  <2>2. \A i, j \in S : there[i] = there[j] => i = j
      OBVIOUS
  <2>3. \A x \in {a} \X S : \E i \in S : there[i] = x
      OBVIOUS
  <2> HIDE DEF there
  <2> QED
      BY <2>1, <2>2, <2>3, Fun_IsBij
<1>2. back \in Bijection({a} \X S, S)
  <2>1. back \in [{a} \X S -> S]
      OBVIOUS
  <2>2. \A x, y \in {a} \X S : back[x] = back[y] => x = y
      OBVIOUS
  <2>3. \A i \in S : \E x \in {a} \X S : back[x] = i
    <3> SUFFICES ASSUME NEW i \in S PROVE \E x \in {a} \X S : back[x] = i
        OBVIOUS
    <3>1. <<a, i>> \in {a} \X S /\ back[<<a, i>>] = i
        OBVIOUS
    <3> QED
        BY <3>1
  <2> HIDE DEF back
  <2> QED
      BY <2>1, <2>2, <2>3, Fun_IsBij
<1> QED
    BY <1>1, <1>2 DEF ExistsBijection

(* To exchange the set of one index takes its numbers away and adds those  *)
(* of the new set.                                                         *)
LEMMA ExchangePairs ==
    ASSUME NEW A, NEW f \in [A -> SUBSET Nat], IsFiniteSet(Pairs(f)),
           NEW a \in A, NEW T \in SUBSET Nat, IsFiniteSet(T)
    PROVE  /\ IsFiniteSet(Pairs([f EXCEPT ![a] = T])) /\ IsFiniteSet(f[a])
           /\ Cardinality(Pairs([f EXCEPT ![a] = T]))
                  = Cardinality(Pairs(f)) - Cardinality(f[a]) + Cardinality(T)
<1> DEFINE g == [f EXCEPT ![a] = T]
<1> DEFINE others == {x \in Pairs(f) : x[1] # a}
<1> DEFINE Row(S) == {a} \X S
<1>1. Pairs(f) = others \cup Row(f[a]) /\ others \cap Row(f[a]) = {}
    BY DEF Pairs
<1>2. Pairs(g) = others \cup Row(T) /\ others \cap Row(T) = {}
  <2>1. g[a] = T /\ DOMAIN g = A /\ DOMAIN f = A /\ \A b \in A : b # a => g[b] = f[b]
      OBVIOUS
  <2>2. ASSUME NEW x \in Pairs(g) PROVE x \in others \cup Row(T)
      BY <2>1, <2>2 DEF Pairs
  <2>3. ASSUME NEW x \in others PROVE x \in Pairs(g)
      BY <2>1, <2>3 DEF Pairs
  <2>4. ASSUME NEW x \in Row(T) PROVE x \in Pairs(g)
      BY <2>1, <2>4 DEF Pairs
  <2> QED
      BY <2>2, <2>3, <2>4
<1>3. /\ IsFiniteSet(others) /\ IsFiniteSet(Row(f[a]))
      /\ others \subseteq Pairs(f) /\ Row(f[a]) \subseteq Pairs(f)
    BY <1>1, FS_Subset
<1>4. IsFiniteSet(f[a]) /\ Cardinality(f[a]) = Cardinality(Row(f[a]))
    BY <1>3, RowOfPairs, FS_Bijection
<1>5. IsFiniteSet(Row(T)) /\ Cardinality(Row(T)) = Cardinality(T)
    BY RowOfPairs, FS_Bijection
<1> HIDE DEF others, Row, g
<1>6. Cardinality(Pairs(f)) = Cardinality(others) + Cardinality(f[a])
  <2>1. Cardinality(Pairs(f)) = Cardinality(others) + Cardinality(Row(f[a])) - Cardinality({})
      BY <1>1, <1>3, FS_Union
  <2> QED
      BY <1>3, <1>4, <2>1, FS_EmptySet, FS_CardinalityType
<1>7. IsFiniteSet(Pairs(g)) /\ Cardinality(Pairs(g)) = Cardinality(others) + Cardinality(T)
  <2> DEFINE row == Row(T)
  <2>0. IsFiniteSet(others) /\ IsFiniteSet(row)
      BY <1>3, <1>5
  <2>2. Pairs(g) = others \cup row /\ others \cap row = {}
      BY <1>2
  <2> HIDE DEF row
  <2>3. /\ IsFiniteSet(others \cup row)
        /\ Cardinality(others \cup row)
              = Cardinality(others) + Cardinality(row) - Cardinality(others \cap row)
      BY <2>0, FS_Union
  <2>1. /\ IsFiniteSet(Pairs(g))
        /\ Cardinality(Pairs(g)) = Cardinality(others) + Cardinality(Row(T)) - Cardinality({})
      BY <2>2, <2>3 DEF row
  <2> QED
      BY <1>3, <1>5, <2>1, FS_EmptySet, FS_CardinalityType
<1> QED
    BY <1>3, <1>4, <1>6, <1>7, FS_CardinalityType DEF g

(* Numbers moved up by one. *)
LEMMA MovedUp ==
    ASSUME NEW S \in SUBSET Nat, NEW T \in SUBSET Nat, 0 \notin S, 0 \notin T,
           \A i \in Nat \ {0} : i + 1 \in T <=> i \in S,
           IsFiniteSet(S) \/ IsFiniteSet(T)
    PROVE  /\ IsFiniteSet(S) /\ IsFiniteSet(T)
           /\ Cardinality(T) = Cardinality(S) + (IF 1 \in T THEN 1 ELSE 0)
<1> DEFINE up == [i \in S |-> i + 1]
<1> DEFINE rest == T \ {1}
<1>1. up \in Bijection(S, rest)
  <2>1. up \in [S -> rest]
      OBVIOUS
  <2>2. \A i, j \in S : up[i] = up[j] => i = j
      OBVIOUS
  <2>3. ASSUME NEW j \in rest PROVE \E i \in S : up[i] = j
    <3>1. j - 1 \in S /\ (j - 1) + 1 = j
        OBVIOUS
    <3> QED
        BY <3>1
  <2> HIDE DEF up, rest
  <2> QED
      BY <2>1, <2>2, <2>3, Fun_IsBij
<1>2. ExistsBijection(S, rest) /\ ExistsBijection(rest, S)
  <2>1. ExistsBijection(S, rest)
      BY <1>1 DEF ExistsBijection
  <2> QED
      BY <2>1, Fun_ExistsBijSymmetric
<1>3. IsFiniteSet(T) => IsFiniteSet(rest)
    BY FS_RemoveElement
<1>4. IsFiniteSet(S) /\ IsFiniteSet(rest) /\ Cardinality(rest) = Cardinality(S)
    BY <1>2, <1>3, FS_Bijection
<1>5. T = (IF 1 \in T THEN rest \cup {1} ELSE rest) /\ 1 \notin rest
    OBVIOUS
<1> HIDE DEF rest
<1>6. IsFiniteSet(rest \cup {1}) /\ Cardinality(rest \cup {1}) = Cardinality(rest) + 1
    BY <1>4, <1>5, FS_AddElement
<1>7. Cardinality(rest) \in Nat
    BY <1>4, FS_CardinalityType
<1> QED
    BY <1>4, <1>5, <1>6, <1>7

-----------------------------------------------------------------------------
(* Counting the references *)

(* The calls of one thread that hold m, and whether the innermost one      *)
(* carries it.                                                             *)
Own(calls, m) == {i \in DOMAIN calls : calls[i].message = m}
Carries(calls, m) == {i \in DOMAIN calls : calls[i].message = m /\ calls[i].carrying}

Tallied(m) ==
    /\ IsFiniteSet(Slots(m)) /\ IsFiniteSet(Calls(m)) /\ IsFiniteSet(Carriers(m))
    /\ leaked[m] \in Nat

Tally(m) == Cardinality(Slots(m)) + Cardinality(Calls(m)) + Cardinality(Carriers(m)) + leaked[m]

Counted ==
    /\ leaked \in Seq(Nat) /\ DOMAIN leaked = Message
    /\ \A m \in Message :
          /\ Tallied(m)
          /\ heap[m].refs = Tally(m)
          /\ heap[m].live <=> heap[m].refs > 0

CInv == Typed /\ Counted

LEMMA TallyType ==
    ASSUME NEW m, Tallied(m)
    PROVE  /\ Cardinality(Slots(m)) \in Nat /\ Cardinality(Calls(m)) \in Nat
           /\ Cardinality(Carriers(m)) \in Nat /\ leaked[m] \in Nat /\ Tally(m) \in Nat
BY FS_CardinalityType DEF Tallied, Tally

LEMMA CallsArePairs ==
    ASSUME Typed, NEW m
    PROVE  /\ Calls(m) = Pairs([a \in Actor |-> Own(stack[a], m)])
           /\ Carriers(m) = Pairs([a \in Actor |-> Carries(stack[a], m)])
           /\ \A a \in Actor : Own(stack[a], m) \in SUBSET Nat /\ Carries(stack[a], m) \in SUBSET Nat
<1>1. \A a \in Actor : DOMAIN stack[a] \subseteq Nat
    BY LenProperties DEF Typed
<1>2. Calls(m) = Pairs([a \in Actor |-> Own(stack[a], m)])
    BY <1>1 DEF Calls, Pairs, Own
<1>3. Carriers(m) = Pairs([a \in Actor |-> Carries(stack[a], m)])
  <2>1. Carriers(m) = {c \in Pairs([a \in Actor |-> Own(stack[a], m)]) : stack[c[1]][c[2]].carrying}
      BY <1>2 DEF Carriers
  <2> QED
      BY <2>1 DEF Pairs, Own, Carries
<1> QED
    BY <1>1, <1>2, <1>3 DEF Own, Carries

CallsInPairs ==
    \A m : /\ Calls(m) = Pairs([a \in Actor |-> Own(stack[a], m)])
          /\ Carriers(m) = Pairs([a \in Actor |-> Carries(stack[a], m)])

LEMMA CallsAndCarriers == Typed => CallsInPairs
BY CallsArePairs DEF CallsInPairs

LEMMA OwnFinite ==
    ASSUME NEW M, NEW calls \in Seq(M), NEW m
    PROVE  /\ IsFiniteSet(Own(calls, m)) /\ IsFiniteSet(Carries(calls, m))
           /\ Cardinality(Own(calls, m)) \in Nat /\ Cardinality(Carries(calls, m)) \in Nat
           /\ Own(calls, m) \in SUBSET Nat /\ Carries(calls, m) \in SUBSET Nat
<1>1. DOMAIN calls = 1 .. Len(calls) /\ Len(calls) \in Nat
    BY LenProperties
<1>2. IsFiniteSet(1 .. Len(calls))
    BY <1>1, FS_Interval
<1>3. Own(calls, m) \subseteq 1 .. Len(calls) /\ Carries(calls, m) \subseteq 1 .. Len(calls)
    BY <1>1 DEF Own, Carries
<1> HIDE DEF Own, Carries
<1> QED
    BY <1>1, <1>2, <1>3, FS_Subset, FS_CardinalityType

(* The calls of one thread change. *)
LEMMA CallsChange ==
    ASSUME Typed, Typed', NEW a \in Actor, NEW calls, stack' = [stack EXCEPT ![a] = calls],
           NEW m, IsFiniteSet(Calls(m)), IsFiniteSet(Carriers(m))
    PROVE  /\ IsFiniteSet(Calls(m)') /\ IsFiniteSet(Carriers(m)')
           /\ Cardinality(Calls(m)') = Cardinality(Calls(m))
                  - Cardinality(Own(stack[a], m)) + Cardinality(Own(calls, m))
           /\ Cardinality(Carriers(m)') = Cardinality(Carriers(m))
                  - Cardinality(Carries(stack[a], m)) + Cardinality(Carries(calls, m))
<1> DEFINE f == [b \in Actor |-> Own(stack[b], m)]
<1> DEFINE g == [b \in Actor |-> Own(stack'[b], m)]
<1> DEFINE h == [b \in Actor |-> Carries(stack[b], m)]
<1> DEFINE k == [b \in Actor |-> Carries(stack'[b], m)]
<1>1. stack \in [Actor -> Seq(CallRecords)] /\ stack'[a] = calls /\ calls \in Seq(CallRecords')
    BY DEF Typed
<1>2. /\ Calls(m) = Pairs(f) /\ Carriers(m) = Pairs(h)
      /\ f \in [Actor -> SUBSET Nat] /\ h \in [Actor -> SUBSET Nat]
    BY CallsArePairs
<1>3. Calls(m)' = Pairs(g) /\ Carriers(m)' = Pairs(k)
  <2>1. CallsInPairs'
      BY CallsAndCarriers, PTL
  <2> QED
      BY <2>1 DEF CallsInPairs
<1>4. g = [f EXCEPT ![a] = Own(calls, m)] /\ k = [h EXCEPT ![a] = Carries(calls, m)]
    BY <1>1
<1>5. /\ IsFiniteSet(Own(calls, m)) /\ IsFiniteSet(Carries(calls, m))
      /\ Own(calls, m) \in SUBSET Nat /\ Carries(calls, m) \in SUBSET Nat
    BY <1>1, OwnFinite
<1>6. f[a] = Own(stack[a], m) /\ h[a] = Carries(stack[a], m)
    OBVIOUS
<1> DEFINE own == Own(calls, m)
<1> DEFINE carries == Carries(calls, m)
<1> HIDE DEF f, g, h, k, own, carries
<1>10. /\ g = [f EXCEPT ![a] = own] /\ k = [h EXCEPT ![a] = carries]
       /\ IsFiniteSet(own) /\ IsFiniteSet(carries) /\ own \in SUBSET Nat /\ carries \in SUBSET Nat
    BY <1>4, <1>5 DEF own, carries
<1>7. IsFiniteSet(Pairs(f)) /\ IsFiniteSet(Pairs(h))
    BY <1>2
<1>8. /\ IsFiniteSet(Pairs(g))
      /\ Cardinality(Pairs(g)) = Cardinality(Pairs(f)) - Cardinality(f[a]) + Cardinality(own)
    BY <1>2, <1>10, <1>7, ExchangePairs
<1>9. /\ IsFiniteSet(Pairs(k))
      /\ Cardinality(Pairs(k)) = Cardinality(Pairs(h)) - Cardinality(h[a]) + Cardinality(carries)
    BY <1>2, <1>10, <1>7, ExchangePairs
<1> QED
    BY <1>2, <1>3, <1>6, <1>8, <1>9 DEF own, carries

(* Only the innermost call carries anything. *)
LEMMA CarriesInFront ==
    ASSUME NEW M, NEW calls \in Seq(M), Coherent(calls), NEW m
    PROVE  Cardinality(Carries(calls, m)) =
              IF calls # <<>> /\ calls[1].carrying /\ calls[1].message = m THEN 1 ELSE 0
<1>1. DOMAIN calls = 1 .. Len(calls) /\ Len(calls) \in Nat /\ (calls # <<>> => 1 \in DOMAIN calls)
    BY LenProperties, EmptySeq
<1>2. Carries(calls, m) =
          IF calls # <<>> /\ calls[1].carrying /\ calls[1].message = m THEN {1} ELSE {}
    BY <1>1 DEF Carries, Coherent
<1> QED
    BY <1>2, FS_EmptySet, FS_Singleton

(* A call is made inside the others, or the innermost one returns.         *)
LEMMA OneCallMore ==
    ASSUME NEW M, NEW N, NEW outer \in Seq(M), NEW calls \in Seq(N), Len(calls) = Len(outer) + 1,
           \A i \in 1 .. Len(outer) : calls[i + 1].message = outer[i].message,
           NEW m
    PROVE  Cardinality(Own(calls, m)) = Cardinality(Own(outer, m)) + Same(calls[1].message, m)
<1>1. /\ DOMAIN outer = 1 .. Len(outer) /\ Len(outer) \in Nat /\ DOMAIN calls = 1 .. Len(outer) + 1
    BY LenProperties
<1>2. /\ Own(outer, m) \in SUBSET Nat /\ Own(calls, m) \in SUBSET Nat
      /\ IsFiniteSet(Own(outer, m))
    BY OwnFinite
<1>3. 0 \notin Own(outer, m) /\ 0 \notin Own(calls, m)
    BY <1>1 DEF Own
<1>4. \A i \in Nat \ {0} : i + 1 \in Own(calls, m) <=> i \in Own(outer, m)
    BY <1>1 DEF Own
<1>5. 1 \in Own(calls, m) <=> calls[1].message = m
    BY <1>1 DEF Own
<1>6. Cardinality(Own(calls, m)) =
          Cardinality(Own(outer, m)) + (IF 1 \in Own(calls, m) THEN 1 ELSE 0)
    BY <1>2, <1>3, <1>4, MovedUp
<1> QED
    BY <1>5, <1>6 DEF Same

(* The calls of a thread hold the same messages as before.                 *)
LEMMA SameCalls ==
    ASSUME NEW M, NEW N, NEW old \in Seq(M), NEW calls \in Seq(N), Len(calls) = Len(old),
           \A i \in 1 .. Len(old) : calls[i].message = old[i].message,
           NEW m
    PROVE  Own(calls, m) = Own(old, m)
BY LenProperties DEF Own

-----------------------------------------------------------------------------
(* The slots of one queue that hold m.                                     *)
Row(q, m) == {i \in DOMAIN q : q[i] = m}

(* r is what a push of x to queue s makes of the queues q.                 *)
Pushed(q, r, s, x) == s \in DOMAIN q /\ r = [q EXCEPT ![s] = Append(@, x)]

(* r is what a pop of x from queue s makes of the queues q.                *)
Popped(q, r, s, x) ==
    /\ s \in DOMAIN q
    /\ q[s] # <<>> /\ x = Head(q[s]) /\ r = [q EXCEPT ![s] = Tail(@)]

LEMMA RowFinite ==
    ASSUME NEW M, NEW q \in Seq(M), NEW m
    PROVE  /\ IsFiniteSet(Row(q, m)) /\ Cardinality(Row(q, m)) \in Nat
           /\ Row(q, m) \in SUBSET Nat /\ 0 \notin Row(q, m)
<1>1. DOMAIN q = 1 .. Len(q) /\ Len(q) \in Nat
    BY LenProperties
<1>2. IsFiniteSet(1 .. Len(q)) /\ Row(q, m) \subseteq 1 .. Len(q)
    BY <1>1, FS_Interval DEF Row
<1> QED
    BY <1>2, FS_Subset, FS_CardinalityType

(* A push fills one slot, of the message pushed.                           *)
LEMMA RowPushed ==
    ASSUME NEW M, NEW q \in Seq(M), NEW x \in M, NEW m
    PROVE  Cardinality(Row(Append(q, x), m)) = Cardinality(Row(q, m)) + Same(x, m)
<1> DEFINE last == Len(q) + 1
<1>1. /\ Len(q) \in Nat /\ DOMAIN q = 1 .. Len(q)
      /\ DOMAIN Append(q, x) = 1 .. last /\ Append(q, x)[last] = x
      /\ \A i \in 1 .. Len(q) : Append(q, x)[i] = q[i]
    BY AppendProperties, LenProperties
<1>2. last \notin Row(q, m)
    BY <1>1 DEF Row
<1>3. Row(Append(q, x), m) = IF x = m THEN Row(q, m) \cup {last} ELSE Row(q, m)
    BY <1>1 DEF Row
<1> HIDE DEF last
<1>4. Cardinality(Row(q, m) \cup {last}) = Cardinality(Row(q, m)) + 1
    BY <1>2, RowFinite, FS_AddElement
<1>5. Cardinality(Row(q, m)) \in Nat
    BY RowFinite
<1> QED
    BY <1>3, <1>4, <1>5 DEF Same

(* A pop empties one slot, of the message at the head, and moves the rest. *)
LEMMA RowPopped ==
    ASSUME NEW M, NEW q \in Seq(M), q # <<>>, NEW m
    PROVE  Cardinality(Row(Tail(q), m)) = Cardinality(Row(q, m)) - Same(Head(q), m)
<1> DEFINE rest == Tail(q)
<1>1. /\ Len(q) \in Nat /\ Len(q) > 0 /\ DOMAIN q = 1 .. Len(q) /\ Head(q) = q[1]
      /\ rest \in Seq(M) /\ DOMAIN rest = 1 .. Len(q) - 1
      /\ \A i \in 1 .. Len(q) - 1 : rest[i] = q[i + 1]
    BY HeadTailProperties, LenProperties, EmptySeq
<1> HIDE DEF rest
<1>2. /\ Row(q, m) \in SUBSET Nat /\ 0 \notin Row(q, m) /\ IsFiniteSet(Row(q, m))
      /\ Cardinality(Row(q, m)) \in Nat
    BY RowFinite
<1>3. Row(rest, m) \in SUBSET Nat /\ 0 \notin Row(rest, m) /\ Cardinality(Row(rest, m)) \in Nat
    BY <1>1, RowFinite
<1>4. \A i \in Nat \ {0} : i + 1 \in Row(q, m) <=> i \in Row(rest, m)
    BY <1>1 DEF Row
<1>5. 1 \in Row(q, m) <=> Head(q) = m
    BY <1>1 DEF Row
<1>6. Cardinality(Row(q, m)) =
          Cardinality(Row(rest, m)) + (IF 1 \in Row(q, m) THEN 1 ELSE 0)
    BY <1>2, <1>3, <1>4, MovedUp
<1> QED
    BY <1>2, <1>3, <1>5, <1>6 DEF Same, rest

Rows(q, m) == [s \in Stage |-> Row(q[s], m)]

SlotsInPairs == \A m : Slots(m) = Pairs(Rows(queue, m))

LEMMA SlotsArePairs == Typed => SlotsInPairs
<1> SUFFICES ASSUME Typed, NEW m PROVE Slots(m) = Pairs(Rows(queue, m))
    BY DEF SlotsInPairs
<1>1. \A s \in Stage : DOMAIN queue[s] \subseteq Nat
    BY LenProperties DEF Typed
<1> QED
    BY <1>1 DEF Slots, Pairs, Rows, Row

(* The queue of one stage changes.                                         *)
LEMMA SlotsChange ==
    ASSUME Typed, Typed', NEW s \in Stage, NEW q, queue' = [queue EXCEPT ![s] = q],
           NEW m, IsFiniteSet(Slots(m))
    PROVE  /\ IsFiniteSet(Slots(m)')
           /\ Cardinality(Slots(m)') = Cardinality(Slots(m))
                  - Cardinality(Row(queue[s], m)) + Cardinality(Row(q, m))
<1> DEFINE f == Rows(queue, m)
<1> DEFINE row == Row(q, m)
<1>1. SlotsInPairs /\ SlotsInPairs'
    BY SlotsArePairs, PTL
<1>2. Slots(m) = Pairs(f) /\ Slots(m)' = Pairs(Rows(queue', m))
    BY <1>1 DEF SlotsInPairs, Rows
<1>3. queue \in [Stage -> Seq(Message)] /\ q \in Seq(Message')
    BY DEF Typed
<1>4. Rows(queue', m) = [f EXCEPT ![s] = row] /\ f[s] = Row(queue[s], m)
    BY <1>3 DEF Rows
<1>5. f \in [Stage -> SUBSET Nat]
    BY <1>3, RowFinite DEF Rows
<1>6. row \in SUBSET Nat /\ IsFiniteSet(row)
    BY <1>3, RowFinite
<1>7. IsFiniteSet(Pairs(f))
    BY <1>2
<1> HIDE DEF f, row
<1>8. /\ IsFiniteSet(Pairs([f EXCEPT ![s] = row]))
      /\ Cardinality(Pairs([f EXCEPT ![s] = row]))
             = Cardinality(Pairs(f)) - Cardinality(f[s]) + Cardinality(row)
    BY <1>5, <1>6, <1>7, ExchangePairs
<1> QED
    BY <1>2, <1>4, <1>8 DEF row

LEMMA SlotsPushed ==
    ASSUME Typed, Typed', NEW s, NEW x \in Message, Pushed(queue, queue', s, x),
           NEW m, IsFiniteSet(Slots(m))
    PROVE  /\ IsFiniteSet(Slots(m)')
           /\ Cardinality(Slots(m)') = Cardinality(Slots(m)) + Same(x, m)
<1> DEFINE q == Append(queue[s], x)
<1>1. s \in Stage /\ queue[s] \in Seq(Message) /\ queue' = [queue EXCEPT ![s] = q]
    BY DEF Typed, Pushed
<1> HIDE DEF q
<1>2. /\ IsFiniteSet(Slots(m)')
      /\ Cardinality(Slots(m)') = Cardinality(Slots(m))
             - Cardinality(Row(queue[s], m)) + Cardinality(Row(q, m))
    BY <1>1, SlotsChange
<1>3. Cardinality(Row(q, m)) = Cardinality(Row(queue[s], m)) + Same(x, m)
    BY <1>1, RowPushed DEF q
<1>4. /\ Cardinality(Slots(m)) \in Nat /\ Cardinality(Row(queue[s], m)) \in Nat
      /\ Same(x, m) \in Nat
    BY <1>1, RowFinite, FS_CardinalityType DEF Same
<1> QED
    BY <1>2, <1>3, <1>4

LEMMA SlotsPopped ==
    ASSUME Typed, Typed', NEW s, NEW x, Popped(queue, queue', s, x),
           NEW m, IsFiniteSet(Slots(m))
    PROVE  /\ IsFiniteSet(Slots(m)')
           /\ Cardinality(Slots(m)') = Cardinality(Slots(m)) - Same(x, m)
<1> DEFINE q == Tail(queue[s])
<1>1. /\ s \in Stage /\ queue[s] \in Seq(Message) /\ queue[s] # <<>> /\ x = Head(queue[s])
      /\ queue' = [queue EXCEPT ![s] = q]
    BY DEF Typed, Popped
<1> HIDE DEF q
<1>2. /\ IsFiniteSet(Slots(m)')
      /\ Cardinality(Slots(m)') = Cardinality(Slots(m))
             - Cardinality(Row(queue[s], m)) + Cardinality(Row(q, m))
    BY <1>1, SlotsChange
<1>3. Cardinality(Row(q, m)) = Cardinality(Row(queue[s], m)) - Same(x, m)
    BY <1>1, RowPopped DEF q
<1>4. /\ Cardinality(Slots(m)) \in Nat /\ Cardinality(Row(queue[s], m)) \in Nat
      /\ Same(x, m) \in Nat
    BY <1>1, RowFinite, FS_CardinalityType DEF Same
<1> QED
    BY <1>2, <1>3, <1>4

LEMMA CountsBefore ==
    ASSUME CInv, NEW m \in Message
    PROVE  /\ Tallied(m) /\ heap[m].refs = Tally(m) /\ (heap[m].live <=> heap[m].refs > 0)
           /\ Cardinality(Slots(m)) \in Nat /\ Cardinality(Calls(m)) \in Nat
           /\ Cardinality(Carriers(m)) \in Nat /\ leaked[m] \in Nat /\ heap[m].refs \in Nat
<1>1. Tallied(m) /\ heap[m].refs = Tally(m) /\ (heap[m].live <=> heap[m].refs > 0)
    BY DEF CInv, Counted
<1> QED
    BY <1>1, TallyType

(* A step of one thread that counts what it does.                          *)
LEMMA CountedStep ==
    ASSUME CInv, Typed', NEW a \in Actor, NEW calls, stack' = [stack EXCEPT ![a] = calls],
           NEW m \in Message, IsFiniteSet(Slots(m)'), leaked'[m] \in Nat,
           heap'[m].refs - heap[m].refs =
                 (Cardinality(Slots(m)') - Cardinality(Slots(m)))
               + (Cardinality(Own(calls, m)) - Cardinality(Own(stack[a], m)))
               + (Cardinality(Carries(calls, m)) - Cardinality(Carries(stack[a], m)))
               + (leaked'[m] - leaked[m]),
           heap'[m].refs \in Int
    PROVE  Tallied(m)' /\ heap'[m].refs = Tally(m)'
<1>1. /\ Tallied(m) /\ heap[m].refs = Tally(m) /\ Typed
      /\ Cardinality(Slots(m)) \in Nat /\ Cardinality(Calls(m)) \in Nat
      /\ Cardinality(Carriers(m)) \in Nat /\ leaked[m] \in Nat
  <2>1. Typed
      BY DEF CInv
  <2> QED
      BY <2>1, CountsBefore
<1>2. IsFiniteSet(Calls(m)) /\ IsFiniteSet(Carriers(m))
    BY <1>1 DEF Tallied
<1>3. /\ IsFiniteSet(Calls(m)') /\ IsFiniteSet(Carriers(m)')
      /\ Cardinality(Calls(m)') = Cardinality(Calls(m))
             - Cardinality(Own(stack[a], m)) + Cardinality(Own(calls, m))
      /\ Cardinality(Carriers(m)') = Cardinality(Carriers(m))
             - Cardinality(Carries(stack[a], m)) + Cardinality(Carries(calls, m))
    BY <1>1, <1>2, CallsChange
<1>4. /\ Cardinality(Own(stack[a], m)) \in Nat /\ Cardinality(Own(calls, m)) \in Nat
      /\ Cardinality(Carries(stack[a], m)) \in Nat /\ Cardinality(Carries(calls, m)) \in Nat
  <2>1. stack[a] \in Seq(CallRecords)
      BY <1>1 DEF Typed
  <2>2. calls \in Seq(CallRecords')
    <3>1. stack' \in [Actor -> Seq(CallRecords')] /\ stack'[a] = calls
        BY <1>1 DEF Typed
    <3> QED
        BY <3>1
  <2> QED
      BY <2>1, <2>2, OwnFinite
<1>5. Cardinality(Slots(m)') \in Nat
    BY FS_CardinalityType
<1>6. Tallied(m)'
    BY <1>3 DEF Tallied
<1>7. Tally(m)' = Cardinality(Slots(m)') + Cardinality(Calls(m)') + Cardinality(Carriers(m)')
                    + leaked'[m]
    BY DEF Tally
<1>8. heap[m].refs = Cardinality(Slots(m)) + Cardinality(Calls(m)) + Cardinality(Carriers(m))
                     + leaked[m]
    BY <1>1 DEF Tally
<1> QED
  <2> DEFINE S == Cardinality(Slots(m))
  <2> DEFINE C == Cardinality(Calls(m))
  <2> DEFINE K == Cardinality(Carriers(m))
  <2> DEFINE S1 == Cardinality(Slots(m)')
  <2> DEFINE C1 == Cardinality(Calls(m)')
  <2> DEFINE K1 == Cardinality(Carriers(m)')
  <2> DEFINE O == Cardinality(Own(stack[a], m))
  <2> DEFINE O1 == Cardinality(Own(calls, m))
  <2> DEFINE B == Cardinality(Carries(stack[a], m))
  <2> DEFINE B1 == Cardinality(Carries(calls, m))
  <2> DEFINE l == leaked[m]
  <2> DEFINE l1 == leaked'[m]
  <2> DEFINE r == heap[m].refs
  <2> DEFINE r1 == heap'[m].refs
  <2>1. /\ S \in Nat /\ C \in Nat /\ K \in Nat /\ S1 \in Nat /\ O \in Nat /\ O1 \in Nat
        /\ B \in Nat /\ B1 \in Nat /\ l \in Nat /\ l1 \in Nat /\ r1 \in Int
      BY <1>1, <1>4, <1>5
  <2>2. /\ C1 = C - O + O1 /\ K1 = K - B + B1 /\ r = S + C + K + l
        /\ r1 - r = (S1 - S) + (O1 - O) + (B1 - B) + (l1 - l)
      BY <1>3, <1>8
  <2>3. Tally(m)' = S1 + C1 + K1 + l1
      BY <1>7
  <2> HIDE DEF S, C, K, S1, C1, K1, O, O1, B, B1, l, l1, r, r1
  <2>4. r1 = S1 + C1 + K1 + l1
      BY <2>1, <2>2
  <2> QED
      BY <1>6, <2>3, <2>4 DEF r1

(* A message some call holds is counted, and alive.                        *)
LEMMA CallIsCounted ==
    ASSUME CInv, NEW a \in Actor, NEW i \in 1 .. Len(stack[a])
    PROVE  /\ stack[a][i].message \in Message
           /\ heap[stack[a][i].message].refs \in Nat \ {0} /\ heap[stack[a][i].message].live
<1> DEFINE m == stack[a][i].message
<1>1. stack[a] \in Seq(CallRecords)
    BY DEF CInv, Typed
<1>2. DOMAIN stack[a] = 1 .. Len(stack[a]) /\ stack[a][i] \in CallRecords
    BY <1>1, LenProperties, ElementOfSeq
<1>3. m \in Message
    BY <1>2 DEF CallRecords
<1>4. <<a, i>> \in Calls(m)
    BY <1>2 DEF Calls
<1>5. /\ Tallied(m) /\ heap[m].refs = Tally(m) /\ (heap[m].live <=> heap[m].refs > 0)
      /\ Cardinality(Slots(m)) \in Nat /\ Cardinality(Calls(m)) \in Nat
      /\ Cardinality(Carriers(m)) \in Nat /\ leaked[m] \in Nat
    BY <1>3, CountsBefore
<1>6. IsFiniteSet(Calls(m))
    BY <1>5 DEF Tallied
<1>7. Cardinality(Calls(m)) # 0
    BY <1>4, <1>6, FS_EmptySet
<1> HIDE DEF m
<1>8. heap[m].refs \in Nat \ {0}
    BY <1>5, <1>7 DEF Tally
<1> QED
    BY <1>3, <1>5, <1>8 DEF m

(* The messages no step of a thread touches, and the one it counts.        *)
LEMMA CountedIf ==
    ASSUME leaked' \in Seq(Nat), DOMAIN leaked' = Message',
           \A m \in Message' : /\ Tallied(m)' /\ heap'[m].refs = Tally(m)'
                               /\ heap'[m].live <=> heap'[m].refs > 0
    PROVE  Counted'
BY DEF Counted

LEMMA SlotsKept == ASSUME queue' = queue, NEW m PROVE Slots(m)' = Slots(m)
BY DEF Slots

-----------------------------------------------------------------------------
LEMMA CountedInit == Init => Counted
BY DEF Init, Counted, Message

LEMMA SameOrOther == ASSUME NEW x, NEW y PROVE Same(x, y) \in {0, 1} /\ (Same(x, y) = 1 <=> x = y)
BY DEF Same

(* The innermost call of a thread stays, with the same message.            *)
LEMMA TopReplaced ==
    ASSUME Typed, NEW a \in Actor, stack[a] # <<>>, CallRecords' = CallRecords,
           NEW c \in CallRecords, c.message = Top(a).message, c.carrying => c.todo # <<>>,
           NEW m
    PROVE  /\ Cardinality(Own([stack[a] EXCEPT ![1] = c], m)) = Cardinality(Own(stack[a], m))
           /\ Cardinality(Carries([stack[a] EXCEPT ![1] = c], m))
                  = IF c.carrying THEN Same(c.message, m) ELSE 0
           /\ Cardinality(Carries(stack[a], m))
                  = IF Top(a).carrying THEN Same(c.message, m) ELSE 0
           /\ Cardinality(Own(stack[a], m)) \in Nat
<1> DEFINE calls == [stack[a] EXCEPT ![1] = c]
<1>1. /\ stack[a] \in Seq(CallRecords) /\ Len(stack[a]) \in Nat \ {0} /\ Top(a) = stack[a][1]
      /\ Coherent(stack[a])
    BY TopCall DEF Typed
<1>2. /\ calls \in Seq(CallRecords) /\ Len(calls) = Len(stack[a]) /\ Coherent(calls)
      /\ \A i \in 1 .. Len(stack[a]) : calls[i] = IF i = 1 THEN c ELSE stack[a][i]
    BY Replaced
<1>3. /\ calls[1] = c /\ \A i \in 1 .. Len(stack[a]) : calls[i].message = stack[a][i].message
    BY <1>1, <1>2
<1> HIDE DEF calls
<1>4. Own(calls, m) = Own(stack[a], m)
    BY <1>1, <1>2, <1>3, SameCalls
<1>5. calls # <<>>
    BY <1>1, <1>2, EmptySeq
<1>6. Cardinality(Carries(calls, m)) = IF calls[1].carrying /\ calls[1].message = m THEN 1 ELSE 0
    BY <1>2, <1>5, CarriesInFront
<1>7. Cardinality(Carries(stack[a], m)) =
          IF stack[a][1].carrying /\ stack[a][1].message = m THEN 1 ELSE 0
    BY <1>1, CarriesInFront
<1>8. Cardinality(Own(stack[a], m)) \in Nat
    BY <1>1, OwnFinite
<1> QED
    BY <1>1, <1>3, <1>4, <1>6, <1>7, <1>8 DEF Same, calls

LEMMA TopIsCounted ==
    ASSUME CInv, NEW a \in Actor, stack[a] # <<>>
    PROVE  /\ Top(a).message \in Message
           /\ heap[Top(a).message].refs \in Nat \ {0} /\ heap[Top(a).message].live
<1>1. Top(a) = stack[a][1] /\ 1 \in 1 .. Len(stack[a])
    BY TopCall DEF CInv
<1> QED
    BY <1>1, CallIsCounted

(* A step of one thread that concerns the message x only: what it adds to  *)
(* the queues, calls and carriers of x is what it adds to its count.       *)
At(x, m, d) == IF x = m THEN d ELSE 0

SlotsMove(x, d) ==
    \A m \in Message :
        /\ IsFiniteSet(Slots(m)')
        /\ Cardinality(Slots(m)') = Cardinality(Slots(m)) + At(x, m, d)

OwnMove(a, calls, x, d) ==
    \A m \in Message :
        /\ Cardinality(Own(stack[a], m)) \in Nat
        /\ Cardinality(Own(calls, m)) = Cardinality(Own(stack[a], m)) + At(x, m, d)

CarriesMove(a, calls, x, d) ==
    \A m \in Message :
        /\ Cardinality(Carries(stack[a], m)) \in Nat
        /\ Cardinality(Carries(calls, m)) = Cardinality(Carries(stack[a], m)) + At(x, m, d)

Balanced(slots, own, carriers, refs) ==
    slots \in Int /\ own \in Int /\ carriers \in Int /\ refs = slots + own + carriers

RefsMove(x, d) ==
    /\ x \in Message /\ heap'[x].refs = heap[x].refs + d
    /\ heap'[x].live <=> heap'[x].refs > 0
    /\ \A m \in Message : m # x => heap'[m] = heap[m]

LEMMA CountedOne ==
    ASSUME CInv, Typed', Message' = Message, leaked' = leaked,
           NEW a \in Actor, NEW calls, stack' = [stack EXCEPT ![a] = calls],
           NEW x, NEW slots, NEW own, NEW carriers, NEW refs, Balanced(slots, own, carriers, refs),
           SlotsMove(x, slots), OwnMove(a, calls, x, own), CarriesMove(a, calls, x, carriers),
           RefsMove(x, refs)
    PROVE  Counted'
<1>3. /\ slots \in Int /\ own \in Int /\ carriers \in Int /\ refs = slots + own + carriers
      /\ x \in Message /\ heap'[x].refs = heap[x].refs + refs
      /\ heap'[x].live <=> heap'[x].refs > 0
      /\ \A m \in Message : m # x => heap'[m] = heap[m]
    BY DEF Balanced, RefsMove
<1>1. ASSUME NEW m \in Message
      PROVE  Tallied(m)' /\ heap'[m].refs = Tally(m)' /\ (heap'[m].live <=> heap'[m].refs > 0)
  <2>1. /\ Tallied(m) /\ heap[m].refs \in Nat /\ (heap[m].live <=> heap[m].refs > 0)
        /\ leaked[m] \in Nat /\ Cardinality(Slots(m)) \in Nat
      BY CountsBefore
  <2>2. heap'[m].live <=> heap'[m].refs > 0
      BY <1>3, <2>1
  <2>3. heap'[m].refs = heap[m].refs + At(x, m, slots) + At(x, m, own) + At(x, m, carriers)
    <3>1. CASE m = x
        BY <1>3, <2>1, <3>1 DEF At
    <3>2. CASE m # x
        BY <1>3, <2>1, <3>2 DEF At
    <3> QED
        BY <3>1, <3>2
  <2>4. At(x, m, slots) \in Int /\ At(x, m, own) \in Int /\ At(x, m, carriers) \in Int
      BY <1>3 DEF At
  <2>5. /\ IsFiniteSet(Slots(m)') /\ leaked'[m] \in Nat
        /\ Cardinality(Slots(m)') = Cardinality(Slots(m)) + At(x, m, slots)
        /\ Cardinality(Own(calls, m)) = Cardinality(Own(stack[a], m)) + At(x, m, own)
        /\ Cardinality(Own(stack[a], m)) \in Nat
        /\ Cardinality(Carries(stack[a], m)) \in Nat
        /\ Cardinality(Carries(calls, m)) = Cardinality(Carries(stack[a], m)) + At(x, m, carriers)
      BY <2>1 DEF SlotsMove, OwnMove, CarriesMove
  <2> DEFINE S == Cardinality(Slots(m))
  <2> DEFINE S1 == Cardinality(Slots(m)')
  <2> DEFINE O == Cardinality(Own(stack[a], m))
  <2> DEFINE O1 == Cardinality(Own(calls, m))
  <2> DEFINE B == Cardinality(Carries(stack[a], m))
  <2> DEFINE B1 == Cardinality(Carries(calls, m))
  <2>6. /\ S1 = S + At(x, m, slots) /\ O1 = O + At(x, m, own) /\ B1 = B + At(x, m, carriers)
        /\ S \in Nat /\ O \in Nat /\ B \in Nat /\ leaked'[m] = leaked[m]
      BY <2>1, <2>5
  <2> HIDE DEF S, S1, O, O1, B, B1
  <2>7. /\ heap'[m].refs \in Int
        /\ heap'[m].refs - heap[m].refs = (S1 - S) + (O1 - O) + (B1 - B) + (leaked'[m] - leaked[m])
      BY <2>1, <2>3, <2>4, <2>6
  <2>8. Tallied(m)' /\ heap'[m].refs = Tally(m)'
      BY <2>5, <2>7, CountedStep DEF S, S1, O, O1, B, B1
  <2> QED
      BY <2>2, <2>8
<1>2. leaked' \in Seq(Nat) /\ DOMAIN leaked' = Message'
    BY DEF CInv, Counted
<1> QED
    BY <1>1, <1>2, CountedIf

LEMMA SlotsLeft ==
    ASSUME CInv, queue' = queue, NEW x
    PROVE  SlotsMove(x, 0)
<1> SUFFICES ASSUME NEW m \in Message
             PROVE  /\ IsFiniteSet(Slots(m)')
                    /\ Cardinality(Slots(m)') = Cardinality(Slots(m)) + At(x, m, 0)
    BY DEF SlotsMove
<1>1. Slots(m)' = Slots(m)
    BY SlotsKept
<1>2. IsFiniteSet(Slots(m)) /\ Cardinality(Slots(m)) \in Nat
    BY CountsBefore DEF Tallied
<1> QED
    BY <1>1, <1>2 DEF At

LEMMA CountedRetain ==
    ASSUME CInv, NEW a \in Actor, Retain(a)
    PROVE  Counted'
<1> DEFINE x == Top(a).message
<1> DEFINE c == [Top(a) EXCEPT !.carrying = TRUE]
<1>1. /\ stack[a] # <<>> /\ Top(a).todo # <<>> /\ ~Top(a).carrying /\ heap' = AddRef(x)
      /\ queue' = queue /\ leaked' = leaked /\ Typed
    BY DEF Retain, Running, historyVars, CInv
<1>2. Top(a) \in CallRecords /\ x \in Message /\ Top(a) = stack[a][1]
    BY <1>1, TopCall DEF CallRecords
<1>3. /\ Message' = Message /\ \A n \in Message : n # x => heap'[n] = heap[n]
      /\ heap'[x].refs = heap[x].refs + 1 /\ heap'[x].live = heap[x].live
    BY <1>1, <1>2, Added
<1>4. /\ c \in CallRecords /\ c.todo # <<>> /\ c.carrying /\ c.message = x
      /\ CallRecords' = CallRecords
    BY <1>1, <1>2, <1>3 DEF CallRecords
<1>5. stack' = [stack EXCEPT ![a] = [stack[a] EXCEPT ![1] = c]]
    BY <1>2 DEF Retain
<1>6. Typed'
    BY <1>1, TypedRetain
<1>7. heap[x].refs \in Nat \ {0} /\ heap[x].live
    BY <1>1, TopIsCounted
<1> DEFINE calls == [stack[a] EXCEPT ![1] = c]
<1> HIDE DEF c, x
<1>8. OwnMove(a, calls, x, 0) /\ CarriesMove(a, calls, x, 1)
  <2>1. ASSUME NEW m \in Message
        PROVE  /\ Cardinality(Own(calls, m)) = Cardinality(Own(stack[a], m))
               /\ Cardinality(Carries(calls, m)) = Same(x, m)
               /\ Cardinality(Carries(stack[a], m)) = 0
               /\ Cardinality(Own(stack[a], m)) \in Nat
      BY <1>1, <1>4, TopReplaced DEF x
  <2> HIDE DEF calls
  <2> QED
      BY <2>1 DEF OwnMove, CarriesMove, At, Same
<1>9. SlotsMove(x, 0)
    BY <1>1, SlotsLeft
<1>10. RefsMove(x, 1) /\ stack' = [stack EXCEPT ![a] = calls]
    BY <1>2, <1>3, <1>5, <1>7 DEF RefsMove, x
<1>11. Balanced(0, 0, 1, 1)
    BY DEF Balanced
<1> HIDE DEF calls
<1> QED
    BY <1>1, <1>3, <1>6, <1>8, <1>9, <1>10, <1>11, CountedOne

-----------------------------------------------------------------------------
LEMMA NoRefsMove ==
    ASSUME CInv, heap' = heap, NEW x \in Message
    PROVE  RefsMove(x, 0) /\ Message' = Message /\ CallRecords' = CallRecords
<1>1. heap[x].refs \in Nat /\ (heap[x].live <=> heap[x].refs > 0)
    BY CountsBefore
<1> QED
    BY <1>1 DEF RefsMove, Message, CallRecords

LEMMA RefDropped ==
    ASSUME CInv, NEW x \in Message, heap' = DropRef(x), heap[x].refs \in Nat \ {0}
    PROVE  RefsMove(x, -1) /\ Message' = Message /\ CallRecords' = CallRecords
<1>1. /\ Message' = Message /\ \A n \in Message : n # x => heap'[n] = heap[n]
      /\ heap'[x].refs = heap[x].refs - 1 /\ (heap'[x].live <=> heap[x].refs # 1)
    BY Dropped DEF CInv
<1> QED
    BY <1>1 DEF RefsMove, CallRecords

LEMMA PushMoves ==
    ASSUME CInv, Typed', NEW s \in Stage, NEW x \in Message,
           queue' = [queue EXCEPT ![s] = Append(queue[s], x)]
    PROVE  SlotsMove(x, 1)
<1>1. Typed /\ Pushed(queue, queue', s, x)
    BY DEF CInv, Typed, Pushed
<1>2. ASSUME NEW m \in Message
      PROVE  IsFiniteSet(Slots(m)') /\ Cardinality(Slots(m)') = Cardinality(Slots(m)) + Same(x, m)
  <2>1. IsFiniteSet(Slots(m))
      BY CountsBefore DEF Tallied
  <2> QED
      BY <1>1, <2>1, SlotsPushed
<1> QED
    BY <1>2 DEF SlotsMove, At, Same

LEMMA CountedPush ==
    ASSUME CInv, NEW a \in Actor, NEW s \in Stage, Push(a, s)
    PROVE  Counted'
<1> DEFINE x == Top(a).message
<1> DEFINE c == Dispatched(a)
<1> DEFINE calls == [stack[a] EXCEPT ![1] = c]
<1>1. /\ Typed /\ Typed' /\ heap' = heap /\ leaked' = leaked
      /\ queue' = [queue EXCEPT ![s] = Append(queue[s], x)]
      /\ stack' = [stack EXCEPT ![a] = calls]
  <2>1. Typed
      BY DEF CInv
  <2>2. Typed'
      BY <2>1, TypedPush
  <2> QED
      BY <2>1, <2>2 DEF Push, historyVars
<1>2. /\ stack[a] # <<>> /\ Top(a) \in CallRecords /\ x \in Message /\ Top(a).carrying
      /\ c \in CallRecords /\ ~c.carrying /\ c.message = x
    BY <1>1, Carrying DEF Push
<1>3. RefsMove(x, 0) /\ Message' = Message /\ CallRecords' = CallRecords
    BY <1>1, <1>2, NoRefsMove
<1>4. OwnMove(a, calls, x, 0) /\ CarriesMove(a, calls, x, -1)
  <2>1. ASSUME NEW m \in Message
        PROVE  /\ Cardinality(Own(calls, m)) = Cardinality(Own(stack[a], m))
               /\ Cardinality(Carries(calls, m)) = 0
               /\ Cardinality(Carries(stack[a], m)) = Same(x, m)
               /\ Cardinality(Own(stack[a], m)) \in Nat
    <3> HIDE DEF c
    <3> QED
        BY <1>1, <1>2, <1>3, TopReplaced
  <2> HIDE DEF calls, x
  <2> QED
      BY <2>1 DEF OwnMove, CarriesMove, At, Same
<1> HIDE DEF x, c, calls
<1>5. SlotsMove(x, 1)
    BY <1>1, <1>2, PushMoves
<1>6. Balanced(1, 0, -1, 0)
    BY DEF Balanced
<1> QED
    BY <1>1, <1>3, <1>4, <1>5, <1>6, CountedOne

LEMMA TailLeft ==
    ASSUME NEW S, NEW q \in Seq(S), Len(q) > 1
    PROVE  Tail(q) \in Seq(S) /\ Tail(q) # <<>>
<1>1. Len(q) \in Nat /\ q # <<>>
    BY LenProperties, EmptySeq
<1>2. Tail(q) \in Seq(S) /\ Len(Tail(q)) = Len(q) - 1
    BY <1>1, HeadTailProperties
<1>3. Len(Tail(q)) # 0
    BY <1>1, <1>2
<1> QED
    BY <1>2, <1>3, EmptySeq

LEMMA CountedNextFunctor ==
    ASSUME CInv, NEW a \in Actor, NextFunctor(a)
    PROVE  Counted'
<1> DEFINE x == Top(a).message
<1> DEFINE c == Call(x, Tail(Top(a).functors))
<1> DEFINE calls == [stack[a] EXCEPT ![1] = c]
<1>1. /\ Typed /\ Typed' /\ heap' = heap /\ leaked' = leaked /\ queue' = queue
      /\ stack[a] # <<>> /\ Top(a).todo = <<>> /\ Len(Top(a).functors) > 1
  <2>1. Typed
      BY DEF CInv
  <2>2. Typed'
      BY <2>1, TypedNextFunctor
  <2> QED
      BY <2>1, <2>2 DEF NextFunctor, Returns, Running
<1>2. /\ Top(a) \in CallRecords /\ Top(a) = stack[a][1] /\ x \in Message /\ ~Top(a).carrying
    BY <1>1, TopCall DEF CallRecords
<1>3. RefsMove(x, 0) /\ Message' = Message /\ CallRecords' = CallRecords
    BY <1>1, <1>2, NoRefsMove
<1>4. stack' = [stack EXCEPT ![a] = calls]
    BY <1>2 DEF NextFunctor
<1>5. c \in CallRecords /\ ~c.carrying /\ c.message = x
  <2>1. Top(a).functors \in Seq(Functor)
      BY <1>2 DEF CallRecords
  <2>2. Tail(Top(a).functors) \in Seq(Functor) /\ Tail(Top(a).functors) # <<>>
      BY <1>1, <2>1, TailLeft
  <2> QED
      BY <1>2, <2>2, NewCall
<1>6. OwnMove(a, calls, x, 0) /\ CarriesMove(a, calls, x, 0)
  <2>1. ASSUME NEW m \in Message
        PROVE  /\ Cardinality(Own(calls, m)) = Cardinality(Own(stack[a], m))
               /\ Cardinality(Carries(calls, m)) = 0
               /\ Cardinality(Carries(stack[a], m)) = 0
               /\ Cardinality(Own(stack[a], m)) \in Nat
    <3> HIDE DEF c
    <3> QED
        BY <1>1, <1>2, <1>3, <1>5, TopReplaced
  <2> HIDE DEF calls, x
  <2> QED
      BY <2>1 DEF OwnMove, CarriesMove, At, Same
<1> HIDE DEF x, c, calls
<1>7. SlotsMove(x, 0) /\ Balanced(0, 0, 0, 0)
    BY <1>1, SlotsLeft DEF Balanced
<1> QED
    BY <1>1, <1>3, <1>4, <1>6, <1>7, CountedOne

LEMMA CountedReturn ==
    ASSUME CInv, NEW a \in Actor, Return(a)
    PROVE  Counted'
<1> DEFINE x == Top(a).message
<1> DEFINE calls == Tail(stack[a])
<1>1. /\ Typed /\ Typed' /\ heap' = DropRef(x) /\ leaked' = leaked /\ queue' = queue
      /\ stack[a] # <<>> /\ Top(a).todo = <<>>
      /\ stack' = [stack EXCEPT ![a] = calls]
  <2>1. Typed
      BY DEF CInv
  <2>2. Typed'
      BY <2>1, TypedReturn
  <2> QED
      BY <2>1, <2>2 DEF Return, Returns, Running
<1>2. /\ Top(a) = stack[a][1] /\ x \in Message /\ ~Top(a).carrying
      /\ stack[a] \in Seq(CallRecords) /\ Len(stack[a]) \in Nat \ {0} /\ Coherent(stack[a])
      /\ calls \in Seq(CallRecords) /\ Coherent(calls)
      /\ \A i \in 1 .. Len(stack[a]) : i # 1 => ~stack[a][i].carrying
    BY <1>1, TopCall DEF CallRecords, Typed
<1>3. RefsMove(x, -1) /\ Message' = Message
  <2>1. heap[x].refs \in Nat \ {0}
      BY <1>1, TopIsCounted
  <2> QED
      BY <1>1, <1>2, <2>1, RefDropped
<1>4. Len(calls) = Len(stack[a]) - 1 /\ \A i \in 1 .. Len(calls) : calls[i] = stack[a][i + 1]
    BY <1>1, <1>2, HeadTailProperties
<1> HIDE DEF calls
<1>5. OwnMove(a, calls, x, -1) /\ CarriesMove(a, calls, x, 0)
  <2>1. ASSUME NEW m \in Message
        PROVE  /\ Cardinality(Own(stack[a], m)) = Cardinality(Own(calls, m)) + Same(x, m)
               /\ Cardinality(Own(calls, m)) \in Nat /\ Cardinality(Own(stack[a], m)) \in Nat
    <3>1. /\ Len(stack[a]) = Len(calls) + 1 /\ stack[a][1].message = x
          /\ \A i \in 1 .. Len(calls) : stack[a][i + 1].message = calls[i].message
        BY <1>2, <1>4
    <3>2. Cardinality(Own(stack[a], m)) = Cardinality(Own(calls, m)) + Same(x, m)
        BY <1>2, <3>1, OneCallMore
    <3> QED
        BY <1>2, <3>2, OwnFinite
  <2>2. ASSUME NEW m \in Message
        PROVE  /\ Cardinality(Carries(calls, m)) = 0
               /\ Cardinality(Carries(stack[a], m)) = 0
    <3>1. calls # <<>> => ~calls[1].carrying
      <4>1. calls # <<>> => Len(calls) # 0 /\ Len(calls) \in Nat
          BY <1>2, EmptySeq, LenProperties
      <4>2. calls # <<>> => /\ 1 \in 1 .. Len(calls) /\ 1 + 1 \in 1 .. Len(stack[a])
          BY <1>2, <1>4, <4>1
      <4> QED
          BY <1>2, <1>4, <4>2
    <3> QED
        BY <1>2, <3>1, CarriesInFront
  <2> HIDE DEF x
  <2>3. OwnMove(a, calls, x, -1)
      BY <2>1 DEF OwnMove, At, Same
  <2>4. CarriesMove(a, calls, x, 0)
      BY <2>2 DEF CarriesMove, At
  <2> QED
      BY <2>3, <2>4
<1> HIDE DEF x
<1>6. SlotsMove(x, 0) /\ Balanced(0, -1, 0, -1)
    BY <1>1, SlotsLeft DEF Balanced
<1> QED
    BY <1>1, <1>3, <1>5, <1>6, CountedOne

-----------------------------------------------------------------------------
(* A call made inside the others, the caller's own being c from then on.   *)
LEMMA Nested ==
    ASSUME NEW M, NEW calls \in Seq(M), calls # <<>>, NEW inner \in M, NEW c \in M
    PROVE  LET nested == <<inner, c>> \o Tail(calls)
           IN  /\ nested \in Seq(M) /\ Len(nested) = Len(calls) + 1
               /\ nested[1] = inner /\ nested[2] = c
               /\ \A i \in 1 .. Len(calls) : i # 1 => nested[i + 1] = calls[i]
<1> DEFINE two == <<inner, c>>
<1> DEFINE rest == Tail(calls)
<1>1. two \in Seq(M) /\ Len(two) = 2 /\ two[1] = inner /\ two[2] = c
    OBVIOUS
<1>2. /\ rest \in Seq(M) /\ Len(rest) = Len(calls) - 1 /\ Len(calls) \in Nat \ {0}
      /\ \A i \in 1 .. Len(rest) : rest[i] = calls[i + 1]
  <2>1. Len(calls) \in Nat \ {0}
      BY LenProperties, EmptySeq
  <2> QED
      BY <2>1, HeadTailProperties
<1> HIDE DEF two, rest
<1>3. /\ two \o rest \in Seq(M) /\ Len(two \o rest) = Len(two) + Len(rest)
      /\ \A i \in 1 .. Len(two) + Len(rest) : (two \o rest)[i] =
            IF i <= Len(two) THEN two[i] ELSE rest[i - Len(two)]
    BY <1>1, <1>2, ConcatProperties
<1>4. Len(two \o rest) = Len(calls) + 1
    BY <1>1, <1>2, <1>3
<1>5. (two \o rest)[1] = inner /\ (two \o rest)[2] = c
  <2>1. 1 \in 1 .. Len(two) + Len(rest) /\ 2 \in 1 .. Len(two) + Len(rest)
      BY <1>1, <1>2
  <2> QED
      BY <1>1, <1>3, <2>1
<1>6. ASSUME NEW i \in 1 .. Len(calls), i # 1
      PROVE  (two \o rest)[i + 1] = calls[i]
  <2>1. /\ i + 1 \in 1 .. Len(two) + Len(rest) /\ ~(i + 1 <= Len(two))
        /\ (i + 1) - Len(two) = i - 1 /\ i - 1 \in 1 .. Len(rest) /\ (i - 1) + 1 = i
      BY <1>1, <1>2, <1>6
  <2>2. (two \o rest)[i + 1] = rest[i - 1]
      BY <1>3, <2>1
  <2> QED
      BY <1>2, <2>1, <2>2
<1> QED
    BY <1>3, <1>4, <1>5, <1>6 DEF two, rest

LEMMA CountedPushThrough ==
    ASSUME CInv, NEW a \in Actor, NEW s \in Stage, PushThrough(a, s)
    PROVE  Counted'
<1> DEFINE x == Top(a).message
<1> DEFINE c == Dispatched(a)
<1> DEFINE inner == Call(x, Functors[s])
<1> DEFINE calls == <<inner, c>> \o Tail(stack[a])
<1>1. /\ Typed /\ Typed' /\ heap' = heap /\ leaked' = leaked /\ queue' = queue
      /\ stack' = [stack EXCEPT ![a] = calls]
  <2>1. Typed
      BY DEF CInv
  <2>2. Typed'
      BY <2>1, TypedPushThrough
  <2> QED
      BY <2>1, <2>2 DEF PushThrough, historyVars
<1>2. /\ stack[a] # <<>> /\ Top(a) \in CallRecords /\ x \in Message /\ Top(a).carrying
      /\ c \in CallRecords /\ ~c.carrying /\ c.message = x
    BY <1>1, Carrying DEF PushThrough
<1>3. RefsMove(x, 0) /\ Message' = Message
    BY <1>1, <1>2, NoRefsMove
<1>4. inner \in CallRecords /\ ~inner.carrying /\ inner.message = x
  <2>1. s \notin InputStages
      BY Positions, QueueAdaptersAssumption, LenProperties DEF PushThrough, InputStages, ToSet
  <2>2. Functors[s] \in Seq(Functor) /\ Functors[s] # <<>>
      BY <2>1, FunctorsOfStage
  <2> QED
      BY <1>2, <2>2, NewCall
<1>5. /\ stack[a] \in Seq(CallRecords) /\ Coherent(stack[a]) /\ Top(a) = stack[a][1]
      /\ \A i \in 1 .. Len(stack[a]) : i # 1 => ~stack[a][i].carrying
    BY <1>1, <1>2, TopCall DEF Typed
<1> HIDE DEF c, inner
<1>6. /\ calls \in Seq(CallRecords) /\ Len(calls) = Len(stack[a]) + 1
      /\ calls[1] = inner /\ calls[2] = c
      /\ \A i \in 1 .. Len(stack[a]) : i # 1 => calls[i + 1] = stack[a][i]
    BY <1>2, <1>4, <1>5, Nested
<1> HIDE DEF calls
<1>7. OwnMove(a, calls, x, 1)
  <2>1. \A i \in 1 .. Len(stack[a]) : calls[i + 1].message = stack[a][i].message
    <3>1. calls[1 + 1].message = stack[a][1].message
        BY <1>2, <1>5, <1>6
    <3> QED
        BY <1>6, <3>1
  <2>2. ASSUME NEW m \in Message
        PROVE  /\ Cardinality(Own(calls, m)) = Cardinality(Own(stack[a], m)) + Same(x, m)
               /\ Cardinality(Own(stack[a], m)) \in Nat
    <3>1. calls[1].message = x
        BY <1>4, <1>6
    <3>2. Cardinality(Own(calls, m)) = Cardinality(Own(stack[a], m)) + Same(calls[1].message, m)
      <4>1. /\ stack[a] \in Seq(CallRecords) /\ calls \in Seq(CallRecords)
            /\ Len(calls) = Len(stack[a]) + 1
          BY <1>5, <1>6
      <4> QED
          BY <2>1, <4>1, OneCallMore
    <3> QED
        BY <1>5, <3>1, <3>2, OwnFinite
  <2> HIDE DEF x
  <2> QED
      BY <2>2 DEF OwnMove, At, Same
<1>8. CarriesMove(a, calls, x, -1)
  <2>1. (Typed => \A b \in Actor : Coherent(stack[b]))'
      BY <1>1 DEF Typed
  <2>2. Coherent(calls)
    <3>1. stack'[a] = calls
        BY <1>1 DEF Typed
    <3> QED
        BY <1>1, <2>1, <3>1
  <2>3. ASSUME NEW m \in Message
        PROVE  /\ Cardinality(Carries(calls, m)) = 0
               /\ Cardinality(Carries(stack[a], m)) = Same(x, m)
    <3>1. Cardinality(Carries(calls, m)) = 0
        BY <1>4, <1>6, <2>2, CarriesInFront
    <3>2. Cardinality(Carries(stack[a], m)) = IF stack[a][1].message = m THEN 1 ELSE 0
        BY <1>2, <1>5, CarriesInFront
    <3> QED
        BY <1>5, <3>1, <3>2 DEF Same
  <2> HIDE DEF x
  <2> QED
      BY <2>3 DEF CarriesMove, At, Same
<1> HIDE DEF x
<1>9. SlotsMove(x, 0) /\ Balanced(0, 1, -1, 0)
    BY <1>1, SlotsLeft DEF Balanced
<1> QED
    BY <1>1, <1>3, <1>7, <1>8, <1>9, CountedOne

(* The first call of a thread that has none. *)
LEMMA FirstCall ==
    ASSUME NEW c, ~c.carrying, NEW m
    PROVE  /\ Cardinality(Own(<<c>>, m)) = Same(c.message, m)
           /\ Cardinality(Carries(<<c>>, m)) = 0
           /\ Cardinality(Own(<<>>, m)) = 0 /\ Cardinality(Carries(<<>>, m)) = 0
<1>1. /\ Own(<<c>>, m) = IF c.message = m THEN {1} ELSE {}
      /\ Carries(<<c>>, m) = {} /\ Own(<<>>, m) = {} /\ Carries(<<>>, m) = {}
    BY DEF Own, Carries
<1> QED
    BY <1>1, FS_EmptySet, FS_Singleton DEF Same

LEMMA TakeMoves ==
    ASSUME CInv, Typed', NEW w \in Workers, NEW s \in Stage, queue[s] # <<>>, Take(w, s),
           NEW x, x = Head(queue[s])
    PROVE  SlotsMove(x, -1) /\ x \in Message
<1>1. /\ Typed /\ Popped(queue, queue', s, x)
    BY DEF CInv, Typed, Take, Popped
<1>2. ASSUME NEW m \in Message
      PROVE  /\ IsFiniteSet(Slots(m)') /\ Cardinality(Slots(m)) \in Nat
             /\ Cardinality(Slots(m)') = Cardinality(Slots(m)) - Same(x, m)
  <2>1. IsFiniteSet(Slots(m)) /\ Cardinality(Slots(m)) \in Nat
      BY CountsBefore DEF Tallied
  <2> QED
      BY <1>1, <2>1, SlotsPopped
<1>3. queue[s] \in Seq(Message)
    BY <1>1 DEF Typed
<1>4. x \in Message
    BY <1>3, HeadTailProperties
<1> QED
    BY <1>2, <1>4 DEF SlotsMove, At, Same

LEMMA CountedTake ==
    ASSUME CInv, Typed', NEW w \in Workers, NEW s \in Stage, queue[s] # <<>>, stack[w] = <<>>,
           Take(w, s), heap' = heap, leaked' = leaked
    PROVE  Counted'
<1> DEFINE x == Head(queue[s])
<1> DEFINE c == Call(x, Functors[at[w]])
<1> DEFINE calls == <<c>>
<1>1. Typed /\ w \in Actor
    BY DEF CInv, Actor
<1>2. SlotsMove(x, -1) /\ x \in Message
    BY TakeMoves
<1>3. RefsMove(x, 0) /\ Message' = Message
    BY <1>2, NoRefsMove
<1>4. /\ stack' = [stack EXCEPT ![w] = calls] /\ ~c.carrying /\ c.message = x
    BY <1>1 DEF Take, Call
<1> HIDE DEF c
<1>5. OwnMove(w, calls, x, 1) /\ CarriesMove(w, calls, x, 0)
  <2>1. ASSUME NEW m \in Message
        PROVE  /\ Cardinality(Own(calls, m)) = Same(x, m) /\ Cardinality(Own(stack[w], m)) = 0
               /\ Cardinality(Carries(calls, m)) = 0 /\ Cardinality(Carries(stack[w], m)) = 0
      BY <1>4, FirstCall
  <2> HIDE DEF calls, x
  <2> QED
      BY <2>1 DEF OwnMove, CarriesMove, At, Same
<1> HIDE DEF calls, x
<1>6. Balanced(-1, 1, 0, 0)
    BY DEF Balanced
<1> QED
    BY <1>1, <1>2, <1>3, <1>4, <1>5, <1>6, CountedOne

-----------------------------------------------------------------------------
LEMMA NotYetCounted ==
    ASSUME CInv, NEW m, m \notin Message
    PROVE  /\ Slots(m) = {} /\ Calls(m) = {} /\ Carriers(m) = {}
<1>1. queue \in [Stage -> Seq(Message)] /\ stack \in [Actor -> Seq(CallRecords)]
    BY DEF CInv, Typed
<1>2. \A s \in Stage : \A i \in DOMAIN queue[s] : queue[s][i] \in Message
    BY <1>1, LenProperties, ElementOfSeq
<1>3. \A a \in Actor : \A i \in DOMAIN stack[a] : stack[a][i].message \in Message
  <2> SUFFICES ASSUME NEW a \in Actor, NEW i \in DOMAIN stack[a]
               PROVE  stack[a][i].message \in Message
      OBVIOUS
  <2>1. stack[a] \in Seq(CallRecords)
      BY <1>1
  <2>2. stack[a][i] \in CallRecords
      BY <2>1, LenProperties, ElementOfSeq
  <2> QED
      BY <2>2 DEF CallRecords
<1> QED
    BY <1>2, <1>3 DEF Slots, Calls, Carriers

LEMMA CountedCreate ==
    ASSUME CInv, NEW p \in Producers, Create(p)
    PROVE  Counted'
<1> DEFINE new == Len(heap) + 1
<1> DEFINE c == [message |-> new, functors |-> <<>>,
                 todo |-> <<Head(script[p]).to>>, carrying |-> FALSE]
<1>1. Typed /\ p \in Actor
    BY DEF CInv, Actor
<1>2. /\ Typed' /\ Message' = Message \cup {new} /\ new \notin Message
      /\ \A m \in Message : heap'[m] = heap[m]
      /\ heap'[new].refs = 1 /\ heap'[new].live
    BY <1>1, TypedCreate
<1>3. /\ queue' = queue /\ leaked' = Append(leaked, 0) /\ stack[p] = <<>>
      /\ stack' = [stack EXCEPT ![p] = <<c>>]
    BY DEF Create
<1>4. ~c.carrying /\ c.message = new
    OBVIOUS
<1>5. /\ leaked' \in Seq(Nat) /\ DOMAIN leaked' = Message' /\ leaked'[new] = 0
      /\ \A m \in Message : leaked'[m] = leaked[m]
  <2>1. Message = 1 .. Len(heap) /\ Len(heap) \in Nat
      BY <1>1, MessageIsNumber
  <2>2. leaked \in Seq(Nat) /\ DOMAIN leaked = 1 .. Len(heap) /\ Len(leaked) = Len(heap)
    <3>1. leaked \in Seq(Nat) /\ DOMAIN leaked = 1 .. Len(heap)
        BY <2>1 DEF CInv, Counted
    <3>2. DOMAIN leaked = 1 .. Len(leaked) /\ Len(leaked) \in Nat
        BY <3>1, LenProperties
    <3> QED
        BY <2>1, <3>1, <3>2
  <2> QED
      BY <1>2, <1>3, <2>1, <2>2, AppendProperties, LenProperties
<1> HIDE DEF c
<1>6. ASSUME NEW m, IsFiniteSet(Calls(m)), IsFiniteSet(Carriers(m))
      PROVE  /\ IsFiniteSet(Calls(m)') /\ IsFiniteSet(Carriers(m)')
             /\ Cardinality(Calls(m)') = Cardinality(Calls(m)) + Same(new, m)
             /\ Cardinality(Carriers(m)') = Cardinality(Carriers(m))
             /\ Slots(m)' = Slots(m)
  <2>1. /\ Cardinality(Own(<<c>>, m)) = Same(new, m) /\ Cardinality(Own(stack[p], m)) = 0
        /\ Cardinality(Carries(<<c>>, m)) = 0 /\ Cardinality(Carries(stack[p], m)) = 0
      BY <1>3, <1>4, FirstCall
  <2> DEFINE calls == <<c>>
  <2>2. stack' = [stack EXCEPT ![p] = calls]
      BY <1>3
  <2>3. /\ Cardinality(Own(calls, m)) = Same(new, m) /\ Cardinality(Carries(calls, m)) = 0
      BY <2>1
  <2> HIDE DEF calls, new
  <2>4. /\ IsFiniteSet(Calls(m)') /\ IsFiniteSet(Carriers(m)')
        /\ Cardinality(Calls(m)') = Cardinality(Calls(m))
               - Cardinality(Own(stack[p], m)) + Cardinality(Own(calls, m))
        /\ Cardinality(Carriers(m)') = Cardinality(Carriers(m))
               - Cardinality(Carries(stack[p], m)) + Cardinality(Carries(calls, m))
      BY <1>1, <1>2, <1>6, <2>2, CallsChange
  <2>5. Cardinality(Calls(m)) \in Nat /\ Cardinality(Carriers(m)) \in Nat
      BY <1>6, FS_CardinalityType
  <2>6. Slots(m)' = Slots(m)
      BY <1>3, SlotsKept
  <2> QED
      BY <2>1, <2>3, <2>4, <2>5, <2>6 DEF Same
<1>7. ASSUME NEW m \in Message
      PROVE  Tallied(m)' /\ heap'[m].refs = Tally(m)' /\ (heap'[m].live <=> heap'[m].refs > 0)
  <2>1. /\ Tallied(m) /\ heap[m].refs = Tally(m) /\ (heap[m].live <=> heap[m].refs > 0)
        /\ Cardinality(Calls(m)) \in Nat
      BY CountsBefore
  <2>2. IsFiniteSet(Calls(m)) /\ IsFiniteSet(Carriers(m)) /\ Same(new, m) = 0
      BY <1>2, <2>1 DEF Tallied, Same
  <2>3. /\ IsFiniteSet(Calls(m)') /\ IsFiniteSet(Carriers(m)')
        /\ Cardinality(Calls(m)') = Cardinality(Calls(m))
        /\ Cardinality(Carriers(m)') = Cardinality(Carriers(m))
        /\ Slots(m)' = Slots(m)
      BY <1>6, <2>1, <2>2
  <2>4. Tallied(m)'
      BY <1>5, <2>1, <2>3 DEF Tallied
  <2>5. Tally(m)' = Tally(m)
      BY <1>5, <2>3 DEF Tally
  <2> QED
      BY <1>2, <2>1, <2>4, <2>5
<1>8. PICK n : n = new
    OBVIOUS
<1>9. Tallied(n)' /\ heap'[n].refs = Tally(n)' /\ (heap'[n].live <=> heap'[n].refs > 0)
  <2>1. n \notin Message /\ heap'[n].refs = 1 /\ heap'[n].live /\ leaked'[n] = 0 /\ Same(new, n) = 1
      BY <1>2, <1>5, <1>8 DEF Same
  <2>2. Slots(n) = {} /\ Calls(n) = {} /\ Carriers(n) = {}
      BY <2>1, NotYetCounted
  <2>3. /\ IsFiniteSet(Calls(n)) /\ IsFiniteSet(Carriers(n)) /\ IsFiniteSet(Slots(n))
        /\ Cardinality(Slots(n)) = 0 /\ Cardinality(Calls(n)) = 0 /\ Cardinality(Carriers(n)) = 0
      BY <2>2, FS_EmptySet
  <2>4. /\ IsFiniteSet(Calls(n)') /\ IsFiniteSet(Carriers(n)')
        /\ Cardinality(Calls(n)') = 0 + 1 /\ Cardinality(Carriers(n)') = 0
        /\ Slots(n)' = Slots(n)
      BY <1>6, <2>1, <2>3
  <2>5. Tallied(n)' /\ Tally(n)' = 1
      BY <2>1, <2>3, <2>4 DEF Tallied, Tally
  <2> QED
      BY <2>1, <2>5
<1>10. Message' = Message \cup {n}
    BY <1>2, <1>8
<1>11. \A m \in Message' : /\ Tallied(m)' /\ heap'[m].refs = Tally(m)'
                           /\ heap'[m].live <=> heap'[m].refs > 0
    BY <1>7, <1>9, <1>10
<1> QED
    BY <1>5, <1>11, CountedIf

-----------------------------------------------------------------------------
(* What unwinding leaves behind of m: the calls but the outermost.         *)
Skipped(calls, m) == {i \in DOMAIN Front(calls) : calls[i].message = m}

LEMMA Unwound ==
    ASSUME NEW M, NEW calls \in Seq(M), calls # <<>>, NEW m
    PROVE  /\ Cardinality(Skipped(calls, m)) \in Nat
           /\ Cardinality(Own(calls, m))
                  = Cardinality(Skipped(calls, m)) + Same(Last(calls).message, m)
<1> DEFINE n == Len(calls)
<1>1. n \in Nat \ {0} /\ DOMAIN calls = 1 .. n
    BY EmptySeq, LenProperties
<1>2. DOMAIN Front(calls) = 1 .. n - 1 /\ Last(calls) = calls[n]
  <2>1. Front(calls) = SubSeq(calls, 1, n - 1)
      BY DEF Front
  <2> QED
      BY <1>1, <2>1 DEF Last
<1>3. /\ n \notin Skipped(calls, m)
      /\ Own(calls, m) = IF Last(calls).message = m THEN Skipped(calls, m) \cup {n}
                                                    ELSE Skipped(calls, m)
  <2> DEFINE skipped == {i \in 1 .. n - 1 : calls[i].message = m}
  <2>1. Skipped(calls, m) = skipped
      BY <1>2 DEF Skipped
  <2>2. 1 .. n = (1 .. n - 1) \cup {n} /\ n \notin 1 .. n - 1
      BY <1>1
  <2>3. Own(calls, m) = {i \in (1 .. n - 1) \cup {n} : calls[i].message = m}
      BY <1>1, <2>2 DEF Own
  <2> HIDE DEF n
  <2> QED
      BY <1>2, <2>1, <2>2, <2>3
<1>4. IsFiniteSet(Skipped(calls, m))
  <2>1. Skipped(calls, m) \subseteq Own(calls, m)
      BY <1>3
  <2> QED
      BY <2>1, OwnFinite, FS_Subset
<1>5. Cardinality(Skipped(calls, m)) \in Nat
    BY <1>4, FS_CardinalityType
<1>6. Cardinality(Skipped(calls, m) \cup {n}) = Cardinality(Skipped(calls, m)) + 1
    BY <1>3, <1>4, FS_AddElement
<1> QED
    BY <1>3, <1>5, <1>6 DEF Same

LEMMA CountedThrow ==
    ASSUME CInv, NEW a \in Actor, Throw(a)
    PROVE  Counted'
<1> DEFINE x == Last(stack[a]).message
<1> DEFINE calls == <<>>
<1>1. /\ Typed /\ Typed' /\ heap' = DropRef(x) /\ queue' = queue
      /\ stack[a] # <<>> /\ ~Top(a).carrying
      /\ stack' = [stack EXCEPT ![a] = calls]
      /\ leaked' = [m \in DOMAIN leaked |-> leaked[m] + Cardinality(Skipped(stack[a], m))]
  <2>1. Typed
      BY DEF CInv
  <2>2. Typed'
      BY <2>1, TypedThrow
  <2> QED
      BY <2>1, <2>2 DEF Throw, Running, Skipped
<1>2. /\ stack[a] \in Seq(CallRecords) /\ Coherent(stack[a]) /\ Top(a) = stack[a][1]
    BY <1>1, TopCall DEF Typed
<1>3. x \in Message /\ heap[x].refs \in Nat \ {0}
  <2>1. /\ Last(stack[a]) = stack[a][Len(stack[a])] /\ Len(stack[a]) \in 1 .. Len(stack[a])
      BY <1>1, Outermost, TopCall
  <2> QED
      BY <2>1, CallIsCounted
<1>4. RefsMove(x, -1) /\ Message' = Message
    BY <1>1, <1>3, RefDropped
<1>5. /\ leaked \in Seq(Nat) /\ DOMAIN leaked = Message
      /\ Message = 1 .. Len(heap) /\ Len(heap) \in Nat
    BY <1>1, MessageIsNumber DEF CInv, Counted
<1>6. \A m \in Message : /\ Cardinality(Skipped(stack[a], m)) \in Nat
                         /\ Cardinality(Own(stack[a], m)) = Cardinality(Skipped(stack[a], m)) + Same(x, m)
                         /\ leaked[m] \in Nat
    BY <1>1, <1>2, Unwound, CountsBefore
<1>7. /\ DOMAIN leaked' = Message
      /\ \A m \in Message : leaked'[m] = leaked[m] + Cardinality(Skipped(stack[a], m))
    BY <1>1, <1>5
<1>8. leaked' \in Seq(Nat)
  <2>1. \A m \in Message : leaked'[m] \in Nat
      BY <1>6, <1>7
  <2>2. leaked' \in [1 .. Len(heap) -> Nat]
      BY <1>1, <1>5, <2>1
  <2> QED
      BY <1>5, <2>2, SeqDef
<1> HIDE DEF x, calls
<1>9. ASSUME NEW m \in Message
      PROVE  Tallied(m)' /\ heap'[m].refs = Tally(m)' /\ (heap'[m].live <=> heap'[m].refs > 0)
  <2>1. /\ Tallied(m) /\ heap[m].refs \in Nat /\ (heap[m].live <=> heap[m].refs > 0)
        /\ leaked[m] \in Nat /\ Cardinality(Slots(m)) \in Nat
      BY CountsBefore
  <2>2. /\ heap'[m].refs = heap[m].refs - Same(x, m)
        /\ heap'[m].live <=> heap'[m].refs > 0
      BY <1>4, <2>1 DEF RefsMove, Same
  <2>3. IsFiniteSet(Slots(m)') /\ Cardinality(Slots(m)') = Cardinality(Slots(m))
    <3>1. Slots(m)' = Slots(m)
        BY <1>1, SlotsKept
    <3> QED
        BY <2>1, <3>1 DEF Tallied
  <2>4. Cardinality(Own(calls, m)) = 0 /\ Cardinality(Carries(calls, m)) = 0
    <3>1. Own(<<>>, m) = {} /\ Carries(<<>>, m) = {}
        BY DEF Own, Carries
    <3> QED
        BY <3>1, FS_EmptySet DEF calls
  <2>5. Cardinality(Carries(stack[a], m)) = 0
      BY <1>1, <1>2, CarriesInFront
  <2>6. /\ leaked'[m] = leaked[m] + Cardinality(Skipped(stack[a], m)) /\ leaked'[m] \in Nat
        /\ Cardinality(Skipped(stack[a], m)) \in Nat
        /\ Cardinality(Own(stack[a], m)) = Cardinality(Skipped(stack[a], m)) + Same(x, m)
      BY <1>6, <1>7
  <2>7. /\ heap'[m].refs \in Int
        /\ heap'[m].refs - heap[m].refs =
                 (Cardinality(Slots(m)') - Cardinality(Slots(m)))
               + (Cardinality(Own(calls, m)) - Cardinality(Own(stack[a], m)))
               + (Cardinality(Carries(calls, m)) - Cardinality(Carries(stack[a], m)))
               + (leaked'[m] - leaked[m])
      BY <2>1, <2>2, <2>3, <2>4, <2>5, <2>6, SameOrOther
  <2>8. Tallied(m)' /\ heap'[m].refs = Tally(m)'
      BY <1>1, <2>3, <2>6, <2>7, CountedStep
  <2> QED
      BY <2>2, <2>8
<1> QED
    BY <1>4, <1>7, <1>8, <1>9, CountedIf

LEMMA CountedAside ==
    ASSUME CInv, UNCHANGED <<queue, heap, stack, leaked>>
    PROVE  Counted'
<1>1. ASSUME NEW m \in Message
      PROVE  /\ Slots(m)' = Slots(m) /\ Calls(m)' = Calls(m) /\ Carriers(m)' = Carriers(m)
             /\ leaked'[m] = leaked[m] /\ heap'[m] = heap[m]
    BY DEF Slots, Calls, Carriers
<1>2. ASSUME NEW m \in Message
      PROVE  Tallied(m)' /\ heap'[m].refs = Tally(m)' /\ (heap'[m].live <=> heap'[m].refs > 0)
  <2>1. Tallied(m) /\ heap[m].refs = Tally(m) /\ (heap[m].live <=> heap[m].refs > 0)
      BY CountsBefore
  <2> QED
      BY <1>1, <2>1 DEF Tallied, Tally
<1>3. leaked' \in Seq(Nat) /\ DOMAIN leaked' = Message' /\ Message' = Message
    BY DEF CInv, Counted, Message
<1> QED
    BY <1>2, <1>3, CountedIf

LEMMA CountedNext == ASSUME CInv, [Next]_vars PROVE Counted'
<1>1. Typed /\ Typed'
    BY TypedNext DEF CInv
<1>2. CASE UNCHANGED vars
    BY <1>2, CountedAside DEF vars
<1>3. CASE \E p \in Producers : Create(p)
    BY <1>3, CountedCreate
<1>4. ASSUME NEW w \in Workers, NEW s \in Stage \ InputStages, TryPop(w, s)
      PROVE  Counted'
  <2>1. /\ queue[s] # <<>> /\ stack[w] = <<>> /\ Take(w, s) /\ heap' = heap /\ leaked' = leaked
      BY <1>4 DEF TryPop, Polls, historyVars
  <2> QED
      BY <1>1, <2>1, CountedTake
<1>5. ASSUME NEW w \in Workers, PollMessage(w)
      PROVE  Counted'
  <2> DEFINE s == Inputs[which]
  <2>1. s \in Stage
      BY <1>1, Positions DEF Typed
  <2>2. /\ queue[s] # <<>> /\ stack[w] = <<>> /\ Take(w, s) /\ heap' = heap /\ leaked' = leaked
      BY <1>5 DEF PollMessage, Polls, historyVars
  <2> HIDE DEF s
  <2> QED
      BY <1>1, <2>1, <2>2, CountedTake
<1>6. ASSUME NEW w \in Workers,
             \/ \E s \in Stage \ InputStages : Enter(w, s) \/ TryPopEmpty(w, s)
             \/ SearchBegins(w) \/ PollEmpty(w) \/ SearchFails(w)
      PROVE  Counted'
    BY <1>6, CountedAside DEF Enter, TryPopEmpty, SearchBegins, PollEmpty, SearchFails, historyVars
<1>7. ASSUME NEW a \in Actor,
             \/ Retain(a) \/ NextFunctor(a) \/ Return(a) \/ Throw(a)
             \/ \E s \in Stage : Push(a, s) \/ PushThrough(a, s)
      PROVE  Counted'
    BY <1>7, CountedRetain, CountedNextFunctor, CountedReturn, CountedThrow, CountedPush,
       CountedPushThrough
<1> QED
    BY <1>2, <1>3, <1>4, <1>5, <1>6, <1>7 DEF Next

LEMMA AlwaysCounted == Spec => []CInv
<1>1. Init => CInv
    BY TypedInit, CountedInit DEF CInv
<1>2. CInv /\ [Next]_vars => CInv'
    BY TypedNext, CountedNext DEF CInv
<1> QED
    BY <1>1, <1>2, PTL DEF Spec

(* The count of a message is exact: through chains of functors that run    *)
(* inside the sender's, dispatches cut short and calls that exceptions     *)
(* unwind, whose references are the only ones that are never given back.   *)
THEOREM InlineCounts == Spec => []RefCountExact
<1>1. CInv => RefCountExact
  <2> SUFFICES ASSUME CInv, NEW m \in Message
               PROVE  /\ heap[m].refs = Tally(m) /\ (heap[m].live = (heap[m].refs > 0))
      BY DEF RefCountExact, Tally
  <2>1. heap[m].refs = Tally(m) /\ (heap[m].live <=> heap[m].refs > 0) /\ heap[m] \in Objects
      BY CountsBefore, HeapObject DEF CInv
  <2> QED
      BY <2>1 DEF Objects
<1> QED
    BY <1>1, AlwaysCounted, PTL

LEMMA FunctionIsSequence ==
    ASSUME NEW S, NEW n \in Nat, NEW f \in [1 .. n -> S]
    PROVE  f \in Seq(S)
BY SeqDef

(* Types: no count is ever negative, and the adapter's index is one of its *)
(* queues.                                                                 *)
THEOREM AdapterTypes == Spec => []TypeOK
<1>1. CInv => TypeOK
  <2> SUFFICES ASSUME CInv PROVE TypeOK
      OBVIOUS
  <2>1. Typed /\ Message = 1 .. Len(heap) /\ Len(heap) \in Nat
      BY MessageIsNumber DEF CInv
  <2>2. heap \in Seq([content : Content, refs : Nat, live : BOOLEAN])
    <3> DEFINE HeapEntry == [content : Content, refs : Nat, live : BOOLEAN]
    <3>1. \A m \in 1 .. Len(heap) : heap[m] \in HeapEntry
      <4> SUFFICES ASSUME NEW m \in Message PROVE heap[m] \in HeapEntry
          BY <2>1
      <4>1. heap[m] \in Objects /\ heap[m].refs \in Nat
          BY <2>1, HeapObject, CountsBefore
      <4> QED
          BY <4>1 DEF Objects
    <3> HIDE DEF HeapEntry
    <3>2. heap \in [1 .. Len(heap) -> HeapEntry]
      <4>1. heap \in Seq(Objects)
          BY <2>1 DEF Typed
      <4>2. heap \in [1 .. Len(heap) -> Objects]
          BY <4>1, LenProperties
      <4> QED
          BY <3>1, <4>2
    <3>3. heap \in Seq(HeapEntry)
        BY <2>1, <3>2, FunctionIsSequence
    <3> QED
        BY <3>3 DEF HeapEntry
  <2>3. DOMAIN leaked = Message
      BY DEF CInv, Counted
  <2>4. which \in DOMAIN Inputs
      BY <2>1, Positions DEF Typed
  <2> QED
      BY <2>1, <2>2, <2>3, <2>4 DEF Typed, TypeOK, CallRecords, Searches
<1> QED
    BY <1>1, AlwaysCounted, PTL

-----------------------------------------------------------------------------
(* One functor at a time *)

(* A call of an application that does: a functor has made its dispatch or  *)
(* has not, and those that follow others have none to make before.         *)
Obedient(c) ==
    /\ c.functors = <<>> => Len(c.todo) <= 1
    /\ c.functors # <<>> => c.todo \in {<<>>, Dispatches[Head(c.functors)]}
    /\ \A i \in 1 .. Len(c.functors) - 1 : Dispatches[c.functors[i]] = <<>>

(* The message is still with this call, which may pass it on.              *)
Holding(c) == IF c.functors = <<>> THEN c.todo # <<>> ELSE c.todo = Dispatches[Head(c.functors)]

Held(calls, m) == {i \in DOMAIN calls : calls[i].message = m /\ Holding(calls[i])}
HeldCalls(m) == Pairs([a \in Actor |-> Held(stack[a], m)])

(* A message is in one queue slot or with one call at most.                *)
InOneHand ==
    /\ \A a \in Actor : \A i \in DOMAIN stack[a] : Obedient(stack[a][i])
    /\ \A m \in Message :
          IsFiniteSet(HeldCalls(m)) /\ Cardinality(Slots(m)) + Cardinality(HeldCalls(m)) <= 1

LEMMA HeldFinite ==
    ASSUME NEW M, NEW calls \in Seq(M), NEW m
    PROVE  /\ IsFiniteSet(Held(calls, m)) /\ Cardinality(Held(calls, m)) \in Nat
           /\ Held(calls, m) \in SUBSET Nat
<1>1. Held(calls, m) \subseteq Own(calls, m)
    BY DEF Held, Own
<1>2. IsFiniteSet(Own(calls, m)) /\ Own(calls, m) \in SUBSET Nat
    BY OwnFinite
<1> QED
    BY <1>1, <1>2, FS_Subset, FS_CardinalityType

LEMMA HeldChange ==
    ASSUME Typed, NEW a \in Actor, NEW N, NEW calls \in Seq(N),
           stack' = [stack EXCEPT ![a] = calls],
           NEW m, IsFiniteSet(HeldCalls(m))
    PROVE  /\ IsFiniteSet(HeldCalls(m)')
           /\ Cardinality(HeldCalls(m)') = Cardinality(HeldCalls(m))
                  - Cardinality(Held(stack[a], m)) + Cardinality(Held(calls, m))
<1> DEFINE f == [b \in Actor |-> Held(stack[b], m)]
<1> DEFINE g == [b \in Actor |-> Held(stack'[b], m)]
<1> DEFINE held == Held(calls, m)
<1>1. stack \in [Actor -> Seq(CallRecords)] /\ stack'[a] = calls
    BY DEF Typed
<1>2. f \in [Actor -> SUBSET Nat] /\ HeldCalls(m) = Pairs(f) /\ HeldCalls(m)' = Pairs(g)
    BY <1>1, HeldFinite DEF HeldCalls
<1>3. IsFiniteSet(held) /\ held \in SUBSET Nat
    BY HeldFinite
<1>4. g = [f EXCEPT ![a] = held] /\ f[a] = Held(stack[a], m)
    BY <1>1
<1> HIDE DEF f, g, held
<1>5. /\ IsFiniteSet(Pairs([f EXCEPT ![a] = held]))
      /\ Cardinality(Pairs([f EXCEPT ![a] = held]))
            = Cardinality(Pairs(f)) - Cardinality(f[a]) + Cardinality(held)
    BY <1>2, <1>3, ExchangePairs
<1> QED
    BY <1>2, <1>4, <1>5 DEF held

(* The steps of one thread at one message: the message goes from hand to   *)
(* hand.                                                                   *)
HeldMove(a, calls, x, d) ==
    \A m \in Message :
        /\ Cardinality(Held(stack[a], m)) \in Nat /\ Cardinality(Held(calls, m)) \in Nat
        /\ Cardinality(Held(calls, m)) <= Cardinality(Held(stack[a], m)) + At(x, m, d)

Passed(slots, held) == slots \in Int /\ held \in Int /\ slots + held <= 0

AllObedient(calls) == \A i \in DOMAIN calls : Obedient(calls[i])

LEMMA HandedOn ==
    ASSUME CInv, InOneHand, Message' = Message,
           NEW a \in Actor, NEW N, NEW calls \in Seq(N), stack' = [stack EXCEPT ![a] = calls],
           AllObedient(calls), NEW x, NEW slots, NEW held, Passed(slots, held),
           SlotsMove(x, slots), HeldMove(a, calls, x, held)
    PROVE  InOneHand'
<1>1. Typed /\ stack \in [Actor -> Seq(CallRecords)]
    BY DEF CInv, Typed
<1>2. \A b \in Actor : \A i \in DOMAIN stack'[b] : Obedient(stack'[b][i])
  <2>1. stack'[a] = calls /\ \A b \in Actor : b # a => stack'[b] = stack[b]
      BY <1>1
  <2> QED
      BY <2>1 DEF AllObedient, InOneHand
<1>3. ASSUME NEW m \in Message
      PROVE  IsFiniteSet(HeldCalls(m)') /\ Cardinality(Slots(m)') + Cardinality(HeldCalls(m)') <= 1
  <2>1. /\ IsFiniteSet(HeldCalls(m)) /\ Cardinality(Slots(m)) + Cardinality(HeldCalls(m)) <= 1
        /\ Cardinality(Slots(m)) \in Nat
      BY CountsBefore DEF InOneHand
  <2>2. /\ IsFiniteSet(HeldCalls(m)')
        /\ Cardinality(HeldCalls(m)') = Cardinality(HeldCalls(m))
               - Cardinality(Held(stack[a], m)) + Cardinality(Held(calls, m))
      BY <1>1, <2>1, HeldChange
  <2>3. /\ Cardinality(Slots(m)') = Cardinality(Slots(m)) + At(x, m, slots)
        /\ Cardinality(Held(stack[a], m)) \in Nat /\ Cardinality(Held(calls, m)) \in Nat
        /\ Cardinality(Held(calls, m)) <= Cardinality(Held(stack[a], m)) + At(x, m, held)
      BY DEF SlotsMove, HeldMove
  <2>4. At(x, m, slots) \in Int /\ At(x, m, held) \in Int /\ At(x, m, slots) + At(x, m, held) <= 0
      BY DEF At, Passed
  <2>5. Cardinality(HeldCalls(m)) \in Nat
      BY <2>1, FS_CardinalityType
  <2> QED
      BY <2>1, <2>2, <2>3, <2>4, <2>5
<1> QED
    BY <1>2, <1>3 DEF InOneHand

LEMMA HandsInit == Init => InOneHand
<1> SUFFICES ASSUME Init PROVE InOneHand
    OBVIOUS
<1>1. \A a \in Actor : stack[a] = <<>>
    BY DEF Init
<1>2. Message = {}
    BY DEF Init, Message
<1> QED
    BY <1>1, <1>2 DEF InOneHand

(* The innermost call is replaced by c, on the same message.               *)
LEMMA TopHeld ==
    ASSUME Typed, NEW a \in Actor, stack[a] # <<>>, CallRecords' = CallRecords,
           NEW c \in CallRecords, c.message = Top(a).message, c.carrying => c.todo # <<>>,
           NEW x, x = Top(a).message, NEW d,
           d = (IF Holding(c) THEN 1 ELSE 0) - (IF Holding(Top(a)) THEN 1 ELSE 0)
    PROVE  HeldMove(a, [stack[a] EXCEPT ![1] = c], x, d)
<1> DEFINE calls == [stack[a] EXCEPT ![1] = c]
<1>1. /\ stack[a] \in Seq(CallRecords) /\ Len(stack[a]) \in Nat \ {0} /\ Top(a) = stack[a][1]
      /\ DOMAIN stack[a] = 1 .. Len(stack[a])
    BY TopCall
<1>2. /\ calls \in Seq(CallRecords) /\ Len(calls) = Len(stack[a])
      /\ \A i \in 1 .. Len(stack[a]) : calls[i] = IF i = 1 THEN c ELSE stack[a][i]
    BY Replaced
<1>3. DOMAIN calls = 1 .. Len(stack[a])
    BY <1>2, LenProperties
<1> HIDE DEF calls
<1>4. ASSUME NEW m \in Message
      PROVE  /\ Cardinality(Held(stack[a], m)) \in Nat /\ Cardinality(Held(calls, m)) \in Nat
             /\ Cardinality(Held(calls, m)) <= Cardinality(Held(stack[a], m)) + At(x, m, d)
  <2> DEFINE rest == Held(stack[a], m) \ {1}
  <2>1. /\ IsFiniteSet(Held(stack[a], m)) /\ Cardinality(Held(stack[a], m)) \in Nat
        /\ IsFiniteSet(Held(calls, m)) /\ Cardinality(Held(calls, m)) \in Nat
      BY <1>1, <1>2, HeldFinite
  <2>2. /\ Held(stack[a], m) = (IF x = m /\ Holding(Top(a)) THEN rest \cup {1} ELSE rest)
        /\ 1 \notin rest
      BY <1>1 DEF Held
  <2>3. Held(calls, m) = IF x = m /\ Holding(c) THEN rest \cup {1} ELSE rest
      BY <1>1, <1>2, <1>3 DEF Held
  <2>4. IsFiniteSet(rest)
      BY <2>1, FS_RemoveElement
  <2> HIDE DEF rest
  <2>5. /\ Cardinality(rest) \in Nat /\ Cardinality(rest \cup {1}) = Cardinality(rest) + 1
      BY <2>2, <2>4, FS_CardinalityType, FS_AddElement
  <2>6. Cardinality(Held(calls, m)) = Cardinality(Held(stack[a], m)) + At(x, m, d)
    <3>1. CASE x = m
        BY <2>2, <2>3, <2>5, <3>1 DEF At
    <3>2. CASE x # m
        BY <2>2, <2>3, <2>5, <3>2 DEF At
    <3> QED
        BY <3>1, <3>2
  <2> QED
      BY <2>1, <2>6 DEF At
<1> QED
    BY <1>4 DEF HeldMove, calls

-----------------------------------------------------------------------------
LEMMA StackObedient ==
    ASSUME Typed, InOneHand, NEW a \in Actor, stack[a] # <<>>
    PROVE  Obedient(Top(a)) /\ AllObedient(stack[a])
<1>1. Top(a) = stack[a][1] /\ 1 \in DOMAIN stack[a]
    BY TopCall
<1> QED
    BY <1>1 DEF InOneHand, AllObedient

LEMMA TopObeys ==
    ASSUME Typed, InOneHand, NEW a \in Actor, stack[a] # <<>>, CallRecords' = CallRecords,
           NEW c \in CallRecords, c.carrying => c.todo # <<>>, Obedient(c)
    PROVE  /\ AllObedient([stack[a] EXCEPT ![1] = c])
           /\ [stack[a] EXCEPT ![1] = c] \in Seq(CallRecords)
<1> DEFINE calls == [stack[a] EXCEPT ![1] = c]
<1>1. /\ calls \in Seq(CallRecords) /\ Len(calls) = Len(stack[a])
      /\ \A i \in 1 .. Len(stack[a]) : calls[i] = IF i = 1 THEN c ELSE stack[a][i]
    BY Replaced
<1>2. DOMAIN calls = 1 .. Len(stack[a]) /\ DOMAIN stack[a] = 1 .. Len(stack[a])
    BY <1>1, TopCall, LenProperties
<1>3. AllObedient(stack[a])
    BY StackObedient
<1> HIDE DEF calls
<1> QED
    BY <1>1, <1>2, <1>3 DEF AllObedient, calls

LEMMA HandsRetain ==
    ASSUME CInv, InOneHand, NEW a \in Actor, Retain(a)
    PROVE  InOneHand'
<1> DEFINE x == Top(a).message
<1> DEFINE c == [Top(a) EXCEPT !.carrying = TRUE]
<1> DEFINE calls == [stack[a] EXCEPT ![1] = c]
<1>1. /\ stack[a] # <<>> /\ Top(a).todo # <<>> /\ heap' = AddRef(x) /\ queue' = queue /\ Typed
    BY DEF Retain, Running, CInv
<1>2. Top(a) \in CallRecords /\ x \in Message /\ Top(a) = stack[a][1]
    BY <1>1, TopCall DEF CallRecords
<1>3. Message' = Message /\ CallRecords' = CallRecords
  <2>1. Message' = Message
      BY <1>1, <1>2, Added
  <2> QED
      BY <2>1 DEF CallRecords
<1>4. /\ c \in CallRecords /\ c.todo = Top(a).todo /\ c.message = x /\ c.functors = Top(a).functors
    BY <1>2 DEF CallRecords
<1>5. stack' = [stack EXCEPT ![a] = calls]
    BY <1>2 DEF Retain
<1>6. Obedient(c) /\ (Holding(c) <=> Holding(Top(a)))
  <2>1. Obedient(Top(a))
      BY <1>1, StackObedient
  <2> HIDE DEF c
  <2> QED
      BY <1>4, <2>1 DEF Obedient, Holding
<1>7. 0 = (IF Holding(c) THEN 1 ELSE 0) - (IF Holding(Top(a)) THEN 1 ELSE 0)
    BY <1>6
<1> HIDE DEF x, c
<1>8. /\ AllObedient(calls) /\ calls \in Seq(CallRecords)
    BY <1>1, <1>3, <1>4, <1>6, TopObeys
<1>9. HeldMove(a, calls, x, 0)
    BY <1>1, <1>3, <1>4, <1>7, TopHeld DEF x
<1>10. SlotsMove(x, 0) /\ Passed(0, 0)
    BY <1>1, SlotsLeft DEF Passed
<1> HIDE DEF calls
<1> QED
    BY <1>3, <1>5, <1>8, <1>9, <1>10, HandedOn

(* A functor that makes its only dispatch gives the message away.          *)
LEMMA GivesAway ==
    ASSUME OneAfterTheOther, CInv, InOneHand, NEW a \in Actor, NEW s, Pushing(a, s)
    PROVE  /\ Obedient(Dispatched(a)) /\ ~Holding(Dispatched(a)) /\ Holding(Top(a))
<1> DEFINE c == Dispatched(a)
<1>1. /\ Typed /\ stack[a] # <<>> /\ Top(a) \in CallRecords /\ Top(a).todo # <<>>
  <2>1. Typed /\ stack[a] # <<>> /\ Top(a).carrying
      BY DEF CInv, Pushing, Running
  <2> QED
      BY <2>1, TopCall
<1>2. /\ Top(a).todo \in Seq(Stage) /\ Top(a).functors \in Seq(Functor)
      /\ c.todo = Tail(Top(a).todo) /\ c.functors = Top(a).functors
    BY <1>1 DEF CallRecords, Dispatched
<1>3. Obedient(Top(a))
    BY <1>1, StackObedient
<1>4. Len(Top(a).todo) <= 1 /\ Holding(Top(a))
  <2>1. CASE Top(a).functors = <<>>
      BY <1>1, <1>3, <2>1 DEF Obedient, Holding
  <2>2. CASE Top(a).functors # <<>>
    <3>1. Top(a).todo = Dispatches[Head(Top(a).functors)] /\ Head(Top(a).functors) \in Functor
        BY <1>1, <1>2, <1>3, <2>2, HeadTailProperties DEF Obedient
    <3> QED
        BY <2>2, <3>1 DEF OneAfterTheOther, Holding
  <2> QED
      BY <2>1, <2>2
<1>5. c.todo = <<>>
  <2>1. Len(Tail(Top(a).todo)) = Len(Top(a).todo) - 1 /\ Tail(Top(a).todo) \in Seq(Stage)
      BY <1>1, <1>2, HeadTailProperties
  <2>2. Len(Top(a).todo) \in Nat /\ Len(Top(a).todo) # 0
      BY <1>1, <1>2, EmptySeq, LenProperties
  <2>3. Len(Tail(Top(a).todo)) = 0
    <3> DEFINE n == Len(Top(a).todo)
    <3>1. n \in Nat /\ n # 0 /\ n <= 1 /\ Len(Tail(Top(a).todo)) = n - 1
        BY <1>4, <2>1, <2>2
    <3> HIDE DEF n
    <3>2. n = 1
        BY <3>1
    <3> QED
        BY <3>1, <3>2
  <2> QED
      BY <1>2, <2>1, <2>3, EmptySeq
<1>6. Len(c.todo) = 0
    BY <1>5
<1>7. c.functors # <<>> => Dispatches[Head(c.functors)] # <<>>
    BY <1>1, <1>2, <1>4 DEF Holding
<1> HIDE DEF c
<1>8. Obedient(c) /\ ~Holding(c)
    BY <1>2, <1>3, <1>5, <1>6, <1>7 DEF Obedient, Holding
<1> QED
    BY <1>4, <1>8 DEF c

LEMMA HandsPush ==
    ASSUME OneAfterTheOther, CInv, InOneHand, NEW a \in Actor, NEW s \in Stage, Push(a, s)
    PROVE  InOneHand'
<1> DEFINE x == Top(a).message
<1> DEFINE c == Dispatched(a)
<1> DEFINE calls == [stack[a] EXCEPT ![1] = c]
<1>1. /\ Typed /\ Typed' /\ heap' = heap /\ queue' = [queue EXCEPT ![s] = Append(queue[s], x)]
      /\ stack' = [stack EXCEPT ![a] = calls]
  <2>1. Typed
      BY DEF CInv
  <2>2. Typed'
      BY <2>1, TypedPush
  <2> QED
      BY <2>1, <2>2 DEF Push
<1>2. /\ stack[a] # <<>> /\ x \in Message /\ c \in CallRecords /\ ~c.carrying /\ c.message = x
    BY <1>1, Carrying DEF Push
<1>3. Message' = Message /\ CallRecords' = CallRecords
    BY <1>1, NoRefsMove, <1>2
<1>4. Obedient(c) /\ ~Holding(c) /\ Holding(Top(a))
    BY GivesAway DEF Push
<1>5. -1 = (IF Holding(c) THEN 1 ELSE 0) - (IF Holding(Top(a)) THEN 1 ELSE 0)
    BY <1>4
<1> HIDE DEF x, c
<1>6. AllObedient(calls) /\ calls \in Seq(CallRecords)
    BY <1>1, <1>2, <1>3, <1>4, TopObeys
<1>7. HeldMove(a, calls, x, -1)
    BY <1>1, <1>2, <1>3, <1>5, TopHeld DEF x
<1> HIDE DEF calls
<1>8. SlotsMove(x, 1)
    BY <1>1, <1>2, PushMoves
<1>9. Passed(1, -1)
    BY DEF Passed
<1> QED
    BY <1>1, <1>3, <1>6, <1>7, <1>8, <1>9, HandedOn

LEMMA HandsNextFunctor ==
    ASSUME OneAfterTheOther, CInv, InOneHand, NEW a \in Actor, NextFunctor(a)
    PROVE  InOneHand'
<1> DEFINE x == Top(a).message
<1> DEFINE fs == Top(a).functors
<1> DEFINE c == Call(x, Tail(fs))
<1> DEFINE calls == [stack[a] EXCEPT ![1] = c]
<1>1. /\ Typed /\ heap' = heap /\ queue' = queue
      /\ stack[a] # <<>> /\ Top(a).todo = <<>> /\ Len(fs) > 1
    BY DEF NextFunctor, Returns, Running, CInv
<1>2. /\ Top(a) \in CallRecords /\ Top(a) = stack[a][1] /\ x \in Message /\ fs \in Seq(Functor)
    BY <1>1, TopCall DEF CallRecords
<1>3. Message' = Message /\ CallRecords' = CallRecords
    BY <1>1, <1>2, NoRefsMove
<1>4. stack' = [stack EXCEPT ![a] = calls]
    BY <1>2 DEF NextFunctor
<1>5. Tail(fs) \in Seq(Functor) /\ Tail(fs) # <<>>
    BY <1>1, <1>2, TailLeft
<1>6. /\ c \in CallRecords /\ ~c.carrying /\ c.message = x
      /\ c.functors = Tail(fs) /\ c.todo = Dispatches[Head(Tail(fs))]
    BY <1>2, <1>5, NewCall DEF Call
<1>7. /\ Len(fs) \in Nat /\ fs # <<>> /\ Head(fs) = fs[1] /\ Len(Tail(fs)) = Len(fs) - 1
      /\ \A i \in 1 .. Len(Tail(fs)) : Tail(fs)[i] = fs[i + 1]
  <2>1. Len(fs) \in Nat /\ fs # <<>>
      BY <1>1, <1>2, EmptySeq, LenProperties
  <2> QED
      BY <1>2, <2>1, HeadTailProperties
<1>8. \A i \in 1 .. Len(fs) - 1 : Dispatches[fs[i]] = <<>>
    BY <1>1, StackObedient DEF Obedient
<1>9. Holding(Top(a))
  <2>1. 1 \in 1 .. Len(fs) - 1
      BY <1>1, <1>7
  <2> QED
      BY <1>1, <1>7, <1>8, <2>1 DEF Holding
<1> HIDE DEF c, fs
<1>10. Obedient(c) /\ Holding(c)
  <2>1. \A i \in 1 .. Len(Tail(fs)) - 1 : Dispatches[Tail(fs)[i]] = <<>>
    <3> SUFFICES ASSUME NEW i \in 1 .. Len(Tail(fs)) - 1 PROVE Dispatches[Tail(fs)[i]] = <<>>
        OBVIOUS
    <3>1. i \in 1 .. Len(Tail(fs)) /\ i + 1 \in 1 .. Len(fs) - 1
        BY <1>1, <1>7
    <3> QED
        BY <1>7, <1>8, <3>1
  <2> QED
      BY <1>5, <1>6, <2>1 DEF Obedient, Holding
<1>11. 0 = (IF Holding(c) THEN 1 ELSE 0) - (IF Holding(Top(a)) THEN 1 ELSE 0)
    BY <1>9, <1>10
<1> HIDE DEF x
<1>12. AllObedient(calls) /\ calls \in Seq(CallRecords)
    BY <1>1, <1>3, <1>6, <1>10, TopObeys
<1>13. HeldMove(a, calls, x, 0)
    BY <1>1, <1>3, <1>6, <1>11, TopHeld DEF x
<1> HIDE DEF calls
<1>14. SlotsMove(x, 0) /\ Passed(0, 0)
    BY <1>1, SlotsLeft DEF Passed
<1> QED
    BY <1>3, <1>4, <1>12, <1>13, <1>14, HandedOn

-----------------------------------------------------------------------------
(* A stack with a call more that still holds its message.                  *)
HoldersBelow(outer, calls, m, rest) ==
    /\ Len(calls) = Len(outer) + 1
    /\ IsFiniteSet(rest) /\ rest \subseteq 1 .. Len(outer)
    /\ \A i \in 1 .. Len(outer) : i + 1 \in Held(calls, m) <=> i \in rest

LEMMA OneHolderMore ==
    ASSUME NEW M, NEW N, NEW outer \in Seq(M), NEW calls \in Seq(N),
           NEW m, NEW rest, HoldersBelow(outer, calls, m, rest)
    PROVE  Cardinality(Held(calls, m))
              = Cardinality(rest) + (IF calls[1].message = m /\ Holding(calls[1]) THEN 1 ELSE 0)
<1>1. /\ DOMAIN calls = 1 .. Len(outer) + 1 /\ Len(outer) \in Nat
      /\ IsFiniteSet(rest) /\ rest \subseteq 1 .. Len(outer)
      /\ \A i \in 1 .. Len(outer) : i + 1 \in Held(calls, m) <=> i \in rest
    BY LenProperties DEF HoldersBelow
<1>7. rest \in SUBSET Nat /\ 0 \notin rest
    BY <1>1
<1>2. Held(calls, m) \in SUBSET Nat
    BY HeldFinite
<1>3. 0 \notin Held(calls, m)
    BY <1>1 DEF Held
<1>4. \A i \in Nat \ {0} : i + 1 \in Held(calls, m) <=> i \in rest
  <2> SUFFICES ASSUME NEW i \in Nat \ {0} PROVE i + 1 \in Held(calls, m) <=> i \in rest
      OBVIOUS
  <2>1. CASE i \in 1 .. Len(outer)
      BY <1>1, <2>1
  <2>2. CASE i \notin 1 .. Len(outer)
      BY <1>1, <2>2 DEF Held
  <2> QED
      BY <2>1, <2>2
<1>5. 1 \in Held(calls, m) <=> calls[1].message = m /\ Holding(calls[1])
    BY <1>1 DEF Held
<1>6. Cardinality(Held(calls, m)) = Cardinality(rest) + (IF 1 \in Held(calls, m) THEN 1 ELSE 0)
    BY <1>1, <1>2, <1>3, <1>4, <1>7, MovedUp
<1> QED
    BY <1>5, <1>6

LEMMA HandsReturn ==
    ASSUME CInv, InOneHand, NEW a \in Actor, Return(a)
    PROVE  InOneHand'
<1> DEFINE x == Top(a).message
<1> DEFINE calls == Tail(stack[a])
<1>1. /\ Typed /\ heap' = DropRef(x) /\ queue' = queue /\ stack[a] # <<>>
      /\ stack' = [stack EXCEPT ![a] = calls]
    BY DEF Return, Returns, Running, CInv
<1>2. /\ x \in Message /\ stack[a] \in Seq(CallRecords) /\ Len(stack[a]) \in Nat \ {0}
      /\ calls \in Seq(CallRecords)
    BY <1>1, TopCall DEF CallRecords
<1>3. Message' = Message
  <2>1. heap[x].refs \in Nat \ {0}
      BY <1>1, TopIsCounted
  <2> QED
      BY <1>1, <1>2, <2>1, RefDropped
<1>4. /\ Len(calls) = Len(stack[a]) - 1 /\ \A i \in 1 .. Len(calls) : calls[i] = stack[a][i + 1]
      /\ DOMAIN calls = 1 .. Len(calls) /\ DOMAIN stack[a] = 1 .. Len(stack[a])
    BY <1>1, <1>2, HeadTailProperties, LenProperties
<1> HIDE DEF calls, x
<1>5. AllObedient(calls)
  <2>1. AllObedient(stack[a])
      BY <1>1, StackObedient
  <2>2. \A i \in 1 .. Len(calls) : i + 1 \in 1 .. Len(stack[a])
      BY <1>2, <1>4
  <2> QED
      BY <1>4, <2>1, <2>2 DEF AllObedient
<1>6. HeldMove(a, calls, x, 0)
  <2>1. ASSUME NEW m \in Message
        PROVE  /\ Cardinality(Held(stack[a], m)) \in Nat /\ Cardinality(Held(calls, m)) \in Nat
               /\ Cardinality(Held(calls, m)) <= Cardinality(Held(stack[a], m))
    <3> DEFINE rest == Held(calls, m)
    <3>1. /\ IsFiniteSet(rest) /\ rest \in SUBSET Nat /\ Cardinality(rest) \in Nat
          /\ Cardinality(Held(stack[a], m)) \in Nat
        BY <1>2, HeldFinite
    <3>2. rest \subseteq 1 .. Len(calls) /\ 0 \notin rest
        BY <1>4 DEF Held
    <3>3. \A i \in 1 .. Len(calls) : i + 1 \in Held(stack[a], m) <=> i \in rest
        BY <1>2, <1>4 DEF Held
    <3>4. Len(stack[a]) = Len(calls) + 1
        BY <1>2, <1>4
    <3> HIDE DEF rest
    <3>6. HoldersBelow(calls, stack[a], m, rest)
        BY <3>1, <3>2, <3>3, <3>4 DEF HoldersBelow
    <3>5. Cardinality(Held(stack[a], m)) = Cardinality(rest)
              + (IF stack[a][1].message = m /\ Holding(stack[a][1]) THEN 1 ELSE 0)
        BY <1>2, <3>6, OneHolderMore
    <3> QED
        BY <3>1, <3>5 DEF rest
  <2> QED
      BY <2>1 DEF HeldMove, At
<1>7. SlotsMove(x, 0) /\ Passed(0, 0)
    BY <1>1, SlotsLeft DEF Passed
<1> QED
    BY <1>1, <1>2, <1>3, <1>5, <1>6, <1>7, HandedOn

LEMMA StartOfStage ==
    ASSUME OneAfterTheOther, NEW s \in Stage, s \notin InputStages, NEW m \in Message
    PROVE  /\ Call(m, Functors[s]) \in CallRecords /\ ~Call(m, Functors[s]).carrying
           /\ Call(m, Functors[s]).message = m
           /\ Obedient(Call(m, Functors[s])) /\ Holding(Call(m, Functors[s]))
<1>1. Functors[s] \in Seq(Functor) /\ Functors[s] # <<>>
    BY FunctorsOfStage
<1>2. \A i \in 1 .. Len(Functors[s]) - 1 : Dispatches[Functors[s][i]] = <<>>
    BY DEF OneAfterTheOther
<1> DEFINE c == Call(m, Functors[s])
<1>3. /\ c \in CallRecords /\ ~c.carrying /\ c.message = m
      /\ c.functors = Functors[s] /\ c.todo = Dispatches[Head(Functors[s])]
    BY <1>1, NewCall DEF Call
<1> HIDE DEF c
<1>4. Obedient(c) /\ Holding(c)
    BY <1>1, <1>2, <1>3 DEF Obedient, Holding
<1> QED
    BY <1>3, <1>4 DEF c

LEMMA HandsPushThrough ==
    ASSUME OneAfterTheOther, CInv, InOneHand, NEW a \in Actor, NEW s \in Stage, PushThrough(a, s)
    PROVE  InOneHand'
<1> DEFINE x == Top(a).message
<1> DEFINE c == Dispatched(a)
<1> DEFINE inner == Call(x, Functors[s])
<1> DEFINE calls == <<inner, c>> \o Tail(stack[a])
<1>1. /\ Typed /\ heap' = heap /\ queue' = queue
      /\ stack' = [stack EXCEPT ![a] = calls]
    BY DEF PushThrough, CInv
<1>2. /\ stack[a] # <<>> /\ x \in Message /\ c \in CallRecords /\ c.message = x
    BY <1>1, Carrying DEF PushThrough
<1>3. Message' = Message
    BY <1>1, <1>2, NoRefsMove
<1>4. inner \in CallRecords /\ inner.message = x /\ Obedient(inner) /\ Holding(inner)
  <2>1. s \notin InputStages
      BY Positions, QueueAdaptersAssumption, LenProperties DEF PushThrough, InputStages, ToSet
  <2> QED
      BY <1>2, <2>1, StartOfStage
<1>5. Obedient(c) /\ ~Holding(c) /\ Holding(Top(a))
    BY GivesAway DEF PushThrough
<1>6. /\ stack[a] \in Seq(CallRecords) /\ Top(a) = stack[a][1] /\ AllObedient(stack[a])
      /\ DOMAIN stack[a] = 1 .. Len(stack[a]) /\ Len(stack[a]) \in Nat \ {0}
    BY <1>1, <1>2, TopCall, StackObedient
<1> HIDE DEF c, inner
<1>7. /\ calls \in Seq(CallRecords) /\ Len(calls) = Len(stack[a]) + 1
      /\ calls[1] = inner /\ calls[2] = c
      /\ \A i \in 1 .. Len(stack[a]) : i # 1 => calls[i + 1] = stack[a][i]
  <2> DEFINE outer == stack[a]
  <2>1. outer \in Seq(CallRecords) /\ outer # <<>> /\ inner \in CallRecords /\ c \in CallRecords
      BY <1>2, <1>4, <1>6
  <2> HIDE DEF outer
  <2>2. LET nested == <<inner, c>> \o Tail(outer)
        IN  /\ nested \in Seq(CallRecords) /\ Len(nested) = Len(outer) + 1
            /\ nested[1] = inner /\ nested[2] = c
            /\ \A i \in 1 .. Len(outer) : i # 1 => nested[i + 1] = outer[i]
      BY <2>1, Nested
  <2> QED
      BY <2>2 DEF outer
<1> HIDE DEF calls
<1>8. DOMAIN calls = 1 .. Len(stack[a]) + 1
    BY <1>7, LenProperties
<1>9. AllObedient(calls)
  <2> SUFFICES ASSUME NEW i \in 1 .. Len(stack[a]) + 1 PROVE Obedient(calls[i])
      BY <1>8 DEF AllObedient
  <2>1. CASE i = 1
      BY <1>4, <1>7, <2>1
  <2>2. CASE i = 2
      BY <1>5, <1>7, <2>2
  <2>3. CASE i # 1 /\ i # 2
    <3>1. i - 1 \in 1 .. Len(stack[a]) /\ i - 1 # 1 /\ (i - 1) + 1 = i
        BY <1>6, <2>3
    <3>2. calls[i] = stack[a][i - 1]
        BY <1>7, <3>1
    <3> QED
        BY <1>6, <3>1, <3>2 DEF AllObedient
  <2> QED
      BY <2>1, <2>2, <2>3
<1>10. HeldMove(a, calls, x, 0)
  <2>1. ASSUME NEW m \in Message
        PROVE  /\ Cardinality(Held(stack[a], m)) \in Nat
               /\ Cardinality(Held(calls, m)) = Cardinality(Held(stack[a], m))
    <3> DEFINE rest == Held(stack[a], m) \ {1}
    <3>1. /\ IsFiniteSet(Held(stack[a], m)) /\ Held(stack[a], m) \in SUBSET Nat
          /\ Cardinality(Held(stack[a], m)) \in Nat
        BY <1>6, HeldFinite
    <3>2. 1 \in Held(stack[a], m) <=> x = m
        BY <1>5, <1>6 DEF Held
    <3>3. /\ IsFiniteSet(rest)
          /\ Cardinality(rest) = Cardinality(Held(stack[a], m)) - Same(x, m)
        BY <3>1, <3>2, FS_RemoveElement DEF Same
    <3>4. rest \subseteq 1 .. Len(stack[a]) /\ 0 \notin rest /\ rest \in SUBSET Nat
        BY <1>6 DEF Held
    <3>5. ASSUME NEW i \in 1 .. Len(stack[a])
          PROVE  i + 1 \in Held(calls, m) <=> i \in rest
      <4>1. i + 1 \in DOMAIN calls
          BY <1>6, <1>8
      <4>2. CASE i = 1
        <5>1. calls[i + 1] = c
            BY <1>7, <4>2
        <5> QED
            BY <1>5, <4>2, <5>1 DEF Held
      <4>3. CASE i # 1
          BY <1>6, <1>7, <4>1, <4>3 DEF Held
      <4> QED
          BY <4>2, <4>3
    <3> HIDE DEF rest
    <3>6. /\ stack[a] \in Seq(CallRecords) /\ calls \in Seq(CallRecords)
          /\ Len(calls) = Len(stack[a]) + 1
        BY <1>6, <1>7
    <3>9. HoldersBelow(stack[a], calls, m, rest)
        BY <3>3, <3>4, <3>5, <3>6 DEF HoldersBelow
    <3>7. Cardinality(Held(calls, m)) = Cardinality(rest)
              + (IF calls[1].message = m /\ Holding(calls[1]) THEN 1 ELSE 0)
        BY <3>6, <3>9, OneHolderMore
    <3>8. Cardinality(Held(calls, m)) = Cardinality(rest) + Same(x, m)
        BY <1>4, <1>7, <3>7 DEF Same
    <3> QED
        BY <3>1, <3>3, <3>8, SameOrOther
  <2> HIDE DEF x
  <2> QED
      BY <2>1 DEF HeldMove, At
<1> HIDE DEF x
<1>11. SlotsMove(x, 0) /\ Passed(0, 0)
    BY <1>1, SlotsLeft DEF Passed
<1> QED
    BY <1>1, <1>3, <1>7, <1>9, <1>10, <1>11, HandedOn

-----------------------------------------------------------------------------
LEMMA FirstHolder ==
    ASSUME NEW c, NEW m
    PROVE  /\ Cardinality(Held(<<c>>, m)) \in Nat
           /\ Cardinality(Held(<<c>>, m)) <= Same(c.message, m)
           /\ Cardinality(Held(<<>>, m)) = 0
<1>1. /\ Held(<<c>>, m) = IF c.message = m /\ Holding(c) THEN {1} ELSE {}
      /\ Held(<<>>, m) = {}
    BY DEF Held
<1>2. Cardinality({}) = 0 /\ Cardinality({1}) = 1
    BY FS_EmptySet, FS_Singleton
<1>5. Cardinality(Held(<<>>, m)) = 0
    BY <1>1, <1>2
<1>3. CASE c.message = m /\ Holding(c)
  <2>1. Held(<<c>>, m) = {1}
      BY <1>1, <1>3
  <2>2. Same(c.message, m) = 1
      BY <1>3 DEF Same
  <2>3. Cardinality(Held(<<c>>, m)) = 1
      BY <1>2, <2>1
  <2> QED
      BY <1>5, <2>2, <2>3
<1>4. CASE ~(c.message = m /\ Holding(c))
    BY <1>1, <1>2, <1>4 DEF Same
<1> QED
    BY <1>3, <1>4

LEMMA HandsTake ==
    ASSUME OneAfterTheOther, CInv, Typed', InOneHand, NEW w \in Workers, NEW s \in Stage,
           queue[s] # <<>>, stack[w] = <<>>, Take(w, s), heap' = heap,
           at[w] \in Stage, at[w] \notin InputStages
    PROVE  InOneHand'
<1> DEFINE x == Head(queue[s])
<1> DEFINE c == Call(x, Functors[at[w]])
<1> DEFINE calls == <<c>>
<1>1. w \in Actor /\ stack' = [stack EXCEPT ![w] = calls]
    BY DEF Actor, Take
<1>2. SlotsMove(x, -1) /\ x \in Message
    BY TakeMoves
<1>3. Message' = Message
    BY <1>2, NoRefsMove
<1>4. c \in CallRecords /\ c.message = x /\ Obedient(c)
    BY <1>2, StartOfStage
<1> HIDE DEF c, x
<1>5. calls \in Seq(CallRecords) /\ AllObedient(calls)
    BY <1>4 DEF AllObedient
<1>6. HeldMove(w, calls, x, 1)
  <2>1. ASSUME NEW m \in Message
        PROVE  /\ Cardinality(Held(stack[w], m)) = 0
               /\ Cardinality(Held(calls, m)) \in Nat /\ Cardinality(Held(calls, m)) <= Same(x, m)
      BY <1>4, FirstHolder
  <2> HIDE DEF calls
  <2> QED
      BY <2>1 DEF HeldMove, At, Same
<1> HIDE DEF calls
<1>7. Passed(-1, 1)
    BY DEF Passed
<1> QED
    BY <1>1, <1>2, <1>3, <1>5, <1>6, <1>7, HandedOn

LEMMA HandsThrow ==
    ASSUME CInv, InOneHand, NEW a \in Actor, Throw(a)
    PROVE  InOneHand'
<1> DEFINE x == Last(stack[a]).message
<1> DEFINE calls == <<>>
<1>1. /\ Typed /\ heap' = DropRef(x) /\ queue' = queue /\ stack[a] # <<>>
      /\ stack' = [stack EXCEPT ![a] = calls]
    BY DEF Throw, Running, CInv
<1>2. x \in Message /\ heap[x].refs \in Nat \ {0} /\ stack[a] \in Seq(CallRecords)
  <2>1. /\ Last(stack[a]) = stack[a][Len(stack[a])] /\ Len(stack[a]) \in 1 .. Len(stack[a])
        /\ stack[a] \in Seq(CallRecords)
      BY <1>1, Outermost, TopCall
  <2> QED
      BY <2>1, CallIsCounted
<1>3. Message' = Message
    BY <1>1, <1>2, RefDropped
<1>4. calls \in Seq(CallRecords) /\ AllObedient(calls)
    BY DEF AllObedient
<1> HIDE DEF x
<1>5. HeldMove(a, calls, x, 0)
  <2>1. ASSUME NEW m \in Message
        PROVE  /\ Cardinality(Held(stack[a], m)) \in Nat /\ Cardinality(Held(calls, m)) = 0
      BY <1>2, HeldFinite, FirstHolder
  <2> HIDE DEF calls
  <2> QED
      BY <2>1 DEF HeldMove, At
<1> HIDE DEF calls
<1>6. SlotsMove(x, 0) /\ Passed(0, 0)
    BY <1>1, SlotsLeft DEF Passed
<1> QED
    BY <1>1, <1>3, <1>4, <1>5, <1>6, HandedOn

LEMMA HandsCreate ==
    ASSUME CInv, InOneHand, NEW p \in Producers, Create(p)
    PROVE  InOneHand'
<1> DEFINE new == Len(heap) + 1
<1> DEFINE c == [message |-> new, functors |-> <<>>,
                 todo |-> <<Head(script[p]).to>>, carrying |-> FALSE]
<1> DEFINE calls == <<c>>
<1>1. /\ Typed /\ p \in Actor /\ queue' = queue /\ stack[p] = <<>>
      /\ stack' = [stack EXCEPT ![p] = calls]
    BY DEF CInv, Actor, Create
<1>2. Message' = Message \cup {new} /\ new \notin Message
    BY <1>1, TypedCreate
<1>3. c.message = new /\ Obedient(c)
    BY DEF Obedient
<1> HIDE DEF c
<1>4. calls \in Seq({c}) /\ AllObedient(calls)
    BY <1>3 DEF AllObedient
<1>5. \A b \in Actor : \A i \in DOMAIN stack'[b] : Obedient(stack'[b][i])
  <2>1. stack'[p] = calls /\ \A b \in Actor : b # p => stack'[b] = stack[b]
      BY <1>1 DEF Typed
  <2> QED
      BY <1>4, <2>1 DEF AllObedient, InOneHand
<1>6. ASSUME NEW m, IsFiniteSet(HeldCalls(m))
      PROVE  /\ IsFiniteSet(HeldCalls(m)') /\ Cardinality(HeldCalls(m)') \in Nat
             /\ Cardinality(HeldCalls(m)') <= Cardinality(HeldCalls(m)) + Same(new, m)
             /\ Cardinality(HeldCalls(m)) \in Nat
  <2>1. /\ Cardinality(Held(calls, m)) \in Nat /\ Cardinality(Held(calls, m)) <= Same(new, m)
        /\ Cardinality(Held(stack[p], m)) = 0
      BY <1>1, <1>3, FirstHolder
  <2> HIDE DEF calls, new
  <2>2. /\ IsFiniteSet(HeldCalls(m)')
        /\ Cardinality(HeldCalls(m)') = Cardinality(HeldCalls(m))
               - Cardinality(Held(stack[p], m)) + Cardinality(Held(calls, m))
      BY <1>1, <1>4, <1>6, HeldChange
  <2>3. Cardinality(HeldCalls(m)) \in Nat /\ Cardinality(HeldCalls(m)') \in Nat
      BY <1>6, <2>2, FS_CardinalityType
  <2> QED
      BY <2>1, <2>2, <2>3, SameOrOther
<1>7. ASSUME NEW m \in Message
      PROVE  IsFiniteSet(HeldCalls(m)') /\ Cardinality(Slots(m)') + Cardinality(HeldCalls(m)') <= 1
  <2>1. /\ IsFiniteSet(HeldCalls(m)) /\ Cardinality(Slots(m)) + Cardinality(HeldCalls(m)) <= 1
        /\ Cardinality(Slots(m)) \in Nat /\ Same(new, m) = 0
      BY <1>2, CountsBefore DEF InOneHand, Same
  <2>2. Slots(m)' = Slots(m)
      BY <1>1, SlotsKept
  <2>3. /\ IsFiniteSet(HeldCalls(m)') /\ Cardinality(HeldCalls(m)') \in Nat
        /\ Cardinality(HeldCalls(m)') <= Cardinality(HeldCalls(m)) + 0
        /\ Cardinality(HeldCalls(m)) \in Nat
      BY <1>6, <2>1
  <2> QED
      BY <2>1, <2>2, <2>3
<1>8. PICK n : n = new
    OBVIOUS
<1>9. IsFiniteSet(HeldCalls(n)') /\ Cardinality(Slots(n)') + Cardinality(HeldCalls(n)') <= 1
  <2>1. n \notin Message /\ Same(new, n) = 1
      BY <1>2, <1>8 DEF Same
  <2>2. Slots(n) = {} /\ Calls(n) = {}
      BY <2>1, NotYetCounted
  <2>3. HeldCalls(n) = {}
    <3>1. Calls(n) = Pairs([a \in Actor |-> Own(stack[a], n)])
        BY <1>1, CallsArePairs
    <3> QED
        BY <2>2, <3>1 DEF HeldCalls, Pairs, Own, Held
  <2>4. /\ Slots(n)' = Slots(n) /\ IsFiniteSet(HeldCalls(n))
        /\ Cardinality(HeldCalls(n)) = 0 /\ Cardinality(Slots(n)) = 0
      BY <1>1, <2>2, <2>3, SlotsKept, FS_EmptySet
  <2>5. /\ IsFiniteSet(HeldCalls(n)') /\ Cardinality(HeldCalls(n)') \in Nat
        /\ Cardinality(HeldCalls(n)') <= 0 + 1
      BY <1>6, <2>1, <2>4
  <2> QED
      BY <2>4, <2>5
<1>10. Message' = Message \cup {n}
    BY <1>2, <1>8
<1>11. \A m \in Message' : /\ IsFiniteSet(HeldCalls(m)')
                           /\ Cardinality(Slots(m)') + Cardinality(HeldCalls(m)') <= 1
    BY <1>7, <1>9, <1>10
<1> QED
    BY <1>5, <1>11 DEF InOneHand

LEMMA HandsAside ==
    ASSUME InOneHand, UNCHANGED <<queue, heap, stack>>
    PROVE  InOneHand'
<1>1. ASSUME NEW m PROVE Slots(m)' = Slots(m) /\ HeldCalls(m)' = HeldCalls(m)
    BY DEF Slots, HeldCalls
<1>2. Message' = Message
    BY DEF Message
<1> QED
    BY <1>1, <1>2 DEF InOneHand

LEMMA HandsNext ==
    ASSUME OneAfterTheOther, CInv, InOneHand, [Next]_vars
    PROVE  InOneHand'
<1>1. Typed /\ Typed'
    BY TypedNext DEF CInv
<1>2. CASE UNCHANGED vars
    BY <1>2, HandsAside DEF vars
<1>3. CASE \E p \in Producers : Create(p)
    BY <1>3, HandsCreate
<1>4. ASSUME NEW w \in Workers, NEW s \in Stage \ InputStages, TryPop(w, s)
      PROVE  InOneHand'
  <2>1. /\ queue[s] # <<>> /\ stack[w] = <<>> /\ Take(w, s) /\ heap' = heap /\ at[w] = s
      BY <1>4 DEF TryPop, Polls
  <2> QED
      BY <1>1, <2>1, HandsTake
<1>5. ASSUME NEW w \in Workers, PollMessage(w)
      PROVE  InOneHand'
  <2> DEFINE s == Inputs[which]
  <2>1. s \in Stage /\ Adapter \in Stage /\ Adapter \notin InputStages
      BY <1>1, Positions, QueueAdaptersAssumption DEF Typed
  <2>2. /\ queue[s] # <<>> /\ stack[w] = <<>> /\ Take(w, s) /\ heap' = heap /\ at[w] = Adapter
      BY <1>5 DEF PollMessage, Polls
  <2> HIDE DEF s
  <2> QED
      BY <1>1, <2>1, <2>2, HandsTake
<1>6. ASSUME NEW w \in Workers,
             \/ \E s \in Stage \ InputStages : Enter(w, s) \/ TryPopEmpty(w, s)
             \/ SearchBegins(w) \/ PollEmpty(w) \/ SearchFails(w)
      PROVE  InOneHand'
    BY <1>6, HandsAside DEF Enter, TryPopEmpty, SearchBegins, PollEmpty, SearchFails
<1>7. ASSUME NEW a \in Actor,
             \/ Retain(a) \/ NextFunctor(a) \/ Return(a) \/ Throw(a)
             \/ \E s \in Stage : Push(a, s) \/ PushThrough(a, s)
      PROVE  InOneHand'
    BY <1>7, HandsRetain, HandsNextFunctor, HandsReturn, HandsThrow, HandsPush, HandsPushThrough
<1> QED
    BY <1>2, <1>3, <1>4, <1>5, <1>6, <1>7 DEF Next

(* A functor that works on a message holds it, so no two do.               *)
LEMMA OneHandOneFunctor == ASSUME CInv, InOneHand PROVE OneFunctorAtATime
<1> SUFFICES ASSUME NEW m \in Message
             PROVE  Cardinality({a \in Actor : Works(a, m)}) <= 1
    BY DEF OneFunctorAtATime
<1> DEFINE working == {a \in Actor : Works(a, m)}
<1> DEFINE first == [a \in working |-> <<a, 1>>]
<1>1. Typed
    BY DEF CInv
<1>2. first \in Injection(working, HeldCalls(m))
  <2>1. ASSUME NEW a \in working PROVE <<a, 1>> \in HeldCalls(m)
    <3>1. stack[a] # <<>> /\ Top(a).message = m /\ Holding(Top(a)) /\ a \in Actor
        BY DEF Works, Running, Holding
    <3>2. Top(a) = stack[a][1] /\ 1 \in DOMAIN stack[a]
        BY <1>1, <3>1, TopCall
    <3> QED
        BY <3>1, <3>2 DEF HeldCalls, Pairs, Held
  <2>2. first \in [working -> HeldCalls(m)]
      BY <2>1
  <2>3. \A a, b \in working : first[a] = first[b] => a = b
      OBVIOUS
  <2> HIDE DEF first, working
  <2> QED
      BY <2>2, <2>3, Fun_IsInj
<1>3. /\ IsFiniteSet(HeldCalls(m)) /\ Cardinality(Slots(m)) + Cardinality(HeldCalls(m)) <= 1
      /\ Cardinality(Slots(m)) \in Nat
    BY CountsBefore DEF InOneHand
<1> HIDE DEF first, working
<1>4. IsFiniteSet(working) /\ Cardinality(working) <= Cardinality(HeldCalls(m))
    BY <1>2, <1>3, FS_Injection
<1>5. Cardinality(working) \in Nat /\ Cardinality(HeldCalls(m)) \in Nat
    BY <1>3, <1>4, FS_CardinalityType
<1> QED
    BY <1>3, <1>4, <1>5 DEF working

(* If an application does as PassThroughStageQueue asks, no two functors   *)
(* work on a message at the same time, in whichever threads its chains     *)
(* run: a message is in one queue or with one functor.                     *)
THEOREM OneAtATime == ASSUME OneAfterTheOther PROVE Spec => []OneFunctorAtATime
<1>1. Init => CInv /\ InOneHand
    BY TypedInit, CountedInit, HandsInit DEF CInv
<1>2. CInv /\ InOneHand /\ [Next]_vars => CInv' /\ InOneHand'
    BY TypedNext, CountedNext, HandsNext DEF CInv
<1>3. CInv /\ InOneHand => OneFunctorAtATime
    BY OneHandOneFunctor
<1> QED
    BY <1>1, <1>2, <1>3, PTL DEF Spec

-----------------------------------------------------------------------------
(* Sequences, counted from their end, where a Head or Tail moves nothing   *)

Has(q, e) == e \in 0 .. Len(q) - 1
FromEnd(q, e) == q[Len(q) - e]

LEMMA EndOf ==
    ASSUME NEW S, NEW q \in Seq(S)
    PROVE  /\ Len(q) \in Nat /\ DOMAIN q = 1 .. Len(q)
           /\ \A e : Has(q, e) => Len(q) - e \in DOMAIN q /\ FromEnd(q, e) \in S
           /\ \A i \in DOMAIN q : Has(q, Len(q) - i) /\ FromEnd(q, Len(q) - i) = q[i]
           /\ q = <<>> => \A e : ~Has(q, e)
<1>1. Len(q) \in Nat /\ DOMAIN q = 1 .. Len(q)
    BY LenProperties
<1>2. ASSUME NEW e, Has(q, e) PROVE Len(q) - e \in DOMAIN q /\ FromEnd(q, e) \in S
  <2>1. Len(q) - e \in 1 .. Len(q)
      BY <1>1, <1>2 DEF Has
  <2> QED
      BY <1>1, <2>1, ElementOfSeq DEF FromEnd
<1>3. ASSUME NEW i \in DOMAIN q PROVE Has(q, Len(q) - i) /\ FromEnd(q, Len(q) - i) = q[i]
  <2>1. Len(q) - i \in 0 .. Len(q) - 1 /\ Len(q) - (Len(q) - i) = i
      BY <1>1, <1>3
  <2> QED
      BY <2>1 DEF Has, FromEnd
<1>4. q = <<>> => \A e : ~Has(q, e)
    BY DEF Has
<1> QED
    BY <1>1, <1>2, <1>3, <1>4

LEMMA EndTail ==
    ASSUME NEW S, NEW q \in Seq(S), q # <<>>
    PROVE  \E n \in Nat :
              /\ Len(q) = n + 1 /\ Len(Tail(q)) = n /\ Tail(q) \in Seq(S)
              /\ Has(q, n) /\ FromEnd(q, n) = q[1] /\ Head(q) = q[1] /\ q[1] \in S
              /\ \A e : /\ Has(Tail(q), e) <=> Has(q, e) /\ e # n
                        /\ Has(Tail(q), e) => FromEnd(Tail(q), e) = FromEnd(q, e)
<1>1. /\ Len(q) \in Nat \ {0} /\ Len(Tail(q)) = Len(q) - 1 /\ Head(q) = q[1] /\ Head(q) \in S
      /\ Tail(q) \in Seq(S)
      /\ \A i \in 1 .. Len(q) - 1 : Tail(q)[i] = q[i + 1]
    BY LenProperties, EmptySeq, HeadTailProperties
<1>2. PICK n \in Nat : Len(q) = n + 1
  <2> DEFINE l == Len(q)
  <2>1. l \in Nat \ {0}
      BY <1>1
  <2> HIDE DEF l
  <2>2. l - 1 \in Nat /\ l = (l - 1) + 1
      BY <2>1
  <2> QED
      BY <2>2 DEF l
<1>3. Len(Tail(q)) = n
    BY <1>1, <1>2
<1>4. Has(q, n) /\ FromEnd(q, n) = q[1]
  <2>1. n \in 0 .. (n + 1) - 1 /\ (n + 1) - n = 1
      OBVIOUS
  <2> QED
      BY <1>2, <2>1 DEF Has, FromEnd
<1>5. ASSUME NEW e
      PROVE  /\ Has(Tail(q), e) <=> Has(q, e) /\ e # n
             /\ Has(Tail(q), e) => FromEnd(Tail(q), e) = FromEnd(q, e)
  <2>1. Has(Tail(q), e) <=> e \in 0 .. n - 1
      BY <1>3 DEF Has
  <2>2. Has(q, e) <=> e \in 0 .. (n + 1) - 1
      BY <1>2 DEF Has
  <2>3. e \in 0 .. n - 1 <=> e \in 0 .. (n + 1) - 1 /\ e # n
      OBVIOUS
  <2>4. ASSUME e \in 0 .. n - 1 PROVE FromEnd(Tail(q), e) = FromEnd(q, e)
    <3>1. n - e \in 1 .. n /\ (n - e) + 1 = (n + 1) - e
        BY <2>4
    <3>2. Tail(q)[n - e] = q[(n + 1) - e]
      <4>1. n - e \in 1 .. Len(q) - 1
          BY <1>2, <3>1
      <4> QED
          BY <1>1, <3>1, <4>1
    <3> QED
        BY <1>2, <1>3, <3>2 DEF FromEnd
  <2> QED
      BY <2>1, <2>2, <2>3, <2>4
<1> QED
    BY <1>1, <1>2, <1>3, <1>4, <1>5

LEMMA EndAppend ==
    ASSUME NEW S, NEW q \in Seq(S), NEW x \in S
    PROVE  /\ Has(Append(q, x), 0) /\ FromEnd(Append(q, x), 0) = x
           /\ \A e : Has(Append(q, x), e) =>
                 \/ e = 0
                 \/ Has(q, e - 1) /\ FromEnd(Append(q, x), e) = FromEnd(q, e - 1)
           /\ \A e : Has(q, e) =>
                 Has(Append(q, x), e + 1) /\ FromEnd(Append(q, x), e + 1) = FromEnd(q, e)
<1> DEFINE r == Append(q, x)
<1>1. /\ Len(q) \in Nat /\ Len(r) = Len(q) + 1
      /\ \A i \in 1 .. Len(q) : r[i] = q[i]
      /\ r[Len(q) + 1] = x
    BY AppendProperties, LenProperties
<1> HIDE DEF r
<1>2. Has(r, 0) /\ FromEnd(r, 0) = x
    BY <1>1 DEF Has, FromEnd
<1>3. ASSUME NEW e, Has(r, e), e # 0
      PROVE  Has(q, e - 1) /\ FromEnd(r, e) = FromEnd(q, e - 1)
  <2>1. PICK n \in Nat : n = Len(q) /\ Len(r) = n + 1
      BY <1>1
  <2>2. e \in 0 .. (n + 1) - 1 /\ e # 0
      BY <1>3, <2>1 DEF Has
  <2>3. e - 1 \in 0 .. n - 1 /\ n - (e - 1) \in 1 .. n /\ n + 1 - e = n - (e - 1)
      BY <2>2
  <2>4. Has(q, e - 1)
      BY <2>1, <2>3 DEF Has
  <2>5. FromEnd(r, e) = r[n - (e - 1)] /\ FromEnd(q, e - 1) = q[n - (e - 1)]
    <3>1. FromEnd(r, e) = r[Len(r) - e] /\ FromEnd(q, e - 1) = q[Len(q) - (e - 1)]
        BY DEF FromEnd
    <3>2. Len(r) - e = n - (e - 1) /\ Len(q) - (e - 1) = n - (e - 1)
        BY <2>1, <2>2, <2>3
    <3> QED
        BY <3>1, <3>2
  <2> QED
      BY <1>1, <2>1, <2>3, <2>4, <2>5
<1>4. ASSUME NEW e, Has(q, e)
      PROVE  Has(r, e + 1) /\ FromEnd(r, e + 1) = FromEnd(q, e)
  <2>1. PICK n \in Nat : n = Len(q) /\ Len(r) = n + 1
      BY <1>1
  <2>2. e \in 0 .. n - 1
      BY <1>4, <2>1 DEF Has
  <2>3. e + 1 \in 0 .. (n + 1) - 1 /\ n - e \in 1 .. n /\ n + 1 - (e + 1) = n - e
      BY <2>2
  <2>4. Has(r, e + 1)
      BY <2>1, <2>3 DEF Has
  <2>5. FromEnd(r, e + 1) = r[n - e] /\ FromEnd(q, e) = q[n - e]
      BY <2>1, <2>3 DEF FromEnd
  <2> QED
      BY <1>1, <2>1, <2>3, <2>4, <2>5
<1> QED
    BY <1>2, <1>3, <1>4 DEF r

LEMMA EndUnit ==
    ASSUME NEW x
    PROVE  /\ \A e : Has(<<x>>, e) <=> e = 0
           /\ FromEnd(<<x>>, 0) = x
BY DEF Has, FromEnd

(* The calls of thread a, the outermost of which is at depth 0: what is at *)
(* depth d stays as it is.                                                 *)
CallAt(a, d) == FromEnd(stack[a], d)
Alike(a, d) ==
    /\ Has(stack'[a], d) <=> Has(stack[a], d)
    /\ Has(stack[a], d) => FromEnd(stack'[a], d) = FromEnd(stack[a], d)

LEMMA OtherStacks ==
    ASSUME Typed, NEW a \in Actor, NEW calls, stack' = [stack EXCEPT ![a] = calls]
    PROVE  stack'[a] = calls /\ \A b \in Actor : \A d : b # a => Alike(b, d)
BY DEF Typed, Alike

LEMMA DepthOfTop ==
    ASSUME Typed, NEW a \in Actor, stack[a] # <<>>
    PROVE  \E n \in Nat :
              /\ Len(stack[a]) = n + 1 /\ Has(stack[a], n) /\ FromEnd(stack[a], n) = Top(a)
              /\ Top(a) \in CallRecords
              /\ \A e : /\ Has(Tail(stack[a]), e) <=> Has(stack[a], e) /\ e # n
                        /\ Has(Tail(stack[a]), e) =>
                              FromEnd(Tail(stack[a]), e) = FromEnd(stack[a], e)
<1>1. stack[a] \in Seq(CallRecords) /\ Top(a) = stack[a][1] /\ Top(a) \in CallRecords
    BY TopCall
<1> QED
    BY <1>1, EndTail

(* The innermost call of a becomes c.                                      *)
BecomesAt(n, a, c) ==
    /\ Has(stack[a], n) /\ FromEnd(stack[a], n) = Top(a)
    /\ Has(stack'[a], n) /\ FromEnd(stack'[a], n) = c
    /\ \A b \in Actor : \A d : b # a \/ d # n => Alike(b, d)

LEMMA TopBecomes ==
    ASSUME Typed, NEW a \in Actor, stack[a] # <<>>, NEW c,
           stack' = [stack EXCEPT ![a] = [stack[a] EXCEPT ![1] = c]]
    PROVE  \E n \in Nat : BecomesAt(n, a, c)
<1> DEFINE q == stack[a]
<1> DEFINE r == [q EXCEPT ![1] = c]
<1>1. PICK n \in Nat : Len(q) = n + 1 /\ Has(q, n) /\ FromEnd(q, n) = Top(a)
    BY DepthOfTop
<1>2. q \in Seq(CallRecords)
    BY TopCall
<1>3. stack'[a] = r /\ \A b \in Actor : \A d : b # a => Alike(b, d)
    BY OtherStacks
<1> DEFINE M == CallRecords \cup {c}
<1>4. q \in Seq(M) /\ 1 \in 1 .. Len(q) /\ c \in M
  <2>1. CallRecords \subseteq M
      OBVIOUS
  <2>2. 1 \in 1 .. n + 1
      OBVIOUS
  <2> HIDE DEF M
  <2>3. q \in Seq(M)
      BY <1>2, <2>1, SeqMonotonic
  <2> QED
      BY <1>1, <2>2, <2>3 DEF M
<1> HIDE DEF M, q
<1>5. Len(r) = Len(q) /\ \A i \in 1 .. Len(q) : r[i] = IF i = 1 THEN c ELSE q[i]
    BY <1>4, ExceptSeq
<1> HIDE DEF r
<1>6. Has(r, n) /\ FromEnd(r, n) = c
  <2>1. n \in 0 .. (n + 1) - 1 /\ (n + 1) - n = 1
      OBVIOUS
  <2> QED
      BY <1>1, <1>4, <1>5, <2>1 DEF Has, FromEnd
<1>7. ASSUME NEW d, d # n
      PROVE  (Has(r, d) <=> Has(q, d)) /\ (Has(q, d) => FromEnd(r, d) = FromEnd(q, d))
  <2>1. Has(r, d) <=> Has(q, d)
      BY <1>5 DEF Has
  <2>2. ASSUME Has(q, d) PROVE FromEnd(r, d) = FromEnd(q, d)
    <3>1. d \in 0 .. (n + 1) - 1
        BY <1>1, <2>2 DEF Has
    <3>2. n + 1 - d \in 1 .. n + 1 /\ n + 1 - d # 1
        BY <1>7, <3>1
    <3>3. FromEnd(r, d) = r[n + 1 - d] /\ FromEnd(q, d) = q[n + 1 - d]
      <4>1. FromEnd(r, d) = r[Len(r) - d] /\ FromEnd(q, d) = q[Len(q) - d]
          BY DEF FromEnd
      <4>2. Len(r) - d = n + 1 - d /\ Len(q) - d = n + 1 - d
          BY <1>1, <1>5, <3>1
      <4> QED
          BY <4>1, <4>2
    <3> QED
        BY <1>1, <1>5, <3>2, <3>3
  <2> QED
      BY <2>1, <2>2
<1> QED
    BY <1>1, <1>3, <1>6, <1>7 DEF Alike, BecomesAt, q

(* The innermost call of a returns.                                        *)
LEMMA TopGoes ==
    ASSUME Typed, NEW a \in Actor, stack[a] # <<>>,
           stack' = [stack EXCEPT ![a] = Tail(stack[a])]
    PROVE  \E n \in Nat :
              /\ Has(stack[a], n) /\ FromEnd(stack[a], n) = Top(a) /\ ~Has(stack'[a], n)
              /\ \A b \in Actor : \A d : b # a \/ d # n => Alike(b, d)
<1> DEFINE q == stack[a]
<1> DEFINE r == Tail(q)
<1>1. PICK n \in Nat :
        /\ Has(q, n) /\ FromEnd(q, n) = Top(a)
        /\ \A e : /\ Has(r, e) <=> Has(q, e) /\ e # n
                  /\ Has(r, e) => FromEnd(r, e) = FromEnd(q, e)
    BY DepthOfTop
<1>2. stack'[a] = r /\ \A b \in Actor : \A d : b # a => Alike(b, d)
    BY OtherStacks
<1> HIDE DEF r
<1>3. \A d : d # n => Alike(a, d)
    BY <1>1, <1>2 DEF Alike
<1>4. ~Has(stack'[a], n)
    BY <1>1, <1>2
<1> QED
    BY <1>1, <1>2, <1>3, <1>4

(* A call comes inside the innermost one, which becomes c.                 *)
NestsAt(n, a, inner, c) ==
    /\ Has(stack[a], n) /\ FromEnd(stack[a], n) = Top(a) /\ ~Has(stack[a], n + 1)
    /\ Has(stack'[a], n) /\ FromEnd(stack'[a], n) = c
    /\ Has(stack'[a], n + 1) /\ FromEnd(stack'[a], n + 1) = inner
    /\ \A b \in Actor : \A d : b # a \/ (d # n /\ d # n + 1) => Alike(b, d)

LEMMA TopNests ==
    ASSUME Typed, NEW a \in Actor, stack[a] # <<>>, NEW inner \in CallRecords,
           NEW c \in CallRecords, NEW calls, calls = <<inner, c>> \o Tail(stack[a]),
           stack' = [stack EXCEPT ![a] = calls]
    PROVE  \E n \in Nat : NestsAt(n, a, inner, c)
<1> DEFINE q == stack[a]
<1> DEFINE r == <<inner, c>> \o Tail(q)
<1>1. PICK n \in Nat : Len(q) = n + 1 /\ Has(q, n) /\ FromEnd(q, n) = Top(a)
    BY DepthOfTop
<1>2. q \in Seq(CallRecords) /\ q # <<>>
    BY TopCall
<1>3. stack'[a] = r /\ \A b \in Actor : \A d : b # a => Alike(b, d)
    BY OtherStacks
<1> HIDE DEF q
<1>5. /\ Len(r) = Len(q) + 1 /\ r[1] = inner /\ r[2] = c
      /\ \A i \in 1 .. Len(q) : i # 1 => r[i + 1] = q[i]
    BY <1>2, Nested
<1> HIDE DEF r
<1>6. Len(r) = n + 2
    BY <1>1, <1>5
<1>7. Has(r, n) /\ FromEnd(r, n) = c /\ Has(r, n + 1) /\ FromEnd(r, n + 1) = inner
  <2>1. /\ n \in 0 .. (n + 2) - 1 /\ (n + 2) - n = 2
        /\ n + 1 \in 0 .. (n + 2) - 1 /\ (n + 2) - (n + 1) = 1
      OBVIOUS
  <2> QED
      BY <1>5, <1>6, <2>1 DEF Has, FromEnd
<1>8. ~Has(q, n + 1)
    BY <1>1 DEF Has
<1>9. ASSUME NEW d, d # n, d # n + 1
      PROVE  (Has(r, d) <=> Has(q, d)) /\ (Has(q, d) => FromEnd(r, d) = FromEnd(q, d))
  <2>1. Has(r, d) <=> d \in 0 .. (n + 2) - 1
      BY <1>6 DEF Has
  <2>2. Has(q, d) <=> d \in 0 .. (n + 1) - 1
      BY <1>1 DEF Has
  <2>3. d \in 0 .. (n + 2) - 1 <=> d \in 0 .. (n + 1) - 1
      BY <1>9
  <2>4. ASSUME Has(q, d) PROVE FromEnd(r, d) = FromEnd(q, d)
    <3>1. /\ d \in 0 .. n /\ n + 1 - d \in 1 .. n + 1 /\ n + 1 - d # 1
          /\ n + 2 - d = (n + 1 - d) + 1
        BY <1>9, <2>2, <2>4
    <3>2. r[(n + 1 - d) + 1] = q[n + 1 - d]
        BY <1>1, <1>5, <3>1
    <3> QED
        BY <1>1, <1>6, <3>1, <3>2 DEF FromEnd
  <2> QED
      BY <2>1, <2>2, <2>3, <2>4
<1> QED
    BY <1>1, <1>3, <1>7, <1>8, <1>9 DEF Alike, NestsAt, q

(* The first call of a, which has none.                                    *)
LEMMA FirstComes ==
    ASSUME Typed, NEW a \in Actor, stack[a] = <<>>, NEW c, stack' = [stack EXCEPT ![a] = <<c>>]
    PROVE  /\ \A d : ~Has(stack[a], d)
           /\ Has(stack'[a], 0) /\ FromEnd(stack'[a], 0) = c
           /\ \A b \in Actor : \A d : b # a \/ d # 0 => Alike(b, d)
<1>1. stack'[a] = <<c>> /\ \A b \in Actor : \A d : b # a => Alike(b, d)
    BY OtherStacks
<1>2. \A d : ~Has(stack[a], d)
    BY DEF Has
<1>3. (\A e : Has(stack'[a], e) <=> e = 0) /\ FromEnd(stack'[a], 0) = c
    BY <1>1, EndUnit
<1> QED
    BY <1>1, <1>2, <1>3 DEF Alike

(* What thread a holds of content c at depth d, and that it goes on to.    *)
Holds(a, d, c) == Has(stack[a], d) /\ heap[CallAt(a, d).message].content = c

LEMMA CallInStack ==
    ASSUME Typed, NEW a \in Actor, NEW d, Has(stack[a], d)
    PROVE  CallAt(a, d) \in CallRecords /\ CallAt(a, d).message \in Message
<1>1. stack[a] \in Seq(CallRecords)
    BY DEF Typed
<1>2. CallAt(a, d) \in CallRecords
    BY <1>1, EndOf DEF CallAt
<1> QED
    BY <1>2 DEF CallRecords

LEMMA HoldsStill ==
    ASSUME Typed, HeapKept, NEW a \in Actor, NEW d, Alike(a, d), NEW c
    PROVE  /\ Holds(a, d, c)' <=> Holds(a, d, c)
           /\ Holds(a, d, c) => CallAt(a, d)' = CallAt(a, d)
<1>1. Has(stack'[a], d) <=> Has(stack[a], d)
    BY DEF Alike
<1>2. ASSUME Has(stack[a], d)
      PROVE  CallAt(a, d)' = CallAt(a, d) /\ CallAt(a, d).message \in Message
    BY <1>2, CallInStack DEF Alike, CallAt
<1> QED
    BY <1>1, <1>2 DEF Holds, HeapKept

LEMMA TailSet ==
    ASSUME NEW S, NEW q \in Seq(S), q # <<>>
    PROVE  ToSet(q) = {Head(q)} \cup ToSet(Tail(q))
<1>1. /\ Len(q) \in Nat \ {0} /\ Len(Tail(q)) = Len(q) - 1 /\ Head(q) = q[1]
      /\ DOMAIN q = 1 .. Len(q) /\ DOMAIN Tail(q) = 1 .. Len(Tail(q))
      /\ \A i \in 1 .. Len(q) - 1 : Tail(q)[i] = q[i + 1]
    BY LenProperties, EmptySeq, HeadTailProperties
<1>2. PICK n \in Nat : Len(q) = n + 1 /\ Len(Tail(q)) = n
    BY <1>1, EndTail
<1>3. \A i \in 1 .. n + 1 : i = 1 \/ (i - 1 \in 1 .. n /\ Tail(q)[i - 1] = q[i])
  <2> SUFFICES ASSUME NEW i \in 1 .. n + 1, i # 1 PROVE i - 1 \in 1 .. n /\ Tail(q)[i - 1] = q[i]
      OBVIOUS
  <2>1. i - 1 \in 1 .. n /\ (i - 1) + 1 = i /\ (n + 1) - 1 = n
      OBVIOUS
  <2> QED
      BY <1>1, <1>2, <2>1
<1>4. \A i \in 1 .. n : i + 1 \in 1 .. n + 1 /\ Tail(q)[i] = q[i + 1]
    BY <1>1, <1>2
<1>5. 1 \in 1 .. n + 1
    OBVIOUS
<1> DEFINE r == Tail(q)
<1> HIDE DEF r
<1>6. ToSet(q) \subseteq {Head(q)} \cup ToSet(r)
  <2>1. \A i \in 1 .. n + 1 : q[i] = Head(q) \/ \E j \in DOMAIN r : r[j] = q[i]
      BY <1>1, <1>2, <1>3 DEF r
  <2> QED
      BY <1>1, <1>2, <2>1 DEF ToSet
<1>7. {Head(q)} \cup ToSet(r) \subseteq ToSet(q)
  <2>1. \A i \in DOMAIN r : \E j \in DOMAIN q : q[j] = r[i]
      BY <1>1, <1>2, <1>4 DEF r
  <2> QED
      BY <1>1, <1>2, <1>5, <2>1 DEF ToSet
<1> QED
    BY <1>6, <1>7 DEF r

-----------------------------------------------------------------------------
(* Where content c is on its way: to stage s, or to functor f.             *)

Queued(s, c) == \E e : Has(queue[s], e) /\ heap[FromEnd(queue[s], e)].content = c
InTodo(s, c) == \E a \in Actor : \E d : Holds(a, d, c) /\ s \in ToSet(CallAt(a, d).todo)
InFunctors(f, c) == \E a \in Actor : \E d : Holds(a, d, c) /\ f \in ToSet(CallAt(a, d).functors)
Done(f, c) == c \in thrown \/ c \in ToSet(processed[f])
Arrives(s, c) ==
    Queued(s, c) \/ InTodo(s, c) \/ \A f \in Handlers(s) : InFunctors(f, c) \/ Done(f, c)

(* That it ought to be: it has been created for s, or a functor has it, or *)
(* had it, that dispatches to s.                                           *)
Sent(s, c) ==
    \E p \in Producers : \E e :
        /\ Has(Script[p], e) /\ ~Has(script[p], e)
        /\ FromEnd(Script[p], e).content = c /\ FromEnd(Script[p], e).to = s
StartsWith(f, calls) == calls # <<>> /\ Head(calls) = f
Runs(f, c) == \E a \in Actor : \E d : Holds(a, d, c) /\ StartsWith(f, CallAt(a, d).functors)
Due(s, c) ==
    \/ Sent(s, c)
    \/ \E f \in Functor : s \in ToSet(Dispatches[f]) /\ (Runs(f, c) \/ c \in ToSet(processed[f]))

AllArrive == \A s \in Stage : \A c : Due(s, c) => Arrives(s, c)

(* What the induction takes besides: the calls of a thread are all about   *)
(* one message, and what a producer has still to create is the end of what *)
(* its script had.                                                         *)
OneMessage ==
    \A a \in Actor : \A d, e : Has(stack[a], d) /\ Has(stack[a], e) =>
        CallAt(a, d).message = CallAt(a, e).message
AsScripted ==
    \A p \in Producers : \A e : Has(script[p], e) =>
        Has(Script[p], e) /\ FromEnd(script[p], e) = FromEnd(Script[p], e)
Known == processed \in [Functor -> Seq(Content)]

AInv == Typed /\ Known /\ OneMessage /\ AsScripted /\ AllArrive

LEMMA HandlersAreFunctors ==
    ASSUME NEW s \in Stage
    PROVE  /\ FunctorsBehind(s) \in Seq(Functor) /\ FunctorsBehind(s) # <<>>
           /\ Handlers(s) \subseteq Functor
<1>1. FunctorsBehind(s) \in Seq(Functor) /\ FunctorsBehind(s) # <<>>
    BY QueueAdaptersAssumption DEF FunctorsBehind
<1>2. \A i \in DOMAIN FunctorsBehind(s) : FunctorsBehind(s)[i] \in Functor
    BY <1>1, LenProperties
<1> QED
    BY <1>1, <1>2 DEF Handlers, ToSet

LEMMA ArriveStep ==
    ASSUME AllArrive,
           \A s \in Stage : \A c : Sent(s, c)' => Sent(s, c) \/ Arrives(s, c)',
           \A f \in Functor : \A c : Runs(f, c)' =>
              Runs(f, c) \/ \A s \in ToSet(Dispatches[f]) : InTodo(s, c)',
           \A f \in Functor : \A c : c \in ToSet(processed'[f]) =>
              c \in ToSet(processed[f]) \/ Runs(f, c),
           \A s \in Stage : \A c : Queued(s, c) => Arrives(s, c)',
           \A s \in Stage : \A c : InTodo(s, c) => Arrives(s, c)',
           \A f \in Functor : \A c : InFunctors(f, c) => InFunctors(f, c)' \/ Done(f, c)',
           \A f \in Functor : \A c : Done(f, c) => Done(f, c)'
    PROVE  AllArrive'
<1> SUFFICES ASSUME NEW s \in Stage, NEW c, Due(s, c)' PROVE Arrives(s, c)'
    BY DEF AllArrive
<1>1. Due(s, c) \/ Arrives(s, c)'
  <2>1. CASE Sent(s, c)'
      BY <2>1 DEF Due
  <2>2. ASSUME NEW f \in Functor, s \in ToSet(Dispatches[f]), Runs(f, c)'
        PROVE  Due(s, c) \/ Arrives(s, c)'
      BY <2>2 DEF Due, Arrives
  <2>3. ASSUME NEW f \in Functor, s \in ToSet(Dispatches[f]), c \in ToSet(processed'[f])
        PROVE  Due(s, c)
      BY <2>3 DEF Due
  <2> QED
      BY <2>1, <2>2, <2>3 DEF Due
<1>2. Arrives(s, c) => Arrives(s, c)'
  <2>1. Handlers(s) \subseteq Functor
      BY HandlersAreFunctors
  <2>2. CASE \A f \in Handlers(s) : InFunctors(f, c) \/ Done(f, c)
      BY <2>1, <2>2 DEF Arrives
  <2> QED
      BY <2>2 DEF Arrives
<1> QED
    BY <1>1, <1>2 DEF AllArrive

(* The queues *)

LEMMA InQueue ==
    ASSUME Typed, NEW s \in Stage, NEW e, Has(queue[s], e)
    PROVE  FromEnd(queue[s], e) \in Message
<1>1. queue[s] \in Seq(Message)
    BY DEF Typed
<1> QED
    BY <1>1, EndOf

LEMMA QueuedStill ==
    ASSUME Typed, HeapKept, NEW s \in Stage, queue'[s] = queue[s], NEW c, Queued(s, c)
    PROVE  Queued(s, c)'
BY InQueue DEF Queued, HeapKept

LEMMA QueuedPush ==
    ASSUME Typed, NEW x \in Stage, NEW m \in Message, heap' = heap,
           queue' = [queue EXCEPT ![x] = Append(@, m)], NEW s \in Stage, NEW c
    PROVE  /\ Queued(s, c) => Queued(s, c)'
           /\ s = x /\ heap[m].content = c => Queued(s, c)'
<1>1. /\ queue[x] \in Seq(Message)
      /\ \A y \in Stage : queue'[y] = IF y = x THEN Append(queue[x], m) ELSE queue[y]
    BY DEF Typed
<1>2. /\ Has(queue'[x], 0) /\ FromEnd(queue'[x], 0) = m
      /\ \A e : Has(queue[x], e) =>
            Has(queue'[x], e + 1) /\ FromEnd(queue'[x], e + 1) = FromEnd(queue[x], e)
    BY <1>1, EndAppend
<1> QED
    BY <1>1, <1>2 DEF Queued

LEMMA QueuedTake ==
    ASSUME Typed, NEW x \in Stage, queue[x] # <<>>, heap' = heap,
           queue' = [queue EXCEPT ![x] = Tail(@)], NEW s \in Stage, NEW c, Queued(s, c)
    PROVE  Queued(s, c)' \/ (s = x /\ heap[Head(queue[x])].content = c)
<1>1. /\ queue[x] \in Seq(Message)
      /\ \A y \in Stage : queue'[y] = IF y = x THEN Tail(queue[x]) ELSE queue[y]
    BY DEF Typed
<1> DEFINE q == queue[x]
<1> DEFINE r == Tail(q)
<1>2. PICK n \in Nat :
        /\ FromEnd(q, n) = q[1] /\ Head(q) = q[1]
        /\ \A e : /\ Has(r, e) <=> Has(q, e) /\ e # n
                  /\ Has(r, e) => FromEnd(r, e) = FromEnd(q, e)
    BY <1>1, EndTail
<1> HIDE DEF r
<1>3. PICK e : Has(queue[s], e) /\ heap[FromEnd(queue[s], e)].content = c
    BY DEF Queued
<1>4. CASE s # x
  <2>1. Has(queue'[s], e) /\ heap'[FromEnd(queue'[s], e)].content = c
      BY <1>1, <1>3, <1>4
  <2> QED
      BY <2>1 DEF Queued
<1>5. CASE s = x /\ e = n
    BY <1>2, <1>3, <1>5
<1>6. CASE s = x /\ e # n
  <2>1. Has(queue'[s], e) /\ FromEnd(queue'[s], e) = FromEnd(queue[s], e)
      BY <1>1, <1>2, <1>3, <1>6 DEF r
  <2>2. Has(queue'[s], e) /\ heap'[FromEnd(queue'[s], e)].content = c
      BY <1>3, <2>1
  <2> QED
      BY <2>2 DEF Queued
<1> QED
    BY <1>4, <1>5, <1>6

(* The calls that are as they were, all but those of a at the depths D.    *)
LEMMA StillOnTheWay ==
    ASSUME Typed, HeapKept, NEW a \in Actor, NEW D,
           \A b \in Actor : \A d : b # a \/ d \notin D => Alike(b, d), NEW c
    PROVE  /\ \A s : InTodo(s, c) =>
                 InTodo(s, c)' \/ \E d \in D : Holds(a, d, c) /\ s \in ToSet(CallAt(a, d).todo)
           /\ \A f : InFunctors(f, c) =>
                 \/ InFunctors(f, c)'
                 \/ \E d \in D : Holds(a, d, c) /\ f \in ToSet(CallAt(a, d).functors)
           /\ \A f : Runs(f, c)' =>
                 \/ Runs(f, c)
                 \/ \E d \in D : Holds(a, d, c)' /\ StartsWith(f, CallAt(a, d)'.functors)
<1>1. \A b \in Actor : \A d : b # a \/ d \notin D =>
         /\ Holds(b, d, c)' <=> Holds(b, d, c)
         /\ Holds(b, d, c) => CallAt(b, d)' = CallAt(b, d)
    BY HoldsStill
<1>2. ASSUME NEW s, InTodo(s, c)
      PROVE  InTodo(s, c)' \/ \E d \in D : Holds(a, d, c) /\ s \in ToSet(CallAt(a, d).todo)
    BY <1>1, <1>2 DEF InTodo
<1>3. ASSUME NEW f, InFunctors(f, c)
      PROVE  \/ InFunctors(f, c)'
             \/ \E d \in D : Holds(a, d, c) /\ f \in ToSet(CallAt(a, d).functors)
    BY <1>1, <1>3 DEF InFunctors
<1>4. ASSUME NEW f, Runs(f, c)'
      PROVE  \/ Runs(f, c)
             \/ \E d \in D : Holds(a, d, c)' /\ StartsWith(f, CallAt(a, d)'.functors)
    BY <1>1, <1>4 DEF Runs
<1> QED
    BY <1>2, <1>3, <1>4

(* The histories *)

LEMMA SentStill == ASSUME script' = script, NEW s, NEW c, Sent(s, c)' PROVE Sent(s, c)
BY DEF Sent

LEMMA DoneStill ==
    ASSUME UNCHANGED <<processed, thrown>>, NEW f, NEW c
    PROVE  /\ Done(f, c) => Done(f, c)'
           /\ ToSet(processed'[f]) = ToSet(processed[f])
BY DEF Done

LEMMA AppendSet ==
    ASSUME NEW S, NEW q \in Seq(S), NEW x \in S
    PROVE  ToSet(Append(q, x)) = ToSet(q) \cup {x}
<1>1. /\ DOMAIN q = 1 .. Len(q) /\ Len(q) \in Nat
      /\ DOMAIN Append(q, x) = 1 .. Len(q) + 1
      /\ \A i \in 1 .. Len(q) : Append(q, x)[i] = q[i]
      /\ Append(q, x)[Len(q) + 1] = x
    BY AppendProperties, LenProperties
<1>2. \A i \in 1 .. Len(q) + 1 : i \in 1 .. Len(q) \/ i = Len(q) + 1
    BY <1>1
<1>3. Len(q) + 1 \in 1 .. Len(q) + 1 /\ 1 .. Len(q) \subseteq 1 .. Len(q) + 1
    BY <1>1
<1> QED
    BY <1>1, <1>2, <1>3 DEF ToSet

LEMMA TopIsDone ==
    ASSUME Typed, Known, NEW a \in Actor, stack[a] # <<>>, Processed(a), thrown' = thrown
    PROVE  /\ Known'
           /\ \A f \in Functor : \A c : c \in ToSet(processed'[f]) <=>
                 \/ c \in ToSet(processed[f])
                 \/ StartsWith(f, Top(a).functors) /\ heap[Top(a).message].content = c
           /\ \A f \in Functor : \A c : Done(f, c) => Done(f, c)'
           /\ \A f \in Functor : \A c :
                 StartsWith(f, Top(a).functors) /\ heap[Top(a).message].content = c => Done(f, c)'
<1>1. /\ Top(a) \in CallRecords /\ Top(a).functors \in Seq(Functor)
      /\ heap[Top(a).message] \in Objects
    BY TopCall, HeapObject DEF CallRecords
<1>2. heap[Top(a).message].content \in Content
    BY <1>1 DEF Objects
<1>3. /\ Known'
      /\ \A f \in Functor : \A c : c \in ToSet(processed'[f]) <=>
            \/ c \in ToSet(processed[f])
            \/ StartsWith(f, Top(a).functors) /\ heap[Top(a).message].content = c
  <2>1. CASE Top(a).functors = <<>>
      BY <2>1 DEF Processed, Known, StartsWith
  <2>2. CASE Top(a).functors # <<>>
    <3> DEFINE g == Head(Top(a).functors)
    <3> DEFINE x == heap[Top(a).message].content
    <3>1. g \in Functor
        BY <1>1, <2>2, HeadTailProperties
    <3>2. processed' = [processed EXCEPT ![g] = Append(processed[g], x)] /\ processed[g] \in Seq(Content)
        BY <2>2, <3>1 DEF Processed, Known
    <3>3. /\ ToSet(Append(processed[g], x)) = ToSet(processed[g]) \cup {x}
          /\ Append(processed[g], x) \in Seq(Content)
        BY <1>2, <3>2, AppendSet, AppendProperties
    <3>4. \A f : StartsWith(f, Top(a).functors) <=> f = g
        BY <2>2 DEF StartsWith
    <3> HIDE DEF g, x
    <3>5. Known'
        BY <3>1, <3>2, <3>3 DEF Known
    <3>6. \A f \in Functor : processed'[f] = IF f = g THEN Append(processed[g], x) ELSE processed[f]
        BY <3>1, <3>2 DEF Known
    <3>7. \A f \in Functor : \A c : c \in ToSet(processed'[f]) <=>
             c \in ToSet(processed[f]) \/ (f = g /\ x = c)
      <4> SUFFICES ASSUME NEW f \in Functor, NEW c
                   PROVE  c \in ToSet(processed'[f]) <=> c \in ToSet(processed[f]) \/ (f = g /\ x = c)
          OBVIOUS
      <4>1. CASE f = g
          BY <3>3, <3>6, <4>1
      <4>2. CASE f # g
          BY <3>6, <4>2
      <4> QED
          BY <4>1, <4>2
    <3>8. \A c : heap[Top(a).message].content = c <=> x = c
        BY DEF x
    <3>9. ASSUME NEW f \in Functor, NEW c
          PROVE  c \in ToSet(processed'[f]) <=>
                    \/ c \in ToSet(processed[f])
                    \/ StartsWith(f, Top(a).functors) /\ heap[Top(a).message].content = c
        BY <3>4, <3>7, <3>8
    <3> QED
        BY <3>5, <3>9
  <2> QED
      BY <2>1, <2>2
<1> QED
    BY <1>3 DEF Done

(* The innermost call of a becomes c, about the same message: what its     *)
(* dispatches and functors were, and are.                                  *)
Content0(a) == heap[Top(a).message].content

LEMMA TopIsHeld ==
    ASSUME Typed, NEW a \in Actor, NEW n, Has(stack[a], n), FromEnd(stack[a], n) = Top(a), NEW x
    PROVE  /\ Holds(a, n, x) <=> Content0(a) = x
           /\ CallAt(a, n) = Top(a)
           /\ \A f : Content0(a) = x /\ StartsWith(f, Top(a).functors) => Runs(f, x)
BY DEF Holds, CallAt, Content0, Runs

LEMMA OneMessageIf ==
    ASSUME OneMessage, NEW a \in Actor, NEW m, NEW D,
           \A b \in Actor : \A d : b # a \/ d \notin D => Alike(b, d),
           \A d : Has(stack[a], d) => CallAt(a, d).message = m,
           \A d \in D : Has(stack'[a], d) => CallAt(a, d)'.message = m
    PROVE  OneMessage'
<1>1. \A b \in Actor : \A d : b # a \/ d \notin D =>
         /\ Has(stack'[b], d) <=> Has(stack[b], d)
         /\ Has(stack[b], d) => CallAt(b, d)' = CallAt(b, d)
    BY DEF Alike, CallAt
<1>2. \A d : Has(stack'[a], d) => CallAt(a, d)'.message = m
    BY <1>1
<1>3. SUFFICES ASSUME NEW b \in Actor, NEW d, NEW e, Has(stack'[b], d), Has(stack'[b], e)
               PROVE  CallAt(b, d)'.message = CallAt(b, e)'.message
    BY DEF OneMessage
<1>4. CASE b = a
    BY <1>2, <1>3, <1>4
<1>5. CASE b # a
    BY <1>1, <1>3, <1>5 DEF OneMessage
<1> QED
    BY <1>4, <1>5

LEMMA AllAboutTop ==
    ASSUME OneMessage, NEW a \in Actor, NEW n, Has(stack[a], n), FromEnd(stack[a], n) = Top(a)
    PROVE  \A d : Has(stack[a], d) => CallAt(a, d).message = Top(a).message
BY DEF OneMessage, CallAt

LEMMA TopRoutes ==
    ASSUME Typed, HeapKept, OneMessage, NEW a \in Actor, stack[a] # <<>>,
           NEW c, c.message = Top(a).message,
           stack' = [stack EXCEPT ![a] = [stack[a] EXCEPT ![1] = c]]
    PROVE  /\ OneMessage'
           /\ \A s, x : InTodo(s, x) =>
                 InTodo(s, x)' \/ (Content0(a) = x /\ s \in ToSet(Top(a).todo))
           /\ \A s, x : Content0(a) = x /\ s \in ToSet(c.todo) => InTodo(s, x)'
           /\ \A f, x : InFunctors(f, x) =>
                 InFunctors(f, x)' \/ (Content0(a) = x /\ f \in ToSet(Top(a).functors))
           /\ \A f, x : Content0(a) = x /\ f \in ToSet(c.functors) => InFunctors(f, x)'
           /\ \A f, x : Runs(f, x)' =>
                 Runs(f, x) \/ (Content0(a) = x /\ StartsWith(f, c.functors))
           /\ \A f, x : Content0(a) = x /\ StartsWith(f, Top(a).functors) => Runs(f, x)
<1>1. PICK n \in Nat : BecomesAt(n, a, c)
    BY TopBecomes
<1> USE DEF BecomesAt
<1>2. CallAt(a, n)' = c /\ heap'[c.message].content = Content0(a)
  <2>1. Top(a).message \in Message
      BY TopCall DEF CallRecords
  <2> QED
      BY <1>1, <2>1 DEF CallAt, HeapKept, Content0
<1>3. OneMessage'
  <2>1. \A d : Has(stack[a], d) => CallAt(a, d).message = Top(a).message
      BY <1>1, AllAboutTop
  <2> DEFINE D == {n}
  <2> DEFINE m == Top(a).message
  <2>2. \A b \in Actor : \A d : b # a \/ d \notin D => Alike(b, d)
      BY <1>1
  <2>3. \A d \in D : Has(stack'[a], d) => CallAt(a, d)'.message = m
      BY <1>2
  <2> HIDE DEF D, m
  <2> QED
      BY <2>1, <2>2, <2>3, OneMessageIf DEF m
<1>4. ASSUME NEW x
      PROVE  /\ \A s : InTodo(s, x) =>
                   InTodo(s, x)' \/ (Content0(a) = x /\ s \in ToSet(Top(a).todo))
             /\ \A f : InFunctors(f, x) =>
                   InFunctors(f, x)' \/ (Content0(a) = x /\ f \in ToSet(Top(a).functors))
             /\ \A f : Runs(f, x)' =>
                   Runs(f, x) \/ (Content0(a) = x /\ StartsWith(f, c.functors))
  <2> DEFINE D == {n}
  <2>1. \A b \in Actor : \A d : b # a \/ d \notin D => Alike(b, d)
      BY <1>1
  <2> HIDE DEF D
  <2>2. /\ \A s : InTodo(s, x) =>
              InTodo(s, x)' \/ \E d \in D : Holds(a, d, x) /\ s \in ToSet(CallAt(a, d).todo)
        /\ \A f : InFunctors(f, x) =>
              \/ InFunctors(f, x)'
              \/ \E d \in D : Holds(a, d, x) /\ f \in ToSet(CallAt(a, d).functors)
        /\ \A f : Runs(f, x)' =>
              \/ Runs(f, x)
              \/ \E d \in D : Holds(a, d, x)' /\ StartsWith(f, CallAt(a, d)'.functors)
      BY <2>1, StillOnTheWay
  <2>3. (Holds(a, n, x) <=> Content0(a) = x) /\ CallAt(a, n) = Top(a)
      BY <1>1, TopIsHeld
  <2>4. Holds(a, n, x)' <=> Content0(a) = x
      BY <1>1, <1>2 DEF Holds
  <2> QED
      BY <1>2, <2>2, <2>3, <2>4 DEF D
<1>5. ASSUME NEW x, Content0(a) = x
      PROVE  /\ \A s : s \in ToSet(c.todo) => InTodo(s, x)'
             /\ \A f : f \in ToSet(c.functors) => InFunctors(f, x)'
             /\ \A f : StartsWith(f, Top(a).functors) => Runs(f, x)
  <2>1. Holds(a, n, x)'
      BY <1>1, <1>2, <1>5 DEF Holds
  <2>2. \A f : StartsWith(f, Top(a).functors) => Runs(f, x)
      BY <1>1, <1>5, TopIsHeld
  <2> QED
      BY <1>2, <2>1, <2>2 DEF InTodo, InFunctors
<1> QED
    BY <1>3, <1>4, <1>5

LEMMA ScriptStill == ASSUME AsScripted, script' = script PROVE AsScripted'
BY DEF AsScripted

LEMMA ArriveRetain ==
    ASSUME AInv, NEW a \in Actor, Retain(a)
    PROVE  AInv'
<1> DEFINE c == [Top(a) EXCEPT !.carrying = TRUE]
<1>1. /\ Typed /\ OneMessage /\ AsScripted /\ Known /\ AllArrive
      /\ stack[a] # <<>> /\ heap' = AddRef(Top(a).message) /\ queue' = queue
      /\ UNCHANGED <<script, processed, thrown>>
    BY DEF AInv, Retain, Running, historyVars
<1>2. Top(a) \in CallRecords /\ Top(a).message \in Message /\ Top(a) = stack[a][1]
    BY <1>1, TopCall DEF CallRecords
<1>3. HeapKept /\ Typed'
    BY <1>1, <1>2, Added, TypedRetain
<1>4. /\ c.message = Top(a).message /\ c.todo = Top(a).todo /\ c.functors = Top(a).functors
      /\ stack' = [stack EXCEPT ![a] = [stack[a] EXCEPT ![1] = c]]
    BY <1>2 DEF Retain, CallRecords
<1> HIDE DEF c
<1>5. /\ OneMessage'
      /\ \A s, x : InTodo(s, x) => InTodo(s, x)'
      /\ \A f, x : InFunctors(f, x) => InFunctors(f, x)'
      /\ \A f, x : Runs(f, x)' => Runs(f, x)
    BY <1>1, <1>3, <1>4, TopRoutes
<1>6. \A s \in Stage : \A x : Queued(s, x) => Queued(s, x)'
    BY <1>1, <1>3, QueuedStill
<1>7. /\ \A s, x : Sent(s, x)' => Sent(s, x)
      /\ \A f, x : Done(f, x) => Done(f, x)'
      /\ \A f : ToSet(processed'[f]) = ToSet(processed[f])
    BY <1>1, SentStill, DoneStill
<1>8. AllArrive'
    BY <1>1, <1>5, <1>6, <1>7, ArriveStep DEF Arrives
<1> QED
    BY <1>1, <1>3, <1>5, <1>8, ScriptStill DEF AInv, Known

LEMMA ArrivePush ==
    ASSUME AInv, NEW a \in Actor, NEW s \in Stage, Push(a, s)
    PROVE  AInv'
<1> DEFINE c == Dispatched(a)
<1>1. /\ Typed /\ OneMessage /\ AsScripted /\ Known /\ AllArrive /\ Pushing(a, s)
      /\ heap' = heap
      /\ queue' = [queue EXCEPT ![s] = Append(@, Top(a).message)]
      /\ UNCHANGED <<script, processed, thrown>>
    BY DEF AInv, Push, historyVars
<1>2. /\ stack[a] # <<>> /\ Top(a) \in CallRecords /\ Top(a).message \in Message
      /\ c.message = Top(a).message /\ Top(a).todo # <<>> /\ Head(Top(a).todo) = s
    BY <1>1, Carrying, TopCall DEF Pushing
<1>3. HeapKept /\ Typed'
    BY <1>1, NothingAllocated, TypedPush
<1>4. /\ c.todo = Tail(Top(a).todo) /\ c.functors = Top(a).functors
      /\ stack' = [stack EXCEPT ![a] = [stack[a] EXCEPT ![1] = c]]
    BY <1>2 DEF Push, CallRecords, Dispatched
<1> HIDE DEF c
<1>5. ToSet(Top(a).todo) = {s} \cup ToSet(c.todo)
    BY <1>2, <1>4, TailSet DEF CallRecords
<1>6. \A y \in Stage : \A x :
         (Queued(y, x) => Queued(y, x)') /\ (y = s /\ Content0(a) = x => Queued(y, x)')
    BY <1>1, <1>2, QueuedPush DEF Content0
<1>7. /\ OneMessage'
      /\ \A y, x : InTodo(y, x) =>
            InTodo(y, x)' \/ (Content0(a) = x /\ y \in ToSet(Top(a).todo))
      /\ \A y, x : Content0(a) = x /\ y \in ToSet(c.todo) => InTodo(y, x)'
      /\ \A f, x : InFunctors(f, x) => InFunctors(f, x)'
      /\ \A f, x : Runs(f, x)' => Runs(f, x)
    BY <1>1, <1>2, <1>3, <1>4, TopRoutes
<1>8. \A y \in Stage : \A x : InTodo(y, x) => Arrives(y, x)'
    BY <1>5, <1>6, <1>7 DEF Arrives
<1>9. /\ \A y, x : Sent(y, x)' => Sent(y, x)
      /\ \A f, x : Done(f, x) => Done(f, x)'
      /\ \A f : ToSet(processed'[f]) = ToSet(processed[f])
    BY <1>1, SentStill, DoneStill
<1>10. AllArrive'
    BY <1>1, <1>6, <1>7, <1>8, <1>9, ArriveStep DEF Arrives
<1> QED
    BY <1>1, <1>3, <1>7, <1>10, ScriptStill DEF AInv, Known

LEMMA ArriveNextFunctor ==
    ASSUME AInv, NEW a \in Actor, NextFunctor(a)
    PROVE  AInv'
<1> DEFINE c == Call(Top(a).message, Tail(Top(a).functors))
<1>1. /\ Typed /\ OneMessage /\ AsScripted /\ Known /\ AllArrive
      /\ stack[a] # <<>> /\ Top(a).todo = <<>> /\ Len(Top(a).functors) > 1
      /\ heap' = heap /\ queue' = queue /\ Processed(a)
      /\ UNCHANGED <<script, thrown>>
    BY DEF AInv, NextFunctor, Returns, Running
<1>2. /\ Top(a) \in CallRecords /\ Top(a) = stack[a][1] /\ Top(a).functors \in Seq(Functor)
      /\ Top(a).functors # <<>>
    BY <1>1, TopCall, EmptySeq DEF CallRecords
<1>3. HeapKept /\ Typed'
    BY <1>1, NothingAllocated, TypedNextFunctor
<1>4. /\ c.message = Top(a).message /\ c.functors = Tail(Top(a).functors)
      /\ c.todo = Dispatches[Head(Tail(Top(a).functors))]
      /\ stack' = [stack EXCEPT ![a] = [stack[a] EXCEPT ![1] = c]]
    BY <1>2 DEF NextFunctor, Call
<1> HIDE DEF c
<1>5. ToSet(Top(a).functors) = {Head(Top(a).functors)} \cup ToSet(c.functors)
    BY <1>2, <1>4, TailSet
<1>6. ToSet(Top(a).todo) = {}
    BY <1>1 DEF ToSet
<1>7. /\ OneMessage'
      /\ \A s, x : InTodo(s, x) => InTodo(s, x)'
      /\ \A s, x : Content0(a) = x /\ s \in ToSet(c.todo) => InTodo(s, x)'
      /\ \A f, x : InFunctors(f, x) =>
            InFunctors(f, x)' \/ (Content0(a) = x /\ f \in ToSet(Top(a).functors))
      /\ \A f, x : Content0(a) = x /\ f \in ToSet(c.functors) => InFunctors(f, x)'
      /\ \A f, x : Runs(f, x)' =>
            Runs(f, x) \/ (Content0(a) = x /\ StartsWith(f, c.functors))
      /\ \A f, x : Content0(a) = x /\ StartsWith(f, Top(a).functors) => Runs(f, x)
    BY <1>1, <1>3, <1>4, <1>6, TopRoutes
<1>8. \A f \in Functor : \A x : Runs(f, x)' =>
         Runs(f, x) \/ \A s \in ToSet(Dispatches[f]) : InTodo(s, x)'
    BY <1>4, <1>7 DEF StartsWith
<1>9. /\ Known'
      /\ \A f \in Functor : \A x : x \in ToSet(processed'[f]) <=>
            x \in ToSet(processed[f]) \/ (StartsWith(f, Top(a).functors) /\ Content0(a) = x)
      /\ \A f \in Functor : \A x : Done(f, x) => Done(f, x)'
      /\ \A f \in Functor : \A x :
            StartsWith(f, Top(a).functors) /\ Content0(a) = x => Done(f, x)'
    BY <1>1, TopIsDone DEF Content0
<1>10. \A f \in Functor : \A x : InFunctors(f, x) => InFunctors(f, x)' \/ Done(f, x)'
    BY <1>2, <1>5, <1>7, <1>9 DEF StartsWith
<1>11. \A f \in Functor : \A x : x \in ToSet(processed'[f]) =>
         x \in ToSet(processed[f]) \/ Runs(f, x)
    BY <1>7, <1>9
<1>12. \A s \in Stage : \A x : Queued(s, x) => Queued(s, x)'
    BY <1>1, <1>3, QueuedStill
<1>13. \A s, x : Sent(s, x)' => Sent(s, x)
    BY <1>1, SentStill
<1>14. AllArrive'
    BY <1>1, <1>7, <1>8, <1>9, <1>10, <1>11, <1>12, <1>13, ArriveStep DEF Arrives
<1> QED
    BY <1>1, <1>3, <1>7, <1>9, <1>14, ScriptStill DEF AInv

LEMMA OnlyOne ==
    ASSUME NEW S, NEW q \in Seq(S), Len(q) <= 1, NEW x \in ToSet(q)
    PROVE  StartsWith(x, q)
<1>1. Len(q) \in Nat /\ DOMAIN q = 1 .. Len(q)
    BY LenProperties
<1>2. PICK i \in 1 .. Len(q) : q[i] = x
    BY <1>1 DEF ToSet
<1>3. i = 1
    BY <1>1, <1>2
<1>4. q # <<>> /\ Head(q) = q[1]
    BY <1>1, <1>2, EmptySeq, HeadTailProperties
<1> QED
    BY <1>2, <1>3, <1>4 DEF StartsWith

LEMMA ArriveReturn ==
    ASSUME AInv, NEW a \in Actor, Return(a)
    PROVE  AInv'
<1>1. /\ Typed /\ OneMessage /\ AsScripted /\ Known /\ AllArrive
      /\ stack[a] # <<>> /\ Top(a).todo = <<>> /\ Len(Top(a).functors) <= 1
      /\ heap' = DropRef(Top(a).message) /\ queue' = queue /\ Processed(a)
      /\ stack' = [stack EXCEPT ![a] = Tail(stack[a])]
      /\ UNCHANGED <<script, thrown>>
    BY DEF AInv, Return, Returns, Running
<1>2. /\ Top(a) \in CallRecords /\ Top(a).functors \in Seq(Functor)
    BY <1>1, TopCall DEF CallRecords
<1>3. HeapKept /\ Typed'
    BY <1>1, TypedReturn
<1>4. PICK n \in Nat :
         /\ Has(stack[a], n) /\ FromEnd(stack[a], n) = Top(a) /\ ~Has(stack'[a], n)
         /\ \A b \in Actor : \A d : b # a \/ d # n => Alike(b, d)
    BY <1>1, TopGoes
<1> DEFINE D == {n}
<1>5. \A b \in Actor : \A d : b # a \/ d \notin D => Alike(b, d)
    BY <1>4
<1> HIDE DEF D
<1>6. OneMessage'
  <2> DEFINE m == Top(a).message
  <2>1. \A d : Has(stack[a], d) => CallAt(a, d).message = m
      BY <1>1, <1>4, AllAboutTop
  <2>2. \A d \in D : Has(stack'[a], d) => CallAt(a, d)'.message = m
      BY <1>4 DEF D
  <2> HIDE DEF m
  <2> QED
      BY <1>1, <1>5, <2>1, <2>2, OneMessageIf
<1>7. ASSUME NEW x
      PROVE  /\ \A s : InTodo(s, x) => InTodo(s, x)'
             /\ \A f : InFunctors(f, x) =>
                   InFunctors(f, x)' \/ (Content0(a) = x /\ f \in ToSet(Top(a).functors))
             /\ \A f : Runs(f, x)' => Runs(f, x)
             /\ \A f : Content0(a) = x /\ StartsWith(f, Top(a).functors) => Runs(f, x)
  <2>1. /\ \A s : InTodo(s, x) =>
              InTodo(s, x)' \/ \E d \in D : Holds(a, d, x) /\ s \in ToSet(CallAt(a, d).todo)
        /\ \A f : InFunctors(f, x) =>
              \/ InFunctors(f, x)'
              \/ \E d \in D : Holds(a, d, x) /\ f \in ToSet(CallAt(a, d).functors)
        /\ \A f : Runs(f, x)' =>
              \/ Runs(f, x)
              \/ \E d \in D : Holds(a, d, x)' /\ StartsWith(f, CallAt(a, d)'.functors)
      BY <1>1, <1>3, <1>5, StillOnTheWay
  <2>2. /\ Holds(a, n, x) <=> Content0(a) = x
        /\ CallAt(a, n) = Top(a)
        /\ \A f : Content0(a) = x /\ StartsWith(f, Top(a).functors) => Runs(f, x)
      BY <1>1, <1>4, TopIsHeld
  <2>3. ~Holds(a, n, x)'
      BY <1>4 DEF Holds
  <2>4. ToSet(Top(a).todo) = {}
      BY <1>1 DEF ToSet
  <2> QED
      BY <2>1, <2>2, <2>3, <2>4 DEF D
<1>8. /\ Known'
      /\ \A f \in Functor : \A x : x \in ToSet(processed'[f]) <=>
            x \in ToSet(processed[f]) \/ (StartsWith(f, Top(a).functors) /\ Content0(a) = x)
      /\ \A f \in Functor : \A x : Done(f, x) => Done(f, x)'
      /\ \A f \in Functor : \A x :
            StartsWith(f, Top(a).functors) /\ Content0(a) = x => Done(f, x)'
    BY <1>1, TopIsDone DEF Content0
<1>9. \A f \in Functor : \A x : InFunctors(f, x) => InFunctors(f, x)' \/ Done(f, x)'
    BY <1>1, <1>2, <1>7, <1>8, OnlyOne
<1>10. \A f \in Functor : \A x : x \in ToSet(processed'[f]) =>
         x \in ToSet(processed[f]) \/ Runs(f, x)
    BY <1>7, <1>8
<1>11. \A s \in Stage : \A x : Queued(s, x) => Queued(s, x)'
    BY <1>1, <1>3, QueuedStill
<1>12. \A s, x : Sent(s, x)' => Sent(s, x)
    BY <1>1, SentStill
<1>13. AllArrive'
    BY <1>1, <1>7, <1>8, <1>9, <1>10, <1>11, <1>12, ArriveStep DEF Arrives
<1> QED
    BY <1>1, <1>3, <1>6, <1>8, <1>13, ScriptStill DEF AInv

(* All the calls of a go.                                                  *)
LEMMA AllGo ==
    ASSUME Typed, NEW a \in Actor, stack' = [stack EXCEPT ![a] = <<>>]
    PROVE  /\ \A d : ~Has(stack'[a], d)
           /\ \A b \in Actor : \A d : b # a \/ d \notin 0 .. Len(stack[a]) - 1 => Alike(b, d)
<1>1. stack'[a] = <<>> /\ \A b \in Actor : \A d : b # a => Alike(b, d)
    BY OtherStacks
<1>2. \A d : ~Has(stack'[a], d)
    BY <1>1 DEF Has
<1>3. \A d : d \notin 0 .. Len(stack[a]) - 1 => ~Has(stack[a], d)
    BY DEF Has
<1> QED
    BY <1>1, <1>2, <1>3 DEF Alike

LEMMA ArriveThrow ==
    ASSUME AInv, NEW a \in Actor, Throw(a)
    PROVE  AInv'
<1>1. /\ Typed /\ OneMessage /\ AsScripted /\ Known /\ AllArrive
      /\ stack[a] # <<>> /\ queue' = queue
      /\ stack' = [stack EXCEPT ![a] = <<>>]
      /\ thrown' = thrown \cup {Content0(a)}
      /\ UNCHANGED <<script, processed>>
    BY DEF AInv, Throw, Running, Content0
<1>2. HeapKept /\ Typed'
    BY <1>1, TypedThrow
<1> DEFINE D == 0 .. Len(stack[a]) - 1
<1>3. /\ \A d : ~Has(stack'[a], d)
      /\ \A b \in Actor : \A d : b # a \/ d \notin D => Alike(b, d)
    BY <1>1, AllGo
<1> HIDE DEF D
<1>4. \A d : Has(stack[a], d) => CallAt(a, d).message = Top(a).message
    BY <1>1, DepthOfTop, AllAboutTop
<1>5. OneMessage'
  <2> DEFINE m == Top(a).message
  <2>1. \A d : Has(stack[a], d) => CallAt(a, d).message = m
      BY <1>4
  <2>2. \A d \in D : Has(stack'[a], d) => CallAt(a, d)'.message = m
      BY <1>3
  <2> HIDE DEF m
  <2> QED
      BY <1>1, <1>3, <2>1, <2>2, OneMessageIf
<1>6. \A d, x : Holds(a, d, x) => x \in thrown'
    BY <1>1, <1>4 DEF Holds, Content0
<1>7. ASSUME NEW x
      PROVE  /\ \A s : InTodo(s, x) => InTodo(s, x)' \/ x \in thrown'
             /\ \A f : InFunctors(f, x) => InFunctors(f, x)' \/ x \in thrown'
             /\ \A f : Runs(f, x)' => Runs(f, x)
  <2>1. /\ \A s : InTodo(s, x) =>
              InTodo(s, x)' \/ \E d \in D : Holds(a, d, x) /\ s \in ToSet(CallAt(a, d).todo)
        /\ \A f : InFunctors(f, x) =>
              \/ InFunctors(f, x)'
              \/ \E d \in D : Holds(a, d, x) /\ f \in ToSet(CallAt(a, d).functors)
        /\ \A f : Runs(f, x)' =>
              \/ Runs(f, x)
              \/ \E d \in D : Holds(a, d, x)' /\ StartsWith(f, CallAt(a, d)'.functors)
      BY <1>1, <1>2, <1>3, StillOnTheWay
  <2>2. \A d : ~Holds(a, d, x)'
      BY <1>3 DEF Holds
  <2> QED
      BY <1>6, <2>1, <2>2
<1>8. /\ \A f, x : Done(f, x) => Done(f, x)'
      /\ \A f, x : x \in thrown' => Done(f, x)'
      /\ \A f : ToSet(processed'[f]) = ToSet(processed[f])
    BY <1>1 DEF Done
<1>9. \A s \in Stage : \A x : Queued(s, x) => Queued(s, x)'
    BY <1>1, <1>2, QueuedStill
<1>10. \A s, x : Sent(s, x)' => Sent(s, x)
    BY <1>1, SentStill
<1>11. AllArrive'
    BY <1>1, <1>7, <1>8, <1>9, <1>10, ArriveStep DEF Arrives
<1> QED
    BY <1>1, <1>2, <1>5, <1>11, ScriptStill DEF AInv, Known

LEMMA ArrivePushThrough ==
    ASSUME AInv, NEW a \in Actor, NEW s \in Stage, PushThrough(a, s)
    PROVE  AInv'
<1> DEFINE inner == Call(Top(a).message, Functors[s])
<1> DEFINE c == Dispatched(a)
<1>1. /\ Typed /\ OneMessage /\ AsScripted /\ Known /\ AllArrive /\ Pushing(a, s)
      /\ heap' = heap /\ queue' = queue
      /\ stack' = [stack EXCEPT ![a] = <<inner, c>> \o Tail(stack[a])]
      /\ UNCHANGED <<script, processed, thrown>>
    BY DEF AInv, PushThrough, historyVars
<1>2. /\ stack[a] # <<>> /\ Top(a) \in CallRecords /\ Top(a).message \in Message
      /\ c \in CallRecords /\ c.message = Top(a).message
      /\ Top(a).todo # <<>> /\ Head(Top(a).todo) = s
    BY <1>1, Carrying, TopCall DEF Pushing
<1>3. HeapKept /\ Typed'
    BY <1>1, NothingAllocated, TypedPushThrough
<1>4. s \notin InputStages /\ Functors[s] = FunctorsBehind(s)
  <2>1. s \notin InputStages
      BY Positions, QueueAdaptersAssumption, LenProperties DEF PushThrough, InputStages, ToSet
  <2> QED
      BY <2>1 DEF FunctorsBehind
<1>5. /\ inner \in CallRecords /\ inner.message = Top(a).message
      /\ inner.functors = FunctorsBehind(s) /\ inner.todo = Dispatches[Head(FunctorsBehind(s))]
    BY <1>2, <1>4, FunctorsOfStage, NewCall DEF Call
<1>6. c.todo = Tail(Top(a).todo) /\ c.functors = Top(a).functors
    BY <1>2 DEF CallRecords, Dispatched
<1> HIDE DEF inner, c
<1>7. ToSet(Top(a).todo) = {s} \cup ToSet(c.todo)
    BY <1>2, <1>6, TailSet DEF CallRecords
<1>8. PICK n \in Nat : NestsAt(n, a, inner, c)
  <2> DEFINE calls == <<inner, c>> \o Tail(stack[a])
  <2>1. calls = <<inner, c>> \o Tail(stack[a]) /\ stack' = [stack EXCEPT ![a] = calls]
      BY <1>1
  <2> HIDE DEF calls
  <2> QED
      BY <1>1, <1>2, <1>5, <2>1, TopNests
<1> USE DEF NestsAt
<1>9. CallAt(a, n)' = c /\ CallAt(a, n + 1)' = inner
    BY <1>8 DEF CallAt
<1> DEFINE D == {n, n + 1}
<1>10. \A b \in Actor : \A d : b # a \/ d \notin D => Alike(b, d)
    BY <1>8
<1> HIDE DEF D
<1>11. OneMessage'
  <2> DEFINE m == Top(a).message
  <2>1. \A d : Has(stack[a], d) => CallAt(a, d).message = m
      BY <1>1, <1>8, AllAboutTop
  <2>2. \A d \in D : Has(stack'[a], d) => CallAt(a, d)'.message = m
      BY <1>2, <1>5, <1>9 DEF D
  <2> HIDE DEF m
  <2> QED
      BY <1>1, <1>10, <2>1, <2>2, OneMessageIf
<1>12. ASSUME NEW x
      PROVE  /\ \A y : InTodo(y, x) =>
                   InTodo(y, x)' \/ (Content0(a) = x /\ y \in ToSet(Top(a).todo))
             /\ \A f : InFunctors(f, x) =>
                   InFunctors(f, x)' \/ (Content0(a) = x /\ f \in ToSet(c.functors))
             /\ \A f : Runs(f, x)' =>
                   \/ Runs(f, x)
                   \/ Content0(a) = x /\ StartsWith(f, c.functors)
                   \/ Content0(a) = x /\ StartsWith(f, inner.functors)
             /\ \A f : Content0(a) = x /\ StartsWith(f, c.functors) => Runs(f, x)
  <2>1. /\ \A y : InTodo(y, x) =>
              InTodo(y, x)' \/ \E d \in D : Holds(a, d, x) /\ y \in ToSet(CallAt(a, d).todo)
        /\ \A f : InFunctors(f, x) =>
              \/ InFunctors(f, x)'
              \/ \E d \in D : Holds(a, d, x) /\ f \in ToSet(CallAt(a, d).functors)
        /\ \A f : Runs(f, x)' =>
              \/ Runs(f, x)
              \/ \E d \in D : Holds(a, d, x)' /\ StartsWith(f, CallAt(a, d)'.functors)
      BY <1>1, <1>3, <1>10, StillOnTheWay
  <2>2. /\ Holds(a, n, x) <=> Content0(a) = x
        /\ CallAt(a, n) = Top(a)
        /\ \A f : Content0(a) = x /\ StartsWith(f, Top(a).functors) => Runs(f, x)
      BY <1>1, <1>8, TopIsHeld
  <2>3. ~Holds(a, n + 1, x)
      BY <1>8 DEF Holds
  <2>4. Holds(a, n, x)' \/ Holds(a, n + 1, x)' => Content0(a) = x
      BY <1>1, <1>2, <1>5, <1>9 DEF Holds, Content0
  <2>5. \A d \in D : d = n \/ d = n + 1
      BY DEF D
  <2> QED
      BY <1>6, <1>9, <2>1, <2>2, <2>3, <2>4, <2>5
<1>13. ASSUME NEW x, Content0(a) = x
       PROVE  /\ \A y : y \in ToSet(c.todo) \/ y \in ToSet(inner.todo) => InTodo(y, x)'
              /\ \A f : f \in ToSet(c.functors) \/ f \in ToSet(inner.functors) =>
                    InFunctors(f, x)'
  <2>1. Holds(a, n, x)' /\ Holds(a, n + 1, x)'
      BY <1>1, <1>2, <1>5, <1>8, <1>9, <1>13 DEF Holds, Content0
  <2> QED
      BY <1>9, <2>1 DEF InTodo, InFunctors
<1>14. \A y \in Stage : \A x : InTodo(y, x) => Arrives(y, x)'
  <2>1. \A f \in Handlers(s) : f \in ToSet(inner.functors)
      BY <1>5 DEF Handlers
  <2>2. \A x : Content0(a) = x => Arrives(s, x)'
      BY <1>13, <2>1 DEF Arrives
  <2>3. SUFFICES ASSUME NEW y \in Stage, NEW x, InTodo(y, x) PROVE Arrives(y, x)'
      OBVIOUS
  <2>4. CASE InTodo(y, x)'
      BY <2>4 DEF Arrives
  <2>5. CASE Content0(a) = x /\ y = s
      BY <2>2, <2>5
  <2>6. CASE Content0(a) = x /\ y \in ToSet(c.todo)
      BY <1>13, <2>6 DEF Arrives
  <2> QED
      BY <1>7, <1>12, <2>3, <2>4, <2>5, <2>6
<1>15. \A f \in Functor : \A x : InFunctors(f, x) => InFunctors(f, x)'
    BY <1>12, <1>13
<1>16. \A f \in Functor : \A x : Runs(f, x)' =>
         Runs(f, x) \/ \A y \in ToSet(Dispatches[f]) : InTodo(y, x)'
  <2> SUFFICES ASSUME NEW f \in Functor, NEW x, Content0(a) = x, StartsWith(f, inner.functors)
               PROVE  \A y \in ToSet(Dispatches[f]) : InTodo(y, x)'
      BY <1>12
  <2>1. inner.todo = Dispatches[f]
      BY <1>5 DEF StartsWith
  <2> QED
      BY <1>13, <2>1
<1>17. \A y \in Stage : \A x : Queued(y, x) => Queued(y, x)'
    BY <1>1, <1>3, QueuedStill
<1>18. /\ \A y, x : Sent(y, x)' => Sent(y, x)
       /\ \A f, x : Done(f, x) => Done(f, x)'
       /\ \A f : ToSet(processed'[f]) = ToSet(processed[f])
    BY <1>1, SentStill, DoneStill
<1>19. AllArrive'
    BY <1>1, <1>14, <1>15, <1>16, <1>17, <1>18, ArriveStep DEF Arrives
<1> QED
    BY <1>1, <1>3, <1>11, <1>19, ScriptStill DEF AInv, Known

LEMMA ArriveTake ==
    ASSUME AInv, Typed', HeapKept, NEW w \in Actor, NEW x \in Stage,
           stack[w] = <<>>, queue[x] # <<>>, heap' = heap,
           stack' = [stack EXCEPT ![w] = <<Call(Head(queue[x]), FunctorsBehind(x))>>],
           queue' = [queue EXCEPT ![x] = Tail(@)],
           UNCHANGED <<script, processed, thrown>>
    PROVE  AInv'
<1> DEFINE m == Head(queue[x])
<1> DEFINE c == Call(m, FunctorsBehind(x))
<1>1. Typed /\ OneMessage /\ AsScripted /\ Known /\ AllArrive
    BY DEF AInv
<1>2. /\ c.message = m /\ c.functors = FunctorsBehind(x)
      /\ c.todo = Dispatches[Head(FunctorsBehind(x))]
      /\ stack' = [stack EXCEPT ![w] = <<c>>]
    BY DEF Call
<1> HIDE DEF c
<1>3. /\ \A d : ~Has(stack[w], d)
      /\ Has(stack'[w], 0) /\ FromEnd(stack'[w], 0) = c
      /\ \A b \in Actor : \A d : b # w \/ d # 0 => Alike(b, d)
    BY <1>1, <1>2, FirstComes
<1>4. CallAt(w, 0)' = c
    BY <1>3 DEF CallAt
<1> DEFINE D == {0}
<1>5. \A b \in Actor : \A d : b # w \/ d \notin D => Alike(b, d)
    BY <1>3
<1> HIDE DEF D, m
<1>6. OneMessage'
  <2>1. /\ \A d : Has(stack[w], d) => CallAt(w, d).message = m
        /\ \A d \in D : Has(stack'[w], d) => CallAt(w, d)'.message = m
      BY <1>2, <1>3, <1>4 DEF D
  <2> QED
      BY <1>1, <1>5, <2>1, OneMessageIf
<1>7. ASSUME NEW z
      PROVE  /\ \A y : InTodo(y, z) => InTodo(y, z)'
             /\ \A f : InFunctors(f, z) => InFunctors(f, z)'
             /\ \A f : Runs(f, z)' =>
                   Runs(f, z) \/ (heap[m].content = z /\ StartsWith(f, c.functors))
  <2>1. /\ \A y : InTodo(y, z) =>
              InTodo(y, z)' \/ \E d \in D : Holds(w, d, z) /\ y \in ToSet(CallAt(w, d).todo)
        /\ \A f : InFunctors(f, z) =>
              \/ InFunctors(f, z)'
              \/ \E d \in D : Holds(w, d, z) /\ f \in ToSet(CallAt(w, d).functors)
        /\ \A f : Runs(f, z)' =>
              \/ Runs(f, z)
              \/ \E d \in D : Holds(w, d, z)' /\ StartsWith(f, CallAt(w, d)'.functors)
      BY <1>1, <1>5, StillOnTheWay
  <2>2. \A d : ~Holds(w, d, z)
      BY <1>3 DEF Holds
  <2>3. Holds(w, 0, z)' => heap[m].content = z
      BY <1>2, <1>4 DEF Holds
  <2> QED
      BY <1>4, <2>1, <2>2, <2>3 DEF D
<1>8. ASSUME NEW z, heap[m].content = z
      PROVE  /\ \A y : y \in ToSet(c.todo) => InTodo(y, z)'
             /\ \A f : f \in ToSet(c.functors) => InFunctors(f, z)'
  <2>1. Holds(w, 0, z)'
      BY <1>2, <1>3, <1>4, <1>8 DEF Holds
  <2> QED
      BY <1>4, <2>1 DEF InTodo, InFunctors
<1>9. \A y \in Stage : \A z : Queued(y, z) => Arrives(y, z)'
  <2> SUFFICES ASSUME NEW y \in Stage, NEW z, Queued(y, z) PROVE Arrives(y, z)'
      OBVIOUS
  <2>1. Queued(y, z)' \/ (y = x /\ heap[m].content = z)
      BY <1>1, QueuedTake DEF m
  <2>2. CASE y = x /\ heap[m].content = z
      BY <1>2, <1>8, <2>2 DEF Arrives, Handlers
  <2> QED
      BY <2>1, <2>2 DEF Arrives
<1>10. \A f \in Functor : \A z : Runs(f, z)' =>
         Runs(f, z) \/ \A y \in ToSet(Dispatches[f]) : InTodo(y, z)'
  <2> SUFFICES ASSUME NEW f \in Functor, NEW z, heap[m].content = z, StartsWith(f, c.functors)
               PROVE  \A y \in ToSet(Dispatches[f]) : InTodo(y, z)'
      BY <1>7
  <2>1. c.todo = Dispatches[f]
      BY <1>2 DEF StartsWith
  <2> QED
      BY <1>8, <2>1
<1>11. /\ \A y, z : Sent(y, z)' => Sent(y, z)
       /\ \A f, z : Done(f, z) => Done(f, z)'
       /\ \A f : ToSet(processed'[f]) = ToSet(processed[f])
    BY SentStill, DoneStill
<1>12. AllArrive'
    BY <1>1, <1>7, <1>9, <1>10, <1>11, ArriveStep DEF Arrives
<1> QED
    BY <1>1, <1>6, <1>12, ScriptStill DEF AInv, Known

LEMMA ArrivePop ==
    ASSUME AInv, NEW w \in Workers,
           (\E s \in Stage \ InputStages : TryPop(w, s)) \/ PollMessage(w)
    PROVE  AInv'
<1>1. Typed /\ Typed' /\ HeapKept /\ w \in Actor
    BY TypedPop DEF AInv, Actor
<1>2. CASE PollMessage(w)
  <2> DEFINE x == Inputs[which]
  <2>1. x \in Stage /\ x \in InputStages
      BY <1>1, Positions DEF Typed
  <2>2. /\ queue[x] # <<>> /\ Take(w, x) /\ heap' = heap /\ stack[w] = <<>> /\ at[w] = Adapter
        /\ UNCHANGED <<script, processed, thrown>>
      BY <1>2 DEF PollMessage, Polls, historyVars
  <2> HIDE DEF x
  <2>3. Functors[at[w]] = FunctorsBehind(x)
      BY <2>1, <2>2 DEF FunctorsBehind
  <2> QED
      BY <1>1, <2>1, <2>2, <2>3, ArriveTake DEF Take
<1>3. ASSUME NEW s \in Stage \ InputStages, TryPop(w, s)
      PROVE  AInv'
  <2>1. /\ queue[s] # <<>> /\ Take(w, s) /\ heap' = heap /\ stack[w] = <<>> /\ at[w] = s
        /\ UNCHANGED <<script, processed, thrown>>
      BY <1>3 DEF TryPop, Polls, historyVars
  <2>2. Functors[at[w]] = FunctorsBehind(s)
      BY <2>1 DEF FunctorsBehind
  <2> QED
      BY <1>1, <2>1, <2>2, ArriveTake DEF Take
<1> QED
    BY <1>2, <1>3

LEMMA ScriptShrinks ==
    ASSUME Typed, AsScripted, NEW p \in Producers, script[p] # <<>>,
           script' = [script EXCEPT ![p] = Tail(@)]
    PROVE  /\ AsScripted'
           /\ \A s, c : Sent(s, c)' =>
                 Sent(s, c) \/ (Head(script[p]).content = c /\ Head(script[p]).to = s)
<1> DEFINE q == script[p]
<1> DEFINE r == Tail(q)
<1>1. q \in Seq([content : Content, to : Stage \ {Adapter}])
    BY DEF Typed
<1>2. PICK n \in Nat :
        /\ Has(q, n) /\ FromEnd(q, n) = q[1] /\ Head(q) = q[1]
        /\ \A e : /\ Has(r, e) <=> Has(q, e) /\ e # n
                  /\ Has(r, e) => FromEnd(r, e) = FromEnd(q, e)
    BY <1>1, EndTail
<1>3. \A o \in Producers : script'[o] = IF o = p THEN r ELSE script[o]
    BY DEF Typed
<1> HIDE DEF r
<1>4. AsScripted'
  <2> SUFFICES ASSUME NEW o \in Producers, NEW e, Has(script'[o], e)
               PROVE  Has(Script[o], e) /\ FromEnd(script'[o], e) = FromEnd(Script[o], e)
      BY DEF AsScripted
  <2>1. Has(script[o], e) /\ FromEnd(script'[o], e) = FromEnd(script[o], e)
      BY <1>2, <1>3
  <2> QED
      BY <2>1 DEF AsScripted
<1>5. ASSUME NEW s, NEW c, Sent(s, c)'
      PROVE  Sent(s, c) \/ (Head(script[p]).content = c /\ Head(script[p]).to = s)
  <2>1. PICK o \in Producers : \E e :
           /\ Has(Script[o], e) /\ ~Has(script'[o], e)
           /\ FromEnd(Script[o], e).content = c /\ FromEnd(Script[o], e).to = s
      BY <1>5 DEF Sent
  <2>2. PICK e :
           /\ Has(Script[o], e) /\ ~Has(script'[o], e)
           /\ FromEnd(Script[o], e).content = c /\ FromEnd(Script[o], e).to = s
      BY <2>1
  <2>3. CASE ~Has(script[o], e)
      BY <2>2, <2>3 DEF Sent
  <2>4. CASE Has(script[o], e)
    <3>1. o = p /\ e = n
        BY <1>2, <1>3, <2>2, <2>4
    <3>2. FromEnd(Script[p], n) = Head(script[p])
        BY <1>2, <2>4, <3>1 DEF AsScripted
    <3> QED
        BY <2>2, <3>1, <3>2
  <2> QED
      BY <2>3, <2>4
<1> QED
    BY <1>4, <1>5

LEMMA ArriveCreate ==
    ASSUME AInv, NEW p \in Producers, Create(p)
    PROVE  AInv'
<1> DEFINE item == Head(script[p])
<1> DEFINE m == Len(heap) + 1
<1> DEFINE c == [message |-> m, functors |-> <<>>, todo |-> <<item.to>>, carrying |-> FALSE]
<1>1. /\ Typed /\ OneMessage /\ AsScripted /\ Known /\ AllArrive /\ p \in Actor
      /\ stack[p] = <<>> /\ script[p] # <<>> /\ queue' = queue
      /\ heap' = Append(heap, [content |-> item.content, refs |-> 1, live |-> TRUE])
      /\ script' = [script EXCEPT ![p] = Tail(@)]
      /\ UNCHANGED <<processed, thrown>>
    BY DEF AInv, Create, Actor
<1>2. Typed' /\ HeapKept
    BY <1>1, TypedCreate
<1>3. heap'[m].content = item.content
    BY <1>1 DEF Typed
<1>4. c.message = m /\ c.functors = <<>> /\ c.todo = <<item.to>> /\ stack' = [stack EXCEPT ![p] = <<c>>]
    BY DEF Create
<1>5. /\ AsScripted'
      /\ \A s, x : Sent(s, x)' => Sent(s, x) \/ (item.content = x /\ item.to = s)
    BY <1>1, ScriptShrinks
<1> HIDE DEF c, m, item
<1>6. /\ \A d : ~Has(stack[p], d)
      /\ Has(stack'[p], 0) /\ FromEnd(stack'[p], 0) = c
      /\ \A b \in Actor : \A d : b # p \/ d # 0 => Alike(b, d)
    BY <1>1, <1>4, FirstComes
<1>7. CallAt(p, 0)' = c
    BY <1>6 DEF CallAt
<1> DEFINE D == {0}
<1>8. \A b \in Actor : \A d : b # p \/ d \notin D => Alike(b, d)
    BY <1>6
<1> HIDE DEF D
<1>9. OneMessage'
  <2>1. /\ \A d : Has(stack[p], d) => CallAt(p, d).message = m
        /\ \A d \in D : Has(stack'[p], d) => CallAt(p, d)'.message = m
      BY <1>4, <1>6, <1>7 DEF D
  <2> QED
      BY <1>1, <1>8, <2>1, OneMessageIf
<1>10. ASSUME NEW z
       PROVE  /\ \A y : InTodo(y, z) => InTodo(y, z)'
              /\ \A f : InFunctors(f, z) => InFunctors(f, z)'
              /\ \A f : Runs(f, z)' => Runs(f, z)
  <2>1. /\ \A y : InTodo(y, z) =>
              InTodo(y, z)' \/ \E d \in D : Holds(p, d, z) /\ y \in ToSet(CallAt(p, d).todo)
        /\ \A f : InFunctors(f, z) =>
              \/ InFunctors(f, z)'
              \/ \E d \in D : Holds(p, d, z) /\ f \in ToSet(CallAt(p, d).functors)
        /\ \A f : Runs(f, z)' =>
              \/ Runs(f, z)
              \/ \E d \in D : Holds(p, d, z)' /\ StartsWith(f, CallAt(p, d)'.functors)
      BY <1>1, <1>2, <1>8, StillOnTheWay
  <2>2. \A d : ~Holds(p, d, z)
      BY <1>6 DEF Holds
  <2> QED
      BY <1>4, <1>7, <2>1, <2>2 DEF D, StartsWith
<1>11. ASSUME NEW s, NEW x, item.content = x, item.to = s
       PROVE  InTodo(s, x)'
  <2>1. Holds(p, 0, x)'
      BY <1>3, <1>4, <1>6, <1>7, <1>11 DEF Holds
  <2>2. s \in ToSet(c.todo)
      BY <1>4, <1>11 DEF ToSet
  <2> QED
      BY <1>1, <1>7, <2>1, <2>2 DEF InTodo
<1>12. \A s, x : Sent(s, x)' => Sent(s, x) \/ Arrives(s, x)'
    BY <1>5, <1>11 DEF Arrives
<1>13. \A s \in Stage : \A x : Queued(s, x) => Queued(s, x)'
    BY <1>1, <1>2, QueuedStill
<1>14. /\ \A f, x : Done(f, x) => Done(f, x)'
       /\ \A f : ToSet(processed'[f]) = ToSet(processed[f])
    BY <1>1, DoneStill
<1>15. AllArrive'
    BY <1>1, <1>10, <1>12, <1>13, <1>14, ArriveStep DEF Arrives
<1> QED
    BY <1>1, <1>2, <1>5, <1>9, <1>15 DEF AInv, Known

LEMMA ArriveAside ==
    ASSUME AInv, Typed', UNCHANGED <<queue, heap, stack, script, processed, thrown>>
    PROVE  AInv'
BY DEF AInv, Known, OneMessage, AsScripted, AllArrive, Due, Sent, Runs, Arrives, Queued, InTodo,
       InFunctors, Done, Holds, CallAt

LEMMA ArriveInit == Init => AInv
<1> SUFFICES ASSUME Init PROVE AInv
    OBVIOUS
<1>1. Typed
    BY TypedInit
<1>2. Known
    BY DEF Init, Known
<1>3. \A a \in Actor : \A d : ~Has(stack[a], d)
    BY DEF Init, Has
<1>4. OneMessage
    BY <1>3 DEF OneMessage
<1>5. AsScripted
    BY DEF AsScripted, Init
<1>6. \A s, c : ~Sent(s, c)
    BY DEF Sent, Init
<1>7. \A f, c : ~Runs(f, c)
    BY <1>3 DEF Runs, Holds
<1>8. \A f \in Functor : \A c : c \notin ToSet(processed[f])
    BY DEF Init, ToSet
<1>9. AllArrive
    BY <1>6, <1>7, <1>8 DEF AllArrive, Due
<1> QED
    BY <1>1, <1>2, <1>4, <1>5, <1>9 DEF AInv

LEMMA ArriveNext == ASSUME AInv, [Next]_vars PROVE AInv'
<1>1. Typed /\ Typed'
    BY TypedNext DEF AInv
<1>2. CASE UNCHANGED vars
    BY <1>1, <1>2, ArriveAside DEF vars
<1>3. CASE \E p \in Producers : Create(p)
    BY <1>3, ArriveCreate
<1>4. ASSUME NEW w \in Workers,
             \/ \E s \in Stage \ InputStages : Enter(w, s) \/ TryPopEmpty(w, s)
             \/ SearchBegins(w) \/ PollEmpty(w) \/ SearchFails(w)
      PROVE  AInv'
  <2>1. UNCHANGED <<queue, heap, stack, script, processed, thrown>>
      BY <1>4 DEF Enter, TryPopEmpty, SearchBegins, PollEmpty, SearchFails, historyVars
  <2> QED
      BY <1>1, <2>1, ArriveAside
<1>5. ASSUME NEW w \in Workers,
             (\E s \in Stage \ InputStages : TryPop(w, s)) \/ PollMessage(w)
      PROVE  AInv'
    BY <1>5, ArrivePop
<1>6. ASSUME NEW a \in Actor,
             \/ Retain(a) \/ NextFunctor(a) \/ Return(a) \/ Throw(a)
             \/ \E s \in Stage : Push(a, s) \/ PushThrough(a, s)
      PROVE  AInv'
    BY <1>6, ArriveRetain, ArriveNextFunctor, ArriveReturn, ArriveThrow, ArrivePush,
       ArrivePushThrough
<1> QED
    BY <1>2, <1>3, <1>4, <1>5, <1>6 DEF Next

LEMMA RestMeansReached ==
    ASSUME AInv, AtRest, NEW s \in Stage, NEW c, Due(s, c)
    PROVE  Reached(c, s)
<1>1. Arrives(s, c)
    BY DEF AInv, AllArrive
<1>2. \A a \in Actor : \A d : ~Holds(a, d, c)
    BY DEF AtRest, Holds, Has
<1>3. ~Queued(s, c)
    BY DEF AtRest, Queued, Has
<1>4. \A f \in Handlers(s) : Done(f, c)
    BY <1>1, <1>2, <1>3 DEF Arrives, InTodo, InFunctors
<1> QED
    BY <1>4 DEF Reached, Done

LEMMA NoneLost == ASSUME AInv PROVE NothingLost
<1> SUFFICES ASSUME AtRest
             PROVE  /\ \A p \in Producers : \A i \in DOMAIN Script[p] :
                          Reached(Script[p][i].content, Script[p][i].to)
                    /\ \A f \in Functor : \A c \in ToSet(processed[f]), s \in ToSet(Dispatches[f]) :
                          Reached(c, s)
    BY DEF NothingLost
<1>1. ASSUME NEW p \in Producers, NEW i \in DOMAIN Script[p]
      PROVE  Reached(Script[p][i].content, Script[p][i].to)
  <2>1. Script[p] \in Seq([content : Content, to : Stage \ {Adapter}])
      BY QueueAdaptersAssumption
  <2>2. Has(Script[p], Len(Script[p]) - i) /\ FromEnd(Script[p], Len(Script[p]) - i) = Script[p][i]
      BY <1>1, <2>1, EndOf
  <2>3. ~Has(script[p], Len(Script[p]) - i)
      BY DEF AtRest, Has
  <2>4. Script[p][i].to \in Stage
    <3>1. Script[p][i] \in [content : Content, to : Stage \ {Adapter}]
      <4>1. i \in 1 .. Len(Script[p])
          BY <1>1, <2>1, LenProperties
      <4> QED
          BY <2>1, <4>1, ElementOfSeq
    <3> QED
        BY <3>1
  <2>5. Due(Script[p][i].to, Script[p][i].content)
      BY <2>2, <2>3 DEF Due, Sent
  <2> QED
      BY <2>4, <2>5, RestMeansReached
<1>2. ASSUME NEW f \in Functor, NEW c \in ToSet(processed[f]), NEW s \in ToSet(Dispatches[f])
      PROVE  Reached(c, s)
  <2>1. s \in Stage
    <3>1. Dispatches[f] \in Seq(Stage \ {Adapter})
        BY QueueAdaptersAssumption
    <3>2. PICK i \in DOMAIN Dispatches[f] : Dispatches[f][i] = s
        BY <1>2 DEF ToSet
    <3> QED
        BY <3>1, <3>2, ElementOfSeq, LenProperties
  <2>2. Due(s, c)
      BY <1>2 DEF Due
  <2> QED
      BY <2>1, <2>2, RestMeansReached
<1> QED
    BY <1>1, <1>2

(* At rest, every functor behind every dispatch has handled the message,   *)
(* whatever the application: push and the search of the adapter hand a     *)
(* message on to a queue, to the functors of a stage or to the next of     *)
(* them, and lose it to an exception only.                                 *)
THEOREM AllHandled == Spec => []NothingLost
BY ArriveInit, ArriveNext, NoneLost, PTL DEF Spec

-----------------------------------------------------------------------------
(* Where content c is on one of the ways to functor f, or there: spot e,   *)
(* of thread x at depth d, of the script or queue x.  A call that runs a   *)
(* functor is on the way by the dispatches left, and at f until it returns.*)

CallSpot(V, f, call, k, e) ==
    \/ k = "todo" /\ Has(call.todo, e) /\ FromEnd(call.todo, e) \in V
    \/ /\ k = "next" /\ Has(call.functors, e)
       /\ IF e + 1 = Len(call.functors)
          THEN FromEnd(call.functors, e) = f
          ELSE Leads(V, f, FromEnd(call.functors, e))

ScriptSpot(V, c, p, e) ==
    /\ p \in Producers /\ Has(script[p], e)
    /\ FromEnd(script[p], e).content = c /\ FromEnd(script[p], e).to \in V
QueueSpot(V, c, s, e) == s \in V /\ Has(queue[s], e) /\ heap[FromEnd(queue[s], e)].content = c
StackSpot(V, f, c, k, a, d, e) ==
    a \in Actor /\ Holds(a, d, c) /\ CallSpot(V, f, CallAt(a, d), k, e)
DoneSpot(f, c, e) == e \in DOMAIN processed[f] /\ processed[f][e] = c

Spot(V, f, c, k, x, d, e) ==
    \/ k = "script" /\ d = 0 /\ ScriptSpot(V, c, x, e)
    \/ k = "queue" /\ d = 0 /\ QueueSpot(V, c, x, e)
    \/ StackSpot(V, f, c, k, x, d, e)
    \/ k = "done" /\ x = f /\ d = 0 /\ DoneSpot(f, c, e)

(* There is one at most, on the ways that are to be the only ones.         *)
Once(V, f, c) ==
    \A k, x, d, e, l, y, g, h :
        Spot(V, f, c, k, x, d, e) /\ Spot(V, f, c, l, y, g, h) =>
            k = l /\ x = y /\ d = g /\ e = h
AllOnce == \A f \in Functor : \A V \in SUBSET Stage : \A c : Way(V, f) => Once(V, f, c)

(* A spot that no change of its place explains was there before.           *)
LEMMA SpotStill ==
    ASSUME Typed, HeapKept, NEW V \in SUBSET Stage, NEW f, NEW c, NEW k, NEW x, NEW d, NEW e,
           Spot(V, f, c, k, x, d, e)',
           k = "script" => script' = script,
           k = "queue" => queue' = queue,
           k \in {"todo", "next"} => Alike(x, d),
           k = "done" => processed' = processed
    PROVE  Spot(V, f, c, k, x, d, e)
<1>1. /\ k \in {"script", "queue", "todo", "next", "done"}
      /\ k = "script" => d = 0 /\ ScriptSpot(V, c, x, e)'
      /\ k = "queue" => d = 0 /\ QueueSpot(V, c, x, e)'
      /\ k \in {"todo", "next"} => StackSpot(V, f, c, k, x, d, e)'
      /\ k = "done" => x = f /\ d = 0 /\ DoneSpot(f, c, e)'
    BY DEF Spot, StackSpot, CallSpot
<1>2. CASE k = "script"
    BY <1>1, <1>2 DEF Spot, ScriptSpot
<1>3. CASE k = "queue"
  <2>1. x \in Stage /\ Has(queue[x], e) /\ heap'[FromEnd(queue[x], e)].content = c /\ x \in V
      BY <1>1, <1>3 DEF QueueSpot
  <2>2. FromEnd(queue[x], e) \in Message
      BY <2>1, InQueue
  <2> QED
      BY <1>1, <1>3, <2>1, <2>2 DEF Spot, QueueSpot, HeapKept
<1>4. CASE k \in {"todo", "next"}
  <2>1. x \in Actor /\ Holds(x, d, c)' /\ CallSpot(V, f, CallAt(x, d), k, e)'
      BY <1>1, <1>4 DEF StackSpot
  <2>2. Holds(x, d, c) /\ CallAt(x, d)' = CallAt(x, d)
      BY <1>4, <2>1, HoldsStill
  <2>3. CallSpot(V, f, CallAt(x, d), k, e)
      BY <2>1, <2>2 DEF CallSpot
  <2> QED
      BY <2>1, <2>2, <2>3 DEF Spot, StackSpot
<1>5. CASE k = "done"
    BY <1>1, <1>5 DEF Spot, DoneSpot
<1> QED
    BY <1>1, <1>2, <1>3, <1>4, <1>5

LEMMA OnceFewer ==
    ASSUME NEW V, NEW f, NEW c, Once(V, f, c),
           \A k, x, d, e : Spot(V, f, c, k, x, d, e)' => Spot(V, f, c, k, x, d, e)
    PROVE  Once(V, f, c)'
BY DEF Once

(* The dispatches of a functor g: one at most leads to f.                  *)
LEMMA DispatchSpot ==
    ASSUME NEW f \in Functor, NEW V \in SUBSET Stage, Way(V, f), NEW g \in Functor,
           NEW e, Has(Dispatches[g], e), FromEnd(Dispatches[g], e) \in V
    PROVE  /\ g # f /\ Leads(V, f, g)
           /\ \A h : Has(Dispatches[g], h) /\ FromEnd(Dispatches[g], h) \in V => h = e
<1> DEFINE q == Dispatches[g]
<1>1. q \in Seq(Stage \ {Adapter})
    BY QueueAdaptersAssumption
<1>2. /\ Len(q) \in Nat
      /\ \A h : Has(q, h) => Len(q) - h \in DOMAIN q /\ q[Len(q) - h] = FromEnd(q, h)
    BY <1>1, EndOf DEF FromEnd
<1>3. \A i, j \in DOMAIN q : q[i] \in V /\ q[j] \in V => i = j /\ g # f
    BY DEF Way
<1>4. g # f /\ Leads(V, f, g)
    BY <1>2, <1>3 DEF Leads
<1>5. ASSUME NEW h, Has(q, h), FromEnd(q, h) \in V
      PROVE  h = e
  <2>1. Len(q) - h = Len(q) - e
      BY <1>2, <1>3, <1>5
  <2>2. h \in 0 .. Len(q) - 1 /\ e \in 0 .. Len(q) - 1
      BY <1>5 DEF Has
  <2> QED
      BY <1>2, <2>1, <2>2
<1> QED
    BY <1>4, <1>5

(* The functors behind a stage, of which one at most leads to f.           *)
LEMMA FreshSpots ==
    ASSUME NEW f \in Functor, NEW V \in SUBSET Stage, Way(V, f), NEW s \in Stage, NEW call,
           call.functors = FunctorsBehind(s), call.todo = Dispatches[Head(FunctorsBehind(s))],
           NEW k, NEW e, CallSpot(V, f, call, k, e)
    PROVE  /\ s \in V
           /\ \A l, h : CallSpot(V, f, call, l, h) => k = l /\ e = h
<1> DEFINE F == FunctorsBehind(s)
<1>1. F \in Seq(Functor) /\ F # <<>>
    BY HandlersAreFunctors
<1>2. PICK n \in Nat : Len(F) = n + 1 /\ Head(F) = F[1] /\ F[1] \in Functor
    BY <1>1, EndTail
<1>3. \A i, j \in 1 .. n + 1 : Leads(V, f, F[i]) => s \in V /\ (Leads(V, f, F[j]) => i = j)
  <2>1. DOMAIN F = 1 .. n + 1
      BY <1>1, <1>2, LenProperties
  <2> QED
      BY <2>1 DEF Way
<1>4. call.functors = F /\ call.todo = Dispatches[F[1]]
    BY <1>2
<1> HIDE DEF F
<1>5. ASSUME NEW h, CallSpot(V, f, call, "todo", h)
      PROVE  /\ Has(Dispatches[F[1]], h) /\ FromEnd(Dispatches[F[1]], h) \in V
             /\ Leads(V, f, F[1]) /\ F[1] # f
  <2>1. Has(Dispatches[F[1]], h) /\ FromEnd(Dispatches[F[1]], h) \in V
      BY <1>4, <1>5 DEF CallSpot
  <2> QED
      BY <1>2, <2>1, DispatchSpot
<1>6. ASSUME NEW h, CallSpot(V, f, call, "next", h)
      PROVE  /\ h \in Int /\ n + 1 - h \in 1 .. n + 1 /\ Leads(V, f, F[n + 1 - h])
             /\ n + 1 - h = 1 => F[1] = f
  <2>1. h \in 0 .. (n + 1) - 1
      BY <1>2, <1>4, <1>6 DEF CallSpot, Has
  <2>2. h \in Int /\ n + 1 - h \in 1 .. n + 1
      BY <2>1
  <2>3. FromEnd(F, h) = F[n + 1 - h]
    <3>1. FromEnd(F, h) = F[Len(F) - h]
        BY DEF FromEnd
    <3>2. Len(F) - h = n + 1 - h
        BY <1>2, <2>2
    <3> QED
        BY <3>1, <3>2
  <2>4. IF h + 1 = n + 1 THEN F[n + 1 - h] = f ELSE Leads(V, f, F[n + 1 - h])
      BY <1>2, <1>4, <1>6, <2>3 DEF CallSpot
  <2>5. Leads(V, f, F[n + 1 - h])
      BY <2>4 DEF Leads
  <2>6. ASSUME n + 1 - h = 1 PROVE F[1] = f
      BY <2>1, <2>4, <2>6
  <2> QED
      BY <2>2, <2>5, <2>6
<1>7. \A h, l : CallSpot(V, f, call, l, h) => l = "todo" \/ l = "next"
    BY DEF CallSpot
<1>8. s \in V
  <2>1. 1 \in 1 .. n + 1
      OBVIOUS
  <2> QED
      BY <1>3, <1>5, <1>6, <1>7, <2>1
<1>9. ASSUME NEW l, NEW h, CallSpot(V, f, call, l, h)
      PROVE  k = l /\ e = h
  <2>1. 1 \in 1 .. n + 1
      OBVIOUS
  <2>2. CASE k = "todo" /\ l = "todo"
    <3>1. CallSpot(V, f, call, "todo", e) /\ CallSpot(V, f, call, "todo", h)
        BY <1>9, <2>2
    <3> DEFINE g == F[1]
    <3>2. /\ Has(Dispatches[g], e) /\ FromEnd(Dispatches[g], e) \in V
          /\ Has(Dispatches[g], h) /\ FromEnd(Dispatches[g], h) \in V /\ g \in Functor
        BY <1>2, <1>5, <3>1
    <3> HIDE DEF g
    <3>3. e = h
      <4>1. \A i : Has(Dispatches[g], i) /\ FromEnd(Dispatches[g], i) \in V => i = e
          BY <3>2, DispatchSpot
      <4> QED
          BY <3>2, <4>1
    <3> QED
        BY <2>2, <3>3
  <2>3. CASE k = "next" /\ l = "next"
    <3>1. n + 1 - e = n + 1 - h /\ e \in Int /\ h \in Int
        BY <1>3, <1>6, <1>9, <2>3
    <3> QED
        BY <2>3, <3>1
  <2>4. CASE k = "next" /\ l = "todo"
      BY <1>3, <1>5, <1>6, <1>9, <2>1, <2>4
  <2>5. CASE k = "todo" /\ l = "next"
      BY <1>3, <1>5, <1>6, <1>9, <2>1, <2>5
  <2> QED
      BY <1>7, <1>9, <2>2, <2>3, <2>4, <2>5
<1> QED
    BY <1>8, <1>9

(* One spot gives way to another, or to those of a call that starts.       *)
Moves(V, f, c, k1, x1, d1, e1, k2, x2, d2, e2) ==
    \A k, x, d, e : Spot(V, f, c, k, x, d, e)' =>
        \/ Spot(V, f, c, k, x, d, e) /\ ~(k = k1 /\ x = x1 /\ d = d1 /\ e = e1)
        \/ (k = k2 /\ x = x2 /\ d = d2 /\ e = e2) /\ Spot(V, f, c, k1, x1, d1, e1)
Starts(V, f, c, k1, x1, d1, e1, a, n, call, v) ==
    \A k, x, d, e : Spot(V, f, c, k, x, d, e)' =>
        \/ Spot(V, f, c, k, x, d, e) /\ ~(k = k1 /\ x = x1 /\ d = d1 /\ e = e1)
        \/ v = c /\ x = a /\ d = n /\ CallSpot(V, f, call, k, e)

LEMMA OnceMoves ==
    ASSUME NEW V, NEW f, NEW c, Once(V, f, c),
           NEW k1, NEW x1, NEW d1, NEW e1, NEW k2, NEW x2, NEW d2, NEW e2,
           Moves(V, f, c, k1, x1, d1, e1, k2, x2, d2, e2)
    PROVE  Once(V, f, c)'
BY DEF Once, Moves

LEMMA OnceStarts ==
    ASSUME NEW f \in Functor, NEW V \in SUBSET Stage, NEW c, Way(V, f), Once(V, f, c),
           NEW s \in Stage, NEW call, call.functors = FunctorsBehind(s),
           call.todo = Dispatches[Head(FunctorsBehind(s))],
           NEW k1, NEW x1, NEW d1, NEW e1, NEW a, NEW n, NEW v,
           s \in V /\ v = c => Spot(V, f, c, k1, x1, d1, e1),
           Starts(V, f, c, k1, x1, d1, e1, a, n, call, v)
    PROVE  Once(V, f, c)'
<1> USE DEF Starts
<1>1. ASSUME NEW k, NEW e, CallSpot(V, f, call, k, e)
      PROVE  s \in V /\ \A l, h : CallSpot(V, f, call, l, h) => k = l /\ e = h
    BY <1>1, FreshSpots
<1>2. SUFFICES ASSUME NEW k, NEW x, NEW d, NEW e, NEW l, NEW y, NEW g, NEW h,
                      Spot(V, f, c, k, x, d, e)', Spot(V, f, c, l, y, g, h)'
               PROVE  k = l /\ x = y /\ d = g /\ e = h
    BY DEF Once
<1>3. CASE v = c /\ x = a /\ d = n /\ CallSpot(V, f, call, k, e)
  <2>1. Spot(V, f, c, k1, x1, d1, e1)
      BY <1>1, <1>3
  <2>2. y = a /\ g = n /\ CallSpot(V, f, call, l, h)
      BY <1>2, <2>1 DEF Once
  <2> QED
      BY <1>1, <1>3, <2>2
<1>4. CASE v = c /\ y = a /\ g = n /\ CallSpot(V, f, call, l, h)
  <2>1. Spot(V, f, c, k1, x1, d1, e1)
      BY <1>1, <1>4
  <2>2. x = a /\ d = n /\ CallSpot(V, f, call, k, e)
      BY <1>2, <2>1 DEF Once
  <2> QED
      BY <1>1, <1>4, <2>2
<1>5. CASE Spot(V, f, c, k, x, d, e) /\ Spot(V, f, c, l, y, g, h)
    BY <1>5 DEF Once
<1> QED
    BY <1>2, <1>3, <1>4, <1>5

LEMMA OnceTake ==
    ASSUME Typed, HeapKept, NEW w \in Actor, NEW s \in Stage,
           stack[w] = <<>>, queue[s] # <<>>, heap' = heap,
           stack' = [stack EXCEPT ![w] = <<Call(Head(queue[s]), FunctorsBehind(s))>>],
           queue' = [queue EXCEPT ![s] = Tail(@)],
           UNCHANGED <<script, processed>>,
           NEW f \in Functor, NEW V \in SUBSET Stage, NEW c, Way(V, f), Once(V, f, c)
    PROVE  Once(V, f, c)'
<1> DEFINE m == Head(queue[s])
<1> DEFINE call == Call(m, FunctorsBehind(s))
<1>1. /\ call.message = m /\ call.functors = FunctorsBehind(s)
      /\ call.todo = Dispatches[Head(FunctorsBehind(s))]
      /\ stack' = [stack EXCEPT ![w] = <<call>>]
    BY DEF Call
<1> HIDE DEF call
<1>2. /\ Has(stack'[w], 0) /\ FromEnd(stack'[w], 0) = call
      /\ \A b \in Actor : \A d : b # w \/ d # 0 => Alike(b, d)
    BY <1>1, FirstComes
<1>3. queue[s] \in Seq(Message)
    BY DEF Typed
<1> DEFINE q == queue[s]
<1> DEFINE r == Tail(q)
<1>4. PICK n \in Nat :
        /\ Has(q, n) /\ FromEnd(q, n) = m
        /\ \A e : /\ Has(r, e) <=> Has(q, e) /\ e # n
                  /\ Has(r, e) => FromEnd(r, e) = FromEnd(q, e)
    BY <1>3, EndTail
<1> HIDE DEF r, m
<1>5. \A y \in Stage : queue'[y] = IF y = s THEN r ELSE queue[y]
    BY DEF Typed, r
<1> DEFINE v == heap[m].content
<1>6. s \in V /\ v = c => Spot(V, f, c, "queue", s, 0, n)
    BY <1>4 DEF Spot, QueueSpot
<1>7. ASSUME NEW k, NEW x, NEW d, NEW e, Spot(V, f, c, k, x, d, e)'
      PROVE  \/ Spot(V, f, c, k, x, d, e) /\ ~(k = "queue" /\ x = s /\ d = 0 /\ e = n)
             \/ v = c /\ x = w /\ d = 0 /\ CallSpot(V, f, call, k, e)
  <2>1. /\ k \in {"script", "queue", "todo", "next", "done"}
        /\ k = "queue" => d = 0 /\ QueueSpot(V, c, x, e)'
        /\ k \in {"todo", "next"} => StackSpot(V, f, c, k, x, d, e)'
      BY <1>7 DEF Spot, StackSpot, CallSpot
  <2>2. CASE k = "queue"
    <3>1. x \in Stage /\ x \in V /\ Has(queue'[x], e) /\ heap[FromEnd(queue'[x], e)].content = c
        BY <2>1, <2>2 DEF QueueSpot
    <3>2. /\ Has(queue[x], e) /\ FromEnd(queue[x], e) = FromEnd(queue'[x], e)
          /\ ~(x = s /\ e = n)
        BY <1>4, <1>5, <3>1
    <3> QED
        BY <2>1, <2>2, <3>1, <3>2 DEF Spot, QueueSpot
  <2>3. CASE k \in {"todo", "next"} /\ x = w /\ d = 0
    <3>1. Holds(w, 0, c)' /\ CallSpot(V, f, CallAt(w, 0), k, e)'
        BY <2>1, <2>3 DEF StackSpot
    <3>2. CallAt(w, 0)' = call /\ v = c
        BY <1>1, <1>2, <3>1 DEF CallAt, Holds
    <3>3. CallSpot(V, f, call, k, e)
        BY <3>1, <3>2 DEF CallSpot
    <3> QED
        BY <2>3, <3>2, <3>3
  <2>4. CASE k # "queue" /\ ~(k \in {"todo", "next"} /\ x = w /\ d = 0)
    <3>1. k \in {"todo", "next"} => Alike(x, d)
        BY <1>2, <2>1, <2>4 DEF StackSpot
    <3>2. Spot(V, f, c, k, x, d, e)
        BY <1>7, <2>4, <3>1, SpotStill
    <3> QED
        BY <2>4, <3>2
  <2> QED
      BY <2>2, <2>3, <2>4
<1> HIDE DEF v
<1>8. Starts(V, f, c, "queue", s, 0, n, w, 0, call, v)
    BY <1>7 DEF Starts
<1> QED
    BY <1>1, <1>6, <1>8, OnceStarts

LEMMA OncePushThrough ==
    ASSUME Typed, NEW a \in Actor, NEW s \in Stage, PushThrough(a, s),
           NEW f \in Functor, NEW V \in SUBSET Stage, NEW c, Way(V, f), Once(V, f, c)
    PROVE  Once(V, f, c)'
<1> DEFINE inner == Call(Top(a).message, Functors[s])
<1> DEFINE after == Dispatched(a)
<1>1. /\ Pushing(a, s) /\ heap' = heap /\ UNCHANGED <<queue, script, processed>>
      /\ stack' = [stack EXCEPT ![a] = <<inner, after>> \o Tail(stack[a])]
    BY DEF PushThrough, historyVars
<1>2. /\ stack[a] # <<>> /\ Top(a) \in CallRecords /\ Top(a).message \in Message
      /\ after \in CallRecords /\ after.message = Top(a).message
      /\ Top(a).todo # <<>> /\ Head(Top(a).todo) = s
    BY <1>1, Carrying, TopCall DEF Pushing
<1>3. HeapKept
    BY <1>1, NothingAllocated
<1>4. s \notin InputStages /\ Functors[s] = FunctorsBehind(s)
  <2>1. s \notin InputStages
      BY Positions, QueueAdaptersAssumption, LenProperties DEF PushThrough, InputStages, ToSet
  <2> QED
      BY <2>1 DEF FunctorsBehind
<1>5. /\ inner \in CallRecords /\ inner.message = Top(a).message
      /\ inner.functors = FunctorsBehind(s) /\ inner.todo = Dispatches[Head(FunctorsBehind(s))]
    BY <1>2, <1>4, FunctorsOfStage, NewCall DEF Call
<1>6. after.todo = Tail(Top(a).todo) /\ after.functors = Top(a).functors
    BY <1>2 DEF CallRecords, Dispatched
<1> HIDE DEF inner, after
<1>7. PICK n \in Nat : NestsAt(n, a, inner, after)
  <2> DEFINE calls == <<inner, after>> \o Tail(stack[a])
  <2>1. calls = <<inner, after>> \o Tail(stack[a]) /\ stack' = [stack EXCEPT ![a] = calls]
      BY <1>1
  <2> HIDE DEF calls
  <2> QED
      BY <1>1, <1>2, <1>5, <2>1, TopNests
<1> USE DEF NestsAt
<1>8. PICK i \in Nat :
        /\ Has(Top(a).todo, i) /\ FromEnd(Top(a).todo, i) = s
        /\ \A e : /\ Has(after.todo, e) <=> Has(Top(a).todo, e) /\ e # i
                  /\ Has(after.todo, e) => FromEnd(after.todo, e) = FromEnd(Top(a).todo, e)
    BY <1>2, <1>6, EndTail DEF CallRecords
<1> DEFINE v == Content0(a)
<1>9. CallAt(a, n) = Top(a) /\ (Holds(a, n, c) <=> v = c)
    BY <1>7, TopIsHeld
<1>10. s \in V /\ v = c => Spot(V, f, c, "todo", a, n, i)
    BY <1>8, <1>9 DEF Spot, StackSpot, CallSpot
<1>11. ASSUME NEW k, NEW x, NEW d, NEW e, Spot(V, f, c, k, x, d, e)'
      PROVE  \/ Spot(V, f, c, k, x, d, e) /\ ~(k = "todo" /\ x = a /\ d = n /\ e = i)
             \/ v = c /\ x = a /\ d = n + 1 /\ CallSpot(V, f, inner, k, e)
  <2>1. /\ k \in {"script", "queue", "todo", "next", "done"}
        /\ k \in {"todo", "next"} => StackSpot(V, f, c, k, x, d, e)'
      BY <1>11 DEF Spot, StackSpot, CallSpot
  <2>2. CASE k \in {"todo", "next"} /\ x = a /\ d = n + 1
    <3>1. Holds(a, n + 1, c)' /\ CallSpot(V, f, CallAt(a, n + 1), k, e)'
        BY <2>1, <2>2 DEF StackSpot
    <3>2. CallAt(a, n + 1)' = inner /\ v = c
        BY <1>1, <1>5, <1>7, <3>1 DEF CallAt, Holds, Content0
    <3>3. CallSpot(V, f, inner, k, e)
        BY <3>1, <3>2 DEF CallSpot
    <3> QED
        BY <2>2, <3>2, <3>3
  <2>3. CASE k \in {"todo", "next"} /\ x = a /\ d = n
    <3>1. Holds(a, n, c)' /\ CallSpot(V, f, CallAt(a, n), k, e)'
        BY <2>1, <2>3 DEF StackSpot
    <3>2. CallAt(a, n)' = after /\ v = c
        BY <1>1, <1>2, <1>7, <3>1 DEF CallAt, Holds, Content0
    <3>3. CallSpot(V, f, after, k, e)
        BY <3>1, <3>2 DEF CallSpot
    <3>4. CallSpot(V, f, Top(a), k, e) /\ ~(k = "todo" /\ e = i)
        BY <1>6, <1>8, <3>3 DEF CallSpot
    <3> QED
        BY <1>9, <2>3, <3>2, <3>4 DEF Spot, StackSpot
  <2>4. CASE ~(k \in {"todo", "next"} /\ x = a /\ (d = n \/ d = n + 1))
    <3>1. k \in {"todo", "next"} => Alike(x, d)
        BY <1>7, <2>1, <2>4 DEF StackSpot
    <3>2. Spot(V, f, c, k, x, d, e)
        BY <1>1, <1>3, <1>11, <3>1, SpotStill
    <3> QED
        BY <2>4, <3>2
  <2> QED
      BY <2>2, <2>3, <2>4
<1> HIDE DEF v
<1>12. Starts(V, f, c, "todo", a, n, i, a, n + 1, inner, v)
    BY <1>11 DEF Starts
<1> QED
    BY <1>5, <1>10, <1>12, OnceStarts

LEMMA OnceCreate ==
    ASSUME Typed, NEW p \in Producers, Create(p),
           NEW f \in Functor, NEW V \in SUBSET Stage, NEW c, Way(V, f), Once(V, f, c)
    PROVE  Once(V, f, c)'
<1> DEFINE item == Head(script[p])
<1> DEFINE m == Len(heap) + 1
<1> DEFINE call == [message |-> m, functors |-> <<>>, todo |-> <<item.to>>, carrying |-> FALSE]
<1>1. /\ p \in Actor /\ stack[p] = <<>> /\ script[p] # <<>>
      /\ heap' = Append(heap, [content |-> item.content, refs |-> 1, live |-> TRUE])
      /\ script' = [script EXCEPT ![p] = Tail(@)]
      /\ UNCHANGED <<queue, processed>>
    BY DEF Create, Actor
<1>2. HeapKept
    BY TypedCreate
<1>3. heap'[m].content = item.content
    BY <1>1 DEF Typed
<1>4. /\ call.message = m /\ call.functors = <<>> /\ call.todo = <<item.to>>
      /\ stack' = [stack EXCEPT ![p] = <<call>>]
    BY DEF Create
<1> DEFINE q == script[p]
<1> DEFINE r == Tail(q)
<1>5. q \in Seq([content : Content, to : Stage \ {Adapter}])
    BY DEF Typed
<1>6. PICK n \in Nat :
        /\ Has(q, n) /\ FromEnd(q, n) = item
        /\ \A e : /\ Has(r, e) <=> Has(q, e) /\ e # n
                  /\ Has(r, e) => FromEnd(r, e) = FromEnd(q, e)
    BY <1>1, <1>5, EndTail
<1> HIDE DEF call, m, item, r
<1>7. \A o \in Producers : script'[o] = IF o = p THEN r ELSE script[o]
    BY <1>1 DEF Typed, r
<1>8. /\ Has(stack'[p], 0) /\ FromEnd(stack'[p], 0) = call
      /\ \A b \in Actor : \A d : b # p \/ d # 0 => Alike(b, d)
    BY <1>1, <1>4, FirstComes
<1>9. item.content = c /\ item.to \in V => Spot(V, f, c, "script", p, 0, n)
    BY <1>6 DEF Spot, ScriptSpot
<1>10. ASSUME NEW k, NEW x, NEW d, NEW e, Spot(V, f, c, k, x, d, e)'
       PROVE  \/ Spot(V, f, c, k, x, d, e) /\ ~(k = "script" /\ x = p /\ d = 0 /\ e = n)
              \/ (k = "todo" /\ x = p /\ d = 0 /\ e = 0) /\ Spot(V, f, c, "script", p, 0, n)
  <2>1. /\ k \in {"script", "queue", "todo", "next", "done"}
        /\ k = "script" => d = 0 /\ ScriptSpot(V, c, x, e)'
        /\ k \in {"todo", "next"} => StackSpot(V, f, c, k, x, d, e)'
      BY <1>10 DEF Spot, StackSpot, CallSpot
  <2>2. CASE k = "script"
    <3>1. /\ x \in Producers /\ Has(script'[x], e)
          /\ FromEnd(script'[x], e).content = c /\ FromEnd(script'[x], e).to \in V
        BY <2>1, <2>2 DEF ScriptSpot
    <3>2. /\ Has(script[x], e) /\ FromEnd(script[x], e) = FromEnd(script'[x], e)
          /\ ~(x = p /\ e = n)
        BY <1>6, <1>7, <3>1
    <3> QED
        BY <2>1, <2>2, <3>1, <3>2 DEF Spot, ScriptSpot
  <2>3. CASE k \in {"todo", "next"} /\ x = p /\ d = 0
    <3>1. Holds(p, 0, c)' /\ CallSpot(V, f, CallAt(p, 0), k, e)'
        BY <2>1, <2>3 DEF StackSpot
    <3>2. CallAt(p, 0)' = call /\ item.content = c
        BY <1>3, <1>4, <1>8, <3>1 DEF CallAt, Holds
    <3>3. CallSpot(V, f, call, k, e)
        BY <3>1, <3>2 DEF CallSpot
    <3>4. \A i : ~Has(<<>>, i)
        BY DEF Has
    <3>5. k = "todo" /\ Has(<<item.to>>, e) /\ FromEnd(<<item.to>>, e) \in V
        BY <1>4, <3>3, <3>4 DEF CallSpot
    <3>6. e = 0 /\ item.to \in V
        BY <3>5, EndUnit
    <3> QED
        BY <1>9, <2>3, <3>2, <3>5, <3>6
  <2>4. CASE k # "script" /\ ~(k \in {"todo", "next"} /\ x = p /\ d = 0)
    <3>1. k \in {"todo", "next"} => Alike(x, d)
        BY <1>8, <2>1, <2>4 DEF StackSpot
    <3>2. Spot(V, f, c, k, x, d, e)
        BY <1>1, <1>2, <1>10, <2>4, <3>1, SpotStill
    <3> QED
        BY <2>4, <3>2
  <2> QED
      BY <2>2, <2>3, <2>4
<1>11. Moves(V, f, c, "script", p, 0, n, "todo", p, 0, 0)
    BY <1>10 DEF Moves
<1> QED
    BY <1>11, OnceMoves

LEMMA OnceRetain ==
    ASSUME Typed, NEW a \in Actor, Retain(a), NEW f, NEW V \in SUBSET Stage, NEW c, Once(V, f, c)
    PROVE  Once(V, f, c)'
<1> DEFINE call == [Top(a) EXCEPT !.carrying = TRUE]
<1>1. /\ stack[a] # <<>> /\ heap' = AddRef(Top(a).message)
      /\ UNCHANGED <<queue, script, processed>>
    BY DEF Retain, Running, historyVars
<1>2. Top(a) \in CallRecords /\ Top(a).message \in Message /\ Top(a) = stack[a][1]
    BY <1>1, TopCall DEF CallRecords
<1>3. HeapKept
    BY <1>1, <1>2, Added
<1>4. /\ call.message = Top(a).message /\ call.todo = Top(a).todo
      /\ call.functors = Top(a).functors
      /\ stack' = [stack EXCEPT ![a] = [stack[a] EXCEPT ![1] = call]]
    BY <1>2 DEF Retain, CallRecords
<1> HIDE DEF call
<1>5. PICK n \in Nat : BecomesAt(n, a, call)
    BY <1>1, <1>4, TopBecomes
<1> USE DEF BecomesAt
<1>6. CallAt(a, n) = Top(a) /\ (Holds(a, n, c) <=> Content0(a) = c)
    BY <1>5, TopIsHeld
<1>7. ASSUME NEW k, NEW x, NEW d, NEW e, Spot(V, f, c, k, x, d, e)'
      PROVE  Spot(V, f, c, k, x, d, e)
  <2>1. k \in {"todo", "next"} => StackSpot(V, f, c, k, x, d, e)'
      BY <1>7 DEF Spot, StackSpot, CallSpot
  <2>2. CASE k \in {"todo", "next"} /\ x = a /\ d = n
    <3>1. Holds(a, n, c)' /\ CallSpot(V, f, CallAt(a, n), k, e)'
        BY <2>1, <2>2 DEF StackSpot
    <3>2. CallAt(a, n)' = call /\ Content0(a) = c
        BY <1>2, <1>3, <1>4, <1>5, <3>1 DEF CallAt, Holds, Content0, HeapKept
    <3>3. CallSpot(V, f, call, k, e)
        BY <3>1, <3>2 DEF CallSpot
    <3>4. CallSpot(V, f, Top(a), k, e)
        BY <1>4, <3>3 DEF CallSpot
    <3> QED
        BY <1>6, <2>2, <3>2, <3>4 DEF Spot, StackSpot
  <2>3. CASE ~(k \in {"todo", "next"} /\ x = a /\ d = n)
    <3>1. k \in {"todo", "next"} => Alike(x, d)
        BY <1>5, <2>1, <2>3 DEF StackSpot
    <3> QED
        BY <1>1, <1>3, <1>7, <3>1, SpotStill
  <2> QED
      BY <2>2, <2>3
<1> QED
    BY <1>7, OnceFewer

LEMMA OncePush ==
    ASSUME Typed, NEW a \in Actor, NEW s \in Stage, Push(a, s),
           NEW f, NEW V \in SUBSET Stage, NEW c, Once(V, f, c)
    PROVE  Once(V, f, c)'
<1> DEFINE call == Dispatched(a)
<1> DEFINE m == Top(a).message
<1>1. /\ Pushing(a, s) /\ heap' = heap /\ UNCHANGED <<script, processed>>
      /\ queue' = [queue EXCEPT ![s] = Append(queue[s], m)]
      /\ stack' = [stack EXCEPT ![a] = [stack[a] EXCEPT ![1] = call]]
    BY DEF Push, historyVars
<1>2. /\ stack[a] # <<>> /\ Top(a) \in CallRecords /\ m \in Message
      /\ call.message = m /\ Top(a).todo # <<>> /\ Head(Top(a).todo) = s
    BY <1>1, Carrying, TopCall DEF Pushing
<1>3. HeapKept
    BY <1>1, NothingAllocated
<1>4. call.todo = Tail(Top(a).todo) /\ call.functors = Top(a).functors
    BY <1>2 DEF CallRecords, Dispatched
<1> HIDE DEF call
<1>5. PICK n \in Nat : BecomesAt(n, a, call)
    BY <1>1, <1>2, TopBecomes
<1> USE DEF BecomesAt
<1>6. CallAt(a, n) = Top(a) /\ (Holds(a, n, c) <=> heap[m].content = c)
    BY <1>5, TopIsHeld DEF Content0
<1>7. PICK i \in Nat :
        /\ Has(Top(a).todo, i) /\ FromEnd(Top(a).todo, i) = s
        /\ \A e : /\ Has(call.todo, e) <=> Has(Top(a).todo, e) /\ e # i
                  /\ Has(call.todo, e) => FromEnd(call.todo, e) = FromEnd(Top(a).todo, e)
    BY <1>2, <1>4, EndTail DEF CallRecords
<1> DEFINE q == queue[s]
<1> DEFINE r == Append(q, m)
<1>8. /\ FromEnd(r, 0) = m
      /\ \A e : Has(r, e) => e = 0 \/ (Has(q, e - 1) /\ FromEnd(r, e) = FromEnd(q, e - 1))
      /\ \A e : Has(r, e) => e \in Int
  <2>1. q \in Seq(Message)
      BY DEF Typed
  <2>2. \A e : Has(r, e) => e \in Int
      BY DEF Has
  <2> QED
      BY <1>2, <2>1, <2>2, EndAppend
<1> HIDE DEF r, m
<1>9. \A y \in Stage : queue'[y] = IF y = s THEN r ELSE queue[y]
    BY <1>1 DEF Typed, r
(* Where a spot was: the pushed message's in the dispatch, the others of   *)
(* its queue one nearer the end.                                           *)
<1> DEFINE Pushed1(k, x, d, e) == k = "queue" /\ x = s /\ d = 0 /\ e = 0
<1> DEFINE Shifted(k, x, d, e) == k = "queue" /\ x = s /\ d = 0 /\ e \in Int /\ e # 0
<1> DEFINE Elsewhere(k, x, d, e) == ~(k = "queue" /\ x = s) /\ ~(k = "todo" /\ x = a /\ d = n /\ e = i)
<1>10. ASSUME NEW k, NEW x, NEW d, NEW e, Spot(V, f, c, k, x, d, e)'
       PROVE  \/ Pushed1(k, x, d, e) /\ Spot(V, f, c, "todo", a, n, i)
              \/ Shifted(k, x, d, e) /\ Spot(V, f, c, "queue", s, 0, e - 1)
              \/ Elsewhere(k, x, d, e) /\ Spot(V, f, c, k, x, d, e)
  <2>1. /\ k \in {"script", "queue", "todo", "next", "done"}
        /\ k = "queue" => d = 0 /\ QueueSpot(V, c, x, e)'
        /\ k \in {"todo", "next"} => StackSpot(V, f, c, k, x, d, e)'
      BY <1>10 DEF Spot, StackSpot, CallSpot
  <2>2. CASE k = "queue"
    <3>1. x \in Stage /\ x \in V /\ Has(queue'[x], e) /\ heap[FromEnd(queue'[x], e)].content = c
        BY <1>1, <2>1, <2>2 DEF QueueSpot
    <3>2. CASE x # s
      <4>1. queue'[x] = queue[x]
          BY <1>9, <3>1, <3>2
      <4>2. Spot(V, f, c, k, x, d, e)
          BY <2>1, <2>2, <3>1, <4>1 DEF Spot, QueueSpot
      <4> QED
          BY <2>2, <3>2, <4>2
    <3>3. CASE x = s /\ e = 0
      <4>1. heap[m].content = c /\ s \in V
          BY <1>8, <1>9, <3>1, <3>3
      <4>2. Spot(V, f, c, "todo", a, n, i)
          BY <1>6, <1>7, <4>1 DEF Spot, StackSpot, CallSpot
      <4> QED
          BY <2>1, <2>2, <3>3, <4>2
    <3>4. CASE x = s /\ e # 0
      <4>1. Has(r, e) /\ heap[FromEnd(r, e)].content = c /\ s \in V
          BY <1>9, <3>1, <3>4
      <4>2. Has(q, e - 1) /\ heap[FromEnd(q, e - 1)].content = c /\ e \in Int
          BY <1>8, <3>4, <4>1
      <4>3. Spot(V, f, c, "queue", s, 0, e - 1)
          BY <4>1, <4>2 DEF Spot, QueueSpot
      <4> QED
          BY <2>1, <2>2, <3>4, <4>2, <4>3
    <3> QED
        BY <3>2, <3>3, <3>4
  <2>3. CASE k \in {"todo", "next"} /\ x = a /\ d = n
    <3>1. Holds(a, n, c)' /\ CallSpot(V, f, CallAt(a, n), k, e)'
        BY <2>1, <2>3 DEF StackSpot
    <3>2. CallAt(a, n)' = call /\ heap[m].content = c
        BY <1>1, <1>2, <1>5, <3>1 DEF CallAt, Holds
    <3>3. CallSpot(V, f, call, k, e)
        BY <3>1, <3>2 DEF CallSpot
    <3>4. CallSpot(V, f, Top(a), k, e) /\ ~(k = "todo" /\ e = i)
        BY <1>4, <1>7, <3>3 DEF CallSpot
    <3> QED
        BY <1>6, <2>3, <3>2, <3>4 DEF Spot, StackSpot
  <2>4. CASE k # "queue" /\ ~(k \in {"todo", "next"} /\ x = a /\ d = n)
    <3>1. k \in {"todo", "next"} => Alike(x, d)
        BY <1>5, <2>1, <2>4 DEF StackSpot
    <3>2. Spot(V, f, c, k, x, d, e)
        BY <1>1, <1>3, <1>10, <2>4, <3>1, SpotStill
    <3> QED
        BY <2>4, <3>2
  <2> QED
      BY <2>2, <2>3, <2>4
<1>11. SUFFICES ASSUME NEW k, NEW x, NEW d, NEW e, NEW l, NEW y, NEW g, NEW h,
                       Spot(V, f, c, k, x, d, e)', Spot(V, f, c, l, y, g, h)'
                PROVE  k = l /\ x = y /\ d = g /\ e = h
    BY DEF Once
<1>12. CASE Shifted(k, x, d, e) /\ Shifted(l, y, g, h)
  <2>1. Spot(V, f, c, "queue", s, 0, e - 1) /\ Spot(V, f, c, "queue", s, 0, h - 1)
      BY <1>10, <1>11, <1>12
  <2>2. e - 1 = h - 1
      BY <2>1 DEF Once
  <2> QED
      BY <1>12, <2>2
<1> HIDE DEF Once
<1>13. CASE Pushed1(k, x, d, e) \/ Pushed1(l, y, g, h)
  <2>1. Spot(V, f, c, "todo", a, n, i)
      BY <1>10, <1>11, <1>13
  <2>2. \A u, z, w, j : Spot(V, f, c, u, z, w, j) => u = "todo" /\ z = a /\ w = n /\ j = i
      BY <2>1 DEF Once
  <2>3. Pushed1(k, x, d, e)
      BY <1>10, <1>11, <2>2
  <2>4. Pushed1(l, y, g, h)
      BY <1>10, <1>11, <2>2
  <2> QED
      BY <2>3, <2>4
<1>14. CASE Elsewhere(k, x, d, e) /\ Elsewhere(l, y, g, h)
  <2>1. Spot(V, f, c, k, x, d, e) /\ Spot(V, f, c, l, y, g, h)
      BY <1>10, <1>11, <1>14
  <2> QED
      BY <2>1 DEF Once
<1>15. CASE Elsewhere(k, x, d, e) /\ Shifted(l, y, g, h)
  <2>1. Spot(V, f, c, k, x, d, e) /\ Spot(V, f, c, "queue", s, 0, h - 1)
      BY <1>10, <1>11, <1>15
  <2> QED
      BY <1>15, <2>1 DEF Once
<1>16. CASE Shifted(k, x, d, e) /\ Elsewhere(l, y, g, h)
  <2>1. Spot(V, f, c, l, y, g, h) /\ Spot(V, f, c, "queue", s, 0, e - 1)
      BY <1>10, <1>11, <1>16
  <2> QED
      BY <1>16, <2>1 DEF Once
<1> QED
    BY <1>10, <1>11, <1>12, <1>13, <1>14, <1>15, <1>16

LEMMA DoneMore ==
    ASSUME Typed, Known, NEW a \in Actor, stack[a] # <<>>, Processed(a),
           NEW f \in Functor, NEW c, NEW e, DoneSpot(f, c, e)'
    PROVE  \/ DoneSpot(f, c, e)
           \/ /\ e = Len(processed[f]) + 1 /\ StartsWith(f, Top(a).functors)
              /\ Content0(a) = c
<1>1. /\ Top(a) \in CallRecords /\ Top(a).functors \in Seq(Functor)
      /\ heap[Top(a).message] \in Objects
    BY TopCall, HeapObject DEF CallRecords
<1>2. Content0(a) \in Content
    BY <1>1 DEF Objects, Content0
<1>3. e \in DOMAIN processed'[f] /\ processed'[f][e] = c
    BY DEF DoneSpot
<1>4. CASE ~StartsWith(f, Top(a).functors)
  <2>1. processed'[f] = processed[f]
    <3>1. CASE Top(a).functors = <<>>
        BY <3>1 DEF Processed
    <3>2. CASE Top(a).functors # <<>>
        BY <1>4, <3>2 DEF Processed, Known, StartsWith
    <3> QED
        BY <3>1, <3>2
  <2> QED
      BY <1>3, <2>1 DEF DoneSpot
<1>5. CASE StartsWith(f, Top(a).functors)
  <2>1. processed[f] \in Seq(Content) /\ processed'[f] = Append(processed[f], Content0(a))
      BY <1>5 DEF Processed, Known, StartsWith, Content0
  <2> DEFINE q == processed[f]
  <2>2. /\ DOMAIN q = 1 .. Len(q) /\ Len(q) \in Nat
        /\ DOMAIN Append(q, Content0(a)) = 1 .. Len(q) + 1
        /\ \A i \in 1 .. Len(q) : Append(q, Content0(a))[i] = q[i]
        /\ Append(q, Content0(a))[Len(q) + 1] = Content0(a)
      BY <1>2, <2>1, AppendProperties, LenProperties
  <2>3. e \in 1 .. Len(q) \/ e = Len(q) + 1
      BY <1>3, <2>1, <2>2
  <2> QED
      BY <1>3, <1>5, <2>1, <2>2, <2>3 DEF DoneSpot
<1> QED
    BY <1>4, <1>5

LEMMA OnceReturn ==
    ASSUME Typed, Known, NEW a \in Actor, Return(a),
           NEW f \in Functor, NEW V \in SUBSET Stage, NEW c, Once(V, f, c)
    PROVE  Once(V, f, c)'
<1>1. /\ stack[a] # <<>> /\ Len(Top(a).functors) <= 1 /\ Processed(a)
      /\ heap' = DropRef(Top(a).message) /\ UNCHANGED <<queue, script>>
      /\ stack' = [stack EXCEPT ![a] = Tail(stack[a])]
    BY DEF Return, Returns, Running
<1>2. Top(a) \in CallRecords /\ Top(a).functors \in Seq(Functor)
    BY <1>1, TopCall DEF CallRecords
<1>3. HeapKept
    BY TypedReturn
<1>4. PICK n \in Nat :
         /\ Has(stack[a], n) /\ FromEnd(stack[a], n) = Top(a) /\ ~Has(stack'[a], n)
         /\ \A b \in Actor : \A d : b # a \/ d # n => Alike(b, d)
    BY <1>1, TopGoes
<1>5. CallAt(a, n) = Top(a) /\ (Holds(a, n, c) <=> Content0(a) = c)
    BY <1>4, TopIsHeld
<1> DEFINE t == Len(processed[f]) + 1
<1>6. StartsWith(f, Top(a).functors) /\ Content0(a) = c => Spot(V, f, c, "next", a, n, 0)
  <2> SUFFICES ASSUME StartsWith(f, Top(a).functors), Content0(a) = c
               PROVE  Spot(V, f, c, "next", a, n, 0)
      OBVIOUS
  <2> DEFINE F == Top(a).functors
  <2>1. PICK j \in Nat : Len(F) = j + 1 /\ Has(F, j) /\ FromEnd(F, j) = Head(F)
      BY <1>2, EndTail DEF StartsWith
  <2>2. j = 0
      BY <1>1, <2>1
  <2>3. Has(F, 0) /\ FromEnd(F, 0) = f /\ 0 + 1 = Len(F)
      BY <2>1, <2>2 DEF StartsWith
  <2> QED
      BY <1>5, <2>3 DEF Spot, StackSpot, CallSpot
<1>7. ASSUME NEW k, NEW x, NEW d, NEW e, Spot(V, f, c, k, x, d, e)'
      PROVE  \/ Spot(V, f, c, k, x, d, e) /\ ~(k = "next" /\ x = a /\ d = n /\ e = 0)
             \/ (k = "done" /\ x = f /\ d = 0 /\ e = t) /\ Spot(V, f, c, "next", a, n, 0)
  <2>1. /\ k \in {"script", "queue", "todo", "next", "done"}
        /\ k \in {"todo", "next"} => StackSpot(V, f, c, k, x, d, e)'
        /\ k = "done" => x = f /\ d = 0 /\ DoneSpot(f, c, e)'
      BY <1>7 DEF Spot, StackSpot, CallSpot
  <2>2. CASE k = "done"
    <3>1. DoneSpot(f, c, e) \/ (e = t /\ StartsWith(f, Top(a).functors) /\ Content0(a) = c)
        BY <1>1, <2>1, <2>2, DoneMore
    <3> QED
        BY <1>6, <2>1, <2>2, <3>1 DEF Spot
  <2>3. CASE k # "done"
    <3>1. k \in {"todo", "next"} => ~(x = a /\ d = n)
        BY <1>4, <2>1 DEF StackSpot, Holds
    <3>2. k \in {"todo", "next"} => Alike(x, d)
        BY <1>4, <2>1, <3>1 DEF StackSpot
    <3>3. Spot(V, f, c, k, x, d, e)
        BY <1>1, <1>3, <1>7, <2>3, <3>2, SpotStill
    <3> QED
        BY <3>1, <3>3
  <2> QED
      BY <2>2, <2>3
<1> HIDE DEF t
<1>8. Moves(V, f, c, "next", a, n, 0, "done", f, 0, t)
    BY <1>7 DEF Moves
<1> QED
    BY <1>8, OnceMoves

LEMMA OnceThrow ==
    ASSUME Typed, NEW a \in Actor, Throw(a),
           NEW f, NEW V \in SUBSET Stage, NEW c, Once(V, f, c)
    PROVE  Once(V, f, c)'
<1>1. UNCHANGED <<queue, script, processed>> /\ stack' = [stack EXCEPT ![a] = <<>>]
    BY DEF Throw
<1>2. HeapKept
    BY TypedThrow
<1>3. /\ \A d : ~Has(stack'[a], d)
      /\ \A b \in Actor : \A d : b # a \/ d \notin 0 .. Len(stack[a]) - 1 => Alike(b, d)
    BY <1>1, AllGo
<1>4. ASSUME NEW k, NEW x, NEW d, NEW e, Spot(V, f, c, k, x, d, e)'
      PROVE  Spot(V, f, c, k, x, d, e)
  <2>1. k \in {"todo", "next"} => StackSpot(V, f, c, k, x, d, e)'
      BY <1>4 DEF Spot, StackSpot, CallSpot
  <2>2. k \in {"todo", "next"} => Alike(x, d)
      BY <1>3, <2>1 DEF StackSpot, Holds
  <2> QED
      BY <1>1, <1>2, <1>4, <2>2, SpotStill
<1> QED
    BY <1>4, OnceFewer

LEMMA OnceNextFunctor ==
    ASSUME Typed, Known, NEW a \in Actor, NextFunctor(a),
           NEW f \in Functor, NEW V \in SUBSET Stage, NEW c, Way(V, f), Once(V, f, c)
    PROVE  Once(V, f, c)'
<1> DEFINE F == Top(a).functors
<1> DEFINE G == Tail(F)
<1> DEFINE call == Call(Top(a).message, G)
<1>1. /\ stack[a] # <<>> /\ Top(a).todo = <<>> /\ Len(F) > 1 /\ Processed(a)
      /\ heap' = heap /\ UNCHANGED <<queue, script>>
    BY DEF NextFunctor, Returns, Running
<1>2. /\ Top(a) \in CallRecords /\ Top(a) = stack[a][1] /\ F \in Seq(Functor)
      /\ G \in Seq(Functor) /\ G # <<>> /\ F # <<>>
  <2>1. Top(a) \in CallRecords /\ Top(a) = stack[a][1] /\ F \in Seq(Functor)
      BY <1>1, TopCall DEF CallRecords
  <2> QED
      BY <1>1, <2>1, TailLeft, EmptySeq
<1>3. HeapKept
    BY <1>1, NothingAllocated
<1>4. /\ call.message = Top(a).message /\ call.functors = G /\ call.todo = Dispatches[Head(G)]
      /\ stack' = [stack EXCEPT ![a] = [stack[a] EXCEPT ![1] = call]]
    BY <1>2 DEF NextFunctor, Call
<1> HIDE DEF call
<1>5. PICK n \in Nat : BecomesAt(n, a, call)
    BY <1>1, <1>4, TopBecomes
<1> USE DEF BecomesAt
<1>6. CallAt(a, n) = Top(a) /\ (Holds(a, n, c) <=> Content0(a) = c)
    BY <1>5, TopIsHeld
<1> HIDE DEF G
<1>7. PICK i \in Nat :
        /\ Len(G) = i + 1 /\ Has(G, i) /\ FromEnd(G, i) = Head(G) /\ Head(G) \in Functor
    BY <1>2, EndTail
<1>8. /\ Len(F) = i + 2 /\ Has(F, i + 1) /\ FromEnd(F, i + 1) = Head(F)
      /\ \A e : /\ Has(G, e) <=> Has(F, e) /\ e # i + 1
                /\ Has(G, e) => FromEnd(G, e) = FromEnd(F, e)
  <2>1. PICK j \in Nat :
          /\ Len(F) = j + 1 /\ Len(G) = j /\ Has(F, j) /\ FromEnd(F, j) = Head(F)
          /\ \A e : /\ Has(G, e) <=> Has(F, e) /\ e # j
                    /\ Has(G, e) => FromEnd(G, e) = FromEnd(F, e)
    <3>1. G = Tail(F)
        BY DEF G
    <3>2. \E j \in Nat :
            /\ Len(F) = j + 1 /\ Len(Tail(F)) = j /\ Tail(F) \in Seq(Functor)
            /\ Has(F, j) /\ FromEnd(F, j) = F[1] /\ Head(F) = F[1] /\ F[1] \in Functor
            /\ \A e : /\ Has(Tail(F), e) <=> Has(F, e) /\ e # j
                      /\ Has(Tail(F), e) => FromEnd(Tail(F), e) = FromEnd(F, e)
      <4> HIDE DEF F
      <4> QED
          BY <1>2, EndTail
    <3> HIDE DEF F
    <3> QED
        BY <3>1, <3>2
  <2>2. j = i + 1
      BY <1>7, <2>1
  <2> QED
      BY <2>1, <2>2
<1> HIDE DEF F
<1> DEFINE g == Head(G)
<1> DEFINE v == Content0(a)
<1> DEFINE t == Len(processed[f]) + 1
(* The functor that returns, if it is f; and the next one, if it leads to  *)
(* f, with its dispatches.                                                 *)
<1>9. StartsWith(f, F) /\ v = c => Spot(V, f, c, "next", a, n, i + 1)
  <2> SUFFICES ASSUME StartsWith(f, F), v = c PROVE Spot(V, f, c, "next", a, n, i + 1)
      OBVIOUS
  <2>1. Has(F, i + 1) /\ FromEnd(F, i + 1) = f /\ (i + 1) + 1 = Len(F)
      BY <1>8 DEF StartsWith
  <2> QED
      BY <1>6, <2>1 DEF Spot, StackSpot, CallSpot, F
<1>10. Leads(V, f, g) /\ v = c => Spot(V, f, c, "next", a, n, i)
  <2> SUFFICES ASSUME Leads(V, f, g), v = c PROVE Spot(V, f, c, "next", a, n, i)
      OBVIOUS
  <2>1. Has(F, i) /\ FromEnd(F, i) = g /\ i + 1 # Len(F)
      BY <1>7, <1>8
  <2> QED
      BY <1>6, <2>1 DEF Spot, StackSpot, CallSpot, F
<1> DEFINE OfNext(k, e) ==
      \/ k = "next" /\ e = i /\ g = f
      \/ k = "todo" /\ Has(Dispatches[g], e) /\ FromEnd(Dispatches[g], e) \in V
<1>11. ASSUME NEW k, NEW e, OfNext(k, e)
       PROVE  Leads(V, f, g) /\ \A l, h : OfNext(l, h) => k = l /\ e = h
  <2>1. CASE k = "next"
    <3>1. g = f /\ e = i
        BY <1>11, <2>1
    <3>2. \A h : ~(Has(Dispatches[g], h) /\ FromEnd(Dispatches[g], h) \in V)
        BY <1>7, <3>1, DispatchSpot
    <3> QED
        BY <2>1, <3>1, <3>2 DEF Leads
  <2>2. CASE k = "todo"
    <3>1. Has(Dispatches[g], e) /\ FromEnd(Dispatches[g], e) \in V
        BY <1>11, <2>2
    <3>2. /\ g # f /\ Leads(V, f, g)
          /\ \A h : Has(Dispatches[g], h) /\ FromEnd(Dispatches[g], h) \in V => h = e
        BY <1>7, <3>1, DispatchSpot
    <3> QED
        BY <2>2, <3>2
  <2> QED
      BY <1>11, <2>1, <2>2
<1> DEFINE Gone(k, x, d, e) == k = "next" /\ x = a /\ d = n /\ e \in {i, i + 1}
<1> DEFINE Now(k, x, d, e) == v = c /\ x = a /\ d = n /\ OfNext(k, e)
<1> DEFINE Was(k, x, d, e) == k = "done" /\ x = f /\ d = 0 /\ e = t /\ StartsWith(f, F) /\ v = c
<1> HIDE DEF g, v, t, OfNext
<1>12. ASSUME NEW k, NEW x, NEW d, NEW e, Spot(V, f, c, k, x, d, e)'
       PROVE  \/ Spot(V, f, c, k, x, d, e) /\ ~Gone(k, x, d, e)
              \/ Now(k, x, d, e)
              \/ Was(k, x, d, e)
  <2>1. /\ k \in {"script", "queue", "todo", "next", "done"}
        /\ k \in {"todo", "next"} => StackSpot(V, f, c, k, x, d, e)'
        /\ k = "done" => x = f /\ d = 0 /\ DoneSpot(f, c, e)'
      BY <1>12 DEF Spot, StackSpot, CallSpot
  <2>2. CASE k = "done"
    <3>1. DoneSpot(f, c, e) \/ (e = t /\ StartsWith(f, F) /\ v = c)
        BY <1>1, <2>1, <2>2, DoneMore DEF F, v, t
    <3> QED
        BY <2>1, <2>2, <3>1 DEF Spot
  <2>3. CASE k \in {"todo", "next"} /\ x = a /\ d = n
    <3>1. Holds(a, n, c)' /\ CallSpot(V, f, CallAt(a, n), k, e)'
        BY <2>1, <2>3 DEF StackSpot
    <3>2. CallAt(a, n)' = call /\ v = c
        BY <1>1, <1>4, <1>5, <3>1 DEF CallAt, Holds, Content0, v
    <3>3. CallSpot(V, f, call, k, e)
        BY <3>1, <3>2 DEF CallSpot
    <3>4. CASE k = "todo"
        BY <1>4, <2>3, <3>2, <3>3, <3>4 DEF CallSpot, OfNext, g
    <3>5. CASE k = "next" /\ e = i
        BY <1>4, <1>7, <2>3, <3>2, <3>3, <3>5 DEF CallSpot, OfNext, g
    <3>6. CASE k = "next" /\ e # i
      <4>1. Has(G, e) /\ e \in Int
        <5>1. Has(G, e)
            BY <1>4, <3>3, <3>6 DEF CallSpot
        <5> QED
            BY <5>1 DEF Has
      <4>2. e + 1 # Len(G) /\ e + 1 # Len(F)
        <5>1. e \in 0 .. (i + 1) - 1
            BY <1>7, <4>1 DEF Has
        <5> QED
            BY <1>7, <1>8, <3>6, <5>1
      <4>3. Leads(V, f, FromEnd(G, e))
          BY <1>4, <3>3, <3>6, <4>2 DEF CallSpot
      <4>4. CallSpot(V, f, Top(a), "next", e) /\ e # i + 1
          BY <1>8, <4>1, <4>2, <4>3 DEF CallSpot, F
      <4> QED
          BY <1>6, <2>3, <3>2, <3>6, <4>4 DEF Spot, StackSpot, v
    <3> QED
        BY <2>3, <3>4, <3>5, <3>6
  <2>4. CASE k # "done" /\ ~(k \in {"todo", "next"} /\ x = a /\ d = n)
    <3>1. k \in {"todo", "next"} => Alike(x, d)
        BY <1>5, <2>1, <2>4 DEF StackSpot
    <3>2. Spot(V, f, c, k, x, d, e)
        BY <1>1, <1>3, <1>12, <2>4, <3>1, SpotStill
    <3> QED
        BY <2>4, <3>2
  <2> QED
      BY <2>2, <2>3, <2>4
<1>13. SUFFICES ASSUME NEW k, NEW x, NEW d, NEW e, NEW l, NEW y, NEW p, NEW h,
                       Spot(V, f, c, k, x, d, e)', Spot(V, f, c, l, y, p, h)'
                PROVE  k = l /\ x = y /\ d = p /\ e = h
    BY DEF Once
<1>14. i # i + 1
    OBVIOUS
<1>15. ASSUME NEW u \in {i, i + 1}, Spot(V, f, c, "next", a, n, u)
       PROVE  /\ \A z, w, o, j : ~(Spot(V, f, c, z, w, o, j) /\ ~Gone(z, w, o, j))
              /\ \A o \in {i, i + 1} : Spot(V, f, c, "next", a, n, o) => o = u
    BY <1>15 DEF Once
<1>16. CASE Was(k, x, d, e) \/ Was(l, y, p, h)
  <2>1. Spot(V, f, c, "next", a, n, i + 1)
      BY <1>9, <1>16
  <2>2. ~Spot(V, f, c, "next", a, n, i)
      BY <1>14, <1>15, <2>1
  <2>3. \A z, w, o, j : ~Now(z, w, o, j)
      BY <1>10, <1>11, <2>2
  <2>4. Was(k, x, d, e) /\ Was(l, y, p, h)
      BY <1>12, <1>13, <1>15, <2>1, <2>3
  <2> QED
      BY <2>4
<1>17. CASE Now(k, x, d, e) \/ Now(l, y, p, h)
  <2>1. Spot(V, f, c, "next", a, n, i)
      BY <1>10, <1>11, <1>17
  <2>2. ~Spot(V, f, c, "next", a, n, i + 1)
      BY <1>14, <1>15, <2>1
  <2>3. \A z, w, o, j : ~Was(z, w, o, j)
      BY <1>9, <2>2
  <2>4. Now(k, x, d, e) /\ Now(l, y, p, h)
      BY <1>12, <1>13, <1>15, <2>1, <2>3
  <2> QED
      BY <1>11, <2>4
<1>18. CASE Spot(V, f, c, k, x, d, e) /\ Spot(V, f, c, l, y, p, h)
    BY <1>18 DEF Once
<1> QED
    BY <1>12, <1>13, <1>16, <1>17, <1>18

LEMMA OnceAside ==
    ASSUME NEW V, NEW f, NEW c, Once(V, f, c), UNCHANGED <<queue, heap, stack, script, processed>>
    PROVE  Once(V, f, c)'
<1>1. \A k, x, d, e : Spot(V, f, c, k, x, d, e)' => Spot(V, f, c, k, x, d, e)
    BY DEF Spot, ScriptSpot, QueueSpot, StackSpot, DoneSpot, CallSpot, Holds, CallAt
<1> QED
    BY <1>1, OnceFewer

LEMMA OncePop ==
    ASSUME Typed, NEW w \in Workers,
           (\E s \in Stage \ InputStages : TryPop(w, s)) \/ PollMessage(w),
           NEW f \in Functor, NEW V \in SUBSET Stage, NEW c, Way(V, f), Once(V, f, c)
    PROVE  Once(V, f, c)'
<1>1. HeapKept /\ w \in Actor
    BY TypedPop DEF Actor
<1>2. CASE PollMessage(w)
  <2> DEFINE s == Inputs[which]
  <2>1. s \in Stage /\ s \in InputStages
      BY Positions DEF Typed
  <2>2. /\ queue[s] # <<>> /\ Take(w, s) /\ heap' = heap /\ stack[w] = <<>> /\ at[w] = Adapter
        /\ UNCHANGED <<script, processed>>
      BY <1>2 DEF PollMessage, Polls, historyVars
  <2> HIDE DEF s
  <2>3. Functors[at[w]] = FunctorsBehind(s)
      BY <2>1, <2>2 DEF FunctorsBehind
  <2> QED
      BY <1>1, <2>1, <2>2, <2>3, OnceTake DEF Take
<1>3. ASSUME NEW s \in Stage \ InputStages, TryPop(w, s)
      PROVE  Once(V, f, c)'
  <2>1. /\ queue[s] # <<>> /\ Take(w, s) /\ heap' = heap /\ stack[w] = <<>> /\ at[w] = s
        /\ UNCHANGED <<script, processed>>
      BY <1>3 DEF TryPop, Polls, historyVars
  <2>2. Functors[at[w]] = FunctorsBehind(s)
      BY <2>1 DEF FunctorsBehind
  <2> QED
      BY <1>1, <2>1, <2>2, OnceTake DEF Take
<1> QED
    BY <1>2, <1>3

LEMMA OnceInit == ASSUME DistinctContents, Init PROVE AllOnce
<1> SUFFICES ASSUME NEW f \in Functor, NEW V \in SUBSET Stage, NEW c PROVE Once(V, f, c)
    BY DEF AllOnce
<1>1. \A a \in Actor : \A d : ~Holds(a, d, c)
    BY DEF Init, Holds, Has
<1>2. \A s \in Stage : \A e : ~Has(queue[s], e)
    BY DEF Init, Has
<1>3. \A e : ~DoneSpot(f, c, e)
    BY DEF Init, DoneSpot
<1>4. \A k, x, d, e : Spot(V, f, c, k, x, d, e) => k = "script" /\ d = 0 /\ ScriptSpot(V, c, x, e)
    BY <1>1, <1>2, <1>3 DEF Spot, StackSpot, QueueSpot
<1>5. ASSUME NEW p, NEW q, NEW e, NEW h, ScriptSpot(V, c, p, e), ScriptSpot(V, c, q, h)
      PROVE  p = q /\ e = h
  <2>1. /\ p \in Producers /\ q \in Producers /\ Has(Script[p], e) /\ Has(Script[q], h)
        /\ FromEnd(Script[p], e).content = c /\ FromEnd(Script[q], h).content = c
      BY <1>5 DEF ScriptSpot, Init
  <2>2. /\ Script[p] \in Seq([content : Content, to : Stage \ {Adapter}])
        /\ Script[q] \in Seq([content : Content, to : Stage \ {Adapter}])
      BY <2>1, QueueAdaptersAssumption
  <2>3. /\ Len(Script[p]) \in Nat /\ Len(Script[p]) - e \in DOMAIN Script[p]
        /\ Len(Script[q]) - h \in DOMAIN Script[q]
      BY <2>1, <2>2, EndOf
  <2>4. p = q /\ Len(Script[p]) - e = Len(Script[q]) - h
      BY <2>1, <2>3 DEF DistinctContents, FromEnd
  <2>5. e \in 0 .. Len(Script[p]) - 1 /\ h \in 0 .. Len(Script[q]) - 1
      BY <2>1 DEF Has
  <2> QED
      BY <2>3, <2>4, <2>5
<1> QED
    BY <1>4, <1>5 DEF Once

LEMMA OnceNext == ASSUME AInv, AllOnce, [Next]_vars PROVE AllOnce'
<1> SUFFICES ASSUME NEW f \in Functor, NEW V \in SUBSET Stage, NEW c, Way(V, f)
             PROVE  Once(V, f, c)'
    BY DEF AllOnce
<1>1. Typed /\ Known /\ Once(V, f, c)
    BY DEF AInv, AllOnce
<1>2. CASE UNCHANGED vars
    BY <1>1, <1>2, OnceAside DEF vars
<1>3. CASE \E p \in Producers : Create(p)
    BY <1>1, <1>3, OnceCreate
<1>4. ASSUME NEW w \in Workers,
             \/ \E s \in Stage \ InputStages : Enter(w, s) \/ TryPopEmpty(w, s)
             \/ SearchBegins(w) \/ PollEmpty(w) \/ SearchFails(w)
      PROVE  Once(V, f, c)'
  <2>1. UNCHANGED <<queue, heap, stack, script, processed>>
      BY <1>4 DEF Enter, TryPopEmpty, SearchBegins, PollEmpty, SearchFails, historyVars
  <2> QED
      BY <1>1, <2>1, OnceAside
<1>5. ASSUME NEW w \in Workers,
             (\E s \in Stage \ InputStages : TryPop(w, s)) \/ PollMessage(w)
      PROVE  Once(V, f, c)'
    BY <1>1, <1>5, OncePop
<1>6. ASSUME NEW a \in Actor,
             \/ Retain(a) \/ NextFunctor(a) \/ Return(a) \/ Throw(a)
             \/ \E s \in Stage : Push(a, s) \/ PushThrough(a, s)
      PROVE  Once(V, f, c)'
    BY <1>1, <1>6, OnceRetain, OnceNextFunctor, OnceReturn, OnceThrow, OncePush, OncePushThrough
<1> QED
    BY <1>2, <1>3, <1>4, <1>5, <1>6 DEF Next

LEMMA NoneTwice == ASSUME OneWay, AllOnce PROVE NeverTwice
<1> SUFFICES ASSUME NEW f \in Functor, NEW i \in DOMAIN processed[f], NEW j \in DOMAIN processed[f],
                    processed[f][i] = processed[f][j]
             PROVE  i = j
    BY DEF NeverTwice, IsInjective
<1> DEFINE c == processed[f][i]
<1>1. PICK V \in SUBSET Stage : Way(V, f)
    BY DEF OneWay
<1>2. \A z : Once(V, f, z)
    BY <1>1 DEF AllOnce
<1>3. Spot(V, f, c, "done", f, 0, i) /\ Spot(V, f, c, "done", f, 0, j)
    BY DEF Spot, DoneSpot
<1> HIDE DEF c
<1> QED
    BY <1>2, <1>3 DEF Once

(* A functor handles a message once, wherever the routes bring it there    *)
(* once: no step of a push, of a pass-through chain or of the adapter      *)
(* makes two of a message, and none loses it.  Where it is, whichever      *)
(* queue, thread, nested call or functor has it, is a spot; there is one   *)
(* at most on the way to a functor, and one at least until the functor has *)
(* handled it.                                                             *)
THEOREM HandledOnce == ASSUME OneWay, DistinctContents PROVE Spec => []ExactlyOnce
<1>1. Init => AInv /\ AllOnce
    BY ArriveInit, OnceInit
<1>2. AInv /\ AllOnce /\ [Next]_vars => AInv' /\ AllOnce'
    BY ArriveNext, OnceNext
<1>3. AInv /\ AllOnce => ExactlyOnce
    BY NoneLost, NoneTwice DEF ExactlyOnce
<1> QED
    BY <1>1, <1>2, <1>3, PTL DEF Spec
=============================================================================
