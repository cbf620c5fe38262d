--------------------------- MODULE StageFlowProofs --------------------------
(***************************************************************************)
(* The data path, for any stages, routes, producers, scripts and threads:  *)
(* the types, the count of every message, that no message is lost and that *)
(* no stage gets one twice.                                                *)
(***************************************************************************)
EXTENDS StageFlow, FiniteSetTheorems, FunctionTheorems, SequenceTheorems, TLAPS

-----------------------------------------------------------------------------
(* Types *)

(* A call that is under way owns a message; what it is dispatching has the *)
(* content of that message, and is for the first of the dispatches left.   *)
Coherent ==
    \A a \in Actor :
        \/ frame[a] = Idle
        \/ /\ frame[a].hand # Null
           /\ a \in Workers => frame[a].at \in Stage
           /\ frame[a].carry # Null =>
                 /\ frame[a].todo # <<>>
                 /\ heap[frame[a].carry].content = heap[frame[a].hand].content

Typed == TypeOK /\ Coherent

LEMMA NullIsNoMessage ==
    ASSUME TypeOK
    PROVE  /\ Len(heap) \in Nat
           /\ Message = 1 .. Len(heap)
           /\ Null \notin Message
BY DEF TypeOK, Message, Null

LEMMA TypedInit == Init => Typed
<1> SUFFICES ASSUME Init PROVE Typed
    OBVIOUS
<1>1. NumberOfEntries \notin Stage /\ Idle \in [hand : {Null}, carry : {Null},
        todo : Seq(Dispatch), at : {NumberOfEntries}]
    BY StageFlowAssumption DEF Idle, NumberOfEntries, Stage
<1>2. heap \in Seq([content : Content, refs : Nat, live : BOOLEAN])
    BY DEF Init
<1>3. TypeOK
    BY <1>1, <1>2, StageFlowAssumption DEF Init, TypeOK
<1> QED
    BY <1>3 DEF Typed, Coherent, Init

Objects == [content : Content, refs : Nat, live : BOOLEAN]
Frames == [hand : Message \cup {Null}, carry : Message \cup {Null},
           todo : Seq(Dispatch), at : Stage \cup {NumberOfEntries}]

(* A step that replaces one frame keeps the types of queues and frames     *)
(* that it leaves alone: no message object disappears, no content changes. *)
HeapKept ==
    /\ heap' \in Seq(Objects)
    /\ Message \subseteq Message'
    /\ \A m \in Message : heap'[m].content = heap[m].content

LEMMA TypedStep ==
    ASSUME Typed, HeapKept, NEW a \in Actor,
           NEW f \in Frames', frame' = [frame EXCEPT ![a] = f],
           \/ f = Idle
           \/ /\ f.hand # Null
              /\ a \in Workers => f.at \in Stage
              /\ f.carry # Null => /\ f.todo # <<>>
                                   /\ heap'[f.carry].content = heap'[f.hand].content,
           queue' \in [Stage -> Seq(Message')],
           script' \in [Producers -> Seq(Content)],
           served' \in [Stage -> Seq(Content)],
           thrown' \subseteq Content
    PROVE  Typed'
<1>1. frame \in [Actor -> Frames] /\ Frames \subseteq Frames'
    BY DEF Typed, TypeOK, Frames, HeapKept
<1>2. frame' \in [Actor -> Frames']
    BY <1>1
<1>3. TypeOK'
    BY <1>2 DEF TypeOK, Frames, HeapKept, Objects
<1>4. ASSUME NEW b \in Actor, b # a
      PROVE  \/ frame[b] = Idle
             \/ /\ frame[b].hand # Null
                /\ b \in Workers => frame[b].at \in Stage
                /\ frame[b].carry # Null =>
                      /\ frame[b].todo # <<>>
                      /\ heap'[frame[b].carry].content = heap'[frame[b].hand].content
  <2>1. frame[b].hand \in Message \cup {Null} /\ frame[b].carry \in Message \cup {Null}
      BY <1>1, <1>4 DEF Frames
  <2> QED
      BY <1>4, <2>1 DEF Typed, Coherent, HeapKept
<1>5. Coherent'
    BY <1>1, <1>4 DEF Coherent
<1> QED
    BY <1>3, <1>5 DEF Typed

LEMMA QueuesStep ==
    ASSUME TypeOK, Message \subseteq Message', UNCHANGED queue
    PROVE  queue' \in [Stage -> Seq(Message')]
BY SeqMonotonic DEF TypeOK

LEMMA HeapObject ==
    ASSUME Typed, NEW m \in Message
    PROVE  heap[m] \in Objects
<1>1. heap \in Seq(Objects)
    BY DEF Typed, TypeOK, Objects
<1> QED
    BY <1>1, ElementOfSeq, LenProperties DEF Message

(* Allocation of a message leaves the others where and as they are.        *)
LEMMA Allocation ==
    ASSUME TypeOK, NEW c \in Content, heap' = Append(heap, Allocated(c))
    PROVE  /\ HeapKept
           /\ Message' = Message \cup {Len(heap) + 1}
           /\ \A m \in Message : heap'[m] = heap[m]
           /\ heap'[Len(heap) + 1] = Allocated(c)
           /\ Len(heap) + 1 \notin Message
           /\ Len(heap) + 1 # Null
<1>1. Allocated(c) \in Objects
    BY DEF Allocated, Objects
<1>2. heap \in Seq(Objects)
    BY DEF TypeOK, Objects
<1> QED
    BY <1>1, <1>2 DEF Message, Null, HeapKept

(* So does counting one.                                                   *)
LEMMA Counting ==
    ASSUME TypeOK, NEW m \in Message, NEW o \in Objects, o.content = heap[m].content,
           heap' = [heap EXCEPT ![m] = o]
    PROVE  /\ HeapKept
           /\ Message' = Message
           /\ \A n \in Message : n # m => heap'[n] = heap[n]
           /\ heap'[m] = o
<1>1. heap \in Seq(Objects)
    BY DEF TypeOK, Objects
<1> QED
    BY <1>1, ExceptSeq, LenProperties DEF Message, HeapKept

LEMMA TypedCreate ==
    ASSUME Typed, NEW p \in Producers, Create(p)
    PROVE  Typed'
<1>1. p \in Actor /\ p \notin Workers
    BY StageFlowAssumption DEF Actor
<1>2. Head(script[p]) \in Content /\ script' \in [Producers -> Seq(Content)]
    BY DEF Create, Typed, TypeOK
<1>3. HeapKept /\ Message' = Message \cup {Len(heap) + 1} /\ Len(heap) + 1 # Null
    BY <1>2, Allocation DEF Create, Typed
<1> DEFINE todo == <<[to |-> EntryStage[p], clone |-> FALSE]>>
<1> DEFINE f == [Idle EXCEPT !.hand = Len(heap) + 1, !.todo = todo]
<1>4. todo \in Seq(Dispatch)
    BY StageFlowAssumption DEF Dispatch
<1> HIDE DEF todo
<1>5. f \in Frames' /\ f.hand # Null /\ f.carry = Null
    BY <1>3, <1>4 DEF Frames, Idle
<1>6. frame' = [frame EXCEPT ![p] = f]
    BY DEF Create, todo
<1> HIDE DEF f
<1>7. queue' \in [Stage -> Seq(Message')]
    BY <1>3, QueuesStep DEF Create, Typed
<1> QED
    BY <1>1, <1>2, <1>3, <1>5, <1>6, <1>7, TypedStep DEF Create, Typed, TypeOK

LEMMA TypedTryPop ==
    ASSUME Typed, NEW w \in Workers, NEW s \in Stage, TryPop(w, s)
    PROVE  Typed'
<1>1. w \in Actor
    BY DEF Actor
<1>2. HeapKept /\ Message' = Message
    BY DEF TryPop, HeapKept, Message, Typed, TypeOK, Objects
<1>3. queue[s] \in Seq(Message) /\ queue[s] # <<>>
    BY DEF TryPop, Typed, TypeOK
<1>4. Head(queue[s]) \in Message /\ Tail(queue[s]) \in Seq(Message)
    BY <1>3, HeadTailProperties
<1> DEFINE f == [hand |-> Head(queue[s]), carry |-> Null, todo |-> Route[s], at |-> s]
<1>5. f \in Frames' /\ f.hand # Null /\ f.carry = Null /\ f.at \in Stage
    BY <1>2, <1>4, NullIsNoMessage, StageFlowAssumption DEF Frames, Typed
<1>6. frame' = [frame EXCEPT ![w] = f]
    BY DEF TryPop
<1> HIDE DEF f
<1>7. queue' \in [Stage -> Seq(Message')]
    BY <1>2, <1>4 DEF TryPop, Typed, TypeOK
<1> QED
    BY <1>1, <1>2, <1>5, <1>6, <1>7, TypedStep DEF TryPop, Typed, TypeOK

(* What is known of an actor with a call under way.                        *)
LEMMA Busy ==
    ASSUME Typed, NEW a \in Actor,
           frame[a].hand # Null \/ frame[a].carry # Null \/ frame[a].todo # <<>>
    PROVE  /\ frame[a] \in Frames
           /\ frame[a].hand \in Message /\ frame[a].hand # Null
           /\ a \in Workers => frame[a].at \in Stage
           /\ frame[a].carry # Null =>
                 /\ frame[a].todo # <<>>
                 /\ frame[a].carry \in Message
                 /\ heap[frame[a].carry].content = heap[frame[a].hand].content
<1>1. frame[a] \in Frames
    BY DEF Typed, TypeOK, Frames
<1>2. frame[a] # Idle
    BY DEF Idle
<1> QED
    BY <1>1, <1>2 DEF Typed, Coherent, Frames

LEMMA TypedRetain ==
    ASSUME Typed, NEW a \in Actor, Retain(a)
    PROVE  Typed' /\ HeapKept
<1> DEFINE m == frame[a].hand
<1> DEFINE o == [heap[m] EXCEPT !.refs = @ + 1]
<1>1. /\ frame[a] \in Frames /\ m \in Message /\ m # Null
      /\ a \in Workers => frame[a].at \in Stage
      /\ frame[a].todo # <<>>
    BY Busy DEF Retain, Dispatching
<1>2. o \in Objects /\ o.content = heap[m].content
    BY <1>1, HeapObject DEF Objects
<1>3. heap' = [heap EXCEPT ![m] = o]
    BY DEF Retain, AddRef
<1> HIDE DEF o
<1>4. HeapKept /\ Message' = Message
    BY <1>1, <1>2, <1>3, Counting DEF Typed
<1> DEFINE f == [frame[a] EXCEPT !.carry = m]
<1>5. f \in Frames' /\ f.hand = m /\ f.carry = m /\ f.at = frame[a].at /\ f.todo = frame[a].todo
    BY <1>1, <1>4 DEF Frames
<1>6. frame' = [frame EXCEPT ![a] = f]
    BY DEF Retain
<1> HIDE DEF f
<1>7. queue' \in [Stage -> Seq(Message')]
    BY <1>4, QueuesStep DEF Retain, Typed
<1> QED
    BY <1>1, <1>4, <1>5, <1>6, <1>7, TypedStep DEF Retain, Typed, TypeOK

LEMMA TypedCopy ==
    ASSUME Typed, NEW a \in Actor, Copy(a)
    PROVE  Typed' /\ HeapKept
<1> DEFINE m == frame[a].hand
<1> DEFINE c == heap[m].content
<1> DEFINE new == Len(heap) + 1
<1>1. /\ frame[a] \in Frames /\ m \in Message /\ m # Null
      /\ a \in Workers => frame[a].at \in Stage
      /\ frame[a].todo # <<>>
    BY Busy DEF Copy, Dispatching
<1>2. c \in Content
    BY <1>1, HeapObject DEF Objects
<1>3. /\ HeapKept /\ Message' = Message \cup {new} /\ new # Null
      /\ heap'[m].content = c /\ heap'[new].content = c
  <2>1. heap' = Append(heap, Allocated(c))
      BY DEF Copy
  <2>2. Allocated(c).content = c
      BY DEF Allocated
  <2>3. heap[m].content = c
      OBVIOUS
  <2> HIDE DEF c
  <2>4. /\ HeapKept /\ Message' = Message \cup {new} /\ new # Null
        /\ \A n \in Message : heap'[n] = heap[n]
        /\ heap'[new] = Allocated(c)
      BY <1>2, <2>1, Allocation DEF Typed
  <2> QED
      BY <1>1, <2>2, <2>3, <2>4
<1> HIDE DEF c, new
<1> DEFINE f == [frame[a] EXCEPT !.carry = new]
<1>4. f \in Frames' /\ f.hand = m /\ f.carry = new /\ f.at = frame[a].at /\ f.todo = frame[a].todo
    BY <1>1, <1>3 DEF Frames
<1>5. frame' = [frame EXCEPT ![a] = f]
    BY DEF Copy, new
<1> HIDE DEF f
<1>6. queue' \in [Stage -> Seq(Message')]
    BY <1>3, QueuesStep DEF Copy, Typed
<1> QED
    BY <1>1, <1>3, <1>4, <1>5, <1>6, TypedStep DEF Copy, Typed, TypeOK

LEMMA TypedPush ==
    ASSUME Typed, NEW a \in Actor, Push(a)
    PROVE  Typed' /\ HeapKept
<1>1. /\ frame[a] \in Frames /\ frame[a].hand # Null
      /\ a \in Workers => frame[a].at \in Stage
      /\ frame[a].todo # <<>> /\ frame[a].carry \in Message
    BY Busy DEF Push
<1>2. /\ frame[a].todo \in Seq(Dispatch)
      /\ Head(frame[a].todo) \in Dispatch /\ Tail(frame[a].todo) \in Seq(Dispatch)
    BY <1>1, HeadTailProperties DEF Frames
<1>3. HeapKept /\ Message' = Message
    BY DEF Push, HeapKept, Message, Typed, TypeOK, Objects
<1> DEFINE f == [frame[a] EXCEPT !.carry = Null, !.todo = Tail(@)]
<1>4. f \in Frames' /\ f.hand = frame[a].hand /\ f.carry = Null /\ f.at = frame[a].at
    BY <1>1, <1>2, <1>3 DEF Frames
<1>5. frame' = [frame EXCEPT ![a] = f]
    BY DEF Push
<1> HIDE DEF f
<1>6. queue' \in [Stage -> Seq(Message')]
  <2> DEFINE to == Head(frame[a].todo).to
  <2>1. to \in Stage
      BY <1>2 DEF Dispatch
  <2> HIDE DEF to
  <2>2. queue' = [queue EXCEPT ![to] = Append(@, frame[a].carry)]
      BY DEF Push, to
  <2>3. Append(queue[to], frame[a].carry) \in Seq(Message)
      BY <1>1, <2>1 DEF Typed, TypeOK
  <2> QED
      BY <1>3, <2>1, <2>2, <2>3 DEF Typed, TypeOK
<1> QED
    BY <1>1, <1>3, <1>4, <1>5, <1>6, TypedStep DEF Push, Typed, TypeOK

(* The end of a functor, either way: the message is counted, so the count  *)
(* can go down.                                                            *)
LEMMA TypedDrop ==
    ASSUME Typed, NEW a \in Actor, frame[a].hand # Null,
           heap[frame[a].hand].refs # 0,
           heap' = DropRef(frame[a].hand), frame' = [frame EXCEPT ![a] = Idle],
           UNCHANGED <<queue, script>>,
           served' \in [Stage -> Seq(Content)], thrown' \subseteq Content
    PROVE  Typed' /\ HeapKept
<1> DEFINE m == frame[a].hand
<1> DEFINE o == [heap[m] EXCEPT !.refs = @ - 1, !.live = heap[m].refs # 1]
<1>1. m \in Message
    BY Busy
<1>2. o \in Objects /\ o.content = heap[m].content
  <2>1. heap[m] \in Objects /\ heap[m].refs \in Nat /\ heap[m].refs # 0
      BY <1>1, HeapObject DEF Objects
  <2>2. heap[m].refs - 1 \in Nat
      BY <2>1
  <2> QED
      BY <2>1, <2>2 DEF Objects
<1>3. heap' = [heap EXCEPT ![m] = o]
    BY DEF DropRef
<1> HIDE DEF o
<1>4. HeapKept /\ Message' = Message
    BY <1>1, <1>2, <1>3, Counting DEF Typed
<1>5. Idle \in Frames'
    BY DEF Idle, Frames
<1>6. queue' \in [Stage -> Seq(Message')]
    BY <1>4, QueuesStep DEF Typed
<1> QED
    BY <1>4, <1>5, <1>6, TypedStep DEF Typed, TypeOK

LEMMA ContentHeld ==
    ASSUME Typed, NEW a \in Actor, frame[a].hand # Null
    PROVE  heap[frame[a].hand].content \in Content
BY Busy, HeapObject DEF Objects

LEMMA TypedRelease ==
    ASSUME Typed, NEW a \in Actor, Release(a), heap[frame[a].hand].refs # 0
    PROVE  Typed' /\ HeapKept
<1>1. frame[a].hand # Null
    BY DEF Release
<1>2. served' \in [Stage -> Seq(Content)]
  <2>1. CASE a \in Workers
    <3>1. frame[a].at \in Stage /\ heap[frame[a].hand].content \in Content
        BY <1>1, <2>1, Busy, ContentHeld
    <3> QED
        BY <2>1, <3>1 DEF Release, Typed, TypeOK
  <2>2. CASE a \notin Workers
      BY <2>2 DEF Release, Typed, TypeOK
  <2> QED
      BY <2>1, <2>2
<1> QED
    BY <1>1, <1>2, TypedDrop DEF Release, Typed, TypeOK

LEMMA TypedThrow ==
    ASSUME Typed, NEW w \in Workers, Throw(w), heap[frame[w].hand].refs # 0
    PROVE  Typed' /\ HeapKept
<1>1. frame[w].hand # Null /\ w \in Actor
    BY DEF Throw, Actor
<1>2. thrown' \subseteq Content
    BY <1>1, ContentHeld DEF Throw, Typed, TypeOK
<1> QED
    BY <1>1, <1>2, TypedDrop DEF Throw, Typed, TypeOK

-----------------------------------------------------------------------------
(* Counting queue slots and variables *)

(* The slots of the queues q that hold m.                                  *)
Places(q, m) == {x \in (DOMAIN q) \X Nat : x[2] \in DOMAIN q[x[1]] /\ q[x[1]][x[2]] = m}

(* The actors whose variable, of the variables v, holds m.                 *)
Holders(v, m) == {a \in DOMAIN v : v[a] = m}

Same(x, y) == IF x = y THEN 1 ELSE 0

(* r is what a push of x to queue s makes of the queues q.                 *)
Pushed(q, r, s, x) ==
    /\ s \in DOMAIN q /\ DOMAIN r = DOMAIN q
    /\ r[s] = Append(q[s], x)
    /\ \A u \in DOMAIN q : u # s => r[u] = q[u]

(* r is what a pop of x from queue s makes of the queues q.                *)
Popped(q, r, s, x) ==
    /\ s \in DOMAIN q /\ DOMAIN r = DOMAIN q
    /\ q[s] # <<>> /\ x = Head(q[s]) /\ r[s] = Tail(q[s])
    /\ \A u \in DOMAIN q : u # s => r[u] = q[u]

(* An assignment to variable a takes the variables from v to w.            *)
Assigned(v, w, a) ==
    /\ a \in DOMAIN v /\ DOMAIN w = DOMAIN v
    /\ \A b \in DOMAIN v : b # a => w[b] = v[b]

LEMMA InPlaces ==
    ASSUME NEW q, NEW u \in DOMAIN q, NEW i \in Nat, i \in DOMAIN q[u], NEW m, q[u][i] = m
    PROVE  <<u, i>> \in Places(q, m)
BY DEF Places

LEMMA NoPlaces ==
    ASSUME NEW S, NEW M, NEW q \in [S -> Seq(M)], NEW m, m \notin M
    PROVE  IsFiniteSet(Places(q, m)) /\ Cardinality(Places(q, m)) = 0
<1>1. Places(q, m) = {}
  <2> SUFFICES ASSUME NEW x \in Places(q, m) PROVE FALSE
      OBVIOUS
  <2>1. q[x[1]] \in Seq(M) /\ x[2] \in DOMAIN q[x[1]] /\ q[x[1]][x[2]] = m
      BY DEF Places
  <2> QED
      BY <2>1, LenProperties
<1> QED
    BY <1>1, FS_EmptySet

(* A push fills one slot, of the message pushed.                           *)
LEMMA PushPlaces ==
    ASSUME NEW S, NEW M, NEW q \in [S -> Seq(M)], NEW r, NEW s, NEW x \in M,
           Pushed(q, r, s, x), NEW m, IsFiniteSet(Places(q, m))
    PROVE  /\ IsFiniteSet(Places(r, m))
           /\ Cardinality(Places(r, m)) = Cardinality(Places(q, m)) + Same(x, m)
<1> DEFINE last == <<s, Len(q[s]) + 1>>
<1>1. /\ s \in S /\ q[s] \in Seq(M) /\ Len(q[s]) \in Nat /\ DOMAIN q[s] = 1 .. Len(q[s])
      /\ DOMAIN r = DOMAIN q /\ DOMAIN r = S
    BY LenProperties DEF Pushed
<1>2. /\ DOMAIN r[s] = 1 .. Len(q[s]) + 1
      /\ \A i \in 1 .. Len(q[s]) : r[s][i] = q[s][i]
      /\ r[s][Len(q[s]) + 1] = x
      /\ \A u \in S : u # s => r[u] = q[u]
  <2>1. r[s] = Append(q[s], x) /\ Append(q[s], x) \in Seq(M)
      BY <1>1 DEF Pushed
  <2>2. \A u \in S : u # s => r[u] = q[u]
      BY DEF Pushed
  <2> QED
      BY <1>1, <2>1, <2>2, AppendProperties, LenProperties
<1>3. last \notin Places(q, m)
    BY <1>1 DEF Places
<1>4. Places(r, m) = IF x = m THEN Places(q, m) \cup {last} ELSE Places(q, m)
  <2>1. ASSUME NEW y \in Places(r, m) PROVE y \in Places(q, m) \/ (x = m /\ y = last)
    <3>1. CASE y[1] = s
        BY <1>1, <1>2, <2>1, <3>1 DEF Places
    <3>2. CASE y[1] # s
        BY <1>1, <1>2, <2>1, <3>2 DEF Places
    <3> QED
        BY <3>1, <3>2
  <2>2. ASSUME NEW y \in Places(q, m) PROVE y \in Places(r, m)
    <3>1. CASE y[1] = s
        BY <1>1, <1>2, <2>2, <3>1 DEF Places
    <3>2. CASE y[1] # s
        BY <1>1, <1>2, <2>2, <3>2 DEF Places
    <3> QED
        BY <3>1, <3>2
  <2>3. x = m => last \in Places(r, m)
      BY <1>1, <1>2 DEF Places
  <2> QED
      BY <2>1, <2>2, <2>3
<1> HIDE DEF last
<1> QED
  <2>1. Cardinality(Places(q, m)) \in Nat
      BY FS_CardinalityType
  <2>2. /\ IsFiniteSet(Places(q, m) \cup {last})
        /\ Cardinality(Places(q, m) \cup {last}) = Cardinality(Places(q, m)) + 1
      BY <1>3, FS_AddElement
  <2>3. CASE x = m
      BY <1>4, <2>2, <2>3 DEF Same
  <2>4. CASE x # m
      BY <1>4, <2>1, <2>4 DEF Same
  <2> QED
      BY <2>3, <2>4

(* A pop empties one slot, of the message at the head, and moves the rest. *)
LEMMA PopPlaces ==
    ASSUME NEW S, NEW M, NEW q \in [S -> Seq(M)], NEW r, NEW s, NEW x,
           Popped(q, r, s, x), NEW m, IsFiniteSet(Places(q, m))
    PROVE  /\ IsFiniteSet(Places(r, m))
           /\ Cardinality(Places(r, m)) = Cardinality(Places(q, m)) - Same(x, m)
<1> DEFINE first == <<s, 1>>
<1> DEFINE rest == Places(q, m) \ {first}
<1> DEFINE back == [y \in rest |-> IF y[1] = s THEN <<s, y[2] - 1>> ELSE y]
<1>1. /\ s \in S /\ q[s] \in Seq(M) /\ DOMAIN q[s] = 1 .. Len(q[s])
      /\ Len(q[s]) \in Nat /\ Len(q[s]) > 0
      /\ DOMAIN r = DOMAIN q /\ DOMAIN r = S
      /\ x = q[s][1]
    BY LenProperties, EmptySeq DEF Popped
<1>2. /\ DOMAIN r[s] = 1 .. Len(q[s]) - 1
      /\ \A i \in 1 .. Len(q[s]) - 1 : r[s][i] = q[s][i + 1]
      /\ \A u \in S : u # s => r[u] = q[u]
  <2>1. q[s] # <<>> /\ r[s] = Tail(q[s])
      BY DEF Popped
  <2>2. \A u \in S : u # s => r[u] = q[u]
      BY DEF Popped
  <2> QED
      BY <1>1, <2>1, <2>2, HeadTailProperties, LenProperties
<1>3. first \in Places(q, m) <=> x = m
    BY <1>1 DEF Places
<1>4. /\ IsFiniteSet(rest)
      /\ Cardinality(rest) = Cardinality(Places(q, m)) - Same(x, m)
  <2>1. Cardinality(Places(q, m)) \in Nat
      BY FS_CardinalityType
  <2>2. /\ IsFiniteSet(rest)
        /\ Cardinality(rest) = IF first \in Places(q, m) THEN Cardinality(Places(q, m)) - 1
                                                        ELSE Cardinality(Places(q, m))
      BY FS_RemoveElement
  <2> QED
      BY <1>3, <2>1, <2>2 DEF Same
<1>5. \A y \in rest : /\ y = <<y[1], y[2]>> /\ y[1] \in S /\ y[2] \in Nat
                      /\ y[2] \in DOMAIN q[y[1]] /\ q[y[1]][y[2]] = m
                      /\ y[1] = s => y[2] > 1
    BY <1>1 DEF Places
<1>6. back \in [rest -> Places(r, m)]
  <2> SUFFICES ASSUME NEW y \in rest PROVE back[y] \in Places(r, m)
      OBVIOUS
  <2>1. CASE y[1] = s
    <3> DEFINE i == y[2] - 1
    <3> DEFINE n == Len(q[s])
    <3>1. y[2] \in 2 .. n /\ q[s][y[2]] = m /\ n \in Nat /\ s \in DOMAIN r
      <4>1. y[2] \in Nat /\ y[2] > 1
          BY <1>5, <2>1
      <4>2. y[2] \in DOMAIN q[s] /\ q[s][y[2]] = m
          BY <1>5, <2>1
      <4> QED
          BY <1>1, <4>1, <4>2
    <3>2. back[y] = <<s, i>>
        BY <2>1
    <3>3. i \in 1 .. n - 1 /\ i + 1 = y[2]
        BY <3>1
    <3>4. i \in DOMAIN r[s] /\ r[s][i] = m
      <4> HIDE DEF i
      <4> QED
          BY <1>2, <3>1, <3>3
    <3> HIDE DEF i
    <3> QED
      <4>1. i \in Nat
          BY <3>1, <3>3
      <4>2. <<s, i>> \in Places(r, m)
          BY <3>1, <3>4, <4>1, InPlaces
      <4> QED
          BY <3>2, <4>2
  <2>2. CASE y[1] # s
    <3>1. back[y] = y
        BY <2>2
    <3> QED
        BY <1>1, <1>2, <1>5, <2>2, <3>1 DEF Places
  <2> QED
      BY <2>1, <2>2
<1>7. \A y, z \in rest : back[y] = back[z] => y = z
  <2> SUFFICES ASSUME NEW y \in rest, NEW z \in rest, back[y] = back[z]
               PROVE  y = z
      OBVIOUS
  <2>1. back[y][1] = y[1] /\ back[z][1] = z[1]
      BY <1>5
  <2>2. CASE y[1] = s
    <3>1. back[y] = <<s, y[2] - 1>> /\ back[z] = <<s, z[2] - 1>> /\ z[1] = s
        BY <2>1, <2>2
    <3>2. y[2] - 1 = z[2] - 1
        BY <3>1
    <3>3. y[2] \in Nat /\ z[2] \in Nat /\ y = <<y[1], y[2]>> /\ z = <<z[1], z[2]>>
        BY <1>5
    <3>4. y[2] = z[2]
        BY <3>2, <3>3
    <3> QED
        BY <2>2, <3>1, <3>3, <3>4
  <2>3. CASE y[1] # s
      BY <1>5, <2>1, <2>3
  <2> QED
      BY <2>2, <2>3
<1>8. ASSUME NEW z \in Places(r, m)
      PROVE  \E y \in rest : back[y] = z
  <2>1. /\ z = <<z[1], z[2]>> /\ z[1] \in S /\ z[2] \in Nat
        /\ z[2] \in DOMAIN r[z[1]] /\ r[z[1]][z[2]] = m
      BY <1>1, <1>8 DEF Places
  <2>2. CASE z[1] = s
    <3>1. <<s, z[2] + 1>> \in rest
        BY <1>1, <1>2, <2>1, <2>2 DEF Places
    <3>2. back[<<s, z[2] + 1>>] = z
        BY <2>1, <2>2, <3>1
    <3> QED
        BY <3>1, <3>2
  <2>3. CASE z[1] # s
    <3>1. z \in rest
        BY <1>1, <1>2, <2>1, <2>3 DEF Places
    <3>2. back[z] = z
        BY <2>3, <3>1
    <3> QED
        BY <3>1, <3>2
  <2> QED
      BY <2>2, <2>3
<1> HIDE DEF rest, back
<1>9. ExistsBijection(rest, Places(r, m))
    BY <1>6, <1>7, <1>8, Fun_IsBij DEF ExistsBijection
<1> QED
    BY <1>4, <1>9, FS_Bijection

(* An assignment to one variable takes from the holders of its old value   *)
(* and adds to those of its new one.                                       *)
LEMMA AssignHolders ==
    ASSUME NEW v, NEW w, NEW a, Assigned(v, w, a), NEW m, IsFiniteSet(Holders(v, m))
    PROVE  /\ IsFiniteSet(Holders(w, m))
           /\ Cardinality(Holders(w, m))
                  = Cardinality(Holders(v, m)) + Same(w[a], m) - Same(v[a], m)
<1>1. Holders(w, m) = IF w[a] = m THEN Holders(v, m) \cup {a} ELSE Holders(v, m) \ {a}
    BY DEF Holders, Assigned
<1>2. a \in Holders(v, m) <=> v[a] = m
    BY DEF Holders, Assigned
<1>3. Cardinality(Holders(v, m)) \in Nat
    BY FS_CardinalityType
<1>4. CASE w[a] = m
  <2>1. /\ IsFiniteSet(Holders(v, m) \cup {a})
        /\ Cardinality(Holders(v, m) \cup {a})
              = IF a \in Holders(v, m) THEN Cardinality(Holders(v, m))
                                       ELSE Cardinality(Holders(v, m)) + 1
      BY FS_AddElement
  <2>2. Holders(w, m) = Holders(v, m) \cup {a}
      BY <1>1, <1>4
  <2>3. Same(w[a], m) = 1
      BY <1>4 DEF Same
  <2>4. Same(v[a], m) = IF a \in Holders(v, m) THEN 1 ELSE 0
      BY <1>2 DEF Same
  <2>5. IsFiniteSet(Holders(w, m))
      BY <2>1, <2>2
  <2>6. Cardinality(Holders(w, m)) = IF a \in Holders(v, m) THEN Cardinality(Holders(v, m))
                                       ELSE Cardinality(Holders(v, m)) + 1
      BY <2>1, <2>2
  <2> QED
      BY <1>3, <2>5, <2>6, <2>3, <2>4
<1>5. CASE w[a] # m
  <2>1. /\ IsFiniteSet(Holders(v, m) \ {a})
        /\ Cardinality(Holders(v, m) \ {a})
              = IF a \in Holders(v, m) THEN Cardinality(Holders(v, m)) - 1
                                       ELSE Cardinality(Holders(v, m))
      BY FS_RemoveElement
  <2>2. Holders(w, m) = Holders(v, m) \ {a}
      BY <1>1, <1>5
  <2>3. Same(w[a], m) = 0
      BY <1>5 DEF Same
  <2>4. Same(v[a], m) = IF a \in Holders(v, m) THEN 1 ELSE 0
      BY <1>2 DEF Same
  <2>5. IsFiniteSet(Holders(w, m))
      BY <2>1, <2>2
  <2>6. Cardinality(Holders(w, m)) = IF a \in Holders(v, m) THEN Cardinality(Holders(v, m)) - 1
                                       ELSE Cardinality(Holders(v, m))
      BY <2>1, <2>2
  <2> QED
      BY <1>3, <2>5, <2>6, <2>3, <2>4
<1> QED
    BY <1>4, <1>5

(* A message held is counted.                                              *)
LEMMA HeldIsCounted ==
    ASSUME NEW v, NEW a \in DOMAIN v, IsFiniteSet(Holders(v, v[a]))
    PROVE  Cardinality(Holders(v, v[a])) \in Nat \ {0}
<1>1. Holders(v, v[a]) # {}
    BY DEF Holders
<1> QED
    BY <1>1, FS_EmptySet, FS_CardinalityType

-----------------------------------------------------------------------------
(* Reference counts *)

Hands(f) == [a \in Actor |-> f[a].hand]
Carries(f) == [a \in Actor |-> f[a].carry]

(* How many pointers to m are in the queues q and the frames f, and that   *)
(* there are finitely many.                                                *)
Tally(q, f, m) == Cardinality(Places(q, m)) + Cardinality(Holders(Hands(f), m))
                                            + Cardinality(Holders(Carries(f), m))
Tallied(q, f, m) ==
    /\ IsFiniteSet(Places(q, m))
    /\ IsFiniteSet(Holders(Hands(f), m))
    /\ IsFiniteSet(Holders(Carries(f), m))

Counted ==
    \A m \in Message :
        /\ Tallied(queue, frame, m)
        /\ heap[m].refs = Tally(queue, frame, m)
        /\ (heap[m].live <=> heap[m].refs > 0)

IInv == Typed /\ Counted

LEMMA TallyType ==
    ASSUME NEW q, NEW f, NEW m, Tallied(q, f, m)
    PROVE  /\ Cardinality(Places(q, m)) \in Nat
           /\ Cardinality(Holders(Hands(f), m)) \in Nat
           /\ Cardinality(Holders(Carries(f), m)) \in Nat
           /\ Tally(q, f, m) \in Nat
BY FS_CardinalityType DEF Tallied, Tally

(* There is no pointer to a message that is not yet allocated.             *)
LEMMA NotYetTallied ==
    ASSUME Typed, NEW m, m \notin Message, m # Null
    PROVE  Tallied(queue, frame, m) /\ Tally(queue, frame, m) = 0
<1>1. queue \in [Stage -> Seq(Message)] /\ frame \in [Actor -> Frames]
    BY DEF Typed, TypeOK, Frames
<1>2. IsFiniteSet(Places(queue, m)) /\ Cardinality(Places(queue, m)) = 0
    BY <1>1, NoPlaces
<1>3. Holders(Hands(frame), m) = {} /\ Holders(Carries(frame), m) = {}
    BY <1>1 DEF Holders, Hands, Carries, Frames
<1> QED
    BY <1>2, <1>3, FS_EmptySet DEF Tallied, Tally

(* The frames f and g differ in the call of a only, and what that means    *)
(* for the number of pointers to m.                                        *)
Steps(f, g, a) == \A b \in Actor : b # a => g[b] = f[b]
Shift(f, g, a, m) == (Same(g[a].hand, m) - Same(f[a].hand, m))
                     + (Same(g[a].carry, m) - Same(f[a].carry, m))

LEMMA TallyStep ==
    ASSUME NEW q, NEW r, NEW f, NEW g, NEW m, Tallied(q, f, m), IsFiniteSet(Places(r, m)),
           NEW a \in Actor, Steps(f, g, a)
    PROVE  /\ Tallied(r, g, m)
           /\ Tally(r, g, m)
                = Tally(q, f, m) + (Cardinality(Places(r, m)) - Cardinality(Places(q, m)))
                  + Shift(f, g, a, m)
<1>1. /\ IsFiniteSet(Places(q, m))
      /\ IsFiniteSet(Holders(Hands(f), m)) /\ IsFiniteSet(Holders(Carries(f), m))
    BY DEF Tallied
<1>2. /\ IsFiniteSet(Holders(Hands(g), m))
      /\ Cardinality(Holders(Hands(g), m))
           = Cardinality(Holders(Hands(f), m)) + Same(g[a].hand, m) - Same(f[a].hand, m)
  <2>1. Hands(f)[a] = f[a].hand /\ Hands(g)[a] = g[a].hand
      BY DEF Hands
  <2>2. Assigned(Hands(f), Hands(g), a)
      BY DEF Hands, Assigned, Steps
  <2> QED
      BY <1>1, <2>1, <2>2, AssignHolders
<1>3. /\ IsFiniteSet(Holders(Carries(g), m))
      /\ Cardinality(Holders(Carries(g), m))
           = Cardinality(Holders(Carries(f), m)) + Same(g[a].carry, m) - Same(f[a].carry, m)
  <2>1. Carries(f)[a] = f[a].carry /\ Carries(g)[a] = g[a].carry
      BY DEF Carries
  <2>2. Assigned(Carries(f), Carries(g), a)
      BY DEF Carries, Assigned, Steps
  <2> QED
      BY <1>1, <2>1, <2>2, AssignHolders
<1>4. /\ Cardinality(Places(q, m)) \in Nat /\ Cardinality(Places(r, m)) \in Nat
      /\ Cardinality(Holders(Hands(f), m)) \in Nat /\ Cardinality(Holders(Carries(f), m)) \in Nat
    BY <1>1, FS_CardinalityType
<1>5. /\ Same(g[a].hand, m) \in Int /\ Same(f[a].hand, m) \in Int
      /\ Same(g[a].carry, m) \in Int /\ Same(f[a].carry, m) \in Int
    BY DEF Same
<1> QED
    BY <1>2, <1>3, <1>4, <1>5 DEF Tally, Tallied, Shift

LEMMA TallyFrame ==
    ASSUME NEW q, NEW f, NEW g, NEW m, Tallied(q, f, m), NEW a \in Actor, Steps(f, g, a)
    PROVE  Tallied(q, g, m) /\ Tally(q, g, m) = Tally(q, f, m) + Shift(f, g, a, m)
<1>1. IsFiniteSet(Places(q, m)) /\ Cardinality(Places(q, m)) \in Nat /\ Tally(q, f, m) \in Nat
    BY TallyType DEF Tallied
<1>2. /\ Tallied(q, g, m)
      /\ Tally(q, g, m)
           = Tally(q, f, m) + (Cardinality(Places(q, m)) - Cardinality(Places(q, m)))
             + Shift(f, g, a, m)
    BY <1>1, TallyStep
<1>3. /\ Cardinality(Places(q, m)) - Cardinality(Places(q, m)) = 0
      /\ Tally(q, f, m) + 0 = Tally(q, f, m)
    BY <1>1
<1> QED
    BY <1>2, <1>3

(* A message that somebody handles is not deleted.                         *)
LEMMA HandIsCounted ==
    ASSUME IInv, NEW a \in Actor, frame[a].hand # Null
    PROVE  /\ frame[a].hand \in Message
           /\ heap[frame[a].hand].refs \in Nat \ {0}
           /\ heap[frame[a].hand].live
<1> DEFINE m == frame[a].hand
<1>1. m \in Message
    BY Busy DEF IInv
<1>2. /\ Tallied(queue, frame, m) /\ heap[m].refs = Tally(queue, frame, m)
      /\ (heap[m].live <=> heap[m].refs > 0)
    BY <1>1 DEF IInv, Counted
<1>3. Cardinality(Holders(Hands(frame), m)) \in Nat \ {0}
  <2>1. a \in DOMAIN Hands(frame) /\ Hands(frame)[a] = m
      BY DEF Hands
  <2>2. IsFiniteSet(Holders(Hands(frame), m))
      BY <1>2 DEF Tallied
  <2> QED
      BY <2>1, <2>2, HeldIsCounted
<1> HIDE DEF m
<1>4. /\ Cardinality(Places(queue, m)) \in Nat
      /\ Cardinality(Holders(Carries(frame), m)) \in Nat
    BY <1>2, TallyType
<1>5. Tally(queue, frame, m) \in Nat \ {0}
    BY <1>3, <1>4 DEF Tally
<1>6. heap[m].refs \in Nat \ {0}
    BY <1>2, <1>5
<1>7. heap[m].live
    BY <1>2, <1>6
<1> QED
    BY <1>1, <1>6, <1>7 DEF m

LEMMA CountedInit == Init => Counted
BY DEF Init, Counted, Message

LEMMA ShiftAt ==
    ASSUME NEW f, NEW g, NEW a, NEW m, NEW h, NEW c, NEW i, NEW d,
           f[a].hand = h, f[a].carry = c, g[a].hand = i, g[a].carry = d
    PROVE  Shift(f, g, a, m) = (Same(i, m) - Same(h, m)) + (Same(d, m) - Same(c, m))
BY DEF Shift

LEMMA CountedCreate ==
    ASSUME IInv, NEW p \in Producers, Create(p)
    PROVE  Counted'
<1> DEFINE new == Len(heap) + 1
<1>1. /\ p \in Actor /\ Head(script[p]) \in Content
      /\ frame \in [Actor -> Frames]
    BY DEF Actor, Create, IInv, Typed, TypeOK, Frames
<1>2. /\ Message' = Message \cup {new} /\ new \notin Message /\ new # Null
      /\ \A m \in Message : heap'[m] = heap[m]
      /\ heap'[new].refs = 1 /\ heap'[new].live = TRUE
  <2>1. heap' = Append(heap, Allocated(Head(script[p])))
      BY DEF Create
  <2>2. /\ Message' = Message \cup {new} /\ new \notin Message /\ new # Null
        /\ \A m \in Message : heap'[m] = heap[m]
        /\ heap'[new] = Allocated(Head(script[p]))
      BY <1>1, <2>1, Allocation DEF IInv, Typed
  <2> QED
      BY <2>2 DEF Allocated
<1>3. Steps(frame, frame', p) /\ queue' = queue
    BY <1>1 DEF Create, Steps
<1>4. \A m : Shift(frame, frame', p, m)
               = (Same(new, m) - Same(Null, m)) + (Same(Null, m) - Same(Null, m))
  <2>1. frame[p].hand = Null /\ frame[p].carry = Null
      BY DEF Create, Idle
  <2>2. frame'[p].hand = new /\ frame'[p].carry = Null
      BY <1>1 DEF Create, Idle
  <2> HIDE DEF new
  <2> QED
      BY <2>1, <2>2, ShiftAt
<1> HIDE DEF new
<1> SUFFICES ASSUME NEW m \in Message'
             PROVE  /\ Tallied(queue', frame', m)
                    /\ heap'[m].refs = Tally(queue', frame', m)
                    /\ (heap'[m].live <=> heap'[m].refs > 0)
    BY DEF Counted
<1>5. m # Null /\ Tallied(queue, frame, m) /\ Tally(queue, frame, m) \in Nat
    BY <1>2, NotYetTallied, NullIsNoMessage, TallyType DEF IInv, Counted, Typed
<1>6. /\ Tallied(queue, frame', m)
      /\ Tally(queue, frame', m) = Tally(queue, frame, m) + Shift(frame, frame', p, m)
    BY <1>1, <1>3, <1>5, TallyFrame
<1>7. Tally(queue, frame', m) = Tally(queue, frame, m) + Same(new, m)
    BY <1>4, <1>5, <1>6 DEF Same
<1>8. CASE m = new
  <2>1. Tally(queue, frame, m) = 0
      BY <1>2, <1>8, NotYetTallied DEF IInv
  <2> QED
      BY <1>2, <1>3, <1>6, <1>7, <1>8, <2>1 DEF Same
<1>9. CASE m # new
  <2>1. m \in Message
      BY <1>2, <1>9
  <2>2. /\ heap'[m] = heap[m] /\ heap[m].refs = Tally(queue, frame, m)
        /\ (heap[m].live <=> heap[m].refs > 0)
      BY <1>2, <2>1 DEF IInv, Counted
  <2>3. Tally(queue, frame', m) = Tally(queue, frame, m)
      BY <1>5, <1>7, <1>9 DEF Same
  <2> QED
      BY <1>3, <1>6, <2>2, <2>3
<1> QED
    BY <1>8, <1>9

(* The reference the queue held is the one the worker holds now.           *)
LEMMA CountedTryPop ==
    ASSUME IInv, NEW w \in Workers, NEW s \in Stage, TryPop(w, s)
    PROVE  Counted'
<1> DEFINE x == Head(queue[s])
<1>1. /\ w \in Actor /\ frame \in [Actor -> Frames]
      /\ queue \in [Stage -> Seq(Message)]
      /\ heap' = heap /\ Message' = Message
    BY DEF Actor, TryPop, IInv, Typed, TypeOK, Frames, Message
<1>2. Popped(queue, queue', s, x)
    BY <1>1 DEF TryPop, Popped
<1>3. Steps(frame, frame', w)
    BY <1>1 DEF TryPop, Steps
<1>4. \A m : Shift(frame, frame', w, m)
               = (Same(x, m) - Same(Null, m)) + (Same(Null, m) - Same(Null, m))
  <2>1. frame[w].hand = Null /\ frame[w].carry = Null
      BY DEF TryPop, Idle
  <2>2. frame'[w].hand = x /\ frame'[w].carry = Null
      BY <1>1 DEF TryPop
  <2> HIDE DEF x
  <2> QED
      BY <2>1, <2>2, ShiftAt
<1> HIDE DEF x
<1> SUFFICES ASSUME NEW m \in Message
             PROVE  Tallied(queue', frame', m) /\ Tally(queue', frame', m) = Tally(queue, frame, m)
    BY <1>1 DEF Counted, IInv
<1>5. m # Null /\ Tallied(queue, frame, m)
    BY NullIsNoMessage DEF IInv, Counted, Typed
<1>6. /\ Tally(queue, frame, m) \in Nat /\ Cardinality(Places(queue, m)) \in Nat
      /\ IsFiniteSet(Places(queue, m))
    BY <1>5, TallyType DEF Tallied
<1>7. /\ IsFiniteSet(Places(queue', m))
      /\ Cardinality(Places(queue', m)) = Cardinality(Places(queue, m)) - Same(x, m)
    BY <1>1, <1>2, <1>6, PopPlaces
<1>8. /\ Tallied(queue', frame', m)
      /\ Tally(queue', frame', m)
           = Tally(queue, frame, m)
             + (Cardinality(Places(queue', m)) - Cardinality(Places(queue, m)))
             + Shift(frame, frame', w, m)
  <2>1. w \in Actor /\ Tallied(queue, frame, m) /\ IsFiniteSet(Places(queue', m))
      BY <1>1, <1>5, <1>7
  <2> QED
      BY <1>3, <2>1, TallyStep
<1> QED
    BY <1>4, <1>5, <1>6, <1>7, <1>8 DEF Same

(* The pointer that is going to be pushed is counted before it exists.     *)
LEMMA CountedRetain ==
    ASSUME IInv, NEW a \in Actor, Retain(a)
    PROVE  Counted'
<1> DEFINE h == frame[a].hand
<1>1. /\ h \in Message /\ h # Null /\ frame \in [Actor -> Frames] /\ queue' = queue
    BY Busy DEF Retain, Dispatching, IInv, Typed, TypeOK, Frames
<1>2. /\ Message' = Message
      /\ \A m \in Message : m # h => heap'[m] = heap[m]
      /\ heap'[h].refs = heap[h].refs + 1 /\ (heap'[h].live <=> heap[h].live)
  <2> DEFINE o == [heap[h] EXCEPT !.refs = @ + 1]
  <2>1. heap[h] \in Objects
      BY <1>1, HeapObject DEF IInv
  <2>2. /\ o \in Objects /\ o.content = heap[h].content
        /\ o.refs = heap[h].refs + 1 /\ o.live = heap[h].live
      BY <2>1 DEF Objects
  <2>3. heap' = [heap EXCEPT ![h] = o]
      BY DEF Retain, AddRef
  <2> HIDE DEF o
  <2> QED
      BY <1>1, <2>2, <2>3, Counting DEF IInv, Typed
<1>3. heap[h].refs \in Nat \ {0} /\ heap[h].live
    BY <1>1, HandIsCounted
<1>4. Steps(frame, frame', a)
    BY <1>1 DEF Retain, Steps
<1>5. \A m : Shift(frame, frame', a, m)
               = (Same(h, m) - Same(h, m)) + (Same(h, m) - Same(Null, m))
  <2>1. frame[a].hand = h /\ frame[a].carry = Null
      BY DEF Retain, Dispatching
  <2>2. frame'[a].hand = h /\ frame'[a].carry = h
      BY <1>1 DEF Retain, Frames
  <2> HIDE DEF h
  <2> QED
      BY <2>1, <2>2, ShiftAt
<1> HIDE DEF h
<1> SUFFICES ASSUME NEW m \in Message
             PROVE  /\ Tallied(queue', frame', m)
                    /\ heap'[m].refs = Tally(queue', frame', m)
                    /\ (heap'[m].live <=> heap'[m].refs > 0)
    BY <1>2 DEF Counted
<1>6. /\ m # Null /\ Tallied(queue, frame, m)
      /\ heap[m].refs = Tally(queue, frame, m)
      /\ (heap[m].live <=> heap[m].refs > 0)
    BY NullIsNoMessage DEF IInv, Counted, Typed
<1>7. Tally(queue, frame, m) \in Nat
    BY <1>6, TallyType
<1>8. /\ Tallied(queue, frame', m)
      /\ Tally(queue, frame', m) = Tally(queue, frame, m) + Shift(frame, frame', a, m)
    BY <1>4, <1>6, TallyFrame
<1>9. Tally(queue, frame', m) = Tally(queue, frame, m) + Same(h, m)
    BY <1>5, <1>6, <1>7, <1>8 DEF Same
<1>10. CASE m = h
  <2>1. heap'[m].refs = Tally(queue, frame', m)
      BY <1>2, <1>6, <1>9, <1>10 DEF Same
  <2>2. heap'[m].refs > 0
      BY <1>2, <1>3, <1>10
  <2>3. heap'[m].live
      BY <1>2, <1>3, <1>10
  <2> QED
      BY <1>1, <1>8, <2>1, <2>2, <2>3
<1>11. CASE m # h
  <2>1. heap'[m] = heap[m] /\ Tally(queue, frame', m) = Tally(queue, frame, m)
      BY <1>2, <1>7, <1>9, <1>11 DEF Same
  <2> QED
      BY <1>1, <1>6, <1>8, <2>1
<1> QED
    BY <1>10, <1>11

LEMMA CountedCopy ==
    ASSUME IInv, NEW a \in Actor, Copy(a)
    PROVE  Counted'
<1> DEFINE h == frame[a].hand
<1> DEFINE new == Len(heap) + 1
<1>1. /\ h \in Message /\ frame \in [Actor -> Frames] /\ queue' = queue
    BY Busy DEF Copy, Dispatching, IInv, Typed, TypeOK, Frames
<1>2. /\ Message' = Message \cup {new} /\ new \notin Message /\ new # Null
      /\ \A m \in Message : heap'[m] = heap[m]
      /\ heap'[new].refs = 1 /\ heap'[new].live = TRUE
  <2> DEFINE c == heap[h].content
  <2>1. c \in Content
      BY <1>1, HeapObject DEF Objects, IInv
  <2>2. heap' = Append(heap, Allocated(c))
      BY DEF Copy
  <2> HIDE DEF c
  <2>3. /\ Message' = Message \cup {new} /\ new \notin Message /\ new # Null
        /\ \A m \in Message : heap'[m] = heap[m]
        /\ heap'[new] = Allocated(c)
      BY <2>1, <2>2, Allocation DEF IInv, Typed
  <2> QED
      BY <2>3 DEF Allocated
<1>3. Steps(frame, frame', a)
    BY <1>1 DEF Copy, Steps
<1>4. \A m : Shift(frame, frame', a, m)
               = (Same(h, m) - Same(h, m)) + (Same(new, m) - Same(Null, m))
  <2>1. frame[a].hand = h /\ frame[a].carry = Null
      BY DEF Copy, Dispatching
  <2>2. frame'[a].hand = h /\ frame'[a].carry = new
      BY <1>1 DEF Copy, Frames
  <2> HIDE DEF h, new
  <2> QED
      BY <2>1, <2>2, ShiftAt
<1> HIDE DEF h, new
<1> SUFFICES ASSUME NEW m \in Message'
             PROVE  /\ Tallied(queue', frame', m)
                    /\ heap'[m].refs = Tally(queue', frame', m)
                    /\ (heap'[m].live <=> heap'[m].refs > 0)
    BY DEF Counted
<1>5. m # Null /\ Tallied(queue, frame, m) /\ Tally(queue, frame, m) \in Nat
    BY <1>2, NotYetTallied, NullIsNoMessage, TallyType DEF IInv, Counted, Typed
<1>6. /\ Tallied(queue, frame', m)
      /\ Tally(queue, frame', m) = Tally(queue, frame, m) + Shift(frame, frame', a, m)
    BY <1>3, <1>5, TallyFrame
<1>7. Tally(queue, frame', m) = Tally(queue, frame, m) + Same(new, m)
    BY <1>4, <1>5, <1>6 DEF Same
<1>8. CASE m = new
  <2>1. Tally(queue, frame, m) = 0
      BY <1>2, <1>8, NotYetTallied DEF IInv
  <2> QED
      BY <1>1, <1>2, <1>6, <1>7, <1>8, <2>1 DEF Same
<1>9. CASE m # new
  <2>1. m \in Message
      BY <1>2, <1>9
  <2>2. /\ heap'[m] = heap[m] /\ heap[m].refs = Tally(queue, frame, m)
        /\ (heap[m].live <=> heap[m].refs > 0)
      BY <1>2, <2>1 DEF IInv, Counted
  <2>3. Tally(queue, frame', m) = Tally(queue, frame, m)
      BY <1>5, <1>7, <1>9 DEF Same
  <2> QED
      BY <1>1, <1>6, <2>2, <2>3
<1> QED
    BY <1>8, <1>9

(* The reference of the unfinished dispatch becomes the one of the queue.  *)
LEMMA CountedPush ==
    ASSUME IInv, NEW a \in Actor, Push(a)
    PROVE  Counted'
<1> DEFINE h == frame[a].hand
<1> DEFINE c == frame[a].carry
<1> DEFINE to == Head(frame[a].todo).to
<1>1. /\ c \in Message /\ frame \in [Actor -> Frames]
      /\ queue \in [Stage -> Seq(Message)]
      /\ heap' = heap /\ Message' = Message
    BY Busy DEF Push, IInv, Typed, TypeOK, Frames, Message
<1>2. to \in Stage
  <2>1. frame[a].todo \in Seq(Dispatch) /\ frame[a].todo # <<>>
      BY <1>1, Busy DEF Push, IInv, Frames
  <2>2. Head(frame[a].todo) \in Dispatch
      BY <2>1, HeadTailProperties
  <2> QED
      BY <2>2 DEF Dispatch
<1>3. Pushed(queue, queue', to, c)
    BY <1>1, <1>2 DEF Push, Pushed
<1>4. Steps(frame, frame', a)
    BY <1>1 DEF Push, Steps
<1>5. \A m : Shift(frame, frame', a, m)
               = (Same(h, m) - Same(h, m)) + (Same(Null, m) - Same(c, m))
  <2>1. frame[a].hand = h /\ frame[a].carry = c
      OBVIOUS
  <2>2. frame'[a].hand = h /\ frame'[a].carry = Null
      BY <1>1 DEF Push, Frames
  <2> HIDE DEF h, c
  <2> QED
      BY <2>1, <2>2, ShiftAt
<1> HIDE DEF h, c, to
<1> SUFFICES ASSUME NEW m \in Message
             PROVE  Tallied(queue', frame', m) /\ Tally(queue', frame', m) = Tally(queue, frame, m)
    BY <1>1 DEF Counted, IInv
<1>6. m # Null /\ Tallied(queue, frame, m)
    BY NullIsNoMessage DEF IInv, Counted, Typed
<1>7. /\ Tally(queue, frame, m) \in Nat /\ Cardinality(Places(queue, m)) \in Nat
      /\ IsFiniteSet(Places(queue, m))
    BY <1>6, TallyType DEF Tallied
<1>8. /\ IsFiniteSet(Places(queue', m))
      /\ Cardinality(Places(queue', m)) = Cardinality(Places(queue, m)) + Same(c, m)
    BY <1>1, <1>3, <1>7, PushPlaces
<1>9. /\ Tallied(queue', frame', m)
      /\ Tally(queue', frame', m)
           = Tally(queue, frame, m)
             + (Cardinality(Places(queue', m)) - Cardinality(Places(queue, m)))
             + Shift(frame, frame', a, m)
    BY <1>4, <1>6, <1>8, TallyStep
<1> QED
    BY <1>5, <1>6, <1>7, <1>8, <1>9 DEF Same

(* The end of a functor gives exactly one reference up.                    *)
LEMMA CountedDrop ==
    ASSUME IInv, NEW a \in Actor, frame[a].hand # Null, frame[a].carry = Null,
           heap' = DropRef(frame[a].hand), frame' = [frame EXCEPT ![a] = Idle],
           UNCHANGED queue
    PROVE  Counted'
<1> DEFINE h == frame[a].hand
<1>1. h \in Message /\ heap[h].refs \in Nat \ {0} /\ heap[h].live
    BY HandIsCounted
<1>2. /\ Message' = Message
      /\ \A m \in Message : m # h => heap'[m] = heap[m]
      /\ heap'[h].refs = heap[h].refs - 1
      /\ heap'[h].live <=> heap[h].refs # 1
  <2> DEFINE o == [heap[h] EXCEPT !.refs = @ - 1, !.live = heap[h].refs # 1]
  <2>1. heap[h] \in Objects
      BY <1>1, HeapObject DEF IInv
  <2>2. heap[h].refs - 1 \in Nat
      BY <1>1
  <2>3. /\ o \in Objects /\ o.content = heap[h].content
        /\ o.refs = heap[h].refs - 1 /\ (o.live <=> heap[h].refs # 1)
      BY <2>1, <2>2 DEF Objects
  <2>4. heap' = [heap EXCEPT ![h] = o]
      BY DEF DropRef
  <2> HIDE DEF o
  <2>5. /\ Message' = Message
        /\ \A m \in Message : m # h => heap'[m] = heap[m]
        /\ heap'[h] = o
    <3>1. TypeOK /\ h \in Message /\ o \in Objects /\ o.content = heap[h].content
        BY <1>1, <2>3 DEF IInv, Typed
    <3> HIDE DEF h
    <3> QED
        BY <2>4, <3>1, Counting
  <2> QED
      BY <2>3, <2>5
<1>3. Steps(frame, frame', a)
    BY DEF Steps, IInv, Typed, TypeOK
<1>4. \A m : Shift(frame, frame', a, m)
               = (Same(Null, m) - Same(h, m)) + (Same(Null, m) - Same(Null, m))
  <2>1. frame'[a].hand = Null /\ frame'[a].carry = Null
      BY DEF IInv, Typed, TypeOK, Idle
  <2>2. frame[a].hand = h /\ frame[a].carry = Null
      OBVIOUS
  <2> HIDE DEF h
  <2> QED
      BY <2>1, <2>2 DEF Shift
<1> HIDE DEF h
<1> SUFFICES ASSUME NEW m \in Message
             PROVE  /\ Tallied(queue', frame', m)
                    /\ heap'[m].refs = Tally(queue', frame', m)
                    /\ (heap'[m].live <=> heap'[m].refs > 0)
    BY <1>2 DEF Counted
<1>5. /\ m # Null /\ Tallied(queue, frame, m)
      /\ heap[m].refs = Tally(queue, frame, m)
      /\ (heap[m].live <=> heap[m].refs > 0)
    BY NullIsNoMessage DEF IInv, Counted, Typed
<1>6. Tally(queue, frame, m) \in Nat
    BY <1>5, TallyType
<1>7. /\ Tallied(queue, frame', m)
      /\ Tally(queue, frame', m) = Tally(queue, frame, m) + Shift(frame, frame', a, m)
    BY <1>3, <1>5, TallyFrame
<1>8. Tally(queue, frame', m) = Tally(queue, frame, m) - Same(h, m)
  <2>1. m # Null
      BY <1>5
  <2>2. Same(Null, m) = 0 /\ Same(h, m) \in Int
      BY <2>1 DEF Same
  <2>3. Shift(frame, frame', a, m)
          = (Same(Null, m) - Same(h, m)) + (Same(Null, m) - Same(Null, m))
      BY <1>4
  <2> QED
      BY <1>6, <1>7, <2>2, <2>3
<1>9. CASE m = h
  <2>1. heap'[m].refs = Tally(queue, frame', m)
      BY <1>2, <1>5, <1>8, <1>9 DEF Same
  <2>2. heap'[m].refs > 0 <=> heap[m].refs # 1
      BY <1>1, <1>2, <1>9
  <2>3. heap'[m].live <=> heap[m].refs # 1
      BY <1>2, <1>9
  <2> QED
      BY <1>7, <2>1, <2>2, <2>3
<1>10. CASE m # h
  <2>1. heap'[m] = heap[m] /\ Tally(queue, frame', m) = Tally(queue, frame, m)
      BY <1>2, <1>6, <1>8, <1>10 DEF Same
  <2> QED
      BY <1>5, <1>7, <2>1
<1> QED
    BY <1>9, <1>10

LEMMA InvariantSend ==
    ASSUME IInv, NEW a \in Actor, Send(a) \/ Release(a)
    PROVE  IInv'
<1>1. CASE Retain(a)
    BY <1>1, TypedRetain, CountedRetain DEF IInv
<1>2. CASE Copy(a)
    BY <1>2, TypedCopy, CountedCopy DEF IInv
<1>3. CASE Push(a)
    BY <1>3, TypedPush, CountedPush DEF IInv
<1>4. CASE Release(a)
  <2>1. heap[frame[a].hand].refs # 0
      BY <1>4, HandIsCounted DEF Release
  <2>2. Counted'
      BY <1>4, CountedDrop DEF Release
  <2> QED
      BY <1>4, <2>1, <2>2, TypedRelease DEF IInv
<1> QED
    BY <1>1, <1>2, <1>3, <1>4 DEF Send

LEMMA InvariantThrow ==
    ASSUME IInv, NEW w \in Workers, Throw(w)
    PROVE  IInv'
<1>1. w \in Actor
    BY DEF Actor
<1>2. heap[frame[w].hand].refs # 0
    BY <1>1, HandIsCounted DEF Throw
<1>3. Counted'
    BY <1>1, CountedDrop DEF Throw
<1> QED
    BY <1>2, <1>3, TypedThrow DEF IInv

LEMMA InvariantNext ==
    ASSUME IInv, [Next]_vars
    PROVE  IInv'
<1>1. CASE UNCHANGED vars
  <2> USE <1>1 DEF vars
  <2>1. Typed'
      BY DEF IInv, Typed, TypeOK, Coherent, Message
  <2>2. Counted'
      BY DEF IInv, Counted, Message
  <2> QED
      BY <2>1, <2>2 DEF IInv
<1>2. ASSUME NEW p \in Producers, Produce(p)
      PROVE  IInv'
  <2>1. CASE Create(p)
      BY <2>1, TypedCreate, CountedCreate DEF IInv
  <2>2. CASE Send(p) \/ Release(p)
      BY <2>2, InvariantSend DEF Actor
  <2> QED
      BY <1>2, <2>1, <2>2 DEF Produce
<1>3. ASSUME NEW w \in Workers,
             (\E s \in Stage : TryPop(w, s)) \/ Send(w) \/ Release(w) \/ Throw(w)
      PROVE  IInv'
  <2>1. CASE \E s \in Stage : TryPop(w, s)
      BY <2>1, TypedTryPop, CountedTryPop DEF IInv
  <2>2. CASE Send(w) \/ Release(w)
      BY <2>2, InvariantSend DEF Actor
  <2>3. CASE Throw(w)
      BY <2>3, InvariantThrow
  <2> QED
      BY <1>3, <2>1, <2>2, <2>3
<1> QED
    BY <1>1, <1>2, <1>3 DEF Next

LEMMA Invariance == Spec => []IInv
<1>1. Init => IInv
    BY TypedInit, CountedInit DEF IInv
<1> QED
    BY <1>1, InvariantNext, PTL DEF Spec

(* Whatever the interleaving, queues and calls hold pointers to messages   *)
(* that were allocated, and histories only contents that were created.     *)
THEOREM Types == Spec => []TypeOK
<1>1. IInv => TypeOK
    BY DEF IInv, Typed
<1> QED
    BY <1>1, Invariance, PTL

LEMMA IInvCounts == IInv => RefCountExact
<1> SUFFICES ASSUME IInv, NEW m \in Message
             PROVE  /\ heap[m].refs = Cardinality(QueueSlots(m)) + Cardinality(Owners(m))
                                                                + Cardinality(Carriers(m))
                    /\ heap[m].live = (heap[m].refs > 0)
    BY DEF RefCountExact
<1>1. queue \in [Stage -> Seq(Message)]
    BY DEF IInv, Typed, TypeOK
<1>2. QueueSlots(m) = Places(queue, m)
    BY <1>1, LenProperties DEF QueueSlots, Places
<1>3. Owners(m) = Holders(Hands(frame), m) /\ Carriers(m) = Holders(Carries(frame), m)
    BY DEF Owners, Carriers, Holders, Hands, Carries
<1>4. heap[m].refs = Tally(queue, frame, m) /\ (heap[m].live <=> heap[m].refs > 0)
    BY DEF IInv, Counted
<1>5. heap[m].live \in BOOLEAN
    BY HeapObject DEF IInv, Objects
<1>6. heap[m].live = (heap[m].refs > 0)
    BY <1>4, <1>5
<1> QED
    BY <1>2, <1>3, <1>4, <1>6 DEF Tally

(* The count of a message is the number of pointers to it, and it is       *)
(* deleted exactly when the last of them goes.                             *)
THEOREM CountsExact == Spec => []RefCountExact
BY IInvCounts, Invariance, PTL

-----------------------------------------------------------------------------
(* No message is lost *)

(* The four places where c can be, of a message that is to reach stage s:  *)
(* in the queue of s, in the functor of s, processed by s, and in an       *)
(* unfinished call that has still to dispatch it to s.                     *)
Queued(s, c) == \E i \in DOMAIN queue[s] : heap[queue[s][i]].content = c
Handles(a, c) == frame[a].hand # Null /\ heap[frame[a].hand].content = c
InFunctor(s, c) == \E w \in Workers : Handles(w, c) /\ frame[w].at = s
Served(s, c) == \E i \in DOMAIN served[s] : served[s][i] = c
Coming(s, c) ==
    \E a \in Actor : Handles(a, c) /\ \E i \in DOMAIN frame[a].todo : frame[a].todo[i].to = s

Arrives(s, c) ==
    Queued(s, c) \/ InFunctor(s, c) \/ Served(s, c) \/ Coming(s, c) \/ c \in thrown

(* c has been created for s, or has been or is being processed by a stage  *)
(* that dispatches to s.                                                   *)
Created(s, c) ==
    \E p \in Producers : EntryStage[p] = s /\ c \in ToSet(Script[p]) /\ c \notin ToSet(script[p])
Sends(r, s) == \E i \in DOMAIN Route[r] : Route[r][i].to = s
Due(s, c) ==
    \/ Created(s, c)
    \/ \E r \in Stage : Sends(r, s) /\ (Served(r, c) \/ InFunctor(r, c))

AllArrive == \A s \in Stage, c \in Content : Due(s, c) => Arrives(s, c)

LEMMA SlotIsMessage ==
    ASSUME Typed, NEW s \in Stage, NEW i \in DOMAIN queue[s]
    PROVE  queue[s][i] \in Message
<1>1. queue[s] \in Seq(Message)
    BY DEF Typed, TypeOK
<1> QED
    BY <1>1, LenProperties, ElementOfSeq

LEMMA HeapKeptKeeps ==
    ASSUME Typed, HeapKept, NEW c
    PROVE  /\ \A s \in Stage : \A i \in DOMAIN queue[s] :
                 heap'[queue[s][i]].content = heap[queue[s][i]].content
           /\ \A a \in Actor : frame[a].hand # Null =>
                 heap'[frame[a].hand].content = heap[frame[a].hand].content
BY SlotIsMessage, Busy DEF HeapKept

(* What a call holds stays as it is through the steps of other actors.     *)
LEMMA OthersHold ==
    ASSUME Typed, HeapKept, NEW a \in Actor, Steps(frame, frame', a),
           NEW b \in Actor, b # a, NEW c, Handles(b, c)
    PROVE  Handles(b, c)' /\ frame'[b] = frame[b]
BY HeapKeptKeeps DEF Steps, Handles

(* A step that leaves a queue and the history of a stage alone.            *)
LEMMA QueuedStays ==
    ASSUME Typed, HeapKept, NEW s \in Stage, NEW c, Queued(s, c), queue'[s] = queue[s]
    PROVE  Queued(s, c)'
BY HeapKeptKeeps DEF Queued

LEMMA OthersStay ==
    ASSUME Typed, HeapKept, NEW a \in Actor, Steps(frame, frame', a), NEW s, NEW c,
           InFunctor(s, c) \/ Coming(s, c)
    PROVE  \/ InFunctor(s, c)' \/ Coming(s, c)'
           \/ a \in Workers /\ Handles(a, c) /\ frame[a].at = s
           \/ Handles(a, c) /\ \E i \in DOMAIN frame[a].todo : frame[a].todo[i].to = s
<1>1. ASSUME NEW w \in Workers, Handles(w, c), frame[w].at = s, w # a
      PROVE  InFunctor(s, c)'
    BY <1>1, OthersHold DEF InFunctor, Actor
<1>2. ASSUME NEW b \in Actor, Handles(b, c), b # a,
             \E i \in DOMAIN frame[b].todo : frame[b].todo[i].to = s
      PROVE  Coming(s, c)'
    BY <1>2, OthersHold DEF Coming
<1> QED
    BY <1>1, <1>2 DEF InFunctor, Coming

LEMMA StepsFrom ==
    ASSUME Typed, NEW a \in Actor, NEW f, frame' = [frame EXCEPT ![a] = f]
    PROVE  Steps(frame, frame', a) /\ frame'[a] = f
BY DEF Typed, TypeOK, Steps

LEMMA CreateKeepsHeap ==
    ASSUME Typed, NEW p \in Producers, Create(p)
    PROVE  /\ HeapKept /\ heap'[Len(heap) + 1].content = Head(script[p])
           /\ Len(heap) + 1 # Null
<1>1. Head(script[p]) \in Content /\ heap' = Append(heap, Allocated(Head(script[p])))
    BY DEF Create, Typed, TypeOK
<1>2. HeapKept /\ heap'[Len(heap) + 1] = Allocated(Head(script[p])) /\ Len(heap) + 1 # Null
    BY <1>1, Allocation DEF Typed
<1> QED
    BY <1>2 DEF Allocated

LEMMA ArrivesCreate ==
    ASSUME Typed, NEW p \in Producers, Create(p), NEW s \in Stage, NEW c
    PROVE  Arrives(s, c) => Arrives(s, c)'
<1>1. p \in Actor /\ HeapKept
    BY CreateKeepsHeap DEF Actor
<1>2. Steps(frame, frame', p)
    BY <1>1, StepsFrom DEF Create
<1>3. ~Handles(p, c)
    BY DEF Handles, Create, Idle
<1>4. InFunctor(s, c) \/ Coming(s, c) => InFunctor(s, c)' \/ Coming(s, c)'
    BY <1>1, <1>2, <1>3, OthersStay
<1>5. Queued(s, c) => Queued(s, c)'
    BY <1>1, QueuedStays DEF Create
<1>6. Served(s, c) => Served(s, c)'
    BY DEF Create, Served
<1>7. c \in thrown => c \in thrown'
    BY DEF Create
<1> QED
    BY <1>4, <1>5, <1>6, <1>7 DEF Arrives

LEMMA ArrivesTryPop ==
    ASSUME Typed, NEW w \in Workers, NEW r \in Stage, TryPop(w, r), NEW s \in Stage, NEW c
    PROVE  Arrives(s, c) => Arrives(s, c)'
<1>1. w \in Actor /\ HeapKept /\ heap' = heap
    BY DEF Actor, TryPop, HeapKept, Message, Typed, TypeOK, Objects
<1>2. Steps(frame, frame', w) /\ frame'[w].hand = Head(queue[r]) /\ frame'[w].at = r
  <2> DEFINE f == [hand |-> Head(queue[r]), carry |-> Null, todo |-> Route[r], at |-> r]
  <2>1. frame' = [frame EXCEPT ![w] = f]
      BY DEF TryPop
  <2>2. f.hand = Head(queue[r]) /\ f.at = r
      OBVIOUS
  <2> HIDE DEF f
  <2> QED
      BY <1>1, <2>1, <2>2, StepsFrom
<1>3. ~Handles(w, c)
    BY DEF Handles, TryPop, Idle
<1>4. InFunctor(s, c) \/ Coming(s, c) => InFunctor(s, c)' \/ Coming(s, c)'
    BY <1>1, <1>2, <1>3, OthersStay
<1>5. Queued(s, c) => Queued(s, c)' \/ InFunctor(s, c)'
  <2>1. CASE s # r
      BY <1>1, <2>1, QueuedStays DEF TryPop, Typed, TypeOK
  <2>2. ASSUME s = r, NEW i \in DOMAIN queue[s], heap[queue[s][i]].content = c
        PROVE  Queued(s, c)' \/ InFunctor(s, c)'
    <3>1. /\ queue[s] \in Seq(Message) /\ queue[s] # <<>> /\ i \in 1 .. Len(queue[s])
          /\ Len(queue[s]) \in Nat /\ queue'[s] = Tail(queue[s])
        BY <2>2, LenProperties DEF TryPop, Typed, TypeOK
    <3>2. CASE i = 1
      <4>1. frame'[w].hand = queue[s][i] /\ frame'[w].at = s
          BY <1>2, <2>2, <3>1, <3>2
      <4>2. queue[s][i] # Null
          BY <2>2, SlotIsMessage, NullIsNoMessage DEF Typed
      <4> QED
          BY <1>1, <2>2, <4>1, <4>2 DEF InFunctor, Handles
    <3>3. CASE i # 1
      <4>1. i - 1 \in 1 .. Len(queue[s]) - 1 /\ (i - 1) + 1 = i
          BY <3>1, <3>3
      <4>2. i - 1 \in DOMAIN queue'[s] /\ queue'[s][i - 1] = queue[s][i]
          BY <3>1, <4>1, HeadTailProperties, LenProperties
      <4> QED
          BY <1>1, <2>2, <4>2 DEF Queued
    <3> QED
        BY <3>2, <3>3
  <2> QED
      BY <2>1, <2>2 DEF Queued
<1>6. Served(s, c) => Served(s, c)'
    BY DEF TryPop, Served
<1>7. c \in thrown => c \in thrown'
    BY DEF TryPop
<1> QED
    BY <1>4, <1>5, <1>6, <1>7 DEF Arrives

(* A call that is preparing a dispatch goes on holding its message.        *)
LEMMA ArrivesPrepare ==
    ASSUME Typed, HeapKept, NEW a \in Actor, Retain(a) \/ Copy(a), NEW s \in Stage, NEW c
    PROVE  Arrives(s, c) => Arrives(s, c)'
<1>1. /\ Steps(frame, frame', a) /\ frame'[a].hand = frame[a].hand
      /\ frame'[a].at = frame[a].at /\ frame'[a].todo = frame[a].todo
  <2>1. frame[a] \in Frames
      BY DEF Typed, TypeOK, Frames
  <2>2. \E m : frame' = [frame EXCEPT ![a].carry = m]
      BY DEF Retain, Copy
  <2> QED
      BY <2>1, <2>2 DEF Typed, TypeOK, Steps, Frames
<1>2. Handles(a, c) => Handles(a, c)'
    BY <1>1, HeapKeptKeeps DEF Handles
<1>3. InFunctor(s, c) \/ Coming(s, c) => InFunctor(s, c)' \/ Coming(s, c)'
  <2>1. a \in Workers /\ Handles(a, c) /\ frame[a].at = s => InFunctor(s, c)'
      BY <1>1, <1>2 DEF InFunctor
  <2>2. Handles(a, c) /\ (\E i \in DOMAIN frame[a].todo : frame[a].todo[i].to = s)
          => Coming(s, c)'
      BY <1>1, <1>2 DEF Coming
  <2> QED
      BY <1>1, <2>1, <2>2, OthersStay
<1>4. Queued(s, c) => Queued(s, c)'
    BY QueuedStays DEF Retain, Copy
<1>5. Served(s, c) => Served(s, c)'
    BY DEF Retain, Copy, Served
<1>6. c \in thrown => c \in thrown'
    BY DEF Retain, Copy
<1> QED
    BY <1>3, <1>4, <1>5, <1>6 DEF Arrives

(* A push moves a message from a call that has still to dispatch it to the *)
(* queue of the stage the dispatch is for.                                 *)
LEMMA ArrivesPush ==
    ASSUME Typed, NEW a \in Actor, Push(a), NEW s \in Stage, NEW c
    PROVE  Arrives(s, c) => Arrives(s, c)'
<1> DEFINE todo == frame[a].todo
<1>1. /\ HeapKept /\ heap' = heap
      /\ frame[a].carry \in Message /\ frame[a].hand # Null
      /\ heap[frame[a].carry].content = heap[frame[a].hand].content
      /\ todo \in Seq(Dispatch) /\ todo # <<>>
    BY TypedPush, Busy DEF Push, Frames
<1>2. /\ Steps(frame, frame', a) /\ frame'[a].hand = frame[a].hand
      /\ frame'[a].at = frame[a].at /\ frame'[a].todo = Tail(todo)
    BY DEF Push, Typed, TypeOK, Steps
<1>3. Handles(a, c) => Handles(a, c)'
    BY <1>1, <1>2 DEF Handles
<1>4. PICK to \in Stage :
          /\ to = Head(todo).to
          /\ queue'[to] = Append(queue[to], frame[a].carry)
          /\ \A u \in Stage : u # to => queue'[u] = queue[u]
          /\ queue[to] \in Seq(Message)
  <2>1. Head(todo) \in Dispatch
      BY <1>1, HeadTailProperties
  <2>2. Head(todo).to \in Stage
      BY <2>1 DEF Dispatch
  <2>3. queue' = [queue EXCEPT ![Head(todo).to] = Append(@, frame[a].carry)]
      BY DEF Push
  <2>4. queue \in [Stage -> Seq(Message)]
      BY DEF Typed, TypeOK
  <2> HIDE DEF todo
  <2> QED
      BY <2>2, <2>3, <2>4
<1>5. Queued(s, c) => Queued(s, c)'
  <2>1. CASE s # to
      BY <1>1, <1>4, <2>1, QueuedStays
  <2>2. ASSUME s = to, NEW i \in DOMAIN queue[s], heap[queue[s][i]].content = c
        PROVE  Queued(s, c)'
    <3>1. i \in DOMAIN queue'[s] /\ queue'[s][i] = queue[s][i]
      <4>1. /\ queue[s] \in Seq(Message) /\ frame[a].carry \in Message
            /\ queue'[s] = Append(queue[s], frame[a].carry)
          BY <1>1, <1>4, <2>2
      <4>2. i \in 1 .. Len(queue[s])
          BY <2>2, <4>1, LenProperties
      <4> QED
          BY <4>1, <4>2, AppendProperties, LenProperties
    <3> QED
        BY <1>1, <2>2, <3>1 DEF Queued
  <2> QED
      BY <2>1, <2>2 DEF Queued
<1>6. Handles(a, c) => Queued(to, c)'
  <2>1. /\ Len(queue[to]) + 1 \in DOMAIN queue'[to]
        /\ queue'[to][Len(queue[to]) + 1] = frame[a].carry
    <3>1. /\ queue[to] \in Seq(Message) /\ frame[a].carry \in Message
          /\ queue'[to] = Append(queue[to], frame[a].carry)
        BY <1>1, <1>4
    <3> QED
        BY <3>1, AppendProperties, LenProperties
  <2>2. Handles(a, c) => heap'[queue'[to][Len(queue[to]) + 1]].content = c
      BY <1>1, <2>1 DEF Handles
  <2> QED
      BY <2>1, <2>2 DEF Queued
<1>7. ASSUME Handles(a, c), NEW i \in DOMAIN todo, todo[i].to = s
      PROVE  Queued(s, c)' \/ Coming(s, c)'
  <2>1. Len(todo) \in Nat /\ i \in 1 .. Len(todo) /\ Head(todo) = todo[1]
      BY <1>1, <1>7, LenProperties
  <2>2. CASE i = 1
    <3>1. to = s
        BY <1>4, <1>7, <2>1, <2>2
    <3> QED
        BY <1>6, <1>7, <3>1
  <2>3. CASE i # 1
    <3>1. i - 1 \in 1 .. Len(todo) - 1 /\ (i - 1) + 1 = i
        BY <2>1, <2>3
    <3>2. i - 1 \in DOMAIN Tail(todo) /\ Tail(todo)[i - 1] = todo[i]
        BY <1>1, <2>1, <3>1, HeadTailProperties, LenProperties
    <3>3. i - 1 \in DOMAIN frame'[a].todo /\ frame'[a].todo[i - 1].to = s
        BY <1>2, <1>7, <3>2
    <3> QED
        BY <1>3, <1>7, <3>3 DEF Coming
  <2> QED
      BY <2>2, <2>3
<1>8. InFunctor(s, c) \/ Coming(s, c) => InFunctor(s, c)' \/ Coming(s, c)' \/ Queued(s, c)'
  <2>1. a \in Workers /\ Handles(a, c) /\ frame[a].at = s => InFunctor(s, c)'
      BY <1>2, <1>3 DEF InFunctor
  <2> QED
      BY <1>1, <1>2, <1>7, <2>1, OthersStay
<1>9. Served(s, c) => Served(s, c)'
    BY DEF Push, Served
<1>10. c \in thrown => c \in thrown'
    BY DEF Push
<1> QED
    BY <1>5, <1>8, <1>9, <1>10 DEF Arrives

(* At its end a functor has made all its dispatches, and its stage has     *)
(* processed the message.                                                  *)
LEMMA ArrivesRelease ==
    ASSUME IInv, NEW a \in Actor, Release(a), NEW s \in Stage, NEW c
    PROVE  Arrives(s, c) => Arrives(s, c)'
<1>1. Typed /\ HeapKept
  <2>1. heap[frame[a].hand].refs # 0
      BY HandIsCounted DEF Release
  <2> QED
      BY <2>1, TypedRelease DEF IInv
<1>2. Steps(frame, frame', a) /\ frame[a].todo = <<>>
    BY <1>1, StepsFrom DEF Release
<1>3. a \in Workers /\ Handles(a, c) /\ frame[a].at = s => Served(s, c)'
  <2> SUFFICES ASSUME a \in Workers, Handles(a, c), frame[a].at = s PROVE Served(s, c)'
      OBVIOUS
  <2>1. served[s] \in Seq(Content) /\ served'[s] = Append(served[s], c)
      BY <1>1 DEF Release, Handles, Typed, TypeOK
  <2>2. c \in Content
      BY <1>1, ContentHeld DEF Handles
  <2>3. Len(served[s]) + 1 \in DOMAIN served'[s] /\ served'[s][Len(served[s]) + 1] = c
      BY <2>1, <2>2, AppendProperties, LenProperties
  <2> QED
      BY <2>3 DEF Served
<1>4. InFunctor(s, c) \/ Coming(s, c) => InFunctor(s, c)' \/ Coming(s, c)' \/ Served(s, c)'
    BY <1>1, <1>2, <1>3, OthersStay
<1>5. Queued(s, c) => Queued(s, c)'
    BY <1>1, QueuedStays DEF Release
<1>6. Served(s, c) => Served(s, c)'
  <2> SUFFICES ASSUME NEW i \in DOMAIN served[s], served[s][i] = c PROVE Served(s, c)'
      BY DEF Served
  <2>1. CASE served'[s] = served[s]
      BY <2>1 DEF Served
  <2>2. CASE a \in Workers /\ frame[a].at = s
    <3> DEFINE d == heap[frame[a].hand].content
    <3>1. d \in Content
        BY <1>1, ContentHeld DEF Release
    <3>2. served[s] \in Seq(Content) /\ served'[s] = Append(served[s], d)
        BY <1>1, <2>2 DEF Release, Typed, TypeOK
    <3> HIDE DEF d
    <3>3. i \in DOMAIN served'[s] /\ served'[s][i] = c
        BY <3>1, <3>2, AppendProperties, LenProperties
    <3> QED
        BY <3>3 DEF Served
  <2> QED
      BY <1>1, <2>1, <2>2 DEF Release, Typed, TypeOK
<1>7. c \in thrown => c \in thrown'
    BY DEF Release
<1> QED
    BY <1>4, <1>5, <1>6, <1>7 DEF Arrives

LEMMA ArrivesThrow ==
    ASSUME IInv, NEW w \in Workers, Throw(w), NEW s \in Stage, NEW c
    PROVE  Arrives(s, c) => Arrives(s, c)'
<1>1. Typed /\ HeapKept /\ w \in Actor
  <2>1. w \in Actor
      BY DEF Actor
  <2>2. heap[frame[w].hand].refs # 0
      BY <2>1, HandIsCounted DEF Throw
  <2> QED
      BY <2>1, <2>2, TypedThrow DEF IInv
<1>2. Steps(frame, frame', w)
    BY <1>1, StepsFrom DEF Throw
<1>3. Handles(w, c) => c \in thrown'
    BY DEF Throw, Handles
<1>4. InFunctor(s, c) \/ Coming(s, c) => InFunctor(s, c)' \/ Coming(s, c)' \/ c \in thrown'
    BY <1>1, <1>2, <1>3, OthersStay
<1>5. Queued(s, c) => Queued(s, c)'
    BY <1>1, QueuedStays DEF Throw
<1>6. Served(s, c) => Served(s, c)'
    BY DEF Throw, Served
<1>7. c \in thrown => c \in thrown'
    BY DEF Throw
<1> QED
    BY <1>4, <1>5, <1>6, <1>7 DEF Arrives

(* A stage that has newly begun to handle c does so in the step's actor.   *)
LEMMA FunctorBefore ==
    ASSUME Typed, HeapKept, NEW a \in Actor, Steps(frame, frame', a), NEW r, NEW c,
           InFunctor(r, c)'
    PROVE  InFunctor(r, c) \/ (a \in Workers /\ Handles(a, c)' /\ frame'[a].at = r)
<1>1. PICK w \in Workers : Handles(w, c)' /\ frame'[w].at = r
    BY DEF InFunctor
<1>2. CASE w # a
  <2>1. w \in Actor /\ frame'[w] = frame[w]
      BY <1>2 DEF Steps, Actor
  <2>2. Handles(w, c)
      BY <1>1, <2>1, HeapKeptKeeps DEF Handles
  <2> QED
      BY <1>1, <2>1, <2>2 DEF InFunctor
<1> QED
    BY <1>1, <1>2

(* A step whose actor takes up no message makes nothing due.               *)
LEMMA DueBefore ==
    ASSUME Typed, HeapKept, NEW a \in Actor, Steps(frame, frame', a), NEW s \in Stage, NEW c,
           UNCHANGED script,
           \A r \in Stage : Served(r, c)' => Served(r, c) \/ InFunctor(r, c),
           Handles(a, c)' => Handles(a, c) /\ frame'[a].at = frame[a].at,
           Due(s, c)'
    PROVE  Due(s, c)
<1>1. \A r \in Stage : InFunctor(r, c)' => InFunctor(r, c)
    BY FunctorBefore DEF InFunctor
<1> QED
    BY <1>1 DEF Due, Created

LEMMA DueCreate ==
    ASSUME Typed, NEW p \in Producers, Create(p), NEW s \in Stage, NEW c, Due(s, c)'
    PROVE  Due(s, c) \/ Arrives(s, c)'
<1>1. /\ p \in Actor /\ p \notin Workers /\ HeapKept
      /\ heap'[Len(heap) + 1].content = Head(script[p]) /\ Len(heap) + 1 # Null
    BY CreateKeepsHeap, StageFlowAssumption DEF Actor
<1>2. Steps(frame, frame', p)
    BY <1>1, StepsFrom DEF Create
<1>3. \A r \in Stage : InFunctor(r, c)' => InFunctor(r, c)
    BY <1>1, <1>2, FunctorBefore
<1>4. \A r \in Stage : Served(r, c)' => Served(r, c)
    BY DEF Create, Served
<1>5. ASSUME NEW q \in Producers, EntryStage[q] = s, c \in ToSet(Script[q]),
             c \notin ToSet(script'[q])
      PROVE  Created(s, c) \/ Coming(s, c)'
  <2>1. CASE q # p
    <3>1. script'[q] = script[q]
        BY <2>1 DEF Create, Typed, TypeOK
    <3> QED
        BY <1>5, <3>1 DEF Created
  <2>2. CASE q = p /\ c \in ToSet(script[p])
    <3>1. script[p] \in Seq(Content) /\ script[p] # <<>> /\ script'[p] = Tail(script[p])
        BY DEF Create, Typed, TypeOK
    <3>2. PICK i \in 1 .. Len(script[p]) : script[p][i] = c
        BY <2>2, <3>1, LenProperties DEF ToSet
    <3>3. i = 1
      <4>1. ASSUME i # 1 PROVE FALSE
        <5>1. Len(script[p]) \in Nat
            BY <3>1, LenProperties
        <5>2. i - 1 \in 1 .. Len(script[p]) - 1 /\ (i - 1) + 1 = i
            BY <4>1, <5>1
        <5>3. i - 1 \in DOMAIN script'[p] /\ script'[p][i - 1] = script[p][i]
            BY <3>1, <5>2, HeadTailProperties, LenProperties
        <5> QED
            BY <1>5, <2>2, <3>2, <5>3 DEF ToSet
      <4> QED
          BY <4>1
    <3>4. Head(script[p]) = c
        BY <3>1, <3>2, <3>3, HeadTailProperties
    <3>5. frame'[p].hand = Len(heap) + 1 /\ \E j \in DOMAIN frame'[p].todo : frame'[p].todo[j].to = s
      <4> DEFINE todo == <<[to |-> EntryStage[p], clone |-> FALSE]>>
      <4>1. 1 \in DOMAIN todo /\ todo[1].to = s
          BY <1>5, <2>2
      <4>2. frame' = [frame EXCEPT ![p] = [Idle EXCEPT !.hand = Len(heap) + 1, !.todo = todo]]
          BY DEF Create
      <4> HIDE DEF todo
      <4>3. frame'[p].hand = Len(heap) + 1 /\ frame'[p].todo = todo
          BY <1>1, <4>2 DEF Idle, Typed, TypeOK
      <4> QED
          BY <4>1, <4>3
    <3> QED
        BY <1>1, <3>4, <3>5 DEF Coming, Handles
  <2>3. CASE q = p /\ c \notin ToSet(script[p])
      BY <1>5, <2>3 DEF Created
  <2> QED
      BY <2>1, <2>2, <2>3
<1> QED
    BY <1>3, <1>4, <1>5 DEF Due, Created, Arrives

LEMMA DueTryPop ==
    ASSUME Typed, NEW w \in Workers, NEW r \in Stage, TryPop(w, r), NEW s \in Stage, NEW c,
           Due(s, c)'
    PROVE  Due(s, c) \/ Arrives(s, c)'
<1>1. w \in Actor /\ HeapKept
    BY DEF Actor, TryPop, HeapKept, Message, Typed, TypeOK, Objects
<1>2. Steps(frame, frame', w) /\ frame'[w].todo = Route[r] /\ frame'[w].at = r
  <2> DEFINE f == [hand |-> Head(queue[r]), carry |-> Null, todo |-> Route[r], at |-> r]
  <2>1. frame' = [frame EXCEPT ![w] = f]
      BY DEF TryPop
  <2>2. f.todo = Route[r] /\ f.at = r
      OBVIOUS
  <2> HIDE DEF f
  <2> QED
      BY <1>1, <2>1, <2>2, StepsFrom
<1>3. ASSUME NEW u \in Stage, InFunctor(u, c)', Sends(u, s)
      PROVE  InFunctor(u, c) \/ Coming(s, c)'
  <2>1. InFunctor(u, c) \/ (Handles(w, c)' /\ u = r)
      BY <1>1, <1>2, <1>3, FunctorBefore
  <2> QED
      BY <1>1, <1>2, <1>3, <2>1 DEF Sends, Coming
<1>4. \A u \in Stage : Served(u, c)' => Served(u, c)
    BY DEF TryPop, Served
<1>5. Created(s, c)' => Created(s, c)
    BY DEF TryPop, Created
<1> QED
    BY <1>3, <1>4, <1>5 DEF Due, Arrives

LEMMA DuePrepare ==
    ASSUME Typed, HeapKept, NEW a \in Actor, Retain(a) \/ Copy(a), NEW s \in Stage, NEW c,
           Due(s, c)'
    PROVE  Due(s, c)
<1>1. /\ Steps(frame, frame', a) /\ frame'[a].hand = frame[a].hand
      /\ frame'[a].at = frame[a].at
  <2>1. frame[a] \in Frames
      BY DEF Typed, TypeOK, Frames
  <2>2. \E m : frame' = [frame EXCEPT ![a].carry = m]
      BY DEF Retain, Copy
  <2> QED
      BY <2>1, <2>2 DEF Typed, TypeOK, Steps, Frames
<1>2. Handles(a, c)' => Handles(a, c)
    BY <1>1, HeapKeptKeeps DEF Handles
<1>3. UNCHANGED <<script, served>>
    BY DEF Retain, Copy
<1>4. \A r \in Stage : Served(r, c)' => Served(r, c)
    BY <1>3 DEF Served
<1> QED
    BY <1>1, <1>2, <1>3, <1>4, DueBefore

LEMMA DuePush ==
    ASSUME Typed, NEW a \in Actor, Push(a), NEW s \in Stage, NEW c, Due(s, c)'
    PROVE  Due(s, c)
<1>1. HeapKept /\ heap' = heap
    BY TypedPush DEF Push
<1>2. /\ Steps(frame, frame', a) /\ frame'[a].hand = frame[a].hand
      /\ frame'[a].at = frame[a].at
    BY DEF Push, Typed, TypeOK, Steps
<1>3. Handles(a, c)' => Handles(a, c)
    BY <1>1, <1>2 DEF Handles
<1>4. UNCHANGED <<script, served>>
    BY DEF Push
<1>5. \A r \in Stage : Served(r, c)' => Served(r, c)
    BY <1>4 DEF Served
<1> QED
    BY <1>1, <1>2, <1>3, <1>4, <1>5, DueBefore

LEMMA DueRelease ==
    ASSUME IInv, NEW a \in Actor, Release(a), NEW s \in Stage, NEW c, Due(s, c)'
    PROVE  Due(s, c)
<1>1. Typed /\ HeapKept
  <2>1. heap[frame[a].hand].refs # 0
      BY HandIsCounted DEF Release
  <2> QED
      BY <2>1, TypedRelease DEF IInv
<1>2. Steps(frame, frame', a) /\ ~Handles(a, c)'
  <2>1. Steps(frame, frame', a) /\ frame'[a] = Idle
      BY <1>1, StepsFrom DEF Release
  <2>2. frame'[a].hand = Null
      BY <2>1 DEF Idle
  <2> QED
      BY <2>1, <2>2 DEF Handles
<1>3. ASSUME NEW r \in Stage, Served(r, c)' PROVE Served(r, c) \/ InFunctor(r, c)
  <2>1. CASE served'[r] = served[r]
      BY <1>3, <2>1 DEF Served
  <2>2. CASE a \in Workers /\ frame[a].at = r
    <3> DEFINE d == heap[frame[a].hand].content
    <3>1. d \in Content /\ frame[a].hand # Null
        BY <1>1, ContentHeld DEF Release
    <3>2. served[r] \in Seq(Content) /\ served'[r] = Append(served[r], d)
        BY <1>1, <2>2 DEF Release, Typed, TypeOK
    <3>3. d = c => InFunctor(r, c)
        BY <2>2, <3>1 DEF InFunctor, Handles
    <3> HIDE DEF d
    <3>4. PICK i \in DOMAIN served'[r] : served'[r][i] = c
        BY <1>3 DEF Served
    <3>5. i = Len(served[r]) + 1 => d = c
        BY <3>1, <3>2, <3>4, AppendProperties, LenProperties
    <3>6. i # Len(served[r]) + 1 => i \in DOMAIN served[r] /\ served[r][i] = c
        BY <3>1, <3>2, <3>4, AppendProperties, LenProperties
    <3> QED
        BY <3>3, <3>5, <3>6 DEF Served
  <2> QED
      BY <1>1, <2>1, <2>2 DEF Release, Typed, TypeOK
<1>4. UNCHANGED script
    BY DEF Release
<1> QED
    BY <1>1, <1>2, <1>3, <1>4, DueBefore

LEMMA DueThrow ==
    ASSUME IInv, NEW w \in Workers, Throw(w), NEW s \in Stage, NEW c, Due(s, c)'
    PROVE  Due(s, c)
<1>1. Typed /\ HeapKept /\ w \in Actor
  <2>1. w \in Actor
      BY DEF Actor
  <2>2. heap[frame[w].hand].refs # 0
      BY <2>1, HandIsCounted DEF Throw
  <2> QED
      BY <2>1, <2>2, TypedThrow DEF IInv
<1>2. Steps(frame, frame', w) /\ ~Handles(w, c)'
  <2>1. Steps(frame, frame', w) /\ frame'[w] = Idle
      BY <1>1, StepsFrom DEF Throw
  <2>2. frame'[w].hand = Null
      BY <2>1 DEF Idle
  <2> QED
      BY <2>1, <2>2 DEF Handles
<1>3. UNCHANGED <<script, served>>
    BY DEF Throw
<1>4. \A r \in Stage : Served(r, c)' => Served(r, c)
    BY <1>3 DEF Served
<1> QED
    BY <1>1, <1>2, <1>3, <1>4, DueBefore

(* Nothing is due to be processed anywhere and nowhere to be found.        *)
Arriving == IInv /\ AllArrive

LEMMA ArrivingInit == Init => AllArrive
<1> SUFFICES ASSUME Init, NEW s \in Stage, NEW c PROVE ~Due(s, c)
    BY DEF AllArrive
<1>1. \A r \in Stage : ~Served(r, c)
    BY DEF Init, Served
<1>2. \A r : ~InFunctor(r, c)
    BY DEF Init, InFunctor, Handles, Actor, Idle
<1>3. ~Created(s, c)
    BY DEF Init, Created
<1> QED
    BY <1>1, <1>2, <1>3 DEF Due

LEMMA ArrivingSend ==
    ASSUME IInv, NEW a \in Actor, Send(a) \/ Release(a), NEW s \in Stage, NEW c
    PROVE  /\ Arrives(s, c) => Arrives(s, c)'
           /\ Due(s, c)' => Due(s, c) \/ Arrives(s, c)'
<1>1. CASE Retain(a) \/ Copy(a)
  <2>1. Typed /\ HeapKept
      BY <1>1, TypedRetain, TypedCopy DEF IInv
  <2> QED
      BY <1>1, <2>1, ArrivesPrepare, DuePrepare
<1>2. CASE Push(a)
    BY <1>2, ArrivesPush, DuePush DEF IInv
<1>3. CASE Release(a)
    BY <1>3, ArrivesRelease, DueRelease
<1> QED
    BY <1>1, <1>2, <1>3 DEF Send

LEMMA ArrivingNext ==
    ASSUME Arriving, [Next]_vars
    PROVE  AllArrive'
<1> SUFFICES ASSUME NEW s \in Stage, NEW c \in Content
             PROVE  /\ Arrives(s, c) => Arrives(s, c)'
                    /\ Due(s, c)' => Due(s, c) \/ Arrives(s, c)'
    BY DEF Arriving, AllArrive
<1>1. CASE UNCHANGED vars
  <2> USE <1>1 DEF vars
  <2>1. Arrives(s, c)' <=> Arrives(s, c)
      BY DEF Arrives, Queued, InFunctor, Coming, Handles, Served
  <2>2. Due(s, c)' <=> Due(s, c)
      BY DEF Due, Created, InFunctor, Handles, Served
  <2> QED
      BY <2>1, <2>2
<1>2. ASSUME NEW p \in Producers, Produce(p)
      PROVE  /\ Arrives(s, c) => Arrives(s, c)'
             /\ Due(s, c)' => Due(s, c) \/ Arrives(s, c)'
  <2>1. CASE Create(p)
      BY <2>1, ArrivesCreate, DueCreate DEF Arriving, IInv
  <2>2. CASE Send(p) \/ Release(p)
      BY <2>2, ArrivingSend DEF Arriving, Actor
  <2> QED
      BY <1>2, <2>1, <2>2 DEF Produce
<1>3. ASSUME NEW w \in Workers,
             (\E r \in Stage : TryPop(w, r)) \/ Send(w) \/ Release(w) \/ Throw(w)
      PROVE  /\ Arrives(s, c) => Arrives(s, c)'
             /\ Due(s, c)' => Due(s, c) \/ Arrives(s, c)'
  <2>1. CASE \E r \in Stage : TryPop(w, r)
      BY <2>1, ArrivesTryPop, DueTryPop DEF Arriving, IInv
  <2>2. CASE Send(w) \/ Release(w)
      BY <2>2, ArrivingSend DEF Arriving, Actor
  <2>3. CASE Throw(w)
      BY <2>3, ArrivesThrow, DueThrow DEF Arriving
  <2> QED
      BY <1>3, <2>1, <2>2, <2>3
<1> QED
    BY <1>1, <1>2, <1>3 DEF Next

(* When all is at rest, there is nowhere left to be but in the history.    *)
LEMMA ArrivedAtRest ==
    ASSUME Arriving, AtRest, NEW s \in Stage, NEW c \in Content, Due(s, c)
    PROVE  c \in ToSet(served[s]) \cup thrown
<1>1. ~Queued(s, c)
    BY DEF AtRest, Queued
<1>2. \A a \in Actor : ~Handles(a, c)
    BY DEF AtRest, Handles, Idle
<1>3. ~InFunctor(s, c) /\ ~Coming(s, c)
    BY <1>2 DEF InFunctor, Coming, Actor
<1>4. Served(s, c) \/ c \in thrown
    BY <1>1, <1>3 DEF Arriving, AllArrive, Arrives
<1> QED
    BY <1>4 DEF Served, ToSet

LEMMA ArrivingAtRest == Arriving => NothingLost
<1> SUFFICES ASSUME Arriving, AtRest
             PROVE  /\ \A p \in Producers :
                          ToSet(Script[p]) \subseteq ToSet(served[EntryStage[p]]) \cup thrown
                    /\ \A s \in Stage : \A d \in ToSet(Route[s]) :
                          ToSet(served[s]) \subseteq ToSet(served[d.to]) \cup thrown
    BY DEF NothingLost
<1>1. ASSUME NEW p \in Producers, NEW c \in ToSet(Script[p])
      PROVE  c \in ToSet(served[EntryStage[p]]) \cup thrown
  <2>1. script[p] = <<>>
      BY DEF AtRest
  <2>2. c \in Content /\ EntryStage[p] \in Stage
      BY StageFlowAssumption DEF Content
  <2>3. c \notin ToSet(script[p])
      BY <2>1 DEF ToSet
  <2> QED
      BY <2>2, <2>3, ArrivedAtRest DEF Due, Created
<1>2. ASSUME NEW s \in Stage, NEW d \in ToSet(Route[s]), NEW c \in ToSet(served[s])
      PROVE  c \in ToSet(served[d.to]) \cup thrown
  <2>1. served[s] \in Seq(Content) /\ Route[s] \in Seq(Dispatch)
      BY StageFlowAssumption DEF Arriving, IInv, Typed, TypeOK
  <2>2. PICK i \in DOMAIN served[s] : served[s][i] = c
      BY DEF ToSet
  <2>3. c \in Content
      BY <2>1, <2>2, ElementOfSeq, LenProperties
  <2>4. PICK j \in DOMAIN Route[s] : Route[s][j] = d
      BY DEF ToSet
  <2>5. d \in Dispatch
      BY <2>1, <2>4, ElementOfSeq, LenProperties
  <2>6. d.to \in Stage
      BY <2>5 DEF Dispatch
  <2> QED
      BY <2>2, <2>3, <2>4, <2>6, ArrivedAtRest DEF Due, Sends, Served
<1> QED
    BY <1>1, <1>2

LEMMA InitArriving == Init => Arriving
BY ArrivingInit, TypedInit, CountedInit DEF Arriving, IInv

LEMMA NextArriving == Arriving /\ [Next]_vars => Arriving'
BY ArrivingNext, InvariantNext DEF Arriving

(* Whatever the routes, when all has come to rest every message has been   *)
(* processed by every stage it was dispatched to or should have been, but  *)
(* for those in whose processing a functor threw.                          *)
THEOREM Delivery == Spec => []NothingLost
BY ArrivingAtRest, InitArriving, NextArriving, PTL DEF Spec

-----------------------------------------------------------------------------
(* No stage gets a message twice *)

(* Where a message of content c is, on its way W to be processed by s: it  *)
(* has still to be created, waits at a stage, or has still to be dispatched*)
(* by the functor of another; or it is in the functor of s, or done there. *)
InScript(W, c, p, i) ==
    p \in Producers /\ EntryStage[p] \in W /\ i \in DOMAIN script[p] /\ script[p][i] = c
InQueue(W, c, r, i) == r \in W /\ i \in DOMAIN queue[r] /\ heap[queue[r][i]].content = c
InTodo(W, c, a, i) ==
    a \in Actor /\ Handles(a, c) /\ i \in DOMAIN frame[a].todo /\ frame[a].todo[i].to \in W
InHand(s, c, w) == w \in Workers /\ Handles(w, c) /\ frame[w].at = s
InServed(s, c, i) == i \in DOMAIN served[s] /\ served[s][i] = c

Spot(W, s, c, k, x, i) ==
    \/ k = "script" /\ InScript(W, c, x, i)
    \/ k = "queue" /\ InQueue(W, c, x, i)
    \/ k = "todo" /\ InTodo(W, c, x, i)
    \/ k = "hand" /\ i = 1 /\ InHand(s, c, x)
    \/ k = "served" /\ x = s /\ InServed(s, c, i)

(* It is in one such place.                                                *)
Once(W, s, c) ==
    \A k, x, i, l, y, j :
        Spot(W, s, c, k, x, i) /\ Spot(W, s, c, l, y, j) => k = l /\ x = y /\ i = j

AllOnce == \A s \in Stage, c \in Content, W \in SUBSET Stage : Way(W, s) => Once(W, s, c)

LEMMA OnceInit == ASSUME DistinctContents, Init PROVE AllOnce
<1> SUFFICES ASSUME NEW s \in Stage, NEW c \in Content, NEW W \in SUBSET Stage,
                    NEW k, NEW x, NEW i, NEW l, NEW y, NEW j,
                    Spot(W, s, c, k, x, i), Spot(W, s, c, l, y, j)
             PROVE  k = l /\ x = y /\ i = j
    BY DEF AllOnce, Once
<1>1. ASSUME NEW z, NEW n PROVE ~InQueue(W, c, z, n) /\ ~InServed(s, c, n)
    BY DEF Init, InQueue, InServed
<1>2. ASSUME NEW z, NEW n PROVE ~InTodo(W, c, z, n) /\ ~InHand(s, c, z)
    BY DEF Init, InTodo, InHand, Handles, Actor, Idle
<1>3. k = "script" /\ InScript(W, c, x, i) /\ l = "script" /\ InScript(W, c, y, j)
    BY <1>1, <1>2 DEF Spot
<1> QED
    BY <1>3 DEF Init, InScript, DistinctContents

-----------------------------------------------------------------------------
LEMMA OnceFewer ==
    ASSUME NEW W, NEW s, NEW c, Once(W, s, c),
           \A k, x, i : Spot(W, s, c, k, x, i)' => Spot(W, s, c, k, x, i)
    PROVE  Once(W, s, c)'
BY DEF Once

LEMMA QueueBack ==
    ASSUME Typed, HeapKept, NEW W \in SUBSET Stage, NEW c, NEW r, NEW i,
           InQueue(W, c, r, i)', queue'[r] = queue[r]
    PROVE  InQueue(W, c, r, i)
BY HeapKeptKeeps DEF InQueue

LEMMA HandlesBack ==
    ASSUME Typed, HeapKept, NEW a \in Actor, Steps(frame, frame', a),
           NEW b \in Actor, b # a, NEW c, Handles(b, c)'
    PROVE  Handles(b, c) /\ frame'[b] = frame[b]
BY HeapKeptKeeps DEF Steps, Handles

LEMMA HeldBack ==
    ASSUME Typed, HeapKept, NEW a \in Actor, Steps(frame, frame', a),
           NEW b, b # a, NEW W, NEW s, NEW c, NEW i
    PROVE  /\ InTodo(W, c, b, i)' => InTodo(W, c, b, i)
           /\ InHand(s, c, b)' => InHand(s, c, b)
<1>1. ASSUME InTodo(W, c, b, i)' PROVE InTodo(W, c, b, i)
  <2>1. b \in Actor /\ Handles(b, c)'
      BY <1>1 DEF InTodo
  <2>2. Handles(b, c) /\ frame'[b] = frame[b]
      BY <2>1, HandlesBack
  <2> QED
      BY <1>1, <2>2 DEF InTodo
<1>2. ASSUME InHand(s, c, b)' PROVE InHand(s, c, b)
  <2>1. b \in Actor /\ Handles(b, c)'
      BY <1>2 DEF InHand, Actor
  <2>2. Handles(b, c) /\ frame'[b] = frame[b]
      BY <2>1, HandlesBack
  <2> QED
      BY <1>2, <2>2 DEF InHand
<1> QED
    BY <1>1, <1>2

(* Where a list has lost its head, what is left was one place behind.      *)
LEMMA OneBehind ==
    ASSUME NEW M, NEW q \in Seq(M), q # <<>>, NEW i \in DOMAIN Tail(q)
    PROVE  /\ i \in Nat \ {0} /\ i + 1 \in DOMAIN q /\ Tail(q)[i] = q[i + 1]
           /\ 1 \in DOMAIN q /\ q[1] = Head(q)
<1>1. Tail(q) \in Seq(M) /\ Len(Tail(q)) = Len(q) - 1 /\ Len(q) \in Nat \ {0}
    BY HeadTailProperties, LenProperties, EmptySeq
<1>2. i \in 1 .. Len(q) - 1
    BY <1>1, LenProperties
<1> QED
    BY <1>1, <1>2, HeadTailProperties, LenProperties

LEMMA Appended ==
    ASSUME NEW M, NEW q \in Seq(M), NEW e \in M, NEW i \in DOMAIN Append(q, e)
    PROVE  \/ i = Len(q) + 1 /\ Append(q, e)[i] = e
           \/ i # Len(q) + 1 /\ i \in DOMAIN q /\ Append(q, e)[i] = q[i]
BY AppendProperties, LenProperties

LEMMA Firsts ==
    ASSUME NEW M, NEW q \in Seq(M), q # <<>>
    PROVE  1 \in DOMAIN q /\ q[1] = Head(q)
BY HeadTailProperties, LenProperties, EmptySeq

-----------------------------------------------------------------------------
(* A new message is where the script had it.                               *)
LEMMA OnceCreate ==
    ASSUME Typed, NEW p \in Producers, Create(p), NEW s \in Stage, NEW W \in SUBSET Stage, NEW c,
           Once(W, s, c)
    PROVE  Once(W, s, c)'
<1>1. /\ p \in Actor /\ p \notin Workers /\ HeapKept
      /\ heap'[Len(heap) + 1].content = Head(script[p]) /\ Len(heap) + 1 # Null
    BY CreateKeepsHeap, StageFlowAssumption DEF Actor
<1>2. Steps(frame, frame', p)
    BY <1>1, StepsFrom DEF Create
<1>3. /\ script[p] \in Seq(Content) /\ script[p] # <<>> /\ script'[p] = Tail(script[p])
      /\ \A q \in Producers : q # p => script'[q] = script[q]
    BY DEF Create, Typed, TypeOK
<1>4. frame'[p].hand = Len(heap) + 1
      /\ frame'[p].todo = <<[to |-> EntryStage[p], clone |-> FALSE]>>
  <2> DEFINE todo == <<[to |-> EntryStage[p], clone |-> FALSE]>>
  <2>1. frame' = [frame EXCEPT ![p] = [Idle EXCEPT !.hand = Len(heap) + 1, !.todo = todo]]
      BY DEF Create
  <2> HIDE DEF todo
  <2>2. frame'[p].hand = Len(heap) + 1 /\ frame'[p].todo = todo
      BY <1>1, <2>1 DEF Idle, Typed, TypeOK
  <2> QED
      BY <2>2 DEF todo
<1>5. ASSUME NEW q, NEW i, InScript(W, c, q, i)'
      PROVE  IF q = p THEN i \in Nat \ {0} /\ InScript(W, c, p, i + 1) ELSE InScript(W, c, q, i)
  <2>1. CASE q = p
    <3>1. i \in DOMAIN Tail(script[p]) /\ Tail(script[p])[i] = c /\ EntryStage[p] \in W
        BY <1>3, <1>5, <2>1 DEF InScript
    <3>2. i \in Nat \ {0} /\ i + 1 \in DOMAIN script[p] /\ Tail(script[p])[i] = script[p][i + 1]
        BY <1>3, <3>1, OneBehind
    <3> QED
        BY <2>1, <3>1, <3>2 DEF InScript
  <2>2. CASE q # p
      BY <1>3, <1>5, <2>2 DEF InScript
  <2> QED
      BY <2>1, <2>2
<1>6. ASSUME NEW a, NEW i, InTodo(W, c, a, i)'
      PROVE  IF a = p THEN i = 1 /\ InScript(W, c, p, 1) ELSE InTodo(W, c, a, i)
  <2>1. CASE a = p
    <3>1. i = 1 /\ EntryStage[p] \in W
        BY <1>4, <1>6, <2>1 DEF InTodo
    <3>2. Head(script[p]) = c
        BY <1>1, <1>4, <1>6, <2>1 DEF InTodo, Handles
    <3>3. 1 \in DOMAIN script[p] /\ script[p][1] = Head(script[p])
        BY <1>3, Firsts
    <3> QED
        BY <2>1, <3>1, <3>2, <3>3 DEF InScript
  <2>2. CASE a # p
      BY <1>1, <1>2, <1>6, <2>2, HeldBack
  <2> QED
      BY <2>1, <2>2
<1>7. ASSUME NEW w, InHand(s, c, w)' PROVE InHand(s, c, w)
  <2>1. w # p
      BY <1>1, <1>7 DEF InHand
  <2> QED
      BY <1>1, <1>2, <1>7, <2>1, HeldBack
<1>8. ASSUME NEW r, NEW i, InQueue(W, c, r, i)' PROVE InQueue(W, c, r, i)
    BY <1>1, <1>8, QueueBack DEF Create
<1>9. \A i : InServed(s, c, i)' => InServed(s, c, i)
    BY DEF InServed, Create
<1>10. ASSUME NEW k, NEW x, NEW i, Spot(W, s, c, k, x, i)'
       PROVE  \/ k = "script" /\ x = p /\ i \in Nat \ {0} /\ Spot(W, s, c, "script", p, i + 1)
              \/ k = "todo" /\ x = p /\ i = 1 /\ Spot(W, s, c, "script", p, 1)
              \/ /\ ~(k = "script" /\ x = p) /\ ~(k = "todo" /\ x = p)
                 /\ Spot(W, s, c, k, x, i)
    BY <1>5, <1>6, <1>7, <1>8, <1>9, <1>10 DEF Spot
<1> QED
    BY <1>10 DEF Once

(* A worker that takes a message up has it in hand, to send it on by the   *)
(* one dispatch that is on the way, or to process it at the end of the way.*)
LEMMA OnceTryPop ==
    ASSUME Typed, NEW w \in Workers, NEW r \in Stage, TryPop(w, r),
           NEW s \in Stage, NEW W \in SUBSET Stage, Way(W, s), NEW c, Once(W, s, c)
    PROVE  Once(W, s, c)'
<1>1. w \in Actor /\ HeapKept /\ heap' = heap
    BY DEF Actor, TryPop, HeapKept, Message, Typed, TypeOK, Objects
<1>2. /\ Steps(frame, frame', w) /\ frame'[w].hand = Head(queue[r])
      /\ frame'[w].at = r /\ frame'[w].todo = Route[r]
  <2> DEFINE f == [hand |-> Head(queue[r]), carry |-> Null, todo |-> Route[r], at |-> r]
  <2>1. frame' = [frame EXCEPT ![w] = f]
      BY DEF TryPop
  <2>2. f.hand = Head(queue[r]) /\ f.at = r /\ f.todo = Route[r]
      OBVIOUS
  <2> HIDE DEF f
  <2> QED
      BY <1>1, <2>1, <2>2, StepsFrom
<1>3. /\ queue[r] \in Seq(Message) /\ queue[r] # <<>> /\ queue'[r] = Tail(queue[r])
      /\ \A u \in Stage : u # r => queue'[u] = queue[u]
    BY DEF TryPop, Typed, TypeOK
<1>4. Handles(w, c)' /\ r \in W => InQueue(W, c, r, 1)
  <2>1. 1 \in DOMAIN queue[r] /\ queue[r][1] = Head(queue[r])
      BY <1>3, Firsts
  <2> QED
      BY <1>1, <1>2, <2>1 DEF InQueue, Handles
<1>5. ASSUME NEW u, NEW i, InQueue(W, c, u, i)'
      PROVE  IF u = r THEN i \in Nat \ {0} /\ InQueue(W, c, r, i + 1) ELSE InQueue(W, c, u, i)
  <2>1. CASE u = r
    <3>1. i \in DOMAIN Tail(queue[r]) /\ heap[Tail(queue[r])[i]].content = c /\ r \in W
        BY <1>1, <1>3, <1>5, <2>1 DEF InQueue
    <3>2. i \in Nat \ {0} /\ i + 1 \in DOMAIN queue[r] /\ Tail(queue[r])[i] = queue[r][i + 1]
        BY <1>3, <3>1, OneBehind
    <3> QED
        BY <2>1, <3>1, <3>2 DEF InQueue
  <2>2. CASE u # r
    <3>1. u \in Stage
        BY <1>5 DEF InQueue
    <3> QED
        BY <1>1, <1>3, <1>5, <2>2, <3>1, QueueBack
  <2> QED
      BY <2>1, <2>2
<1>6. ASSUME NEW a, NEW i, InTodo(W, c, a, i)'
      PROVE  IF a = w THEN i \in DOMAIN Route[r] /\ Route[r][i].to \in W /\ InQueue(W, c, r, 1)
             ELSE InTodo(W, c, a, i)
  <2>1. CASE a = w
    <3>1. i \in DOMAIN Route[r] /\ Route[r][i].to \in W /\ Handles(w, c)'
        BY <1>2, <1>6, <2>1 DEF InTodo
    <3>2. r \in W
        BY <3>1 DEF Way
    <3> QED
        BY <1>4, <2>1, <3>1, <3>2
  <2>2. CASE a # w
      BY <1>1, <1>2, <1>6, <2>2, HeldBack
  <2> QED
      BY <2>1, <2>2
<1>7. ASSUME NEW v, InHand(s, c, v)'
      PROVE  IF v = w THEN r = s /\ InQueue(W, c, r, 1) ELSE InHand(s, c, v)
  <2>1. CASE v = w
    <3>1. r = s /\ Handles(w, c)'
        BY <1>2, <1>7, <2>1 DEF InHand
    <3> QED
        BY <1>4, <2>1, <3>1 DEF Way
  <2>2. CASE v # w
      BY <1>1, <1>2, <1>7, <2>2, HeldBack
  <2> QED
      BY <2>1, <2>2
<1>8. \A p, i : InScript(W, c, p, i)' => InScript(W, c, p, i)
    BY DEF InScript, TryPop
<1>9. \A i : InServed(s, c, i)' => InServed(s, c, i)
    BY DEF InServed, TryPop
<1>10. ASSUME NEW k, NEW x, NEW i, Spot(W, s, c, k, x, i)'
       PROVE  \/ k = "queue" /\ x = r /\ i \in Nat \ {0} /\ Spot(W, s, c, "queue", r, i + 1)
              \/ /\ k = "todo" /\ x = w /\ Spot(W, s, c, "queue", r, 1)
                 /\ i \in DOMAIN Route[r] /\ Route[r][i].to \in W
              \/ k = "hand" /\ x = w /\ i = 1 /\ r = s /\ Spot(W, s, c, "queue", r, 1)
              \/ /\ ~(k = "queue" /\ x = r) /\ ~(k = "todo" /\ x = w) /\ ~(k = "hand" /\ x = w)
                 /\ Spot(W, s, c, k, x, i)
    BY <1>5, <1>6, <1>7, <1>8, <1>9, <1>10 DEF Spot
<1>11. ASSUME NEW i \in DOMAIN Route[r], Route[r][i].to \in W,
              NEW j \in DOMAIN Route[r], Route[r][j].to \in W
       PROVE  i = j /\ r # s
  <2>1. r \in W
      BY <1>11 DEF Way
  <2> QED
      BY <1>11, <2>1 DEF Way
<1> QED
    BY <1>10, <1>11 DEF Once

LEMMA OncePrepare ==
    ASSUME Typed, HeapKept, NEW a \in Actor, Retain(a) \/ Copy(a),
           NEW s \in Stage, NEW W \in SUBSET Stage, NEW c, Once(W, s, c)
    PROVE  Once(W, s, c)'
<1>1. /\ Steps(frame, frame', a) /\ frame'[a].hand = frame[a].hand
      /\ frame'[a].at = frame[a].at /\ frame'[a].todo = frame[a].todo
  <2>1. frame[a] \in Frames
      BY DEF Typed, TypeOK, Frames
  <2>2. \E m : frame' = [frame EXCEPT ![a].carry = m]
      BY DEF Retain, Copy
  <2> QED
      BY <2>1, <2>2 DEF Typed, TypeOK, Steps, Frames
<1>2. Handles(a, c)' => Handles(a, c)
    BY <1>1, HeapKeptKeeps DEF Handles
<1>3. \A b, i : InTodo(W, c, b, i)' => InTodo(W, c, b, i)
    BY <1>1, <1>2, HeldBack DEF InTodo
<1>4. \A b : InHand(s, c, b)' => InHand(s, c, b)
    BY <1>1, <1>2, HeldBack DEF InHand
<1>5. UNCHANGED <<queue, script, served>>
    BY DEF Retain, Copy
<1>6. ASSUME NEW r, NEW i, InQueue(W, c, r, i)' PROVE InQueue(W, c, r, i)
    BY <1>5, <1>6, QueueBack
<1>7. \A p, i : InScript(W, c, p, i)' => InScript(W, c, p, i)
    BY <1>5 DEF InScript
<1>8. \A i : InServed(s, c, i)' => InServed(s, c, i)
    BY <1>5 DEF InServed
<1>9. \A k, x, i : Spot(W, s, c, k, x, i)' => Spot(W, s, c, k, x, i)
    BY <1>3, <1>4, <1>6, <1>7, <1>8 DEF Spot
<1> QED
    BY <1>9, OnceFewer

-----------------------------------------------------------------------------
(* A pushed message is where its dispatch had it.                          *)
LEMMA OncePush ==
    ASSUME Typed, NEW a \in Actor, Push(a), NEW s \in Stage, NEW W \in SUBSET Stage, NEW c,
           Once(W, s, c)
    PROVE  Once(W, s, c)'
<1> DEFINE todo == frame[a].todo
<1> DEFINE new == frame[a].carry
<1>1. /\ HeapKept /\ heap' = heap /\ new \in Message /\ frame[a].hand # Null
      /\ heap[new].content = heap[frame[a].hand].content
      /\ todo \in Seq(Dispatch) /\ todo # <<>>
    BY TypedPush, Busy DEF Push, Frames
<1>2. /\ Steps(frame, frame', a) /\ frame'[a].hand = frame[a].hand
      /\ frame'[a].at = frame[a].at /\ frame'[a].todo = Tail(todo)
    BY DEF Push, Typed, TypeOK, Steps
<1>3. Handles(a, c)' => Handles(a, c)
    BY <1>1, <1>2 DEF Handles
<1>4. PICK to \in Stage :
          /\ to = Head(todo).to
          /\ queue'[to] = Append(queue[to], new)
          /\ \A u \in Stage : u # to => queue'[u] = queue[u]
          /\ queue[to] \in Seq(Message)
  <2>1. Head(todo) \in Dispatch
      BY <1>1, HeadTailProperties
  <2>2. Head(todo).to \in Stage
      BY <2>1 DEF Dispatch
  <2>3. queue' = [queue EXCEPT ![Head(todo).to] = Append(@, new)]
      BY DEF Push
  <2>4. queue \in [Stage -> Seq(Message)]
      BY DEF Typed, TypeOK
  <2> HIDE DEF todo, new
  <2> QED
      BY <2>2, <2>3, <2>4
<1>5. 1 \in DOMAIN todo /\ todo[1] = Head(todo)
    BY <1>1, Firsts
<1>6. heap[new].content = c /\ to \in W => InTodo(W, c, a, 1)
    BY <1>1, <1>4, <1>5 DEF InTodo, Handles
<1>7. ASSUME NEW r, NEW i, InQueue(W, c, r, i)'
      PROVE  \/ r = to /\ i = Len(queue[to]) + 1 /\ InTodo(W, c, a, 1)
             \/ ~(r = to /\ i = Len(queue[to]) + 1) /\ InQueue(W, c, r, i)
  <2>1. CASE r = to
    <3>1. i \in DOMAIN Append(queue[to], new) /\ heap[Append(queue[to], new)[i]].content = c
          /\ to \in W
        BY <1>1, <1>4, <1>7, <2>1 DEF InQueue
    <3>2. \/ i = Len(queue[to]) + 1 /\ Append(queue[to], new)[i] = new
          \/ i # Len(queue[to]) + 1 /\ i \in DOMAIN queue[to]
             /\ Append(queue[to], new)[i] = queue[to][i]
      <4>1. queue[to] \in Seq(Message) /\ new \in Message /\ i \in DOMAIN Append(queue[to], new)
          BY <1>1, <1>4, <3>1
      <4> HIDE DEF new
      <4> QED
          BY <4>1, Appended
    <3> QED
        BY <1>6, <2>1, <3>1, <3>2 DEF InQueue
  <2>2. CASE r # to
    <3>1. r \in Stage
        BY <1>7 DEF InQueue
    <3> QED
        BY <1>1, <1>4, <1>7, <2>2, <3>1, QueueBack
  <2> QED
      BY <2>1, <2>2
<1>8. ASSUME NEW b, NEW i, InTodo(W, c, b, i)'
      PROVE  IF b = a THEN i \in Nat \ {0} /\ InTodo(W, c, a, i + 1) ELSE InTodo(W, c, b, i)
  <2>1. CASE b = a
    <3>1. i \in DOMAIN Tail(todo) /\ Tail(todo)[i].to \in W /\ Handles(a, c)
        BY <1>2, <1>3, <1>8, <2>1 DEF InTodo
    <3>2. i \in Nat \ {0} /\ i + 1 \in DOMAIN todo /\ Tail(todo)[i] = todo[i + 1]
      <4> HIDE DEF todo
      <4> QED
          BY <1>1, <3>1, OneBehind
    <3> QED
        BY <2>1, <3>1, <3>2 DEF InTodo
  <2>2. CASE b # a
      BY <1>1, <1>2, <1>8, <2>2, HeldBack
  <2> QED
      BY <2>1, <2>2
<1>9. \A w : InHand(s, c, w)' => InHand(s, c, w)
    BY <1>1, <1>2, <1>3, HeldBack DEF InHand
<1>10. \A p, i : InScript(W, c, p, i)' => InScript(W, c, p, i)
    BY DEF InScript, Push
<1>11. \A i : InServed(s, c, i)' => InServed(s, c, i)
    BY DEF InServed, Push
<1> DEFINE end == Len(queue[to]) + 1
<1>12. ASSUME NEW k, NEW x, NEW i, Spot(W, s, c, k, x, i)'
       PROVE  \/ k = "queue" /\ x = to /\ i = end /\ Spot(W, s, c, "todo", a, 1)
              \/ k = "todo" /\ x = a /\ i \in Nat \ {0} /\ Spot(W, s, c, "todo", a, i + 1)
              \/ /\ ~(k = "queue" /\ x = to /\ i = end) /\ ~(k = "todo" /\ x = a)
                 /\ Spot(W, s, c, k, x, i)
    BY <1>7, <1>8, <1>9, <1>10, <1>11, <1>12 DEF Spot
<1> HIDE DEF end
<1> QED
    BY <1>12 DEF Once

(* A stage that has processed a message had it in the hand of a worker.    *)
LEMMA OnceRelease ==
    ASSUME IInv, NEW a \in Actor, Release(a), NEW s \in Stage, NEW W \in SUBSET Stage, NEW c,
           Once(W, s, c)
    PROVE  Once(W, s, c)'
<1>1. Typed /\ HeapKept
  <2>1. heap[frame[a].hand].refs # 0
      BY HandIsCounted DEF Release
  <2> QED
      BY <2>1, TypedRelease DEF IInv
<1>2. Steps(frame, frame', a) /\ ~Handles(a, c)'
  <2>1. Steps(frame, frame', a) /\ frame'[a] = Idle
      BY <1>1, StepsFrom DEF Release
  <2>2. frame'[a].hand = Null
      BY <2>1 DEF Idle
  <2> QED
      BY <2>1, <2>2 DEF Handles
<1>3. ASSUME NEW b, NEW i PROVE InTodo(W, c, b, i)' => b # a /\ InTodo(W, c, b, i)
    BY <1>1, <1>2, HeldBack DEF InTodo
<1>4. ASSUME NEW w PROVE InHand(s, c, w)' => w # a /\ InHand(s, c, w)
    BY <1>1, <1>2, HeldBack DEF InHand
<1>5. UNCHANGED <<queue, script>>
    BY DEF Release
<1>6. ASSUME NEW r, NEW i, InQueue(W, c, r, i)' PROVE InQueue(W, c, r, i)
    BY <1>1, <1>5, <1>6, QueueBack
<1>7. \A p, i : InScript(W, c, p, i)' => InScript(W, c, p, i)
    BY <1>5 DEF InScript
<1> DEFINE end == Len(served[s]) + 1
<1>8. ASSUME NEW i, InServed(s, c, i)'
      PROVE  \/ i = end /\ InHand(s, c, a)
             \/ i # end /\ InServed(s, c, i)
  <2>1. served[s] \in Seq(Content)
      BY <1>1 DEF Typed, TypeOK
  <2>2. CASE served'[s] = served[s]
    <3>1. i \in DOMAIN served[s] /\ served[s][i] = c
        BY <1>8, <2>2 DEF InServed
    <3>2. i # end
        BY <2>1, <3>1, LenProperties
    <3> QED
        BY <3>1, <3>2 DEF InServed
  <2>3. CASE a \in Workers /\ frame[a].at = s
    <3> DEFINE d == heap[frame[a].hand].content
    <3>1. d \in Content /\ frame[a].hand # Null
        BY <1>1, ContentHeld DEF Release
    <3>2. served'[s] = Append(served[s], d)
        BY <1>1, <2>3 DEF Release, Typed, TypeOK
    <3>3. d = c => InHand(s, c, a)
        BY <2>3, <3>1 DEF InHand, Handles
    <3> HIDE DEF d
    <3>4. i \in DOMAIN Append(served[s], d) /\ Append(served[s], d)[i] = c
        BY <1>8, <3>2 DEF InServed
    <3>5. \/ i = end /\ Append(served[s], d)[i] = d
          \/ i # end /\ i \in DOMAIN served[s] /\ Append(served[s], d)[i] = served[s][i]
        BY <2>1, <3>1, <3>4, Appended
    <3> QED
        BY <3>3, <3>4, <3>5 DEF InServed
  <2> QED
      BY <1>1, <2>2, <2>3 DEF Release, Typed, TypeOK
<1>9. ASSUME NEW k, NEW x, NEW i, Spot(W, s, c, k, x, i)'
      PROVE  \/ k = "served" /\ x = s /\ i = end /\ Spot(W, s, c, "hand", a, 1)
             \/ /\ ~(k = "served" /\ x = s /\ i = end) /\ ~(k = "hand" /\ x = a)
                /\ Spot(W, s, c, k, x, i)
    BY <1>3, <1>4, <1>6, <1>7, <1>8, <1>9 DEF Spot
<1> HIDE DEF end
<1> QED
    BY <1>9 DEF Once

LEMMA OnceThrow ==
    ASSUME IInv, NEW w \in Workers, Throw(w), NEW s \in Stage, NEW W \in SUBSET Stage, NEW c,
           Once(W, s, c)
    PROVE  Once(W, s, c)'
<1>1. Typed /\ HeapKept /\ w \in Actor
  <2>1. w \in Actor
      BY DEF Actor
  <2>2. heap[frame[w].hand].refs # 0
      BY <2>1, HandIsCounted DEF Throw
  <2> QED
      BY <2>1, <2>2, TypedThrow DEF IInv
<1>2. Steps(frame, frame', w) /\ ~Handles(w, c)'
  <2>1. Steps(frame, frame', w) /\ frame'[w] = Idle
      BY <1>1, StepsFrom DEF Throw
  <2>2. frame'[w].hand = Null
      BY <2>1 DEF Idle
  <2> QED
      BY <2>1, <2>2 DEF Handles
<1>3. ASSUME NEW b, NEW i PROVE InTodo(W, c, b, i)' => InTodo(W, c, b, i)
    BY <1>1, <1>2, HeldBack DEF InTodo
<1>4. ASSUME NEW b PROVE InHand(s, c, b)' => InHand(s, c, b)
    BY <1>1, <1>2, HeldBack DEF InHand
<1>5. UNCHANGED <<queue, script, served>>
    BY DEF Throw
<1>6. ASSUME NEW r, NEW i, InQueue(W, c, r, i)' PROVE InQueue(W, c, r, i)
    BY <1>1, <1>5, <1>6, QueueBack
<1>7. \A p, i : InScript(W, c, p, i)' => InScript(W, c, p, i)
    BY <1>5 DEF InScript
<1>8. \A i : InServed(s, c, i)' => InServed(s, c, i)
    BY <1>5 DEF InServed
<1>9. \A k, x, i : Spot(W, s, c, k, x, i)' => Spot(W, s, c, k, x, i)
    BY <1>3, <1>4, <1>6, <1>7, <1>8 DEF Spot
<1> QED
    BY <1>9, OnceFewer

-----------------------------------------------------------------------------
LEMMA OnceStep ==
    ASSUME IInv, [Next]_vars, NEW s \in Stage, NEW W \in SUBSET Stage, Way(W, s), NEW c,
           Once(W, s, c)
    PROVE  Once(W, s, c)'
<1>1. CASE UNCHANGED vars
  <2>1. \A k, x, i : Spot(W, s, c, k, x, i)' => Spot(W, s, c, k, x, i)
      BY <1>1 DEF vars, Spot, InScript, InQueue, InTodo, InHand, InServed, Handles
  <2> QED
      BY <2>1, OnceFewer
<1>2. ASSUME NEW a \in Actor, Send(a) \/ Release(a) PROVE Once(W, s, c)'
  <2>1. CASE Retain(a) \/ Copy(a)
    <3>1. Typed /\ HeapKept
        BY <2>1, TypedRetain, TypedCopy DEF IInv
    <3> QED
        BY <2>1, <3>1, OncePrepare
  <2>2. CASE Push(a)
      BY <2>2, OncePush DEF IInv
  <2>3. CASE Release(a)
      BY <2>3, OnceRelease
  <2> QED
      BY <1>2, <2>1, <2>2, <2>3 DEF Send
<1>3. ASSUME NEW p \in Producers, Produce(p) PROVE Once(W, s, c)'
  <2>1. CASE Create(p)
      BY <2>1, OnceCreate DEF IInv
  <2> QED
      BY <1>2, <1>3, <2>1 DEF Produce, Actor
<1>4. ASSUME NEW w \in Workers,
             (\E r \in Stage : TryPop(w, r)) \/ Send(w) \/ Release(w) \/ Throw(w)
      PROVE  Once(W, s, c)'
  <2>1. CASE \E r \in Stage : TryPop(w, r)
      BY <2>1, OnceTryPop DEF IInv
  <2>2. CASE Throw(w)
      BY <2>2, OnceThrow
  <2> QED
      BY <1>2, <1>4, <2>1, <2>2 DEF Actor
<1> QED
    BY <1>1, <1>3, <1>4 DEF Next

LEMMA OnceNext == IInv /\ AllOnce /\ [Next]_vars => AllOnce'
<1> SUFFICES ASSUME IInv, AllOnce, [Next]_vars,
                    NEW s \in Stage, NEW c \in Content, NEW W \in SUBSET Stage, Way(W, s)
             PROVE  Once(W, s, c)'
    BY DEF AllOnce
<1>1. Once(W, s, c)
    BY DEF AllOnce
<1> QED
    BY <1>1, OnceStep

LEMMA OneOrNone ==
    ASSUME NEW S, \A x, y \in S : x = y
    PROVE  /\ Cardinality(S) \in Nat /\ Cardinality(S) <= 1
           /\ S = {} => Cardinality(S) = 0
<1>1. CASE S = {}
    BY <1>1, FS_EmptySet
<1>2. CASE S # {}
  <2>1. PICK x \in S : S = {x}
      BY <1>2
  <2> QED
      BY <2>1, FS_Singleton
<1> QED
    BY <1>1, <1>2

LEMMA OnceCounted ==
    ASSUME IInv, NEW s \in Stage, NEW c \in Content, NEW W \in SUBSET Stage, Way(W, s),
           Once(W, s, c)
    PROVE  Occurrences(s, c) <= 1
<1> DEFINE Q == {i \in DOMAIN queue[s] : heap[queue[s][i]].content = c}
<1> DEFINE H == {w \in Workers : frame[w].at = s /\ heap[frame[w].hand].content = c}
<1> DEFINE D == {i \in DOMAIN served[s] : served[s][i] = c}
<1>1. \A i \in Q : Spot(W, s, c, "queue", s, i)
    BY DEF Spot, InQueue, Way
<1>2. \A w \in H : Spot(W, s, c, "hand", w, 1)
  <2> SUFFICES ASSUME NEW w \in H PROVE Handles(w, c)
      BY DEF Spot, InHand
  <2>1. frame[w] # Idle
      BY StageFlowAssumption DEF Idle, NumberOfEntries, Stage
  <2> QED
      BY <2>1 DEF Handles, IInv, Typed, Coherent, Actor
<1>3. \A i \in D : Spot(W, s, c, "served", s, i)
    BY DEF Spot, InServed
<1>4. Occurrences(s, c) = Cardinality(Q) + Cardinality(H) + Cardinality(D)
    BY DEF Occurrences
<1> HIDE DEF Q, H, D
<1>5. (\A x, y \in Q : x = y) /\ (\A x, y \in H : x = y) /\ (\A x, y \in D : x = y)
    BY <1>1, <1>2, <1>3 DEF Once
<1>6. (Q = {} /\ H = {}) \/ (Q = {} /\ D = {}) \/ (H = {} /\ D = {})
    BY <1>1, <1>2, <1>3 DEF Once
<1>7. /\ Cardinality(Q) \in Nat /\ Cardinality(Q) <= 1 /\ (Q = {} => Cardinality(Q) = 0)
      /\ Cardinality(H) \in Nat /\ Cardinality(H) <= 1 /\ (H = {} => Cardinality(H) = 0)
      /\ Cardinality(D) \in Nat /\ Cardinality(D) <= 1 /\ (D = {} => Cardinality(D) = 0)
    BY <1>5, OneOrNone
<1> QED
    BY <1>4, <1>6, <1>7

LEMMA NoneTwice ==
    ASSUME OneWay, IInv, AllOnce
    PROVE  AtMostOnce
<1> SUFFICES ASSUME NEW s \in Stage, NEW c \in Content PROVE Occurrences(s, c) <= 1
    BY DEF AtMostOnce
<1>1. PICK W \in SUBSET Stage : Way(W, s)
    BY DEF OneWay
<1> QED
    BY <1>1, OnceCounted DEF AllOnce

(* Where there is one way at most from a stage to another and no content is*)
(* created twice, no stage processes a message twice, whatever the         *)
(* interleaving of its visitors, and neither do two of them at once.       *)
THEOREM NeverTwice == ASSUME OneWay, DistinctContents PROVE Spec => []AtMostOnce
<1>1. Init => IInv /\ AllOnce
    BY TypedInit, CountedInit, OnceInit DEF IInv
<1>2. IInv /\ AllOnce /\ [Next]_vars => IInv' /\ AllOnce'
    BY InvariantNext, OnceNext
<1>3. IInv /\ AllOnce => AtMostOnce
    BY NoneTwice
<1> QED
    BY <1>1, <1>2, <1>3, PTL DEF Spec
-----------------------------------------------------------------------------
(* Order *)

(* No two workers run the functor of one stage.                            *)
OneVisitor ==
    \A v, w \in Workers : frame[v].at \in Stage /\ frame[v].at = frame[w].at => v = w

LEMMA ContentsOf ==
    ASSUME Typed, NEW ms \in Seq(Message)
    PROVE  /\ Contents(ms) \in Seq(Content)
           /\ Len(Contents(ms)) = Len(ms)
           /\ \A i \in 1 .. Len(ms) : Contents(ms)[i] = heap[ms[i]].content
<1>0. \A m \in Message : heap[m].content \in Content
    BY HeapObject DEF Objects
<1>1. Len(ms) \in Nat /\ DOMAIN ms = 1 .. Len(ms) /\ \A i \in 1 .. Len(ms) : ms[i] \in Message
    BY LenProperties
<1>2. Contents(ms) = [i \in 1 .. Len(ms) |-> heap[ms[i]].content]
    BY <1>1 DEF Contents
<1>3. Contents(ms) \in [1 .. Len(ms) -> Content]
    BY <1>0, <1>1, <1>2
<1>4. Contents(ms) \in Seq(Content)
    BY <1>1, <1>3, SeqDef
<1>5. Len(Contents(ms)) = Len(ms)
    BY <1>1, <1>3, <1>4, LenProperties
<1> QED
    BY <1>2, <1>4, <1>5

LEMMA FunctionIsSeq ==
    ASSUME NEW S, NEW n \in Nat, NEW f \in [1 .. n -> S]
    PROVE  f \in Seq(S)
BY SeqDef

LEMMA UnitIsSeq ==
    ASSUME NEW S, NEW f \in [1 .. 1 -> S]
    PROVE  f \in Seq(S) /\ Len(f) = 1
<1> DEFINE n == 1
<1>1. n \in Nat /\ f \in [1 .. n -> S]
    OBVIOUS
<1> HIDE DEF n
<1>2. f \in Seq(S)
    BY <1>1, FunctionIsSeq
<1>3. DOMAIN f = 1 .. Len(f) /\ DOMAIN f = 1 .. n /\ Len(f) \in Nat
    BY <1>1, <1>2, LenProperties
<1> QED
    BY <1>2, <1>3 DEF n

(* A set of at most one worker, as a sequence.                             *)
LEMMA OneInSeq ==
    ASSUME NEW x
    PROVE  SetToSeq({}) = <<>> /\ SetToSeq({x}) = <<x>>
<1>1. SetToSeq({}) = <<>>
  <2>1. Cardinality({}) = 0
      BY FS_EmptySet
  <2>2. SetToSeq({}) = CHOOSE f \in [1 .. 0 -> {}] : IsInjective(f)
      BY <2>1 DEF SetToSeq
  <2>3. <<>> \in [1 .. 0 -> {}] /\ IsInjective(<<>>)
      BY DEF IsInjective
  <2>4. SetToSeq({}) \in [1 .. 0 -> {}]
      BY <2>2, <2>3
  <2> QED
      BY <2>4
<1>2. SetToSeq({x}) = <<x>>
  <2>1. Cardinality({x}) = 1
      BY FS_Singleton
  <2>2. SetToSeq({x}) = CHOOSE f \in [1 .. 1 -> {x}] : IsInjective(f)
      BY <2>1 DEF SetToSeq
  <2>3. <<x>> \in [1 .. 1 -> {x}] /\ IsInjective(<<x>>)
      BY DEF IsInjective
  <2>4. SetToSeq({x}) \in [1 .. 1 -> {x}]
      BY <2>2, <2>3
  <2>5. SetToSeq({x}) \in Seq({x}) /\ <<x>> \in Seq({x})
      BY <2>4, UnitIsSeq
  <2>6. Len(SetToSeq({x})) = 1 /\ SetToSeq({x})[1] = x
      BY <2>4, UnitIsSeq
  <2> QED
      BY <2>5, <2>6, SeqEqual
<1> QED
    BY <1>1, <1>2

(* What a stage of the chain has to handle: what its worker has in hand    *)
(* before what waits in its queue.                                         *)
Waiting(s) == Contents(queue[s])
InboxKnown ==
    \A s \in Stage :
        /\ \A w \in Workers :
              Unfinished(w, s) => inbox[s] = <<heap[frame[w].hand].content>> \o Waiting(s)
        /\ (\A w \in Workers : ~Unfinished(w, s)) => inbox[s] = Waiting(s)

LEMMA InboxIs == Typed /\ OneVisitor => InboxKnown
<1> SUFFICES ASSUME Typed, OneVisitor, NEW s \in Stage
             PROVE  /\ \A w \in Workers : Unfinished(w, s) =>
                          inbox[s] = <<heap[frame[w].hand].content>> \o Waiting(s)
                    /\ (\A w \in Workers : ~Unfinished(w, s)) => inbox[s] = Waiting(s)
    BY DEF InboxKnown
<1> DEFINE hands == [i \in DOMAIN Handled(s) |-> frame[Handled(s)[i]].hand]
<1>1. inbox[s] = Contents(hands \o queue[s])
    BY DEF inbox
<1>2. queue[s] \in Seq(Message) /\ \A m \in Message : heap[m].content \in Content
    BY HeapObject DEF Typed, TypeOK, Objects
<1>3. ASSUME NEW w \in Workers, Unfinished(w, s)
      PROVE  inbox[s] = <<heap[frame[w].hand].content>> \o Waiting(s)
  <2> DEFINE m == frame[w].hand
  <2>1. {v \in Workers : Unfinished(v, s)} = {w}
      BY <1>3 DEF OneVisitor, Unfinished
  <2>2. Handled(s) = <<w>>
      BY <2>1, OneInSeq DEF Handled
  <2>3. m \in Message
    <3>1. frame[w] # Idle
        BY <1>3, StageFlowAssumption DEF Unfinished, Idle, NumberOfEntries, Stage
    <3>2. w \in Actor /\ m # Null
        BY <3>1 DEF Typed, Coherent, Actor
    <3> QED
        BY <3>2, Busy
  <2> HIDE DEF m
  <2>4. hands = <<m>>
    <3>1. DOMAIN <<w>> = 1 .. 1 /\ <<w>>[1] = w
        OBVIOUS
    <3>2. hands = [i \in 1 .. 1 |-> m]
        BY <2>2, <3>1 DEF m
    <3>3. hands \in [1 .. 1 -> {m}] /\ hands[1] = m
        BY <3>2
    <3> HIDE DEF hands
    <3>4. hands \in Seq({m}) /\ <<m>> \in Seq({m})
        BY <3>3, UnitIsSeq
    <3>5. Len(hands) = 1
        BY <3>3, UnitIsSeq
    <3> QED
        BY <3>3, <3>4, <3>5, SeqEqual
  <2> HIDE DEF hands
  <2>5. <<m>> \in Seq(Message) /\ Len(<<m>>) = 1
      BY <2>3
  <2> DEFINE all == <<m>> \o queue[s]
  <2>6. /\ all \in Seq(Message) /\ Len(all) = 1 + Len(queue[s]) /\ Len(queue[s]) \in Nat
        /\ \A i \in 1 .. 1 + Len(queue[s]) : all[i] = IF i = 1 THEN m ELSE queue[s][i - 1]
      BY <1>2, <2>5, ConcatProperties, LenProperties
  <2> DEFINE c == heap[m].content
  <2> HIDE DEF all
  <2>7. /\ Contents(all) \in Seq(Content) /\ Len(Contents(all)) = 1 + Len(queue[s])
        /\ \A i \in 1 .. 1 + Len(queue[s]) : Contents(all)[i] = heap[all[i]].content
    <3>1. /\ Contents(all) \in Seq(Content) /\ Len(Contents(all)) = Len(all)
          /\ \A i \in 1 .. Len(all) : Contents(all)[i] = heap[all[i]].content
        BY <2>6, ContentsOf
    <3> QED
        BY <2>6, <3>1
  <2>8. /\ Waiting(s) \in Seq(Content) /\ Len(Waiting(s)) = Len(queue[s])
        /\ \A i \in 1 .. Len(queue[s]) : Waiting(s)[i] = heap[queue[s][i]].content
      BY <1>2, ContentsOf DEF Waiting
  <2>9. c \in Content
      BY <1>2, <2>3
  <2> HIDE DEF c
  <2>10. /\ <<c>> \o Waiting(s) \in Seq(Content)
         /\ Len(<<c>> \o Waiting(s)) = 1 + Len(queue[s])
         /\ \A i \in 1 .. 1 + Len(queue[s]) :
               (<<c>> \o Waiting(s))[i] = IF i = 1 THEN c ELSE Waiting(s)[i - 1]
    <3>1. <<c>> \in Seq(Content) /\ Len(<<c>>) = 1 /\ <<c>>[1] = c
        BY <2>9
    <3> QED
        BY <2>6, <2>8, <3>1, ConcatProperties
  <2>11. ASSUME NEW i \in 1 .. 1 + Len(queue[s])
         PROVE  Contents(all)[i] = (<<c>> \o Waiting(s))[i]
    <3>1. CASE i = 1
        BY <2>6, <2>7, <2>10, <3>1 DEF c
    <3>2. CASE i # 1
      <4>1. i - 1 \in 1 .. Len(queue[s])
          BY <2>6, <3>2
      <4>2. (<<c>> \o Waiting(s))[i] = heap[queue[s][i - 1]].content
          BY <2>8, <2>10, <3>2, <4>1
      <4>3. all[i] = queue[s][i - 1]
          BY <2>6, <3>2
      <4> QED
          BY <2>7, <4>2, <4>3
    <3> QED
        BY <3>1, <3>2
  <2>12. Contents(all) = <<c>> \o Waiting(s)
      BY <2>7, <2>10, <2>11, SeqEqual
  <2> QED
      BY <1>1, <2>4, <2>12 DEF all, c, m
<1>4. ASSUME \A w \in Workers : ~Unfinished(w, s)
      PROVE  inbox[s] = Waiting(s)
  <2>1. {v \in Workers : Unfinished(v, s)} = {}
      BY <1>4
  <2>2. Handled(s) = <<>>
      BY <2>1, OneInSeq DEF Handled
  <2>3. hands = <<>>
      BY <2>2
  <2> HIDE DEF hands
  <2>4. hands \o queue[s] = queue[s]
      BY <1>2, <2>3, ConcatEmptySeq
  <2> QED
      BY <1>1, <2>4 DEF Waiting
<1> QED
    BY <1>3, <1>4

(* What a functor of the chain has still to dispatch.                      *)
OnRoute ==
    \A a \in Actor : frame[a].todo # <<>> =>
        IF a \in Workers THEN frame[a].todo = Route[frame[a].at]
                         ELSE frame[a].todo = <<[to |-> EntryStage[a], clone |-> FALSE]>>

LEMMA OnRouteInit == Init => OnRoute
BY DEF Init, OnRoute, Idle

LEMMA OneDispatch ==
    ASSUME InAChain, Typed, OnRoute, NEW a \in Actor, frame[a].todo # <<>>
    PROVE  /\ Tail(frame[a].todo) = <<>>
           /\ IF a \in Workers
              THEN /\ frame[a].at \in Stage /\ frame[a].at # NumberOfStages - 1
                   /\ Head(frame[a].todo).to = frame[a].at + 1
              ELSE Head(frame[a].todo).to = 0
<1>1. /\ frame[a].todo \in Seq(Dispatch) /\ (a \in Workers => frame[a].at \in Stage)
    BY Busy DEF Frames
<1>2. Len(frame[a].todo) = 1
  <2>1. CASE a \in Workers
    <3>1. frame[a].todo = Route[frame[a].at] /\ frame[a].at \in Stage
        BY <1>1, <2>1 DEF OnRoute
    <3> QED
        BY <3>1 DEF InAChain
  <2>2. CASE a \notin Workers
    <3>1. frame[a].todo = <<[to |-> EntryStage[a], clone |-> FALSE]>>
        BY <2>2 DEF OnRoute
    <3> QED
        BY <3>1
  <2> QED
      BY <2>1, <2>2
<1>3. Tail(frame[a].todo) \in Seq(Dispatch) /\ Len(Tail(frame[a].todo)) = 0
    BY <1>1, <1>2, HeadTailProperties
<1>4. Tail(frame[a].todo) = <<>>
    BY <1>3, EmptySeq
<1>5. Head(frame[a].todo) = frame[a].todo[1]
    BY <1>1
<1>6. CASE a \in Workers
  <2>1. frame[a].todo = Route[frame[a].at] /\ frame[a].at \in Stage
      BY <1>1, <1>6 DEF OnRoute
  <2> QED
      BY <1>4, <1>5, <1>6, <2>1 DEF InAChain
<1>7. CASE a \notin Workers
  <2>1. frame[a].todo = <<[to |-> EntryStage[a], clone |-> FALSE]>> /\ a \in Producers
      BY <1>7 DEF OnRoute, Actor
  <2>2. frame[a].todo[1].to = EntryStage[a]
      BY <2>1
  <2> QED
      BY <1>4, <1>5, <1>7, <2>1, <2>2 DEF InAChain
<1> QED
    BY <1>6, <1>7

LEMMA OnRouteStep ==
    ASSUME OnRoute, frame \in [Actor -> Frames], NEW a \in Actor, NEW f,
           frame' = [frame EXCEPT ![a] = f],
           f.todo # <<>> =>
              IF a \in Workers THEN f.todo = Route[f.at]
                               ELSE f.todo = <<[to |-> EntryStage[a], clone |-> FALSE]>>
    PROVE  OnRoute'
BY DEF OnRoute

LEMMA OnRouteNext == InAChain /\ Typed /\ OnRoute /\ [Next]_vars => OnRoute'
<1> SUFFICES ASSUME InAChain, Typed, OnRoute, [Next]_vars PROVE OnRoute'
    OBVIOUS
<1>0. frame \in [Actor -> Frames]
    BY DEF Typed, TypeOK, Frames
<1>1. CASE UNCHANGED vars
    BY <1>1 DEF vars, OnRoute
<1>2. ASSUME NEW p \in Producers, Create(p) PROVE OnRoute'
  <2> DEFINE f == [Idle EXCEPT !.hand = Len(heap) + 1,
                               !.todo = <<[to |-> EntryStage[p], clone |-> FALSE]>>]
  <2>1. p \in Actor /\ p \notin Workers
      BY StageFlowAssumption DEF Actor
  <2>2. frame' = [frame EXCEPT ![p] = f]
      BY <1>2 DEF Create
  <2>3. f.todo = <<[to |-> EntryStage[p], clone |-> FALSE]>>
      BY DEF Idle
  <2> HIDE DEF f
  <2> QED
      BY <1>0, <2>1, <2>2, <2>3, OnRouteStep
<1>3. ASSUME NEW w \in Workers, NEW s \in Stage, TryPop(w, s) PROVE OnRoute'
  <2> DEFINE f == [hand |-> Head(queue[s]), carry |-> Null, todo |-> Route[s], at |-> s]
  <2>1. w \in Actor
      BY DEF Actor
  <2>2. frame' = [frame EXCEPT ![w] = f]
      BY <1>3 DEF TryPop
  <2>3. f.todo = Route[f.at]
      OBVIOUS
  <2> HIDE DEF f
  <2> QED
      BY <1>0, <2>1, <2>2, <2>3, OnRouteStep
<1>4. ASSUME NEW a \in Actor, Retain(a) \/ Copy(a) PROVE OnRoute'
  <2>1. \E c : frame' = [frame EXCEPT ![a].carry = c]
      BY <1>4 DEF Retain, Copy
  <2>2. PICK c : frame' = [frame EXCEPT ![a].carry = c]
      BY <2>1
  <2> DEFINE f == [frame[a] EXCEPT !.carry = c]
  <2>3. frame' = [frame EXCEPT ![a] = f] /\ f.todo = frame[a].todo /\ f.at = frame[a].at
      BY <1>0, <2>2 DEF Frames
  <2> HIDE DEF f
  <2> QED
      BY <1>0, <2>3, OnRouteStep DEF OnRoute
<1>5. ASSUME NEW a \in Actor, Push(a) PROVE OnRoute'
  <2> DEFINE f == [frame[a] EXCEPT !.carry = Null, !.todo = Tail(@)]
  <2>1. frame[a].todo # <<>>
      BY <1>5, Busy DEF Push
  <2>2. frame' = [frame EXCEPT ![a] = f] /\ f.todo = Tail(frame[a].todo)
      BY <1>0, <1>5 DEF Push, Frames
  <2>3. f.todo = <<>>
      BY <2>1, <2>2, OneDispatch
  <2> HIDE DEF f
  <2> QED
      BY <1>0, <2>2, <2>3, OnRouteStep
<1>6. ASSUME NEW a \in Actor, Release(a) \/ Throw(a) PROVE OnRoute'
  <2>1. frame' = [frame EXCEPT ![a] = Idle] /\ Idle.todo = <<>>
      BY <1>6 DEF Release, Throw, Idle
  <2> QED
      BY <1>0, <2>1, OnRouteStep
<1> QED
    BY <1>1, <1>2, <1>3, <1>4, <1>5, <1>6 DEF Next, Produce, Send, Actor

(* The steps of the chain and those of the Pipeline                        *)

LEMMA UnfinishedHolds ==
    ASSUME Typed, NEW s \in Stage, NEW w \in Workers, Unfinished(w, s)
    PROVE  /\ w \in Actor /\ frame[w] \in Frames /\ frame[w].hand \in Message
           /\ frame[w].hand # Null
<1>1. frame[w] # Idle
    BY StageFlowAssumption DEF Unfinished, Idle, NumberOfEntries, Stage
<1>2. w \in Actor /\ frame[w].hand # Null
    BY <1>1 DEF Typed, Coherent, Actor
<1> QED
    BY <1>2, Busy

LEMMA WaitingSame ==
    ASSUME Typed, HeapKept, NEW s \in Stage, queue'[s] = queue[s]
    PROVE  Waiting(s)' = Waiting(s)
<1>1. queue[s] \in Seq(Message) /\ \A i \in DOMAIN queue[s] : queue[s][i] \in Message
    BY LenProperties DEF Typed, TypeOK
<1> QED
    BY <1>1 DEF Waiting, Contents, HeapKept

LEMMA InboxSame ==
    ASSUME Typed, HeapKept, InboxKnown, InboxKnown', NEW s \in Stage, queue'[s] = queue[s],
           \A w \in Workers : /\ Unfinished(w, s)' <=> Unfinished(w, s)
                              /\ Unfinished(w, s) => frame'[w].hand = frame[w].hand
    PROVE  inbox'[s] = inbox[s]
<1>1. Waiting(s)' = Waiting(s)
    BY WaitingSame
<1>2. CASE \E w \in Workers : Unfinished(w, s)
  <2>1. PICK w \in Workers : Unfinished(w, s)
      BY <1>2
  <2>2. inbox[s] = <<heap[frame[w].hand].content>> \o Waiting(s)
      BY <2>1 DEF InboxKnown
  <2>3. inbox'[s] = <<heap'[frame'[w].hand].content>> \o Waiting(s)'
      BY <2>1 DEF InboxKnown
  <2>4. heap'[frame'[w].hand].content = heap[frame[w].hand].content
      BY <2>1, UnfinishedHolds DEF HeapKept
  <2> QED
      BY <1>1, <2>2, <2>3, <2>4
<1>3. CASE \A w \in Workers : ~Unfinished(w, s)
    BY <1>1, <1>3 DEF InboxKnown
<1> QED
    BY <1>2, <1>3

(* A producer whose frame has the same to dispatch has the same to send.   *)
LEMMA PendingSame ==
    ASSUME Typed, HeapKept, NEW p \in Producers, script'[p] = script[p],
           frame'[p].todo = frame[p].todo,
           frame[p].todo # <<>> => frame'[p].hand = frame[p].hand
    PROVE  pending'[p] = pending[p]
<1>1. CASE frame[p].todo = <<>>
    BY <1>1 DEF pending
<1>2. CASE frame[p].todo # <<>>
  <2>1. frame[p].hand \in Message
      BY <1>2, Busy DEF Actor
  <2>2. heap'[frame'[p].hand].content = heap[frame[p].hand].content
      BY <1>2, <2>1 DEF HeapKept
  <2> QED
      BY <1>2, <2>2 DEF pending
<1> QED
    BY <1>1, <1>2

LEMMA MappedFunctions ==
    /\ inbox = [s \in Stage |-> inbox[s]] /\ inbox' = [s \in Stage |-> inbox'[s]]
    /\ pending = [p \in Producers |-> pending[p]]
    /\ pending' = [p \in Producers |-> pending'[p]]
BY DEF inbox, pending

LEMMA MappedSame ==
    /\ (\A s \in Stage : inbox'[s] = inbox[s]) => inbox' = inbox
    /\ (\A p \in Producers : pending'[p] = pending[p]) => pending' = pending
BY MappedFunctions

LEMMA FifoCreate ==
    ASSUME Typed, InboxKnown, InboxKnown', NEW p \in Producers, Create(p)
    PROVE  UNCHANGED Fifo!vars
<1> DEFINE new == Len(heap) + 1
<1> DEFINE todo == <<[to |-> EntryStage[p], clone |-> FALSE]>>
<1>1. /\ HeapKept /\ heap'[new].content = Head(script[p])
      /\ p \in Actor /\ p \notin Workers
    BY CreateKeepsHeap, StageFlowAssumption DEF Actor
<1>2. /\ frame'[p].todo = todo /\ frame'[p].hand = new /\ todo # <<>>
      /\ \A b \in Actor : b # p => frame'[b] = frame[b]
    BY <1>1 DEF Create, Idle, Typed, TypeOK
<1>3. frame[p].todo = <<>> /\ script[p] \in Seq(Content) /\ script[p] # <<>>
    BY DEF Create, Idle, Typed, TypeOK
<1> HIDE DEF new, todo
<1>4. inbox' = inbox
  <2>1. \A s \in Stage : queue'[s] = queue[s]
      BY DEF Create
  <2>2. \A w \in Workers : frame'[w] = frame[w]
      BY <1>1, <1>2 DEF Actor
  <2>3. \A s \in Stage : inbox'[s] = inbox[s]
      BY <1>1, <2>1, <2>2, InboxSame DEF Unfinished
  <2> QED
      BY <2>3, MappedSame
<1>5. pending'[p] = pending[p]
  <2>1. pending'[p] = <<Head(script[p])>> \o Tail(script[p])
      BY <1>1, <1>2 DEF pending, Create, Typed, TypeOK
  <2>2. pending[p] = script[p]
      BY <1>3, ConcatEmptySeq DEF pending
  <2>3. <<Head(script[p])>> \o Tail(script[p]) = script[p]
    <3>1. /\ Head(script[p]) = script[p][1] /\ Len(script[p]) \in Nat \ {0}
          /\ 1 \in 1 .. Len(script[p]) /\ Len(script[p]) \in 1 .. Len(script[p])
        BY <1>3, EmptySeq
    <3>2. SubSeq(script[p], 1, Len(script[p]))
              = <<script[p][1]>> \o SubSeq(script[p], 2, Len(script[p]))
        BY <1>3, <3>1, SubSeqRecursiveFirst
    <3> QED
        BY <1>3, <3>1, <3>2, SubSeqFull, TailIsSubSeq
  <2> QED
      BY <2>1, <2>2, <2>3
<1>6. ASSUME NEW q \in Producers, q # p PROVE pending'[q] = pending[q]
  <2>1. frame'[q] = frame[q] /\ script'[q] = script[q]
      BY <1>2, <1>6 DEF Create, Actor, Typed, TypeOK
  <2> QED
      BY <1>1, <2>1, PendingSame
<1>7. delivered' = delivered
    BY DEF Create, delivered
<1> QED
    BY <1>4, <1>5, <1>6, <1>7, MappedSame DEF Fifo!vars

LEMMA FifoTryPop ==
    ASSUME InAChain, Typed, OneVisitor', InboxKnown, InboxKnown',
           NEW w \in Workers, NEW s \in Stage, TryPop(w, s)
    PROVE  UNCHANGED Fifo!vars
<1> DEFINE m == Head(queue[s])
<1>1. /\ w \in Actor /\ HeapKept /\ heap' = heap
      /\ frame'[w] = [hand |-> m, carry |-> Null, todo |-> Route[s], at |-> s]
      /\ \A b \in Actor : b # w => frame'[b] = frame[b]
      /\ frame[w].at = NumberOfEntries /\ NumberOfEntries \notin Stage
    BY StageFlowAssumption
    DEF TryPop, Actor, HeapKept, Message, Typed, TypeOK, Objects, Idle, NumberOfEntries, Stage
<1>2. Unfinished(w, s)' /\ \A v \in Workers : ~Unfinished(v, s)
  <2>1. s # NumberOfStages - 1 => Route[s] # <<>>
      BY DEF InAChain
  <2>2. Unfinished(w, s)'
      BY <1>1, <2>1 DEF Unfinished
  <2>3. ASSUME NEW v \in Workers, Unfinished(v, s) PROVE FALSE
    <3>1. v # w /\ v \in Actor /\ frame[v].at = s
        BY <1>1, <2>3 DEF Unfinished, Actor
    <3>2. frame'[v].at = s /\ frame'[w].at = s
        BY <1>1, <3>1
    <3> QED
        BY <3>1, <3>2 DEF OneVisitor
  <2> QED
      BY <2>2, <2>3
<1>3. inbox'[s] = inbox[s]
  <2>1. queue[s] \in Seq(Message) /\ queue[s] # <<>> /\ queue'[s] = Tail(queue[s])
      BY DEF TryPop, Typed, TypeOK
  <2>2. \A n \in Message : heap[n].content \in Content
      BY HeapObject DEF Objects
  <2>3. /\ m = queue[s][1] /\ m \in Message /\ Tail(queue[s]) \in Seq(Message)
        /\ Len(Tail(queue[s])) = Len(queue[s]) - 1 /\ Len(queue[s]) \in Nat \ {0}
        /\ \A i \in 1 .. Len(queue[s]) - 1 : Tail(queue[s])[i] = queue[s][i + 1]
      BY <2>1, HeadTailProperties, EmptySeq
  <2> DEFINE rest == Contents(Tail(queue[s]))
  <2> DEFINE c == heap[m].content
  <2>4. inbox'[s] = <<c>> \o rest
    <3>1. inbox'[s] = <<heap'[frame'[w].hand].content>> \o Waiting(s)'
        BY <1>2 DEF InboxKnown
    <3>2. heap'[frame'[w].hand].content = c
        BY <1>1
    <3>3. Waiting(s)' = rest
        BY <1>1, <2>1 DEF Waiting, Contents
    <3> QED
        BY <3>1, <3>2, <3>3
  <2>5. inbox[s] = Waiting(s)
      BY <1>2 DEF InboxKnown
  <2>6. /\ Waiting(s) \in Seq(Content) /\ Len(Waiting(s)) = Len(queue[s])
        /\ \A i \in 1 .. Len(queue[s]) : Waiting(s)[i] = heap[queue[s][i]].content
      BY <2>1, ContentsOf DEF Waiting
  <2>7. /\ rest \in Seq(Content) /\ Len(rest) = Len(queue[s]) - 1
        /\ \A i \in 1 .. Len(queue[s]) - 1 : rest[i] = heap[Tail(queue[s])[i]].content
    <3> DEFINE tail == Tail(queue[s])
    <3>1. tail \in Seq(Message) /\ Len(tail) = Len(queue[s]) - 1
        BY <2>3
    <3> HIDE DEF tail
    <3>2. /\ Contents(tail) \in Seq(Content) /\ Len(Contents(tail)) = Len(tail)
          /\ \A i \in 1 .. Len(tail) : Contents(tail)[i] = heap[tail[i]].content
        BY <3>1, ContentsOf
    <3> QED
        BY <3>1, <3>2 DEF tail
  <2>8. c \in Content
      BY <2>2, <2>3
  <2> HIDE DEF rest, m, c
  <2>9. <<c>> \in Seq(Content) /\ Len(<<c>>) = 1 /\ <<c>>[1] = c
      BY <2>8
  <2>10. /\ <<c>> \o rest \in Seq(Content) /\ Len(<<c>> \o rest) = Len(queue[s])
         /\ \A i \in 1 .. Len(queue[s]) :
               (<<c>> \o rest)[i] = IF i = 1 THEN c ELSE rest[i - 1]
      BY <2>3, <2>7, <2>9, ConcatProperties
  <2>11. \A i \in 1 .. Len(queue[s]) : (<<c>> \o rest)[i] = Waiting(s)[i]
      BY <2>3, <2>6, <2>7, <2>10 DEF c
  <2> QED
      BY <2>4, <2>5, <2>6, <2>10, <2>11, SeqEqual
<1>4. ASSUME NEW r \in Stage, r # s PROVE inbox'[r] = inbox[r]
  <2>1. queue'[r] = queue[r]
      BY <1>4 DEF TryPop, Typed, TypeOK
  <2>2. ~Unfinished(w, r) /\ ~Unfinished(w, r)'
      BY <1>1, <1>4 DEF Unfinished
  <2>3. \A v \in Workers : v # w => frame'[v] = frame[v]
      BY <1>1 DEF Actor
  <2> QED
      BY <1>1, <2>1, <2>2, <2>3, InboxSame DEF Unfinished
<1>5. ASSUME NEW p \in Producers PROVE pending'[p] = pending[p]
  <2>1. frame'[p] = frame[p] /\ script'[p] = script[p]
      BY <1>1, StageFlowAssumption DEF TryPop, Actor
  <2> QED
      BY <1>1, <2>1, PendingSame
<1>6. delivered' = delivered
    BY DEF TryPop, delivered
<1> QED
    BY <1>3, <1>4, <1>5, <1>6, MappedSame DEF Fifo!vars

LEMMA FifoPrepare ==
    ASSUME Typed, HeapKept, InboxKnown, InboxKnown', NEW a \in Actor, Retain(a) \/ Copy(a)
    PROVE  UNCHANGED Fifo!vars
<1>1. /\ \A b \in Actor : /\ frame'[b].hand = frame[b].hand /\ frame'[b].todo = frame[b].todo
                            /\ frame'[b].at = frame[b].at
      /\ UNCHANGED <<queue, script, served>>
  <2>1. frame \in [Actor -> Frames]
      BY DEF Typed, TypeOK, Frames
  <2>2. \E c : frame' = [frame EXCEPT ![a].carry = c]
      BY DEF Retain, Copy
  <2>3. UNCHANGED <<queue, script, served>>
      BY DEF Retain, Copy
  <2> QED
      BY <2>1, <2>2, <2>3 DEF Frames
<1>2. \A s \in Stage : inbox'[s] = inbox[s]
    BY <1>1, InboxSame DEF Unfinished, Actor
<1>3. \A p \in Producers : pending'[p] = pending[p]
    BY <1>1, PendingSame DEF Actor
<1> QED
    BY <1>1, <1>2, <1>3, MappedSame DEF Fifo!vars, delivered

LEMMA OneBefore ==
    ASSUME NEW S, NEW x \in S, NEW q \in Seq(S)
    PROVE  /\ <<x>> \o q # <<>> /\ Head(<<x>> \o q) = x /\ Tail(<<x>> \o q) = q
           /\ \A y \in S : Append(<<x>> \o q, y) = <<x>> \o Append(q, y)
<1> DEFINE all == <<x>> \o q
<1>1. <<x>> \in Seq(S) /\ Len(<<x>>) = 1 /\ <<x>>[1] = x /\ Len(q) \in Nat
    BY LenProperties
<1>2. /\ all \in Seq(S) /\ Len(all) = 1 + Len(q)
      /\ \A i \in 1 .. 1 + Len(q) : all[i] = IF i = 1 THEN x ELSE q[i - 1]
    BY <1>1, ConcatProperties
<1>3. \A y \in S : Append(all, y) = <<x>> \o Append(q, y)
  <2> SUFFICES ASSUME NEW y \in S PROVE Append(all, y) = <<x>> \o Append(q, y)
      OBVIOUS
  <2>1. <<y>> \in Seq(S)
      OBVIOUS
  <2>2. Append(all, y) = all \o <<y>> /\ Append(q, y) = q \o <<y>>
      BY <1>2, AppendIsConcat
  <2> QED
      BY <1>1, <2>1, <2>2, ConcatAssociative
<1> HIDE DEF all
<1>4. all # <<>> /\ all[1] = x /\ Head(all) = all[1]
    BY <1>1, <1>2, EmptySeq
<1>5. /\ Tail(all) \in Seq(S) /\ Len(Tail(all)) = Len(q)
      /\ \A i \in 1 .. Len(q) : Tail(all)[i] = all[i + 1]
    BY <1>1, <1>2, <1>4, HeadTailProperties
<1>6. \A i \in 1 .. Len(q) : Tail(all)[i] = q[i]
    BY <1>1, <1>2, <1>5
<1>7. Tail(all) = q
    BY <1>5, <1>6, SeqEqual
<1> QED
    BY <1>3, <1>4, <1>7 DEF all

(* What a push appends to the inbox of the stage it goes to.               *)
LEMMA PushInbox ==
    ASSUME Typed, InboxKnown, InboxKnown', NEW a \in Actor, Push(a), NEW s \in Stage,
           s = Head(frame[a].todo).to,
           \A w \in Workers : /\ Unfinished(w, s)' <=> Unfinished(w, s)
                              /\ frame'[w].hand = frame[w].hand
    PROVE  inbox'[s] = Append(inbox[s], heap[frame[a].hand].content)
<1> DEFINE c == heap[frame[a].hand].content
<1>1. frame[a].carry \in Message /\ heap[frame[a].carry].content = c /\ c \in Content
    BY Busy, HeapObject DEF Push, Objects
<1>2. /\ queue[s] \in Seq(Message) /\ heap' = heap
      /\ queue'[s] = Append(queue[s], frame[a].carry)
    BY DEF Push, Typed, TypeOK
<1>3. Waiting(s) \in Seq(Content) /\ Waiting(s)' = Append(Waiting(s), c)
  <2> DEFINE n == Len(queue[s])
  <2> DEFINE more == Append(queue[s], frame[a].carry)
  <2>1. /\ more \in Seq(Message) /\ Len(more) = n + 1 /\ n \in Nat
        /\ \A i \in 1 .. n : more[i] = queue[s][i]
        /\ more[n + 1] = frame[a].carry
    <3> DEFINE q == queue[s]
    <3> DEFINE m == frame[a].carry
    <3>1. q \in Seq(Message) /\ m \in Message
        BY <1>1, <1>2
    <3> HIDE DEF q, m
    <3>2. /\ Append(q, m) \in Seq(Message) /\ Len(Append(q, m)) = Len(q) + 1
          /\ \A i \in 1 .. Len(q) : Append(q, m)[i] = q[i]
          /\ Append(q, m)[Len(q) + 1] = m
        BY <3>1, AppendProperties
    <3>3. Len(q) \in Nat
        BY <3>1, LenProperties
    <3> QED
        BY <3>2, <3>3 DEF q, m
  <2>2. Waiting(s)' = Contents(more)
      BY <1>2 DEF Waiting, Contents
  <2> HIDE DEF more, c
  <2>3. /\ Waiting(s) \in Seq(Content) /\ Len(Waiting(s)) = n
        /\ \A i \in 1 .. n : Waiting(s)[i] = heap[queue[s][i]].content
      BY <1>2, ContentsOf DEF Waiting
  <2>4. /\ Contents(more) \in Seq(Content) /\ Len(Contents(more)) = Len(more)
        /\ \A i \in 1 .. Len(more) : Contents(more)[i] = heap[more[i]].content
      BY <2>1, ContentsOf
  <2> HIDE DEF n
  <2>5. /\ Append(Waiting(s), c) \in Seq(Content) /\ Len(Append(Waiting(s), c)) = n + 1
        /\ \A i \in 1 .. n : Append(Waiting(s), c)[i] = Waiting(s)[i]
        /\ Append(Waiting(s), c)[n + 1] = c
      BY <1>1, <2>1, <2>3, AppendProperties
  <2>6. \A i \in 1 .. n + 1 : Contents(more)[i] = Append(Waiting(s), c)[i]
    <3> SUFFICES ASSUME NEW i \in 1 .. n + 1
                 PROVE  Contents(more)[i] = Append(Waiting(s), c)[i]
        OBVIOUS
    <3>1. CASE i = n + 1
        BY <1>1, <2>1, <2>4, <2>5, <3>1
    <3>2. CASE i # n + 1
      <4>1. i \in 1 .. n /\ i \in 1 .. Len(more)
          BY <2>1, <3>2
      <4> QED
          BY <2>1, <2>3, <2>4, <2>5, <4>1
    <3> QED
        BY <3>1, <3>2
  <2>7. Contents(more) = Append(Waiting(s), c)
    <3> DEFINE x == Contents(more)
    <3> DEFINE y == Append(Waiting(s), c)
    <3>1. Len(x) = n + 1
        BY <2>1, <2>4
    <3>2. /\ x \in Seq(Content) /\ y \in Seq(Content) /\ Len(y) = n + 1
          /\ \A i \in 1 .. n + 1 : x[i] = y[i]
        BY <2>4, <2>5, <2>6
    <3> HIDE DEF x, y
    <3>3. x = y
        BY <3>1, <3>2, SeqEqual
    <3> QED
        BY <3>3 DEF x, y
  <2> QED
      BY <2>2, <2>3, <2>7
<1>4. CASE \E w \in Workers : Unfinished(w, s)
  <2>1. PICK w \in Workers : Unfinished(w, s)
      BY <1>4
  <2> DEFINE d == heap[frame[w].hand].content
  <2>2. inbox[s] = <<d>> \o Waiting(s) /\ inbox'[s] = <<d>> \o Waiting(s)'
      BY <1>2, <2>1 DEF InboxKnown
  <2>3. d \in Content
      BY <2>1, UnfinishedHolds, HeapObject DEF Objects
  <2> HIDE DEF c, d
  <2>4. Append(<<d>> \o Waiting(s), c) = <<d>> \o Append(Waiting(s), c)
    <3> DEFINE q == Waiting(s)
    <3>1. q \in Seq(Content)
        BY <1>3
    <3> HIDE DEF q
    <3>2. \A y \in Content : Append(<<d>> \o q, y) = <<d>> \o Append(q, y)
        BY <2>3, <3>1, OneBefore
    <3> QED
        BY <1>1, <3>2 DEF q, c
  <2> QED
      BY <1>3, <2>2, <2>4 DEF c
<1>5. CASE \A w \in Workers : ~Unfinished(w, s)
  <2>1. inbox[s] = Waiting(s) /\ inbox'[s] = Waiting(s)'
      BY <1>5 DEF InboxKnown
  <2> QED
      BY <1>3, <2>1
<1> QED
    BY <1>4, <1>5

(* What the end of a functor, or its push, takes from the inbox.           *)
LEMMA DoneInbox ==
    ASSUME Typed, HeapKept, OneVisitor, InboxKnown, InboxKnown', NEW w \in Workers,
           NEW s \in Stage, Unfinished(w, s), ~Unfinished(w, s)', queue'[s] = queue[s],
           \A v \in Workers : v # w => frame'[v] = frame[v]
    PROVE  /\ inbox[s] # <<>> /\ Head(inbox[s]) = heap[frame[w].hand].content
           /\ inbox'[s] = Tail(inbox[s])
<1> DEFINE c == heap[frame[w].hand].content
<1>1. c \in Content
    BY UnfinishedHolds, HeapObject DEF Objects
<1>2. inbox[s] = <<c>> \o Waiting(s)
    BY DEF InboxKnown
<1>3. Waiting(s) \in Seq(Content) /\ Waiting(s)' = Waiting(s)
    BY ContentsOf, WaitingSame DEF Waiting, Typed, TypeOK
<1>4. \A v \in Workers : ~Unfinished(v, s)'
    BY DEF OneVisitor, Unfinished
<1>5. inbox'[s] = Waiting(s)
    BY <1>3, <1>4 DEF InboxKnown
<1> HIDE DEF c
<1> QED
    BY <1>1, <1>2, <1>3, <1>5, OneBefore DEF c

LEMMA FifoStages ==
    /\ Fifo!Stage = Stage /\ Fifo!LastStage = NumberOfStages - 1
    /\ 0 \in Stage /\ NumberOfStages - 1 \in Stage
    /\ \A s \in Stage : s # NumberOfStages - 1 => s + 1 \in Stage
BY StageFlowAssumption DEF Stage, Fifo!Stage, Fifo!LastStage

LEMMA PushFrames ==
    ASSUME InAChain, Typed, OnRoute, NEW a \in Actor, Push(a)
    PROVE  /\ frame'[a].todo = <<>> /\ frame[a].todo # <<>>
           /\ \A b \in Actor : frame'[b].hand = frame[b].hand /\ frame'[b].at = frame[b].at
           /\ \A b \in Actor : b # a => frame'[b] = frame[b]
           /\ frame[a].hand \in Message
           /\ HeapKept /\ UNCHANGED <<heap, script, served>>
           /\ queue \in [Stage -> Seq(Message)]
           /\ \A s \in Stage : s # Head(frame[a].todo).to => queue'[s] = queue[s]
<1>1. frame[a].todo # <<>> /\ frame[a].hand \in Message
    BY Busy DEF Push
<1>2. frame'[a].todo = Tail(frame[a].todo)
    BY DEF Push, Typed, TypeOK
<1>3. Tail(frame[a].todo) = <<>>
    BY <1>1, OneDispatch
<1>4. /\ \A b \in Actor : frame'[b].hand = frame[b].hand /\ frame'[b].at = frame[b].at
      /\ \A b \in Actor : b # a => frame'[b] = frame[b]
    BY DEF Push, Typed, TypeOK
<1>5. HeapKept
    BY DEF Push, HeapKept, Message, Typed, TypeOK, Objects
<1> QED
    BY <1>1, <1>2, <1>3, <1>4, <1>5 DEF Push, Typed, TypeOK

LEMMA FifoPush ==
    ASSUME InAChain, Typed, OnRoute, OneVisitor, InboxKnown, InboxKnown',
           NEW a \in Actor, Push(a)
    PROVE  Fifo!Next
<1> DEFINE to == Head(frame[a].todo).to
<1> DEFINE c == heap[frame[a].hand].content
<1>1. /\ frame'[a].todo = <<>> /\ frame[a].todo # <<>>
      /\ \A b \in Actor : frame'[b].hand = frame[b].hand /\ frame'[b].at = frame[b].at
      /\ \A b \in Actor : b # a => frame'[b] = frame[b]
      /\ frame[a].hand \in Message
      /\ HeapKept /\ UNCHANGED <<heap, script, served>>
      /\ queue \in [Stage -> Seq(Message)]
      /\ \A s \in Stage : s # to => queue'[s] = queue[s]
    BY PushFrames
<1>2. delivered' = delivered
    BY <1>1 DEF delivered
<1>3. ASSUME a \in Workers PROVE \E s \in Stage : Fifo!Move(s)
  <2>0. PICK s \in Stage : s = frame[a].at
      BY <1>1, <1>3, OneDispatch
  <2>1. s # NumberOfStages - 1 /\ to = s + 1 /\ s + 1 \in Stage
      BY <1>1, <1>3, <2>0, OneDispatch, FifoStages
  <2>2. s # s + 1
      BY <2>1 DEF Stage
  <2>3. /\ Unfinished(a, s) /\ ~Unfinished(a, s)'
        /\ \A r \in Stage : r # s => ~Unfinished(a, r) /\ ~Unfinished(a, r)'
    <3>1. frame'[a].at = s
        BY <1>1, <2>0
    <3> QED
        BY <1>1, <2>0, <2>1, <3>1 DEF Unfinished
  <2>4. \A w \in Workers : /\ w \in Actor /\ frame'[w].hand = frame[w].hand
                           /\ w # a => frame'[w] = frame[w]
      BY <1>1 DEF Actor
  <2>5. \A r \in Stage : r # s => \A w \in Workers : Unfinished(w, r)' <=> Unfinished(w, r)
      BY <2>3, <2>4 DEF Unfinished
  <2>6. /\ inbox[s] # <<>> /\ Head(inbox[s]) = c /\ inbox'[s] = Tail(inbox[s])
    <3>1. queue'[s] = queue[s]
        BY <1>1, <2>1, <2>2
    <3> QED
        BY <1>1, <1>3, <2>3, <2>4, <3>1, DoneInbox
  <2>7. inbox'[s + 1] = Append(inbox[s + 1], c)
    <3>1. PICK r \in Stage : r = s + 1
        BY <2>1
    <3>2. \A w \in Workers : /\ Unfinished(w, r)' <=> Unfinished(w, r)
                             /\ frame'[w].hand = frame[w].hand
        BY <2>2, <2>4, <2>5, <3>1
    <3>3. r = Head(frame[a].todo).to
        BY <2>1, <3>1
    <3>4. inbox'[r] = Append(inbox[r], heap[frame[a].hand].content)
        BY <3>2, <3>3, PushInbox
    <3> QED
        BY <3>1, <3>4
  <2>8. ASSUME NEW r \in Stage, r # s, r # s + 1 PROVE inbox'[r] = inbox[r]
    <3>1. queue'[r] = queue[r]
        BY <1>1, <2>1, <2>8
    <3> QED
        BY <1>1, <2>4, <2>5, <2>8, <3>1, InboxSame
  <2>9. inbox' = [inbox EXCEPT ![s] = Tail(@), ![s + 1] = Append(@, Head(inbox[s]))]
      BY <2>1, <2>2, <2>6, <2>7, <2>8, MappedFunctions
  <2>10. ASSUME NEW p \in Producers PROVE pending'[p] = pending[p]
    <3>1. p # a /\ p \in Actor
        BY <1>3, StageFlowAssumption DEF Actor
    <3> QED
        BY <1>1, <3>1, PendingSame
  <2>11. Fifo!Move(s)
      BY <1>2, <2>1, <2>6, <2>9, <2>10, MappedSame, FifoStages DEF Fifo!Move
  <2> QED
      BY <2>1, <2>11
<1>4. ASSUME a \notin Workers PROVE a \in Producers /\ Fifo!Inject(a)
  <2>1. a \in Producers /\ to = 0 /\ 0 \in Stage
      BY <1>1, <1>4, OneDispatch, FifoStages DEF Actor
  <2>2. \A w \in Workers : w \in Actor /\ w # a /\ frame'[w] = frame[w]
      BY <1>1, <1>4 DEF Actor
  <2>3. \A r \in Stage : \A w \in Workers : Unfinished(w, r)' <=> Unfinished(w, r)
      BY <2>2 DEF Unfinished
  <2>4. inbox'[0] = Append(inbox[0], c)
      BY <2>1, <2>2, <2>3, PushInbox
  <2>5. ASSUME NEW r \in Stage, r # 0 PROVE inbox'[r] = inbox[r]
    <3>1. queue'[r] = queue[r]
        BY <1>1, <2>1, <2>5
    <3> QED
        BY <1>1, <2>2, <2>3, <3>1, InboxSame
  <2>6. /\ pending[a] # <<>> /\ Head(pending[a]) = c /\ Tail(pending[a]) = script[a]
    <3>1. pending[a] = <<c>> \o script[a]
        BY <1>1, <2>1 DEF pending
    <3>2. c \in Content /\ script[a] \in Seq(Content)
        BY <1>1, <2>1, HeapObject DEF Objects, Typed, TypeOK
    <3> HIDE DEF c
    <3> QED
        BY <3>1, <3>2, OneBefore
  <2>7. pending'[a] = script[a]
    <3>1. pending'[a] = <<>> \o script[a]
        BY <1>1, <2>1 DEF pending
    <3>2. script[a] \in Seq(Content)
        BY <2>1 DEF Typed, TypeOK
    <3> QED
        BY <3>1, <3>2, ConcatEmptySeq
  <2>8. ASSUME NEW p \in Producers, p # a PROVE pending'[p] = pending[p]
    <3>1. p \in Actor
        BY DEF Actor
    <3> QED
        BY <1>1, <2>8, <3>1, PendingSame
  <2>9. pending' = [pending EXCEPT ![a] = Tail(@)]
      BY <2>1, <2>6, <2>7, <2>8, MappedFunctions
  <2>10. inbox' = [inbox EXCEPT ![0] = Append(@, Head(pending[a]))]
      BY <2>1, <2>4, <2>5, <2>6, MappedFunctions
  <2> QED
      BY <1>2, <2>1, <2>6, <2>9, <2>10 DEF Fifo!Inject
<1> QED
    BY <1>3, <1>4, FifoStages DEF Fifo!Next

(* A call that ends: what it had in hand leaves the inbox of its stage, if *)
(* it was still there.                                                     *)
LEMMA EndsInbox ==
    ASSUME Typed, HeapKept, OneVisitor, InboxKnown, InboxKnown', NEW a \in Actor,
           frame' = [frame EXCEPT ![a] = Idle], queue' = queue, script' = script,
           a \in Producers => frame[a].todo = <<>>
    PROVE  /\ \A p \in Producers : pending'[p] = pending[p]
           /\ \A s \in Stage :
                 /\ a \in Workers /\ Unfinished(a, s) =>
                       /\ inbox[s] # <<>> /\ Head(inbox[s]) = heap[frame[a].hand].content
                       /\ inbox' = [inbox EXCEPT ![s] = Tail(@)]
                 /\ ~(a \in Workers /\ Unfinished(a, s)) => inbox'[s] = inbox[s]
<1>1. /\ frame'[a] = Idle /\ \A b \in Actor : b # a => frame'[b] = frame[b]
      /\ Idle.at \notin Stage /\ Idle.todo = <<>>
    BY StageFlowAssumption DEF Typed, TypeOK, Idle, NumberOfEntries, Stage
<1>2. ASSUME NEW p \in Producers PROVE pending'[p] = pending[p]
  <2>1. p \in Actor
      BY DEF Actor
  <2> QED
      BY <1>1, <2>1, PendingSame
<1>3. \A w \in Workers : w \in Actor /\ (w # a => frame'[w] = frame[w])
    BY <1>1 DEF Actor
<1>4. ASSUME NEW s \in Stage, ~(a \in Workers /\ Unfinished(a, s))
      PROVE  inbox'[s] = inbox[s]
  <2>1. a \in Workers => ~Unfinished(a, s) /\ ~Unfinished(a, s)'
      BY <1>1, <1>4 DEF Unfinished
  <2>2. \A w \in Workers : /\ Unfinished(w, s)' <=> Unfinished(w, s)
                           /\ Unfinished(w, s) => frame'[w].hand = frame[w].hand
      BY <1>3, <2>1 DEF Unfinished
  <2> QED
      BY <2>2, InboxSame
<1>5. ASSUME NEW s \in Stage, a \in Workers, Unfinished(a, s)
      PROVE  /\ inbox[s] # <<>> /\ Head(inbox[s]) = heap[frame[a].hand].content
             /\ inbox' = [inbox EXCEPT ![s] = Tail(@)]
  <2>1. ~Unfinished(a, s)'
      BY <1>1 DEF Unfinished
  <2>2. /\ inbox[s] # <<>> /\ Head(inbox[s]) = heap[frame[a].hand].content
        /\ inbox'[s] = Tail(inbox[s])
      BY <1>3, <1>5, <2>1, DoneInbox
  <2>3. \A r \in Stage : r # s => inbox'[r] = inbox[r]
      BY <1>4, <1>5 DEF Unfinished
  <2> QED
      BY <2>2, <2>3, MappedFunctions
<1> QED
    BY <1>2, <1>4, <1>5

LEMMA FifoRelease ==
    ASSUME Typed, HeapKept, OneVisitor, InboxKnown, InboxKnown', NEW a \in Actor, Release(a)
    PROVE  Fifo!Next \/ UNCHANGED Fifo!vars
<1> DEFINE last == NumberOfStages - 1
<1>1. /\ frame' = [frame EXCEPT ![a] = Idle] /\ queue' = queue /\ script' = script
      /\ frame[a].todo = <<>>
    BY DEF Release
<1>2. \A p \in Producers : pending'[p] = pending[p]
    BY <1>1, EndsInbox
<1>3. CASE a \in Workers /\ frame[a].at = last
  <2>1. Unfinished(a, last) /\ last \in Stage
      BY <1>3, FifoStages DEF Unfinished
  <2>2. /\ inbox[last] # <<>> /\ Head(inbox[last]) = heap[frame[a].hand].content
        /\ inbox' = [inbox EXCEPT ![last] = Tail(@)]
      BY <1>1, <1>3, <2>1, EndsInbox
  <2>3. delivered' = Append(delivered, Head(inbox[last]))
      BY <1>3, <2>1, <2>2 DEF Release, delivered, Typed, TypeOK
  <2> QED
      BY <1>2, <2>2, <2>3, MappedSame, FifoStages DEF Fifo!Deliver, Fifo!Next
<1>4. CASE ~(a \in Workers /\ frame[a].at = last)
  <2>1. \A s \in Stage : ~(a \in Workers /\ Unfinished(a, s))
      BY <1>1, <1>4 DEF Unfinished
  <2>2. inbox' = inbox
      BY <1>1, <2>1, EndsInbox, MappedSame
  <2>3. delivered' = delivered
    <3>1. served'[last] = served[last]
        BY <1>4, FifoStages DEF Release, Typed, TypeOK
    <3> QED
        BY <3>1 DEF delivered
  <2> QED
      BY <1>2, <2>2, <2>3, MappedSame DEF Fifo!vars
<1> QED
    BY <1>3, <1>4

LEMMA FifoThrow ==
    ASSUME Typed, HeapKept, OneVisitor, InboxKnown, InboxKnown', NEW w \in Workers, Throw(w)
    PROVE  Fifo!Next \/ UNCHANGED Fifo!vars
<1>1. /\ frame' = [frame EXCEPT ![w] = Idle] /\ queue' = queue /\ script' = script
      /\ MayThrow /\ w \in Actor /\ w \notin Producers
    BY StageFlowAssumption DEF Throw, Actor
<1>2. (\A p \in Producers : pending'[p] = pending[p]) /\ delivered' = delivered
    BY <1>1, EndsInbox DEF Throw, delivered
<1>3. CASE \E s \in Stage : Unfinished(w, s)
  <2>1. PICK s \in Stage : Unfinished(w, s)
      BY <1>3
  <2>2. inbox[s] # <<>> /\ inbox' = [inbox EXCEPT ![s] = Tail(@)]
      BY <1>1, <2>1, EndsInbox
  <2>3. Fifo!Lose(s)
      BY <1>1, <1>2, <2>2, MappedSame DEF Fifo!Lose
  <2> QED
      BY <2>1, <2>3, FifoStages DEF Fifo!Next
<1>4. CASE \A s \in Stage : ~Unfinished(w, s)
  <2>1. inbox' = inbox
      BY <1>1, <1>4, EndsInbox, MappedSame
  <2> QED
      BY <1>2, <2>1, MappedSame DEF Fifo!vars
<1> QED
    BY <1>3, <1>4

LEMMA FifoInit == Init => Fifo!Init
<1> SUFFICES ASSUME Init PROVE Fifo!Init
    OBVIOUS
<1>1. Typed
    BY TypedInit
<1>2. \A a \in Actor : frame[a].todo = <<>> /\ frame[a].at \notin Stage
    BY StageFlowAssumption DEF Init, Idle, NumberOfEntries, Stage
<1>3. OneVisitor /\ \A s \in Stage, w \in Workers : ~Unfinished(w, s)
    BY <1>2 DEF OneVisitor, Unfinished, Actor
<1>4. \A s \in Stage : inbox[s] = <<>>
  <2> SUFFICES ASSUME NEW s \in Stage PROVE inbox[s] = <<>>
      OBVIOUS
  <2>1. inbox[s] = Waiting(s)
      BY <1>1, <1>3, InboxIs DEF InboxKnown
  <2>2. queue[s] = <<>>
      BY DEF Init
  <2>3. queue[s] \in Seq(Message)
      BY <2>2
  <2>4. Waiting(s) \in Seq(Content) /\ Len(Waiting(s)) = 0
      BY <1>1, <2>2, <2>3, ContentsOf DEF Waiting
  <2> QED
      BY <2>1, <2>4, EmptySeq
<1>5. \A p \in Producers : pending[p] = Script[p]
  <2> SUFFICES ASSUME NEW p \in Producers PROVE pending[p] = Script[p]
      OBVIOUS
  <2>1. pending[p] = <<>> \o script[p] /\ script[p] = Script[p] /\ Script[p] \in Seq(Content)
      BY <1>2, StageFlowAssumption DEF pending, Init, Actor
  <2> QED
      BY <2>1, ConcatEmptySeq
<1>6. pending = Script /\ inbox = [s \in Stage |-> <<>>]
    BY <1>4, <1>5, MappedFunctions, StageFlowAssumption
<1>7. delivered = <<>>
    BY FifoStages DEF Init, delivered
<1> QED
    BY <1>6, <1>7, FifoStages DEF Fifo!Init

LEMMA FifoNext ==
    ASSUME InAChain, IInv, OnRoute, OneVisitor, OneVisitor', InboxKnown, InboxKnown',
           [Next]_vars
    PROVE  [Fifo!Next]_Fifo!vars
<1>0. Typed
    BY DEF IInv
<1>1. CASE UNCHANGED vars
  <2>1. UNCHANGED <<inbox, pending, delivered>>
      BY <1>1 DEF vars, inbox, pending, delivered, Handled, Unfinished, Contents
  <2> QED
      BY <2>1 DEF Fifo!vars
<1>2. ASSUME NEW p \in Producers, Create(p) PROVE UNCHANGED Fifo!vars
    BY <1>0, <1>2, FifoCreate
<1>3. ASSUME NEW w \in Workers, NEW s \in Stage, TryPop(w, s) PROVE UNCHANGED Fifo!vars
    BY <1>0, <1>3, FifoTryPop
<1>4. ASSUME NEW a \in Actor, Retain(a) \/ Copy(a) PROVE UNCHANGED Fifo!vars
  <2>1. HeapKept
      BY <1>0, <1>4, TypedRetain, TypedCopy
  <2> QED
      BY <1>0, <1>4, <2>1, FifoPrepare
<1>5. ASSUME NEW a \in Actor, Push(a) PROVE Fifo!Next
    BY <1>0, <1>5, FifoPush
<1>6. ASSUME NEW a \in Actor, Release(a) PROVE Fifo!Next \/ UNCHANGED Fifo!vars
  <2>1. HeapKept
    <3>1. heap[frame[a].hand].refs # 0
        BY <1>6, HandIsCounted DEF Release
    <3> QED
        BY <1>0, <1>6, <3>1, TypedRelease
  <2> QED
      BY <1>0, <1>6, <2>1, FifoRelease
<1>7. ASSUME NEW w \in Workers, Throw(w) PROVE Fifo!Next \/ UNCHANGED Fifo!vars
  <2>1. HeapKept
    <3>1. heap[frame[w].hand].refs # 0
        BY <1>7, HandIsCounted DEF Throw, Actor
    <3> QED
        BY <1>0, <1>7, <3>1, TypedThrow
  <2> QED
      BY <1>0, <1>7, <2>1, FifoThrow
<1> QED
    BY <1>1, <1>2, <1>3, <1>4, <1>5, <1>6, <1>7 DEF Next, Produce, Send, Actor

(* Where the stages form a chain and no two workers ever run the functor   *)
(* of one stage, messages reach every stage in the order in which they     *)
(* were dispatched: the data path implements the Pipeline, whatever the    *)
(* number of stages, threads and messages.                                 *)
THEOREM InOrder == ASSUME InAChain PROVE Spec /\ []OneVisitor => ImplementsPipeline
<1>1. Init => OnRoute /\ Fifo!Init
    BY OnRouteInit, FifoInit
<1>2. InAChain /\ IInv /\ OnRoute /\ [Next]_vars => OnRoute'
    BY OnRouteNext DEF IInv
<1>3. IInv /\ OneVisitor => InboxKnown
    BY InboxIs DEF IInv
<1>4. /\ InAChain /\ IInv /\ OnRoute /\ OneVisitor /\ OneVisitor'
      /\ InboxKnown /\ InboxKnown' /\ [Next]_vars
      => [Fifo!Next]_Fifo!vars
    BY FifoNext
<1>5. InAChain
    OBVIOUS
<1> QED
    BY <1>1, <1>2, <1>3, <1>4, <1>5, Invariance, PTL DEF Spec, ImplementsPipeline, Fifo!Spec
=============================================================================
