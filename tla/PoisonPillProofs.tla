--------------------------- MODULE PoisonPillProofs -------------------------
(***************************************************************************)
(* The poison pill, for any tree of stages and any input: every stage gets *)
(* the messages of main in their order, and the stop the pill brings about *)
(* comes after every stage has processed the lines before it.              *)
(***************************************************************************)
EXTENDS PoisonPill, FiniteSetTheorems, SequenceTheorems, TLAPS

(* The theorems about StageFlow, for the application. *)
Data == INSTANCE StageFlowProofs
    WITH Workers <- Threads, Producers <- {Main}, Script <- [p \in {Main} |-> Messages],
         EntryStage <- [p \in {Main} |-> EntryStage], MayThrow <- FALSE

-----------------------------------------------------------------------------
(* The application *)

LEMMA MessagesAre ==
    /\ Len(Lines) \in Nat /\ Len(Messages) = Len(Lines) + 1
    /\ Messages \in Seq(ToSet(Lines) \cup {Pill})
    /\ \A i \in 1 .. Len(Lines) : Messages[i] = Lines[i] /\ Messages[i] # Pill
    /\ Messages[Len(Messages)] = Pill
<1> DEFINE S == ToSet(Lines) \cup {Pill}
<1>1. Lines \in Seq(S) /\ Pill \in S
    BY PoisonPillAssumption
<1> HIDE DEF S
<1>2. /\ Len(Lines) \in Nat /\ Append(Lines, Pill) \in Seq(S)
      /\ Len(Append(Lines, Pill)) = Len(Lines) + 1
      /\ \A i \in 1 .. Len(Lines) : Append(Lines, Pill)[i] = Lines[i]
      /\ Append(Lines, Pill)[Len(Lines) + 1] = Pill
    BY <1>1, AppendProperties, LenProperties
<1>3. \A i \in 1 .. Len(Lines) : Lines[i] # Pill
    BY <1>1, LenProperties, PoisonPillAssumption DEF ToSet
<1> QED
    BY <1>2, <1>3 DEF Messages, S

LEMMA StagesAre ==
    /\ Threads = 0 .. NumberOfStages - 1
    /\ Data!Stage = Threads /\ Application!Base!Flow!Stage = Threads
    /\ Application!Base!Stage = Threads /\ Application!Base!Threads = Threads
    /\ Data!NumberOfEntries = NumberOfStages
    /\ Application!Base!Flow!NumberOfEntries = NumberOfStages
    /\ NumberOfStages \notin Threads
BY PoisonPillAssumption
DEF Threads, Application!Threads, Application!Base!Threads, Application!numberOfThreads,
    Data!Stage, Application!Base!Flow!Stage, Application!Base!Stage,
    Data!NumberOfEntries, Application!Base!Flow!NumberOfEntries

LEMMA DataIs ==
    /\ Data!Idle = Application!Base!Flow!Idle /\ Data!Null = 0
    /\ Application!Base!Flow!Null = 0
    /\ Data!Actor = {Main} \cup Threads /\ Application!Base!Flow!Actor = {Main} \cup Threads
    /\ Data!Message = DOMAIN heap
BY StagesAre
DEF Data!Idle, Application!Base!Flow!Idle, Data!Null, Application!Base!Flow!Null,
    Data!Actor, Application!Base!Flow!Actor, Data!Message,
    Data!NumberOfEntries, Application!Base!Flow!NumberOfEntries

LEMMA WiderSeq ==
    ASSUME NEW S, NEW T, S \subseteq T, NEW q \in Seq(S)
    PROVE  q \in Seq(T)
<1>1. q \in [1 .. Len(q) -> S] /\ Len(q) \in Nat
    BY LenProperties
<1>2. q \in [1 .. Len(q) -> T]
    BY <1>1
<1> QED
    BY <1>1, <1>2, SeqDef

LEMMA DataAssumption == Data!StageFlowAssumption
<1>1. Data!Content = ToSet(Messages)
    BY DEF Data!Content, Data!ToSet, ToSet
<1>2. Messages \in Seq(ToSet(Messages))
  <2>1. /\ Messages \in [1 .. Len(Messages) -> ToSet(Messages)] /\ Len(Messages) \in Nat
      BY MessagesAre DEF ToSet
  <2> QED
      BY <2>1, SeqDef
<1>3. Route \in [Threads -> Seq(Data!Dispatch)]
  <2>1. [to : Threads, clone : {FALSE}] \subseteq Data!Dispatch
      BY StagesAre DEF Data!Dispatch
  <2>2. ASSUME NEW s \in Threads PROVE Route[s] \in Seq(Data!Dispatch)
    <3>1. Route[s] \in Seq([to : Threads, clone : {FALSE}])
        BY PoisonPillAssumption, Zenon
    <3> QED
        BY <2>1, <3>1, WiderSeq, Zenon
  <2> QED
      BY <2>2, PoisonPillAssumption
<1> QED
    BY <1>1, <1>2, <1>3, PoisonPillAssumption, StagesAre DEF Data!StageFlowAssumption

LEMMA DataInit == Application!Base!Flow!Init => Data!Init
BY DataIs, StagesAre DEF Application!Base!Flow!Init, Data!Init

LEMMA SameTryPop ==
    ASSUME NEW t, NEW s, Application!Base!Flow!TryPop(t, s) PROVE Data!TryPop(t, s)
BY DataIs DEF Application!Base!Flow!TryPop, Data!TryPop

LEMMA SameSend == ASSUME NEW a, Application!Base!Flow!Send(a) PROVE Data!Send(a)
<1>1. Application!Base!Flow!Retain(a) => Data!Retain(a)
    BY DataIs
    DEF Application!Base!Flow!Retain, Data!Retain, Application!Base!Flow!Dispatching,
        Data!Dispatching, Application!Base!Flow!AddRef, Data!AddRef
<1>2. Application!Base!Flow!Copy(a) => Data!Copy(a)
    BY DataIs
    DEF Application!Base!Flow!Copy, Data!Copy, Application!Base!Flow!Dispatching,
        Data!Dispatching, Application!Base!Flow!Allocated, Data!Allocated
<1>3. Application!Base!Flow!Push(a) => Data!Push(a)
    BY DataIs DEF Application!Base!Flow!Push, Data!Push
<1> QED
    BY <1>1, <1>2, <1>3 DEF Application!Base!Flow!Send, Data!Send

LEMMA SameRelease == ASSUME NEW a, Application!Base!Flow!Release(a) PROVE Data!Release(a)
BY DataIs, StagesAre
DEF Application!Base!Flow!Release, Data!Release, Application!Base!Flow!DropRef, Data!DropRef

LEMMA NoThrow == ASSUME NEW a PROVE ~Application!Base!Flow!Throw(a)
BY DEF Application!Base!Flow!Throw

LEMMA SameCreate == ASSUME NEW p, Application!Base!Flow!Create(p) PROVE Data!Create(p)
BY DataIs
DEF Application!Base!Flow!Create, Data!Create, Application!Base!Flow!Allocated, Data!Allocated

-----------------------------------------------------------------------------
(* Order: what a stage has got, in all, are the first messages of main.    *)

InHand(a) == heap[frame[a].hand].content

(* How many messages have come to stage s, and the i-th of them: those it  *)
(* has processed, the one in its functor, and those in its queue.          *)
Past(s) == Len(served[s])
Holding(s) == IF frame[s].hand = 0 THEN 0 ELSE 1
Ahead(s) == Len(queue[s])
Got(s) == Past(s) + Holding(s) + Ahead(s)
Item(s, i) ==
    IF i <= Past(s) THEN served[s][i]
    ELSE IF i <= Past(s) + Holding(s) THEN InHand(s)
    ELSE heap[queue[s][i - (Past(s) + Holding(s))]].content

(* How many dispatches a has still to make, and of how many messages the   *)
(* functor of stage r has made its i-th dispatch.                          *)
Left(a) == Len(frame[a].todo)
Sent(r, i) ==
    Past(r) + IF Holding(r) = 1 /\ Left(r) + i <= Len(Route[r]) THEN 1 ELSE 0

Ordered ==
    \A s \in Threads :
        Got(s) <= Len(Messages) /\ \A i \in 1 .. Got(s) : Item(s, i) = Messages[i]

AtHome ==
    \A s \in Threads :
        /\ frame[s].hand # 0 => frame[s].at = s
        /\ Left(s) <= Len(Route[s])
        /\ \A i \in 1 .. Left(s) : frame[s].todo[i] = Route[s][Len(Route[s]) - Left(s) + i]

Linked == \A r \in Threads : \A i \in DOMAIN Route[r] : Got(Route[r][i].to) = Sent(r, i)

(* main has dispatched what it has not still to create or to dispatch.     *)
Unread == Len(script[Main])
Feeding ==
    /\ Got(EntryStage) + Unread + Left(Main) = Len(Messages)
    /\ \A i \in 1 .. Unread : script[Main][i] = Messages[Len(Messages) - Unread + i]
    /\ frame[Main].todo # <<>> =>
          /\ frame[Main].todo = <<[to |-> EntryStage, clone |-> FALSE]>>
          /\ InHand(Main) = Messages[Len(Messages) - Unread]

InTurn == Ordered /\ AtHome /\ Linked /\ Feeding

LEMMA Kinds ==
    ASSUME Data!Typed
    PROVE  /\ queue \in [Threads -> Seq(Data!Message)]
           /\ served \in [Threads -> Seq(Data!Content)]
           /\ frame \in [{Main} \cup Threads -> Data!Frames]
           /\ script \in [{Main} -> Seq(Data!Content)]
           /\ \A a \in {Main} \cup Threads :
                 /\ frame[a].todo \in Seq(Data!Dispatch)
                 /\ frame[a].hand # 0 \/ frame[a].todo # <<>> \/ frame[a].carry # 0 =>
                       frame[a].hand \in Data!Message /\ frame[a].hand # 0
<1>1. /\ queue \in [Threads -> Seq(Data!Message)]
      /\ served \in [Threads -> Seq(Data!Content)]
      /\ frame \in [{Main} \cup Threads -> Data!Frames]
      /\ script \in [{Main} -> Seq(Data!Content)]
    BY StagesAre, DataIs DEF Data!Typed, Data!TypeOK, Data!Frames
<1>2. \A a \in {Main} \cup Threads : frame[a].todo \in Seq(Data!Dispatch)
    BY <1>1 DEF Data!Frames
<1>3. \A a \in {Main} \cup Threads :
         frame[a].hand # 0 \/ frame[a].todo # <<>> \/ frame[a].carry # 0 =>
            frame[a].hand \in Data!Message /\ frame[a].hand # 0
    BY DataAssumption, DataIs, Data!Busy
<1> QED
    BY <1>1, <1>2, <1>3

LEMMA Numbers ==
    ASSUME Data!Typed
    PROVE  /\ \A s \in Threads : /\ Past(s) \in Nat /\ Ahead(s) \in Nat
                                 /\ Holding(s) \in {0, 1} /\ Got(s) \in Nat
                                 /\ Got(s) = Past(s) + Holding(s) + Ahead(s)
           /\ \A a \in {Main} \cup Threads : Left(a) \in Nat
           /\ Unread \in Nat
<1>1. \A s \in Threads : Past(s) \in Nat /\ Ahead(s) \in Nat
    BY Kinds, LenProperties DEF Past, Ahead
<1>2. \A s \in Threads : Holding(s) \in {0, 1}
    BY DEF Holding
<1>3. \A a \in {Main} \cup Threads : Left(a) \in Nat
    BY Kinds, LenProperties DEF Left
<1>4. Unread \in Nat
    BY Kinds, LenProperties DEF Unread
<1> QED
    BY <1>1, <1>2, <1>3, <1>4 DEF Got

(* A step leaves alone what stage s has got.                               *)
Kept(s) == Got(s)' = Got(s) /\ \A i \in 1 .. Got(s) : Item(s, i)' = Item(s, i)

LEMMA KeptAlone ==
    ASSUME Data!Typed, Data!HeapKept, NEW s \in Threads,
           queue'[s] = queue[s], served'[s] = served[s], frame'[s].hand = frame[s].hand
    PROVE  Kept(s)
<1>1. /\ Past(s)' = Past(s) /\ Holding(s)' = Holding(s) /\ Ahead(s)' = Ahead(s)
      /\ Got(s)' = Got(s)
    BY DEF Past, Holding, Ahead, Got
<1>2. ASSUME NEW i \in 1 .. Got(s) PROVE Item(s, i)' = Item(s, i)
  <2>0. /\ Past(s) \in Nat /\ Ahead(s) \in Nat /\ Holding(s) \in {0, 1} /\ i \in Nat
        /\ i <= Past(s) + Holding(s) + Ahead(s)
      BY Numbers
  <2>1. CASE i <= Past(s)
      BY <1>1, <2>1 DEF Item
  <2>2. CASE ~(i <= Past(s)) /\ i <= Past(s) + Holding(s)
    <3>0. Holding(s) # 0
        BY <2>0, <2>2
    <3>1. frame[s].hand # 0
        BY <3>0 DEF Holding
    <3>2. InHand(s)' = InHand(s)
        BY <3>1, Kinds DEF InHand, Data!HeapKept
    <3> QED
        BY <1>1, <2>2, <3>2 DEF Item
  <2>3. CASE ~(i <= Past(s)) /\ ~(i <= Past(s) + Holding(s))
    <3> DEFINE j == i - (Past(s) + Holding(s))
    <3>1. j \in 1 .. Ahead(s)
        BY <2>0, <2>3
    <3>5. Item(s, i) = heap[queue[s][j]].content
        BY <2>3 DEF Item
    <3>6. Item(s, i)' = heap'[queue'[s][j]].content
        BY <1>1, <2>3 DEF Item
    <3> HIDE DEF j
    <3>2. queue[s] \in Seq(Data!Message) /\ j \in 1 .. Len(queue[s])
        BY <3>1, Kinds DEF Ahead
    <3>3. queue[s][j] \in Data!Message
        BY <3>2, LenProperties
    <3>4. heap'[queue'[s][j]].content = heap[queue[s][j]].content
        BY <3>3 DEF Data!HeapKept
    <3> QED
        BY <3>4, <3>5, <3>6
  <2> QED
      BY <2>1, <2>2, <2>3
<1> QED
    BY <1>1, <1>2 DEF Kept

LEMMA KeptTryPop ==
    ASSUME Data!Typed, NEW t \in Threads, Data!TryPop(t, t)
    PROVE  Kept(t) /\ Past(t)' = Past(t) /\ Holding(t) = 0
<1>1. /\ queue[t] \in Seq(Data!Message) /\ queue[t] # <<>> /\ queue'[t] = Tail(queue[t])
      /\ frame'[t].hand = Head(queue[t]) /\ frame[t].hand = 0
      /\ served' = served /\ heap' = heap
    BY Kinds, DataIs DEF Data!TryPop, Data!Idle
<1> DEFINE q == queue[t]
<1>2. /\ Head(q) \in Data!Message /\ Head(q) = q[1]
      /\ Len(q) \in Nat /\ Len(Tail(q)) = Len(q) - 1 /\ 0 < Len(q)
      /\ \A i \in 1 .. Len(q) - 1 : Tail(q)[i] = q[i + 1]
  <2>1. q \in Seq(Data!Message) /\ q # <<>>
      BY <1>1
  <2> HIDE DEF q
  <2> QED
      BY <2>1, LenProperties, EmptySeq, HeadTailProperties
<1>3. Head(q) # 0
    BY <1>2, DataAssumption, Data!NullIsNoMessage, DataIs DEF Data!Typed
<1>4. /\ Holding(t) = 0 /\ Holding(t)' = 1 /\ Past(t)' = Past(t) /\ Past(t) \in Nat
      /\ Ahead(t) \in Nat /\ Ahead(t)' = Ahead(t) - 1
    BY <1>1, <1>2, <1>3, Numbers DEF Holding, Past, Ahead
<1>5. Got(t)' = Got(t) /\ Got(t) = Past(t) + Ahead(t)
  <2>1. Got(t) = Past(t) + 0 + Ahead(t)
      BY <1>4 DEF Got
  <2>2. Got(t)' = Past(t) + 1 + (Ahead(t) - 1)
      BY <1>4 DEF Got
  <2> QED
      BY <1>4, <2>1, <2>2
<1>6. ASSUME NEW i \in 1 .. Got(t) PROVE Item(t, i)' = Item(t, i)
  <2>1. CASE i <= Past(t)
      BY <1>1, <1>4, <2>1 DEF Item
  <2>2. CASE i = Past(t) + 1
    <3>1. ~(i <= Past(t)) /\ ~(i <= Past(t) + 0) /\ i - (Past(t) + 0) = 1
        BY <1>4, <2>2
    <3>2. Item(t, i) = heap[q[1]].content
        BY <1>4, <3>1 DEF Item
    <3>3. Item(t, i)' = heap[Head(q)].content
        BY <1>1, <1>4, <2>2, <3>1 DEF Item, InHand
    <3> QED
        BY <1>2, <3>2, <3>3
  <2>3. CASE ~(i <= Past(t) + 1)
    <3> DEFINE j == i - (Past(t) + 1)
    <3>1. /\ j \in 1 .. Ahead(t) - 1 /\ i - (Past(t) + 0) = j + 1
          /\ ~(i <= Past(t)) /\ ~(i <= Past(t) + 0)
        BY <1>4, <1>5, <2>3
    <3>2. Item(t, i) = heap[q[j + 1]].content
        BY <1>4, <3>1 DEF Item
    <3>3. Item(t, i)' = heap[Tail(q)[j]].content
        BY <1>1, <1>4, <2>3, <3>1 DEF Item
    <3> HIDE DEF j
    <3>4. Tail(q)[j] = q[j + 1]
        BY <1>2, <3>1 DEF Ahead
    <3> QED
        BY <3>2, <3>3, <3>4
  <2> QED
      BY <1>4, <2>1, <2>2, <2>3
<1> QED
    BY <1>4, <1>5, <1>6 DEF Kept

LEMMA AppendIs ==
    ASSUME NEW S, NEW q \in Seq(S), NEW x \in S
    PROVE  /\ Len(q) \in Nat /\ Len(Append(q, x)) = Len(q) + 1
           /\ \A i \in 1 .. Len(q) : Append(q, x)[i] = q[i]
           /\ Append(q, x)[Len(q) + 1] = x
BY AppendProperties, LenProperties

LEMMA KeptRelease ==
    ASSUME Data!Typed, Data!HeapKept, NEW t \in Threads, frame[t].at = t, Data!Release(t)
    PROVE  /\ Kept(t) /\ Past(t)' = Past(t) + 1 /\ Holding(t) = 1 /\ Holding(t)' = 0
           /\ \A s \in Threads : s # t => served'[s] = served[s]
<1> DEFINE c == InHand(t)
<1>1. /\ queue'[t] = queue[t] /\ frame'[t].hand = 0 /\ frame[t].hand # 0
      /\ served'[t] = Append(served[t], c)
      /\ \A s \in Threads : s # t => served'[s] = served[s]
    BY Kinds, DataIs DEF Data!Release, Data!Idle, InHand
<1>2. served[t] \in Seq(Data!Content) /\ c \in Data!Content
    BY <1>1, Kinds, DataIs, DataAssumption, Data!ContentHeld DEF InHand
<1> HIDE DEF c
<1>3. /\ Past(t)' = Past(t) + 1 /\ Past(t) \in Nat
      /\ \A i \in 1 .. Past(t) : served'[t][i] = served[t][i]
      /\ served'[t][Past(t) + 1] = c
    BY <1>1, <1>2, AppendIs DEF Past
<1>4. Holding(t) = 1 /\ Holding(t)' = 0 /\ Ahead(t)' = Ahead(t) /\ Ahead(t) \in Nat
    BY <1>1, Numbers DEF Holding, Ahead
<1>5. Got(t)' = Got(t) /\ Got(t) = Past(t) + 1 + Ahead(t)
  <2>1. Got(t) = Past(t) + 1 + Ahead(t)
      BY <1>4 DEF Got
  <2>2. Got(t)' = (Past(t) + 1) + 0 + Ahead(t)
      BY <1>3, <1>4 DEF Got
  <2> QED
      BY <1>3, <1>4, <2>1, <2>2
<1>6. ASSUME NEW i \in 1 .. Got(t) PROVE Item(t, i)' = Item(t, i)
  <2>1. CASE i <= Past(t)
    <3>1. i <= Past(t) + 1 /\ i \in 1 .. Past(t)
        BY <1>3, <2>1
    <3> QED
        BY <1>3, <2>1, <3>1 DEF Item
  <2>2. CASE i = Past(t) + 1
    <3>1. ~(i <= Past(t)) /\ i <= Past(t) + 1
        BY <1>3, <2>2
    <3>2. Item(t, i) = c
        BY <1>4, <3>1 DEF Item, c
    <3>3. Item(t, i)' = served'[t][Past(t) + 1]
        BY <1>3, <2>2, <3>1 DEF Item
    <3> QED
        BY <1>3, <3>2, <3>3
  <2>3. CASE ~(i <= Past(t) + 1)
    <3> DEFINE j == i - (Past(t) + 1)
    <3>1. /\ j \in 1 .. Ahead(t) /\ ~(i <= Past(t)) /\ i - (Past(t) + 1 + 0) = j
          /\ ~(i <= Past(t) + 1 + 0)
        BY <1>3, <1>4, <1>5, <2>3
    <3>3. Item(t, i) = heap[queue[t][j]].content
        BY <1>4, <2>3, <3>1 DEF Item
    <3>4. Item(t, i)' = heap'[queue[t][j]].content
        BY <1>1, <1>3, <1>4, <2>3, <3>1 DEF Item
    <3> HIDE DEF j
    <3>2. queue[t] \in Seq(Data!Message) /\ j \in 1 .. Len(queue[t])
        BY <3>1, Kinds DEF Ahead
    <3>5. queue[t][j] \in Data!Message
        BY <3>2, LenProperties
    <3> QED
        BY <3>3, <3>4, <3>5 DEF Data!HeapKept
  <2> QED
      BY <1>3, <2>1, <2>2, <2>3
<1> QED
    BY <1>1, <1>3, <1>4, <1>5, <1>6 DEF Kept

(* A dispatch of what a has in hand makes it the next that stage s gets.   *)
LEMMA GrowsByPush ==
    ASSUME Data!Typed, NEW a \in {Main} \cup Threads, Data!Push(a),
           NEW s \in Threads, s = Head(frame[a].todo).to
    PROVE  /\ Got(s)' = Got(s) + 1
           /\ \A i \in 1 .. Got(s) : Item(s, i)' = Item(s, i)
           /\ \A i \in Nat : i = Got(s) + 1 => Item(s, i)' = InHand(a)
<1> DEFINE m == frame[a].carry
<1> DEFINE n == Past(s) + Holding(s)
<1>1. m \in Data!Message /\ heap[m].content = InHand(a)
    BY DataAssumption, DataIs, Data!Busy DEF Data!Push, InHand
<1>2. /\ queue[s] \in Seq(Data!Message) /\ queue'[s] = Append(queue[s], m)
      /\ served' = served /\ heap' = heap /\ frame'[s].hand = frame[s].hand
    BY Kinds DEF Data!Push, Data!Frames
<1> HIDE DEF m
<1>3. /\ Ahead(s)' = Ahead(s) + 1 /\ Ahead(s) \in Nat
      /\ \A i \in 1 .. Ahead(s) : queue'[s][i] = queue[s][i]
      /\ queue'[s][Ahead(s) + 1] = m
  <2> DEFINE q == queue[s]
  <2>1. q \in Seq(Data!Message) /\ m \in Data!Message /\ queue'[s] = Append(q, m)
      BY <1>1, <1>2
  <2>2. Ahead(s) = Len(q) /\ Ahead(s)' = Len(Append(q, m))
      BY <2>1 DEF Ahead
  <2> HIDE DEF q
  <2>3. /\ Len(q) \in Nat /\ Len(Append(q, m)) = Len(q) + 1
        /\ \A i \in 1 .. Len(q) : Append(q, m)[i] = q[i]
        /\ Append(q, m)[Len(q) + 1] = m
      BY <2>1, AppendIs
  <2>4. queue[s] = q
      BY DEF q
  <2> QED
      BY <2>1, <2>2, <2>3, <2>4
<1>4. /\ Past(s)' = Past(s) /\ Holding(s)' = Holding(s) /\ InHand(s)' = InHand(s)
      /\ Past(s) \in Nat /\ Holding(s) \in {0, 1} /\ Got(s) = n + Ahead(s)
    BY <1>2, Numbers DEF Past, Holding, InHand
<1>5. Got(s)' = Got(s) + 1
  <2>1. Got(s)' = n + (Ahead(s) + 1)
      BY <1>3, <1>4 DEF Got
  <2> QED
      BY <1>3, <1>4, <2>1
<1>6. ASSUME NEW i \in 1 .. Got(s) PROVE Item(s, i)' = Item(s, i)
  <2>1. CASE i <= n
      BY <1>2, <1>4, <2>1 DEF Item
  <2>2. CASE ~(i <= n)
    <3>1. i - n \in 1 .. Ahead(s) /\ ~(i <= Past(s))
        BY <1>3, <1>4, <2>2
    <3> QED
        BY <1>2, <1>3, <1>4, <2>2, <3>1 DEF Item
  <2> QED
      BY <2>1, <2>2
<1>7. ASSUME NEW i \in Nat, i = Got(s) + 1 PROVE Item(s, i)' = InHand(a)
  <2>1. ~(i <= n) /\ i - n = Ahead(s) + 1 /\ ~(i <= Past(s))
      BY <1>3, <1>4, <1>7
  <2>2. Item(s, i)' = heap'[queue'[s][i - n]].content
      BY <1>2, <1>4, <2>1 DEF Item
  <2> QED
      BY <1>1, <1>2, <1>3, <2>1, <2>2
<1> QED
    BY <1>5, <1>6, <1>7

LEMMA RoutesAre ==
    ASSUME NEW r \in Threads
    PROVE  /\ Route[r] \in Seq(Data!Dispatch) /\ Len(Route[r]) \in Nat
           /\ DOMAIN Route[r] = 1 .. Len(Route[r])
           /\ \A i \in DOMAIN Route[r] : Route[r][i].to \in Threads
<1>1. Route[r] \in Seq(Data!Dispatch)
    BY DataAssumption, StagesAre DEF Data!StageFlowAssumption
<1>2. \A i \in 1 .. Len(Route[r]) : Route[r][i] \in Data!Dispatch
    BY <1>1, LenProperties
<1> QED
    BY <1>1, <1>2, LenProperties, StagesAre DEF Data!Dispatch

LEMMA OrderedKept ==
    ASSUME Ordered, \A s \in Threads : Kept(s)
    PROVE  Ordered'
<1>1. ASSUME NEW s \in Threads, NEW i, i \in 1 .. Got(s)'
      PROVE  Item(s, i)' = Messages[i]
    BY <1>1 DEF Ordered, Kept
<1>2. ASSUME NEW s \in Threads PROVE Got(s)' <= Len(Messages)
    BY DEF Ordered, Kept
<1> QED
    BY <1>1, <1>2 DEF Ordered

LEMMA LinkedKept ==
    ASSUME Linked, \A s \in Threads : Kept(s),
           \A r \in Threads : \A i \in DOMAIN Route[r] : Sent(r, i)' = Sent(r, i)
    PROVE  Linked'
<1>1. ASSUME NEW r \in Threads, NEW i \in DOMAIN Route[r]
      PROVE  Got(Route[r][i].to)' = Sent(r, i)'
  <2>1. \A s \in Threads : Got(s)' = Got(s)
      BY DEF Kept
  <2>2. PICK s \in Threads : s = Route[r][i].to
      BY RoutesAre
  <2> QED
      BY <2>1, <2>2 DEF Linked
<1> QED
    BY <1>1 DEF Linked

LEMMA FeedingKept ==
    ASSUME Data!Typed, Data!HeapKept, Feeding, Kept(EntryStage), script' = script,
           frame'[Main].todo = frame[Main].todo, frame'[Main].hand = frame[Main].hand
    PROVE  Feeding'
<1>1. Unread' = Unread /\ Left(Main)' = Left(Main) /\ Got(EntryStage)' = Got(EntryStage)
    BY DEF Unread, Left, Kept
<1>2. frame[Main].todo # <<>> => InHand(Main)' = InHand(Main)
    BY Kinds DEF InHand, Data!HeapKept
<1> QED
    BY <1>1, <1>2 DEF Feeding

(* What stays with another than a frame that changes.                      *)
LEMMA SentAlone ==
    ASSUME NEW r \in Threads, NEW i \in DOMAIN Route[r],
           served'[r] = served[r], frame'[r].hand = frame[r].hand,
           frame'[r].todo = frame[r].todo
    PROVE  Sent(r, i)' = Sent(r, i)
BY DEF Sent, Past, Holding, Left

LEMMA InTurnPrepare ==
    ASSUME Data!Typed, Data!HeapKept, InTurn, NEW a \in {Main} \cup Threads,
           Data!Retain(a) \/ Data!Copy(a)
    PROVE  InTurn'
<1>1. /\ queue' = queue /\ served' = served /\ script' = script
      /\ \A b \in {Main} \cup Threads :
            /\ frame'[b].hand = frame[b].hand /\ frame'[b].todo = frame[b].todo
            /\ frame'[b].at = frame[b].at
  <2>1. /\ queue' = queue /\ served' = served /\ script' = script
        /\ \E m : frame' = [frame EXCEPT ![a].carry = m]
      BY DEF Data!Retain, Data!Copy
  <2>2. frame \in [{Main} \cup Threads -> Data!Frames]
      BY Kinds
  <2> QED
      BY <2>1, <2>2 DEF Data!Frames
<1>2. \A s \in Threads : Kept(s)
    BY <1>1, KeptAlone
<1>3. Ordered'
    BY <1>2, OrderedKept DEF InTurn
<1>4. AtHome'
    BY <1>1 DEF InTurn, AtHome, Left
<1>5. Linked'
    BY <1>1, <1>2, SentAlone, LinkedKept DEF InTurn
<1>6. Feeding'
    BY <1>1, <1>2, FeedingKept, PoisonPillAssumption DEF InTurn
<1> QED
    BY <1>3, <1>4, <1>5, <1>6 DEF InTurn

LEMMA InTurnTryPop ==
    ASSUME Data!Typed, InTurn, NEW t \in Threads, Data!TryPop(t, t)
    PROVE  InTurn'
<1>0. Data!HeapKept
    BY DEF Data!TryPop, Data!HeapKept, Data!Typed, Data!TypeOK, Data!Message, Data!Objects
<1>1. /\ served' = served /\ script' = script /\ heap' = heap
      /\ frame'[t].hand # 0 /\ frame'[t].todo = Route[t] /\ frame'[t].at = t
      /\ \A b \in {Main} \cup Threads : b # t => frame'[b] = frame[b]
      /\ \A s \in Threads : s # t => queue'[s] = queue[s]
  <2>1. Head(queue[t]) \in Data!Message
      BY Kinds DEF Data!TryPop
  <2>2. Head(queue[t]) # 0
      BY <2>1, DataAssumption, Data!NullIsNoMessage, DataIs DEF Data!Typed
  <2> QED
      BY <2>2, Kinds DEF Data!TryPop
<1>2. Kept(t) /\ Past(t)' = Past(t) /\ Holding(t) = 0
    BY KeptTryPop
<1>3. \A s \in Threads : Kept(s)
    BY <1>0, <1>1, <1>2, KeptAlone
<1>4. Ordered'
    BY <1>3, OrderedKept DEF InTurn
<1>5. AtHome'
  <2>1. Left(t)' = Len(Route[t])
      BY <1>1 DEF Left
  <2>2. \A i \in 1 .. Len(Route[t]) : Len(Route[t]) - Len(Route[t]) + i = i
      BY RoutesAre
  <2>3. ASSUME NEW s \in Threads
        PROVE  /\ frame'[s].hand # 0 => frame'[s].at = s
               /\ Left(s)' <= Len(Route[s])
               /\ \A i \in 1 .. Left(s)' : frame'[s].todo[i] = Route[s][Len(Route[s]) - Left(s)' + i]
    <3>1. CASE s = t
        BY <1>1, <2>1, <2>2, <3>1, RoutesAre
    <3>2. CASE s # t
      <4>1. Left(s)' = Left(s) /\ frame'[s] = frame[s]
          BY <1>1, <3>2 DEF Left
      <4> QED
          BY <4>1 DEF InTurn, AtHome
    <3> QED
        BY <3>1, <3>2
  <2> QED
      BY <2>3 DEF AtHome
<1>6. Linked'
  <2>1. ASSUME NEW i \in DOMAIN Route[t] PROVE Sent(t, i)' = Sent(t, i)
    <3>1. Left(t)' = Len(Route[t])
        BY <1>1 DEF Left
    <3>2. ~(Len(Route[t]) + i <= Len(Route[t]))
        BY RoutesAre
    <3> QED
        BY <1>2, <3>1, <3>2 DEF Sent
  <2>2. \A r \in Threads : \A i \in DOMAIN Route[r] : Sent(r, i)' = Sent(r, i)
      BY <1>1, <2>1, SentAlone
  <2> QED
      BY <1>3, <2>2, LinkedKept DEF InTurn
<1>7. Feeding'
    BY <1>0, <1>1, <1>3, FeedingKept, PoisonPillAssumption DEF InTurn
<1> QED
    BY <1>4, <1>5, <1>6, <1>7 DEF InTurn

LEMMA InTurnRelease ==
    ASSUME Data!Typed, Data!HeapKept, InTurn, NEW a \in {Main} \cup Threads, Data!Release(a)
    PROVE  InTurn'
<1>1. /\ queue' = queue /\ script' = script
      /\ frame[a].hand # 0 /\ frame[a].todo = <<>>
      /\ frame'[a].hand = 0 /\ frame'[a].todo = <<>>
      /\ \A b \in {Main} \cup Threads : b # a => frame'[b] = frame[b]
    BY Kinds, DataIs DEF Data!Release, Data!Idle
<1>2. a = Main => served' = served
    BY PoisonPillAssumption DEF Data!Release
<1>3. a \in Threads =>
         /\ Kept(a) /\ Past(a)' = Past(a) + 1 /\ Holding(a) = 1 /\ Holding(a)' = 0
         /\ \A s \in Threads : s # a => served'[s] = served[s]
  <2>1. a \in Threads => frame[a].at = a
      BY <1>1 DEF InTurn, AtHome
  <2> QED
      BY <2>1, KeptRelease
<1>4. \A s \in Threads : s # a => served'[s] = served[s] /\ frame'[s] = frame[s]
    BY <1>1, <1>2, <1>3
<1>5. \A s \in Threads : Kept(s)
    BY <1>1, <1>3, <1>4, KeptAlone
<1>6. Ordered'
    BY <1>5, OrderedKept DEF InTurn
<1>7. Left(a) = 0 /\ Left(a)' = 0
    BY <1>1 DEF Left
<1>8. AtHome'
  <2>1. ASSUME NEW s \in Threads
        PROVE  /\ frame'[s].hand # 0 => frame'[s].at = s
               /\ Left(s)' <= Len(Route[s])
               /\ \A i \in 1 .. Left(s)' : frame'[s].todo[i] = Route[s][Len(Route[s]) - Left(s)' + i]
    <3>1. CASE s = a
        BY <1>1, <1>7, <3>1, RoutesAre
    <3>2. CASE s # a
      <4>1. Left(s)' = Left(s) /\ frame'[s] = frame[s]
          BY <1>4, <3>2 DEF Left
      <4> QED
          BY <4>1 DEF InTurn, AtHome
    <3> QED
        BY <3>1, <3>2
  <2> QED
      BY <2>1 DEF AtHome
<1>9. Linked'
  <2>1. ASSUME NEW r \in Threads, NEW i \in DOMAIN Route[r] PROVE Sent(r, i)' = Sent(r, i)
    <3>1. CASE r = a
      <4>1. 0 + i <= Len(Route[r]) /\ Past(r) \in Nat
          BY RoutesAre, Numbers
      <4> QED
          BY <1>3, <1>7, <3>1, <4>1 DEF Sent
    <3>2. CASE r # a
        BY <1>4, <3>2, SentAlone
    <3> QED
        BY <3>1, <3>2
  <2> QED
      BY <1>5, <2>1, LinkedKept DEF InTurn
<1>10. Feeding'
  <2>1. CASE a = Main
    <3>1. Unread' = Unread /\ Left(Main)' = Left(Main) /\ Got(EntryStage)' = Got(EntryStage)
        BY <1>1, <1>5, <1>7, <2>1, PoisonPillAssumption DEF Unread, Kept
    <3> QED
        BY <1>1, <2>1, <3>1 DEF InTurn, Feeding
  <2>2. CASE a # Main
      BY <1>1, <1>5, <2>2, FeedingKept, PoisonPillAssumption DEF InTurn
  <2> QED
      BY <2>1, <2>2
<1> QED
    BY <1>6, <1>8, <1>9, <1>10 DEF InTurn

LEMMA InTurnCreate ==
    ASSUME Data!Typed, InTurn, Data!Create(Main)
    PROVE  InTurn'
<1> DEFINE c == Head(script[Main])
<1> DEFINE m == Len(heap) + 1
<1>1. Data!HeapKept /\ heap'[m].content = c /\ m # 0
    BY DataAssumption, DataIs, Data!CreateKeepsHeap
<1>2. /\ queue' = queue /\ served' = served
      /\ script[Main] # <<>> /\ script'[Main] = Tail(script[Main])
      /\ frame[Main].todo = <<>> /\ frame'[Main].hand = m
      /\ frame'[Main].todo = <<[to |-> EntryStage, clone |-> FALSE]>>
      /\ \A b \in Threads : frame'[b] = frame[b]
  <2>1. frame \in [{Main} \cup Threads -> Data!Frames] /\ script \in [{Main} -> Seq(Data!Content)]
      BY Kinds
  <2>2. /\ queue' = queue /\ served' = served /\ script[Main] # <<>>
        /\ script' = [script EXCEPT ![Main] = Tail(@)] /\ frame[Main] = Data!Idle
        /\ frame' = [frame EXCEPT ![Main] =
                       [Data!Idle EXCEPT !.hand = m,
                                         !.todo = <<[to |-> EntryStage, clone |-> FALSE]>>]]
      BY DEF Data!Create
  <2>3. frame[Main].todo = <<>>
      BY <2>2 DEF Data!Idle
  <2>4. /\ frame'[Main].hand = m
        /\ frame'[Main].todo = <<[to |-> EntryStage, clone |-> FALSE]>>
      BY <2>1, <2>2 DEF Data!Idle
  <2> QED
      BY <2>1, <2>2, <2>3, <2>4, PoisonPillAssumption
<1> HIDE DEF m
<1>3. \A s \in Threads : Kept(s)
    BY <1>1, <1>2, KeptAlone
<1>4. Ordered'
    BY <1>3, OrderedKept DEF InTurn
<1>5. AtHome'
    BY <1>2 DEF InTurn, AtHome, Left
<1>6. Linked'
    BY <1>2, <1>3, SentAlone, LinkedKept DEF InTurn
<1>7. /\ c = script[Main][1] /\ Unread \in Nat \ {0} /\ Unread' = Unread - 1
      /\ \A i \in 1 .. Unread - 1 : script'[Main][i] = script[Main][i + 1]
  <2> DEFINE q == script[Main]
  <2>1. q \in Seq(Data!Content) /\ q # <<>> /\ script'[Main] = Tail(q)
      BY <1>2, Kinds
  <2>2. Unread = Len(q) /\ Unread' = Len(Tail(q))
      BY <2>1 DEF Unread
  <2>3. c = Head(q) /\ script[Main] = q
      OBVIOUS
  <2> HIDE DEF q, c
  <2>4. /\ Head(q) = q[1] /\ Len(q) \in Nat \ {0} /\ Len(Tail(q)) = Len(q) - 1
        /\ \A i \in 1 .. Len(q) - 1 : Tail(q)[i] = q[i + 1]
      BY <2>1, LenProperties, EmptySeq, HeadTailProperties
  <2> QED
      BY <2>1, <2>2, <2>3, <2>4
<1> HIDE DEF c
<1>8. Left(Main)' = 1 /\ Left(Main) = 0 /\ InHand(Main)' = c
    BY <1>1, <1>2 DEF Left, InHand
<1>9. /\ Got(EntryStage) + Unread + 0 = Len(Messages) /\ Got(EntryStage) \in Nat
      /\ \A i \in 1 .. Unread : script[Main][i] = Messages[Len(Messages) - Unread + i]
      /\ Got(EntryStage)' = Got(EntryStage) /\ Len(Messages) \in Nat
    BY <1>3, <1>8, Numbers, MessagesAre, PoisonPillAssumption DEF InTurn, Feeding, Kept
<1>10. Got(EntryStage)' + Unread' + Left(Main)' = Len(Messages)
    BY <1>7, <1>8, <1>9
<1>11. ASSUME NEW i, i \in 1 .. Unread'
       PROVE  script'[Main][i] = Messages[Len(Messages) - Unread' + i]
  <2>1. /\ i \in 1 .. Unread - 1 /\ i + 1 \in 1 .. Unread
        /\ Len(Messages) - Unread + (i + 1) = Len(Messages) - (Unread - 1) + i
      BY <1>7, <1>9, <1>11
  <2> QED
      BY <1>7, <1>9, <2>1
<1>12. InHand(Main)' = Messages[Len(Messages) - Unread']
  <2>1. 1 \in 1 .. Unread /\ Len(Messages) - Unread + 1 = Len(Messages) - (Unread - 1)
      BY <1>7, <1>9
  <2> QED
      BY <1>7, <1>8, <1>9, <2>1
<1>13. Feeding'
    BY <1>2, <1>10, <1>11, <1>12 DEF Feeding
<1> QED
    BY <1>4, <1>5, <1>6, <1>13 DEF InTurn

(* A dispatch by the functor of stage t: the message it handles is the     *)
(* next that the stage it dispatches to is to get.                         *)
LEMMA NextForStage ==
    ASSUME Data!Typed, InTurn, NEW t \in Threads, Data!Push(t)
    PROVE  \E i \in DOMAIN Route[t] :
              /\ Left(t) + i = Len(Route[t]) + 1
              /\ Head(frame[t].todo).to = Route[t][i].to
              /\ Got(Route[t][i].to) = Past(t)
              /\ Past(t) + 1 <= Len(Messages) /\ InHand(t) = Messages[Past(t) + 1]
<1>1. frame[t].hand # 0 /\ frame[t].todo # <<>> /\ frame[t].todo \in Seq(Data!Dispatch)
    BY Kinds, DataIs, DataAssumption, Data!Busy DEF Data!Push
<1>2. /\ Left(t) \in Nat \ {0} /\ Head(frame[t].todo) = frame[t].todo[1]
  <2> DEFINE q == frame[t].todo
  <2>1. q \in Seq(Data!Dispatch) /\ q # <<>> /\ Left(t) = Len(q)
      BY <1>1 DEF Left
  <2> HIDE DEF q
  <2>2. Head(q) = q[1] /\ Len(q) \in Nat \ {0}
      BY <2>1, LenProperties, EmptySeq, HeadTailProperties
  <2> QED
      BY <2>1, <2>2 DEF q
<1>3. /\ Left(t) <= Len(Route[t]) /\ Len(Route[t]) \in Nat
      /\ frame[t].todo[1] = Route[t][Len(Route[t]) - Left(t) + 1]
  <2>1. /\ Left(t) <= Len(Route[t])
        /\ \A i \in 1 .. Left(t) : frame[t].todo[i] = Route[t][Len(Route[t]) - Left(t) + i]
      BY DEF InTurn, AtHome
  <2>2. 1 \in 1 .. Left(t)
      BY <1>2
  <2> QED
      BY <2>1, <2>2, RoutesAre
<1>4. PICK i \in DOMAIN Route[t] : i = Len(Route[t]) - Left(t) + 1
    BY <1>2, <1>3, RoutesAre
<1>5. Left(t) + i = Len(Route[t]) + 1 /\ ~(Left(t) + i <= Len(Route[t]))
    BY <1>2, <1>3, <1>4
<1>6. Holding(t) = 1 /\ Past(t) \in Nat /\ Ahead(t) \in Nat /\ Got(t) = Past(t) + Holding(t) + Ahead(t)
    BY <1>1, Numbers DEF Holding
<1>7. Got(Route[t][i].to) = Past(t)
  <2>1. Sent(t, i) = Past(t)
      BY <1>5, <1>6 DEF Sent
  <2> QED
      BY <2>1 DEF InTurn, Linked
<1>8. PICK k : k = Past(t) + 1
    OBVIOUS
<1>9. k \in 1 .. Got(t) /\ ~(k <= Past(t)) /\ k <= Past(t) + Holding(t)
    BY <1>6, <1>8
<1>10. Got(t) <= Len(Messages) /\ Item(t, k) = Messages[k]
    BY <1>9 DEF InTurn, Ordered
<1>11. k <= Len(Messages) /\ InHand(t) = Messages[k]
  <2>1. k <= Len(Messages)
      BY <1>6, <1>8, <1>10, MessagesAre
  <2>2. Item(t, k) = InHand(t)
      BY <1>9 DEF Item
  <2> QED
      BY <1>10, <2>1, <2>2
<1> QED
    BY <1>2, <1>3, <1>4, <1>5, <1>7, <1>8, <1>11

(* What comes next to stage s keeps its messages in order.                 *)
LEMMA OrderedNext ==
    ASSUME Data!Typed, Ordered, NEW s \in Threads, Got(s)' = Got(s) + 1,
           \A r \in Threads : r # s => Kept(r),
           \A i \in 1 .. Got(s) : Item(s, i)' = Item(s, i),
           Got(s) + 1 <= Len(Messages),
           \A i \in Nat : i = Got(s) + 1 => Item(s, i)' = Messages[i]
    PROVE  Ordered'
<1>1. ASSUME NEW r \in Threads, NEW i, i \in 1 .. Got(r)'
      PROVE  Item(r, i)' = Messages[i]
  <2>1. CASE r # s
      BY <1>1, <2>1 DEF Ordered, Kept
  <2>2. CASE r = s
    <3>0. Got(s) \in Nat
        BY Numbers
    <3>1. CASE i \in 1 .. Got(s)
        BY <2>2, <3>1 DEF Ordered
    <3>2. CASE i \notin 1 .. Got(s)
      <4>1. i \in Nat /\ i = Got(s) + 1
          BY <1>1, <2>2, <3>0, <3>2
      <4> QED
          BY <2>2, <4>1
    <3> QED
        BY <3>1, <3>2
  <2> QED
      BY <2>1, <2>2
<1>2. ASSUME NEW r \in Threads PROVE Got(r)' <= Len(Messages)
  <2>1. CASE r # s
      BY <2>1 DEF Ordered, Kept
  <2>2. CASE r = s
      BY <2>2
  <2> QED
      BY <2>1, <2>2
<1> QED
    BY <1>1, <1>2 DEF Ordered

(* A push leaves everything but the queue it goes to and the dispatcher.   *)
LEMMA PushLeaves ==
    ASSUME Data!Typed, NEW a \in {Main} \cup Threads, Data!Push(a)
    PROVE  /\ Data!HeapKept /\ heap' = heap /\ served' = served /\ script' = script
           /\ frame[a].todo # <<>>
           /\ \A b \in {Main} \cup Threads : b # a => frame'[b] = frame[b]
           /\ frame'[a].todo = Tail(frame[a].todo)
           /\ \A b \in {Main} \cup Threads :
                 frame'[b].hand = frame[b].hand /\ frame'[b].at = frame[b].at
           /\ \A s \in Threads : s # Head(frame[a].todo).to => queue'[s] = queue[s] /\ Kept(s)
<1>1. Data!HeapKept
    BY DataAssumption, DataIs, Data!TypedPush
<1>2. frame[a].todo # <<>>
    BY DataAssumption, DataIs, Data!Busy DEF Data!Push
<1>3. /\ heap' = heap /\ served' = served /\ script' = script
      /\ frame' = [frame EXCEPT ![a].carry = Data!Null, ![a].todo = Tail(@)]
      /\ queue' = [queue EXCEPT ![Head(frame[a].todo).to] = Append(@, frame[a].carry)]
    BY DEF Data!Push
<1>4. frame \in [{Main} \cup Threads -> Data!Frames] /\ queue \in [Threads -> Seq(Data!Message)]
    BY Kinds
<1>5. /\ \A b \in {Main} \cup Threads : b # a => frame'[b] = frame[b]
      /\ frame'[a].todo = Tail(frame[a].todo)
      /\ \A b \in {Main} \cup Threads :
            frame'[b].hand = frame[b].hand /\ frame'[b].at = frame[b].at
    BY <1>3, <1>4 DEF Data!Frames
<1>6. \A s \in Threads : s # Head(frame[a].todo).to => queue'[s] = queue[s]
    BY <1>3, <1>4
<1>7. \A s \in Threads : s # Head(frame[a].todo).to => Kept(s)
    BY <1>1, <1>3, <1>5, <1>6, KeptAlone
<1> QED
    BY <1>1, <1>2, <1>3, <1>5, <1>6, <1>7

LEMMA TailIs ==
    ASSUME NEW S, NEW q \in Seq(S), q # <<>>
    PROVE  /\ Len(q) \in Nat \ {0} /\ Len(Tail(q)) = Len(q) - 1
           /\ \A i \in 1 .. Len(q) - 1 : Tail(q)[i] = q[i + 1]
BY LenProperties, EmptySeq, HeadTailProperties

LEMMA LeftByPush ==
    ASSUME Data!Typed, NEW a \in {Main} \cup Threads, Data!Push(a)
    PROVE  /\ Left(a) \in Nat \ {0} /\ Left(a)' = Left(a) - 1
           /\ \A i \in 1 .. Left(a) - 1 : frame'[a].todo[i] = frame[a].todo[i + 1]
<1> DEFINE q == frame[a].todo
<1>1. /\ q \in Seq(Data!Dispatch) /\ q # <<>> /\ frame'[a].todo = Tail(q)
      /\ Left(a) = Len(q) /\ Left(a)' = Len(Tail(q)) /\ q = frame[a].todo
    BY Kinds, PushLeaves DEF Left
<1> HIDE DEF q
<1>2. /\ Len(q) \in Nat \ {0} /\ Len(Tail(q)) = Len(q) - 1
      /\ \A i \in 1 .. Len(q) - 1 : Tail(q)[i] = q[i + 1]
    BY <1>1, TailIs
<1> QED
    BY <1>1, <1>2

LEMMA AtHomePush ==
    ASSUME Data!Typed, AtHome, NEW a \in {Main} \cup Threads, Data!Push(a)
    PROVE  AtHome'
<1>1. ASSUME NEW s \in Threads
      PROVE  /\ frame'[s].hand # 0 => frame'[s].at = s
             /\ Left(s)' <= Len(Route[s])
             /\ \A i \in 1 .. Left(s)' : frame'[s].todo[i] = Route[s][Len(Route[s]) - Left(s)' + i]
  <2>1. CASE s # a
    <3>1. Left(s)' = Left(s) /\ frame'[s] = frame[s]
        BY <2>1, PushLeaves DEF Left
    <3> QED
        BY <3>1 DEF AtHome
  <2>2. CASE s = a
    <3>1. /\ Left(s) \in Nat \ {0} /\ Left(s)' = Left(s) - 1
          /\ \A i \in 1 .. Left(s) - 1 : frame'[s].todo[i] = frame[s].todo[i + 1]
        BY <2>2, LeftByPush
    <3>2. /\ Left(s) <= Len(Route[s]) /\ Len(Route[s]) \in Nat
          /\ \A i \in 1 .. Left(s) : frame[s].todo[i] = Route[s][Len(Route[s]) - Left(s) + i]
        BY RoutesAre DEF AtHome
    <3>3. frame'[s].hand # 0 => frame'[s].at = s
        BY PushLeaves DEF AtHome
    <3>4. Left(s)' <= Len(Route[s])
        BY <3>1, <3>2
    <3>5. ASSUME NEW i \in 1 .. Left(s)'
          PROVE  frame'[s].todo[i] = Route[s][Len(Route[s]) - Left(s)' + i]
      <4>1. PICK n \in Nat : n = Len(Route[s])
          BY <3>2
      <4>2. PICK l \in Nat \ {0} : l = Left(s)
          BY <3>1
      <4>3. i \in 1 .. l - 1
          BY <3>1, <4>2
      <4>4. i + 1 \in 1 .. l /\ n - l + (i + 1) = n - (l - 1) + i
          BY <4>3
      <4>5. frame'[s].todo[i] = frame[s].todo[i + 1]
          BY <3>1, <4>2, <4>3
      <4>6. frame[s].todo[i + 1] = Route[s][n - l + (i + 1)]
          BY <3>2, <4>1, <4>2, <4>4
      <4> QED
          BY <3>1, <4>1, <4>2, <4>4, <4>5, <4>6
    <3> QED
        BY <3>3, <3>4, <3>5
  <2> QED
      BY <2>1, <2>2
<1> QED
    BY <1>1 DEF AtHome

LEMMA InTurnPushStage ==
    ASSUME Tree, Data!Typed, InTurn, NEW t \in Threads, Data!Push(t)
    PROVE  InTurn'
<1>1. PICK i \in DOMAIN Route[t] :
         /\ Left(t) + i = Len(Route[t]) + 1
         /\ Head(frame[t].todo).to = Route[t][i].to
         /\ Got(Route[t][i].to) = Past(t)
         /\ Past(t) + 1 <= Len(Messages) /\ InHand(t) = Messages[Past(t) + 1]
    BY NextForStage
<1>2. PICK s \in Threads : s = Route[t][i].to
    BY RoutesAre
<1>3. /\ Got(s)' = Got(s) + 1 /\ Got(s) = Past(t)
      /\ \A k \in 1 .. Got(s) : Item(s, k)' = Item(s, k)
      /\ \A k \in Nat : k = Got(s) + 1 => Item(s, k)' = InHand(t)
    BY <1>1, <1>2, GrowsByPush
<1>4. \A r \in Threads : r # s => Kept(r)
    BY <1>1, <1>2, PushLeaves
<1>5. Ordered'
    BY <1>1, <1>3, <1>4, OrderedNext DEF InTurn
<1>6. AtHome'
    BY AtHomePush DEF InTurn
<1>7. Linked'
  <2>1. ASSUME NEW r \in Threads, NEW j \in DOMAIN Route[r]
        PROVE  Got(Route[r][j].to)' = Sent(r, j)'
    <3>1. PICK u \in Threads : u = Route[r][j].to
        BY RoutesAre
    <3>2. Got(u) = Sent(r, j)
        BY <3>1 DEF InTurn, Linked
    <3>3. CASE r # t
      <4>1. u # s
          BY <1>2, <3>1, <3>3 DEF Tree
      <4>2. Sent(r, j)' = Sent(r, j)
          BY <3>3, PushLeaves, SentAlone
      <4> QED
          BY <1>4, <3>1, <3>2, <4>1, <4>2 DEF Kept
    <3>4. CASE r = t /\ j # i
      <4>1. u # s
          BY <1>2, <3>1, <3>4 DEF Tree
      <4>2. Sent(r, j)' = Sent(r, j)
        <5>1. /\ Past(t)' = Past(t) /\ Holding(t)' = Holding(t)
              /\ Left(t) \in Nat /\ Left(t)' = Left(t) - 1
            BY LeftByPush, PushLeaves DEF Past, Holding
        <5>2. Left(t) - 1 + j <= Len(Route[t]) <=> Left(t) + j <= Len(Route[t])
            BY <1>1, <3>4, <5>1, RoutesAre
        <5> QED
            BY <3>4, <5>1, <5>2 DEF Sent
      <4> QED
          BY <1>4, <3>1, <3>2, <4>1, <4>2 DEF Kept
    <3>5. CASE r = t /\ j = i
      <4>1. Sent(t, i)' = Past(t) + 1
        <5>1. /\ Past(t)' = Past(t) /\ Holding(t)' = 1
              /\ Left(t) \in Nat /\ Left(t)' = Left(t) - 1
          <6>1. frame[t].hand # 0
              BY Kinds, DataIs DEF Data!Push
          <6> QED
              BY <6>1, LeftByPush, PushLeaves DEF Past, Holding
        <5>2. Left(t) - 1 + i <= Len(Route[t])
            BY <1>1, <5>1, RoutesAre
        <5> QED
            BY <5>1, <5>2 DEF Sent
      <4> QED
          BY <1>2, <1>3, <3>5, <4>1
    <3> QED
        BY <3>3, <3>4, <3>5
  <2> QED
      BY <2>1 DEF Linked
<1>8. Feeding'
  <2>1. s # EntryStage /\ t # Main
      BY <1>2, PoisonPillAssumption DEF Tree
  <2>2. /\ Kept(EntryStage) /\ Data!HeapKept /\ script' = script
        /\ frame'[Main] = frame[Main]
      BY <1>4, <2>1, PushLeaves, PoisonPillAssumption
  <2> QED
      BY <2>2, FeedingKept DEF InTurn
<1> QED
    BY <1>5, <1>6, <1>7, <1>8 DEF InTurn

LEMMA InTurnPushMain ==
    ASSUME Tree, Data!Typed, InTurn, Data!Push(Main)
    PROVE  InTurn'
<1> DEFINE e == EntryStage
<1>1. /\ frame[Main].todo # <<>> /\ frame[Main].todo = <<[to |-> e, clone |-> FALSE]>>
      /\ InHand(Main) = Messages[Len(Messages) - Unread]
    BY PushLeaves DEF InTurn, Feeding
<1>2. e \in Threads /\ e = Head(frame[Main].todo).to /\ Tail(frame[Main].todo) = <<>>
    BY <1>1, PoisonPillAssumption
<1>3. Left(Main) = 1 /\ Left(Main)' = 0
  <2>1. frame'[Main].todo = <<>>
      BY <1>2, PushLeaves
  <2> QED
      BY <1>1, <2>1 DEF Left
<1> HIDE DEF e
<1>4. /\ Got(e)' = Got(e) + 1
      /\ \A i \in 1 .. Got(e) : Item(e, i)' = Item(e, i)
      /\ \A i \in Nat : i = Got(e) + 1 => Item(e, i)' = InHand(Main)
    BY <1>2, GrowsByPush
<1>5. /\ Got(e) + Unread + 1 = Len(Messages) /\ Got(e) \in Nat /\ Unread \in Nat
      /\ Len(Messages) \in Nat
    BY <1>2, <1>3, Numbers, MessagesAre DEF InTurn, Feeding, e
<1>6. \A r \in Threads : r # e => Kept(r)
    BY <1>2, PushLeaves
<1>7. Ordered'
  <2>1. Got(e) + 1 <= Len(Messages) /\ Len(Messages) - Unread = Got(e) + 1
      BY <1>5
  <2>2. \A i \in Nat : i = Got(e) + 1 => Item(e, i)' = Messages[i]
      BY <1>1, <1>4, <2>1
  <2> QED
      BY <1>2, <1>4, <1>6, <2>1, <2>2, OrderedNext DEF InTurn
<1>8. AtHome'
    BY AtHomePush DEF InTurn
<1>9. Linked'
  <2>1. ASSUME NEW r \in Threads, NEW j \in DOMAIN Route[r]
        PROVE  Got(Route[r][j].to)' = Sent(r, j)'
    <3>1. PICK u \in Threads : u = Route[r][j].to /\ u # e
        BY RoutesAre DEF Tree, e
    <3>2. Got(u) = Sent(r, j)
        BY <3>1 DEF InTurn, Linked
    <3>3. Sent(r, j)' = Sent(r, j)
        BY PushLeaves, SentAlone, PoisonPillAssumption
    <3> QED
        BY <1>6, <3>1, <3>2, <3>3 DEF Kept
  <2> QED
      BY <2>1 DEF Linked
<1>10. Feeding'
  <2>1. frame'[Main].todo = <<>> /\ script' = script /\ Unread' = Unread
      BY <1>2, PushLeaves DEF Unread
  <2>2. Got(e)' + Unread' + Left(Main)' = Len(Messages)
      BY <1>3, <1>4, <1>5, <2>1
  <2> QED
      BY <2>1, <2>2 DEF InTurn, Feeding, e
<1> QED
    BY <1>7, <1>8, <1>9, <1>10 DEF InTurn

LEMMA InTurnInit == Data!Init => InTurn
<1> SUFFICES ASSUME Data!Init PROVE InTurn
    OBVIOUS
<1>1. /\ \A s \in Threads : queue[s] = <<>> /\ served[s] = <<>>
      /\ \A a \in {Main} \cup Threads : frame[a].hand = 0 /\ frame[a].todo = <<>>
      /\ script[Main] = Messages
    BY DataIs, StagesAre DEF Data!Init, Data!Idle
<1>2. /\ \A s \in Threads : Past(s) = 0 /\ Holding(s) = 0 /\ Ahead(s) = 0
      /\ \A a \in {Main} \cup Threads : Left(a) = 0
      /\ Unread = Len(Messages) /\ Len(Messages) \in Nat
    BY <1>1, MessagesAre DEF Past, Holding, Ahead, Left, Unread
<1>3. \A s \in Threads : Got(s) = 0
    BY <1>2 DEF Got
<1>4. Ordered
    BY <1>2, <1>3 DEF Ordered
<1>5. AtHome
  <2>1. \A s \in Threads : 0 <= Len(Route[s])
      BY RoutesAre
  <2> QED
      BY <1>1, <1>2, <2>1 DEF AtHome
<1>6. Linked
  <2>1. \A r \in Threads : \A i \in DOMAIN Route[r] : Sent(r, i) = 0
      BY <1>2 DEF Sent
  <2> QED
      BY <1>3, <2>1, RoutesAre DEF Linked
<1>7. Feeding
  <2>1. Got(EntryStage) + Unread + Left(Main) = Len(Messages)
      BY <1>2, <1>3, PoisonPillAssumption
  <2>2. \A i \in 1 .. Unread : Len(Messages) - Unread + i = i
      BY <1>2
  <2> QED
      BY <1>1, <2>1, <2>2 DEF Feeding
<1> QED
    BY <1>4, <1>5, <1>6, <1>7 DEF InTurn

-----------------------------------------------------------------------------
(* The threads of the application                                          *)

(* Thread t processes no other stage than stage t.                         *)
OwnStage ==
    /\ thread \in [Threads -> [pc : Application!Base!ThreadState,
                               stage : Threads \cup {NumberOfStages}, hadMessage : BOOLEAN]]
    /\ \A t \in Threads : thread[t].pc \in {"poll", "work"} => thread[t].stage = t

(* The steps that move messages.                                           *)
Moves(a) == Data!Send(a) \/ Data!Release(a)
FlowStep ==
    \/ UNCHANGED Data!vars
    \/ Data!Create(Main)
    \/ \E a \in {Main} \cup Threads : Moves(a)
    \/ \E t \in Threads : Data!TryPop(t, t)

Delivering == Data!IInv /\ InTurn

LEMMA KeepsHeap ==
    ASSUME Data!IInv, NEW a \in {Main} \cup Threads, Data!Retain(a) \/ Data!Copy(a) \/ Data!Release(a)
    PROVE  Data!HeapKept
<1>1. a \in Data!Actor /\ Data!Typed /\ Data!StageFlowAssumption
    BY DataIs, DataAssumption DEF Data!IInv
<1>2. CASE Data!Retain(a)
    BY <1>1, <1>2, Data!TypedRetain
<1>3. CASE Data!Copy(a)
    BY <1>1, <1>3, Data!TypedCopy
<1>4. CASE Data!Release(a)
  <2>1. heap[frame[a].hand].refs # 0
      BY <1>1, <1>4, Data!HandIsCounted DEF Data!Release
  <2> QED
      BY <1>1, <1>4, <2>1, Data!TypedRelease
<1> QED
    BY <1>2, <1>3, <1>4

LEMMA DeliveringStep == ASSUME Tree, Delivering, FlowStep PROVE Delivering'
<1>1. Data!Typed /\ Data!IInv /\ InTurn
    BY DEF Delivering, Data!IInv
<1>2. Data!IInv'
  <2>1. Data!Create(Main) \/ Moves(Main) => Data!Produce(Main)
      BY DEF Data!Produce, Moves
  <2>2. Data!Produce(Main) => Data!Next
      BY DEF Data!Next
  <2>3. ASSUME NEW t \in Threads, Moves(t) \/ Data!TryPop(t, t) PROVE Data!Next
    <3>1. Data!TryPop(t, t) => \E s \in Data!Stage : Data!TryPop(t, s)
        BY StagesAre
    <3> QED
        BY <2>3, <3>1 DEF Data!Next, Moves
  <2>4. [Data!Next]_(Data!vars)
      BY <2>1, <2>2, <2>3 DEF FlowStep
  <2> QED
      BY <1>1, <2>4, DataAssumption, Data!InvariantNext
<1>3. InTurn'
  <2>1. CASE UNCHANGED Data!vars
    <3>1. /\ queue' = queue /\ heap' = heap /\ frame' = frame
          /\ script' = script /\ served' = served
        BY <2>1 DEF Data!vars
    <3>2. Data!HeapKept
        BY <1>1, <3>1
        DEF Data!HeapKept, Data!Typed, Data!TypeOK, Data!Message, Data!Objects
    <3>3. \A s \in Threads : Kept(s)
        BY <1>1, <3>1, <3>2, KeptAlone
    <3>4. Ordered'
        BY <1>1, <3>3, OrderedKept DEF InTurn
    <3>5. AtHome'
        BY <1>1, <3>1 DEF InTurn, AtHome, Left
    <3>6. Linked'
        BY <1>1, <3>1, <3>3, SentAlone, LinkedKept DEF InTurn
    <3>7. Feeding'
        BY <1>1, <3>1, <3>2, <3>3, FeedingKept, PoisonPillAssumption DEF InTurn
    <3> QED
        BY <3>4, <3>5, <3>6, <3>7 DEF InTurn
  <2>2. CASE Data!Create(Main)
      BY <1>1, <2>2, InTurnCreate
  <2>3. ASSUME NEW a \in {Main} \cup Threads, Moves(a) PROVE InTurn'
    <3>1. CASE Data!Retain(a) \/ Data!Copy(a)
        BY <1>1, <3>1, KeepsHeap, InTurnPrepare
    <3>2. CASE Data!Push(a)
        BY <1>1, <3>2, InTurnPushStage, InTurnPushMain
    <3>3. CASE Data!Release(a)
        BY <1>1, <3>3, KeepsHeap, InTurnRelease
    <3> QED
        BY <2>3, <3>1, <3>2, <3>3 DEF Moves, Data!Send
  <2>4. ASSUME NEW t \in Threads, Data!TryPop(t, t) PROVE InTurn'
      BY <1>1, <2>4, InTurnTryPop
  <2> QED
      BY <2>1, <2>2, <2>3, <2>4 DEF FlowStep
<1> QED
    BY <1>2, <1>3 DEF Delivering

ThreadStates ==
    [pc : Application!Base!ThreadState, stage : Threads \cup {NumberOfStages},
     hadMessage : BOOLEAN]

LEMMA OwnStageBy ==
    ASSUME OwnStage, NEW t \in Threads, NEW b \in ThreadStates,
           thread' = [thread EXCEPT ![t] = b], b.pc \in {"poll", "work"} => b.stage = t
    PROVE  OwnStage'
<1>1. thread \in [Threads -> ThreadStates]
    BY DEF OwnStage, ThreadStates
<1>2. thread' \in [Threads -> ThreadStates]
    BY <1>1
<1>3. ASSUME NEW u \in Threads
      PROVE  thread'[u].pc \in {"poll", "work"} => thread'[u].stage = u
    BY <1>1 DEF OwnStage
<1> QED
    BY <1>2, <1>3 DEF OwnStage, ThreadStates

LEMMA OwnStageGoto ==
    ASSUME OwnStage, NEW t, NEW from, NEW to \in Application!Base!ThreadState,
           Application!Base!Goto(t, from, to),
           to \in {"poll", "work"} => from \in {"poll", "work"}
    PROVE  OwnStage'
<1>1. thread \in [Threads -> ThreadStates] /\ thread[t].pc = from
      /\ thread' = [thread EXCEPT ![t].pc = to]
    BY DEF OwnStage, ThreadStates, Application!Base!Goto
<1>2. CASE t \in Threads
  <2> DEFINE b == [thread[t] EXCEPT !.pc = to]
  <2>1. /\ b \in ThreadStates /\ b.pc = to /\ b.stage = thread[t].stage
        /\ thread' = [thread EXCEPT ![t] = b]
      BY <1>1, <1>2 DEF ThreadStates
  <2>2. b.pc \in {"poll", "work"} => b.stage = t
      BY <1>1, <1>2, <2>1 DEF OwnStage
  <2> HIDE DEF b
  <2> QED
      BY <1>2, <2>1, <2>2, OwnStageBy
<1>3. CASE t \notin Threads
  <2>1. thread' = thread
      BY <1>1, <1>3
  <2> QED
      BY <2>1 DEF OwnStage
<1> QED
    BY <1>2, <1>3

LEMMA OwnStagePolled ==
    ASSUME OwnStage, NEW t \in Threads, NEW from \in {"poll", "work"}, NEW had \in BOOLEAN,
           Application!Base!Polled(t, from, had)
    PROVE  OwnStage'
<1> DEFINE b == [thread[t] EXCEPT !.hadMessage = had,
                                  !.pc = IF had THEN "poll" ELSE "ended"]
<1>1. thread \in [Threads -> ThreadStates] /\ thread[t].pc = from /\ thread[t].stage = t
    BY DEF OwnStage, ThreadStates, Application!Base!Polled
<1>2. b \in ThreadStates /\ b.stage = t /\ thread' = [thread EXCEPT ![t] = b]
    BY <1>1 DEF Application!Base!Polled, Application!Base!ThreadState, ThreadStates
<1> HIDE DEF b
<1> QED
    BY <1>2, OwnStageBy

LEMMA OwnStageVisit ==
    ASSUME OwnStage, NEW t \in Threads, Application!nextStage(t)
    PROVE  OwnStage'
<1> DEFINE b == [pc |-> "poll", stage |-> t, hadMessage |-> TRUE]
<1>1. b \in ThreadStates /\ b.stage = t /\ thread' = [thread EXCEPT ![t] = b]
    BY DEF Application!nextStage, Application!Base!Visit, Application!Base!ThreadState,
        ThreadStates
<1> HIDE DEF b
<1> QED
    BY <1>1, OwnStageBy

(* Which message step a thread makes in a step of its own, and what the    *)
(* pill has to do with it.                                                 *)
LEMMA ProcessIs ==
    ASSUME OwnStage, NEW t \in Threads, Application!ThreadStep(t)
    PROVE  /\ OwnStage' /\ done' = done
           /\ \/ UNCHANGED Data!vars
              \/ Application!Base!PollMessage(t) /\ Data!TryPop(t, t)
              \/ Moves(t)
<1> DEFINE S == Application!Base!ThreadState
<1>0. {"check", "next", "poll", "work", "ended", "exited"} \subseteq S
    BY DEF Application!Base!ThreadState
<1> HIDE DEF S
<1>1. CASE Application!Base!CheckDone(t)
  <2>1. PICK to \in {"exited", "next"} : Application!Base!Goto(t, "check", to)
      BY <1>1 DEF Application!Base!CheckDone
  <2>2. OwnStage'
      BY <1>0, <2>1, OwnStageGoto DEF S
  <2> QED
      BY <1>1, <2>2 DEF Application!Base!CheckDone, Application!Base!flowVars, Data!vars
<1>2. CASE Application!Base!PollMessage(t)
  <2>1. /\ Application!Base!Goto(t, "poll", "work") /\ done' = done
        /\ Application!Base!Flow!TryPop(t, thread[t].stage) /\ thread[t].pc = "poll"
      BY <1>2 DEF Application!Base!PollMessage, Application!Base!Goto
  <2>2. OwnStage'
      BY <1>0, <2>1, OwnStageGoto DEF S
  <2>3. Data!TryPop(t, t)
      BY <2>1, SameTryPop DEF OwnStage
  <2> QED
      BY <1>2, <2>1, <2>2, <2>3
<1>3. CASE Application!Base!PollEmpty(t)
  <2>1. OwnStage'
      BY <1>3, OwnStagePolled DEF Application!Base!PollEmpty
  <2> QED
      BY <1>3, <2>1 DEF Application!Base!PollEmpty, Application!Base!flowVars, Data!vars
<1>4. CASE Application!Base!Work(t)
  <2>1. thread' = thread /\ done' = done /\ Data!Send(t)
      BY <1>4, SameSend DEF Application!Base!Work, Application!Base!schedulerVars
  <2>2. OwnStage'
      BY <2>1 DEF OwnStage
  <2> QED
      BY <2>1, <2>2 DEF Moves
<1>5. CASE Application!Base!Processed(t)
  <2>1. OwnStage'
      BY <1>5, OwnStagePolled DEF Application!Base!Processed
  <2>2. Data!Release(t) /\ done' = done
      BY <1>5, SameRelease DEF Application!Base!Processed
  <2> QED
      BY <2>1, <2>2 DEF Moves
<1>6. CASE Application!Base!Fail(t)
    BY <1>6, NoThrow DEF Application!Base!Fail
<1>7. CASE Application!Base!BatchEnd(t)
  <2>1. OwnStage'
      BY <1>0, <1>7, OwnStageGoto DEF Application!Base!BatchEnd, S
  <2> QED
      BY <1>7, <2>1 DEF Application!Base!BatchEnd, Application!Base!flowVars, Data!vars
<1>8. CASE Application!nextStage(t)
  <2>1. OwnStage'
      BY <1>8, OwnStageVisit
  <2> QED
      BY <1>8, <2>1
      DEF Application!nextStage, Application!Base!Visit, Application!Base!flowVars, Data!vars
<1> QED
    BY <1>1, <1>2, <1>3, <1>4, <1>5, <1>6, <1>7, <1>8
    DEF Application!ThreadStep, Application!Base!Process

LEMMA OwnerIs ==
    ASSUME OwnStage, Launch \/ Feed \/ Join
    PROVE  /\ OwnStage' /\ done' = done /\ UNCHANGED pillVars
           /\ UNCHANGED Data!vars \/ Data!Create(Main) \/ Moves(Main)
<1>1. CASE Launch
  <2>1. OwnStage'
    <3>1. Application!Base!Goto(launched, "unborn", "check")
        BY <1>1 DEF Launch, Application!Base!Launch
    <3>2. "check" \in Application!Base!ThreadState
        BY DEF Application!Base!ThreadState
    <3> QED
        BY <3>1, <3>2, OwnStageGoto
  <2> QED
      BY <1>1, <2>1 DEF Launch, Application!Base!Launch, Application!Base!flowVars, Data!vars
<1>2. CASE Feed
  <2>1. /\ Application!Base!Flow!Produce(Main) /\ UNCHANGED pillVars
        /\ thread' = thread /\ done' = done
      BY <1>2 DEF Feed, Application!Base!Produce, Application!Base!schedulerVars
  <2>2. OwnStage'
      BY <2>1 DEF OwnStage
  <2>3. Data!Create(Main) \/ Moves(Main)
      BY <2>1, SameCreate, SameSend, SameRelease DEF Application!Base!Flow!Produce, Moves
  <2> QED
      BY <2>1, <2>2, <2>3
<1>3. CASE Join
  <2>1. thread' = thread
      BY <1>3 DEF Join, Application!Base!Join
  <2>2. OwnStage'
      BY <2>1 DEF OwnStage
  <2> QED
      BY <1>3, <2>2 DEF Join, Application!Base!Join, Application!Base!flowVars, Data!vars
<1> QED
    BY <1>1, <1>2, <1>3

-----------------------------------------------------------------------------
(* The pill                                                                *)

(* The functor of stage s has counted the pill: s has processed it, or has *)
(* it in its functor and past ++count_.                                    *)
HasCounted(s) ==
    \/ Past(s) = Len(Messages)
    \/ Past(s) = Len(Lines) /\ Holding(s) = 1 /\ pillCall[s] # "count"

(* The count is the number of stages that have counted, only the pill is   *)
(* counted, and stop() is called when it has reached all of them.          *)
PillCounted ==
    /\ pillCall \in [Threads -> {"none", "count", "stop"}]
    /\ \A s \in Threads : pillCall[s] # "none" => Past(s) = Len(Lines) /\ Holding(s) = 1
    /\ count = Cardinality({s \in Threads : HasCounted(s)})
    /\ done \/ (\E s \in Threads : pillCall[s] = "stop") => count = NumberOfStages

Stands(s) == Past(s)' = Past(s) /\ Holding(s)' = Holding(s)

LEMMA PastBound ==
    ASSUME Delivering, NEW s \in Threads
    PROVE  /\ Past(s) \in Nat /\ Holding(s) \in {0, 1}
           /\ Past(s) + Holding(s) <= Len(Lines) + 1
           /\ Len(Messages) = Len(Lines) + 1 /\ Len(Lines) \in Nat
<1>1. Data!Typed /\ Ordered
    BY DEF Delivering, Data!IInv, InTurn
<1>2. /\ Past(s) \in Nat /\ Holding(s) \in {0, 1} /\ Ahead(s) \in Nat
      /\ Got(s) = Past(s) + Holding(s) + Ahead(s)
    BY <1>1, Numbers
<1>3. Got(s) <= Len(Messages) /\ Len(Messages) = Len(Lines) + 1 /\ Len(Lines) \in Nat
    BY <1>1, MessagesAre DEF Ordered
<1> QED
    BY <1>2, <1>3

LEMMA ProgressPop ==
    ASSUME Delivering, NEW t \in Threads, Data!TryPop(t, t)
    PROVE  /\ Past(t)' = Past(t) /\ Holding(t) = 0 /\ Holding(t)' = 1
           /\ \A s \in Threads : s # t => Stands(s)
           /\ heap[frame'[t].hand].content = Pill <=> Past(t) = Len(Lines)
<1>1. Data!Typed /\ Ordered
    BY DEF Delivering, Data!IInv, InTurn
<1>2. Past(t)' = Past(t) /\ Holding(t) = 0 /\ Kept(t)
    BY <1>1, KeptTryPop
<1>3. /\ served' = served /\ heap' = heap /\ frame'[t].hand # 0
      /\ \A s \in Threads : s # t => frame'[s] = frame[s]
  <2>1. Head(queue[t]) \in Data!Message
      BY <1>1, Kinds DEF Data!TryPop
  <2>2. Head(queue[t]) # 0
      BY <1>1, <2>1, DataAssumption, Data!NullIsNoMessage, DataIs DEF Data!Typed
  <2> QED
      BY <1>1, <2>2, Kinds DEF Data!TryPop
<1>4. Holding(t)' = 1
    BY <1>3 DEF Holding
<1>5. \A s \in Threads : s # t => Stands(s)
    BY <1>3 DEF Stands, Past, Holding
<1>6. PICK k : k = Past(t) + 1
    OBVIOUS
<1>7. /\ Past(t) \in Nat /\ Ahead(t) \in Nat \ {0}
      /\ Got(t) = Past(t) + 0 + Ahead(t)
  <2>1. Ahead(t) # 0
    <3> DEFINE q == queue[t]
    <3>1. q \in Seq(Data!Message) /\ q # <<>> /\ Ahead(t) = Len(q)
        BY <1>1, Kinds DEF Data!TryPop, Ahead
    <3> HIDE DEF q
    <3> QED
        BY <3>1, EmptySeq, LenProperties
  <2> QED
      BY <1>1, <1>2, <2>1, Numbers
<1>8. k \in 1 .. Got(t) /\ k \in 1 .. Len(Messages)
  <2>1. Got(t) <= Len(Messages) /\ Len(Messages) \in Nat
      BY <1>1, MessagesAre DEF Ordered
  <2> QED
      BY <1>6, <1>7, <2>1
<1>9. Item(t, k)' = Messages[k]
    BY <1>1, <1>2, <1>8 DEF Kept, Ordered
<1>10. heap[frame'[t].hand].content = Messages[k]
  <2>1. ~(k <= Past(t)) /\ k <= Past(t) + 1
      BY <1>6, <1>7
  <2>2. Item(t, k)' = InHand(t)'
      BY <1>2, <1>4, <2>1 DEF Item
  <2> QED
      BY <1>3, <1>9, <2>2 DEF InHand
<1>11. Messages[k] = Pill <=> k = Len(Messages)
  <2>1. CASE k = Len(Messages)
      BY <2>1, MessagesAre
  <2>2. CASE k # Len(Messages)
    <3>1. k \in 1 .. Len(Lines)
        BY <1>8, <2>2, MessagesAre
    <3> QED
        BY <2>2, <3>1, MessagesAre
  <2> QED
      BY <2>1, <2>2
<1>12. k = Len(Messages) <=> Past(t) = Len(Lines)
    BY <1>6, <1>7, MessagesAre
<1> QED
    BY <1>2, <1>4, <1>5, <1>10, <1>11, <1>12

LEMMA ProgressSend ==
    ASSUME Delivering, NEW a \in {Main} \cup Threads, Data!Send(a)
    PROVE  \A s \in Threads : Stands(s)
<1>1. frame \in [{Main} \cup Threads -> Data!Frames]
    BY Kinds DEF Delivering, Data!IInv
<1>2. CASE Data!Retain(a) \/ Data!Copy(a)
  <2>1. served' = served /\ \E m : frame' = [frame EXCEPT ![a].carry = m]
      BY <1>2 DEF Data!Retain, Data!Copy
  <2>2. \A s \in Threads : frame'[s].hand = frame[s].hand
      BY <1>1, <2>1 DEF Data!Frames
  <2> QED
      BY <2>1, <2>2 DEF Stands, Past, Holding
<1>3. CASE Data!Push(a)
    BY <1>3, PushLeaves DEF Delivering, Data!IInv, Stands, Past, Holding
<1> QED
    BY <1>2, <1>3 DEF Data!Send

LEMMA ProgressRelease ==
    ASSUME Delivering, NEW t \in Threads, Data!Release(t)
    PROVE  /\ Past(t)' = Past(t) + 1 /\ Holding(t) = 1 /\ Holding(t)' = 0
           /\ \A s \in Threads : s # t => Stands(s)
<1>1. Data!Typed /\ AtHome /\ Data!HeapKept
    BY KeepsHeap DEF Delivering, Data!IInv, InTurn
<1>2. frame[t].at = t
    BY <1>1, DataIs DEF Data!Release, AtHome
<1>3. /\ Past(t)' = Past(t) + 1 /\ Holding(t) = 1 /\ Holding(t)' = 0
      /\ \A s \in Threads : s # t => served'[s] = served[s]
    BY <1>1, <1>2, KeptRelease
<1>4. \A s \in Threads : s # t => frame'[s] = frame[s]
    BY <1>1, Kinds DEF Data!Release
<1> QED
    BY <1>3, <1>4 DEF Stands, Past, Holding

LEMMA ProgressMain ==
    ASSUME Delivering, Data!Create(Main) \/ Moves(Main)
    PROVE  \A s \in Threads : Stands(s)
<1>1. frame \in [{Main} \cup Threads -> Data!Frames]
    BY Kinds DEF Delivering, Data!IInv
<1>2. CASE Data!Create(Main) \/ Data!Release(Main)
  <2>1. served' = served
      BY <1>2, PoisonPillAssumption DEF Data!Create, Data!Release
  <2>2. \A s \in Threads : frame'[s] = frame[s]
      BY <1>1, <1>2, PoisonPillAssumption DEF Data!Create, Data!Release
  <2> QED
      BY <2>1, <2>2 DEF Stands, Past, Holding
<1>3. CASE Data!Send(Main)
    BY <1>3, ProgressSend
<1> QED
    BY <1>2, <1>3 DEF Moves

LEMMA PillSame ==
    ASSUME PillCounted, count' = count, pillCall' \in [Threads -> {"none", "count", "stop"}],
           \A s \in Threads :
              /\ HasCounted(s)' <=> HasCounted(s)
              /\ pillCall'[s] # "none" => Past(s)' = Len(Lines) /\ Holding(s)' = 1
              /\ pillCall'[s] = "stop" => pillCall[s] = "stop",
           done' => done \/ \E s \in Threads : pillCall[s] = "stop"
    PROVE  PillCounted'
<1>1. {s \in Threads : HasCounted(s)}' = {s \in Threads : HasCounted(s)}
    OBVIOUS
<1>2. count' = Cardinality({s \in Threads : HasCounted(s)}')
    BY <1>1 DEF PillCounted
<1> QED
    BY <1>2 DEF PillCounted

LEMMA PillStands ==
    ASSUME PillCounted, UNCHANGED pillVars, done' = done, \A s \in Threads : Stands(s)
    PROVE  PillCounted'
<1>1. count' = count /\ pillCall' = pillCall
    BY DEF pillVars
<1>2. ASSUME NEW s \in Threads
      PROVE  /\ HasCounted(s)' <=> HasCounted(s)
             /\ pillCall'[s] # "none" => Past(s)' = Len(Lines) /\ Holding(s)' = 1
    BY <1>1 DEF HasCounted, Stands, PillCounted
<1> QED
    BY <1>1, <1>2, PillSame DEF PillCounted

LEMMA PillPoll ==
    ASSUME Delivering, PillCounted, NEW t \in Threads, Data!TryPop(t, t), done' = done,
           count' = count,
           pillCall' = [pillCall EXCEPT ![t] =
                          IF heap[frame'[t].hand].content = Pill THEN "count" ELSE "none"]
    PROVE  PillCounted'
<1>1. /\ Past(t)' = Past(t) /\ Holding(t) = 0 /\ Holding(t)' = 1
      /\ \A s \in Threads : s # t => Stands(s)
      /\ heap[frame'[t].hand].content = Pill <=> Past(t) = Len(Lines)
    BY ProgressPop
<1>2. /\ pillCall' \in [Threads -> {"none", "count", "stop"}]
      /\ pillCall'[t] = IF Past(t) = Len(Lines) THEN "count" ELSE "none"
      /\ \A s \in Threads : s # t => pillCall'[s] = pillCall[s]
    BY <1>1 DEF PillCounted
<1>3. ASSUME NEW s \in Threads
      PROVE  /\ HasCounted(s)' <=> HasCounted(s)
             /\ pillCall'[s] # "none" => Past(s)' = Len(Lines) /\ Holding(s)' = 1
             /\ pillCall'[s] = "stop" => pillCall[s] = "stop"
  <2>1. CASE s = t
      BY <1>1, <1>2, <2>1 DEF HasCounted
  <2>2. CASE s # t
      BY <1>1, <1>2, <2>2 DEF HasCounted, Stands, PillCounted
  <2> QED
      BY <2>1, <2>2
<1> QED
    BY <1>2, <1>3, PillSame

LEMMA StagesCounted ==
    /\ IsFiniteSet(Threads) /\ Cardinality(Threads) = NumberOfStages
    /\ \A T \in SUBSET Threads :
          /\ IsFiniteSet(T) /\ Cardinality(T) \in Nat
          /\ Cardinality(T) = NumberOfStages => T = Threads
<1>1. IsFiniteSet(Threads) /\ Cardinality(Threads) = NumberOfStages
  <2>1. NumberOfStages - 1 \in Int /\ ~(0 > NumberOfStages - 1)
      BY PoisonPillAssumption
  <2>2. /\ IsFiniteSet(0 .. NumberOfStages - 1)
        /\ Cardinality(0 .. NumberOfStages - 1) = NumberOfStages - 1 - 0 + 1
      BY <2>1, FS_Interval
  <2> QED
      BY <2>2, StagesAre, PoisonPillAssumption
<1> QED
    BY <1>1, FS_Subset, FS_CardinalityType

LEMMA PillCount ==
    ASSUME Delivering, PillCounted, NEW t \in Threads, Count(t)
    PROVE  PillCounted'
<1> DEFINE T == {s \in Threads : HasCounted(s)}
<1>1. /\ pillCall[t] = "count" /\ Past(t) = Len(Lines) /\ Holding(t) = 1
      /\ count' = count + 1 /\ done' = done
      /\ pillCall' = [pillCall EXCEPT ![t] = IF count' = NumberOfStages THEN "stop" ELSE "none"]
      /\ \A s \in Threads : Stands(s)
    BY DEF Count, PillCounted, Stands, Past, Holding
<1>2. /\ pillCall' \in [Threads -> {"none", "count", "stop"}] /\ pillCall'[t] # "count"
      /\ pillCall'[t] = "stop" => count' = NumberOfStages
      /\ \A s \in Threads : s # t => pillCall'[s] = pillCall[s]
    BY <1>1 DEF PillCounted
<1>3. t \notin T /\ {s \in Threads : HasCounted(s)}' = T \cup {t}
  <2>1. ~HasCounted(t) /\ HasCounted(t)'
      BY <1>1, <1>2, PastBound DEF HasCounted, Stands
  <2>2. \A s \in Threads : s # t => (HasCounted(s)' <=> HasCounted(s))
      BY <1>1, <1>2 DEF HasCounted, Stands
  <2> QED
      BY <2>1, <2>2
<1>4. T \in SUBSET Threads /\ count = Cardinality(T)
    BY DEF PillCounted
<1> HIDE DEF T
<1>5. count' = Cardinality({s \in Threads : HasCounted(s)}')
    BY <1>1, <1>3, <1>4, StagesCounted, FS_AddElement
<1>6. count # NumberOfStages
    BY <1>3, <1>4, StagesCounted
<1>7. done' \/ (\E s \in Threads : pillCall'[s] = "stop") => count' = NumberOfStages
    BY <1>1, <1>2, <1>6 DEF PillCounted
<1>8. \A s \in Threads : pillCall'[s] # "none" => Past(s)' = Len(Lines) /\ Holding(s)' = 1
    BY <1>1, <1>2 DEF PillCounted, Stands
<1> QED
    BY <1>2, <1>5, <1>7, <1>8 DEF PillCounted

LEMMA PillStop ==
    ASSUME PillCounted, NEW t \in Threads, CallStop(t), UNCHANGED Data!vars
    PROVE  PillCounted'
<1>1. /\ pillCall[t] = "stop" /\ pillCall' = [pillCall EXCEPT ![t] = "none"] /\ count' = count
      /\ \A s \in Threads : Stands(s)
    BY DEF CallStop, Data!vars, Stands, Past, Holding
<1>2. /\ pillCall' \in [Threads -> {"none", "count", "stop"}] /\ pillCall'[t] = "none"
      /\ \A s \in Threads : s # t => pillCall'[s] = pillCall[s]
    BY <1>1 DEF PillCounted
<1>3. ASSUME NEW s \in Threads
      PROVE  /\ HasCounted(s)' <=> HasCounted(s)
             /\ pillCall'[s] # "none" => Past(s)' = Len(Lines) /\ Holding(s)' = 1
             /\ pillCall'[s] = "stop" => pillCall[s] = "stop"
    BY <1>1, <1>2 DEF HasCounted, Stands, PillCounted
<1> QED
    BY <1>1, <1>2, <1>3, PillSame

LEMMA PillRelease ==
    ASSUME Delivering, PillCounted, NEW t \in Threads, pillCall[t] = "none", Data!Release(t),
           UNCHANGED pillVars, done' = done
    PROVE  PillCounted'
<1>1. /\ Past(t)' = Past(t) + 1 /\ Holding(t) = 1 /\ Holding(t)' = 0
      /\ \A s \in Threads : s # t => Stands(s)
    BY ProgressRelease
<1>2. count' = count /\ pillCall' = pillCall
    BY DEF pillVars
<1>3. ASSUME NEW s \in Threads
      PROVE  /\ HasCounted(s)' <=> HasCounted(s)
             /\ pillCall'[s] # "none" => Past(s)' = Len(Lines) /\ Holding(s)' = 1
  <2>1. CASE s = t
    <3>1. /\ Past(t) \in Nat /\ Past(t) + 1 <= Len(Lines) + 1
          /\ Len(Messages) = Len(Lines) + 1 /\ Len(Lines) \in Nat
        BY <1>1, PastBound
    <3>2. HasCounted(t) <=> Past(t) = Len(Lines)
        BY <1>1, <3>1 DEF HasCounted
    <3>3. HasCounted(t)' <=> Past(t) + 1 = Len(Messages)
        BY <1>1, <1>2 DEF HasCounted
    <3> QED
        BY <1>2, <2>1, <3>1, <3>2, <3>3
  <2>2. CASE s # t
      BY <1>1, <1>2, <2>2 DEF HasCounted, Stands, PillCounted
  <2> QED
      BY <2>1, <2>2
<1> QED
    BY <1>2, <1>3, PillSame DEF PillCounted

-----------------------------------------------------------------------------
IInv == OwnStage /\ Delivering /\ PillCounted

LEMMA InitIInv == Init => IInv
<1> SUFFICES ASSUME Init PROVE IInv
    OBVIOUS
<1>1. Application!Base!Init /\ Data!Init
    BY DataInit DEF Init, Application!Init, Application!Base!Init
<1>2. Delivering
  <2>1. Data!IInv
      BY <1>1, DataAssumption, Data!TypedInit, Data!CountedInit DEF Data!IInv
  <2> QED
      BY <1>1, <2>1, InTurnInit DEF Delivering
<1>3. OwnStage
  <2>1. thread = [t \in Threads |->
                    [pc |-> "unborn", stage |-> NumberOfStages, hadMessage |-> FALSE]]
      BY <1>1, StagesAre DEF Application!Base!Init, Application!Base!NumberOfEntries
  <2>2. "unborn" \in Application!Base!ThreadState
      BY DEF Application!Base!ThreadState
  <2> QED
      BY <2>1, <2>2 DEF OwnStage
<1>4. PillCounted
  <2>1. \A s \in Threads : Past(s) = 0 /\ Holding(s) = 0
      BY <1>1, DataIs, StagesAre DEF Data!Init, Data!Idle, Past, Holding
  <2>2. \A s \in Threads : ~HasCounted(s)
      BY <2>1, MessagesAre DEF HasCounted
  <2>3. Cardinality({s \in Threads : HasCounted(s)}) = 0
      BY <2>2, FS_EmptySet
  <2>4. ~done
      BY <1>1 DEF Application!Base!Init
  <2> QED
      BY <2>1, <2>3, <2>4 DEF Init, PillCounted
<1> QED
    BY <1>2, <1>3, <1>4 DEF IInv

LEMMA NextIInv == Tree /\ IInv /\ [Next]_vars => IInv'
<1> SUFFICES ASSUME Tree, IInv, [Next]_vars PROVE IInv'
    OBVIOUS
<1>0. OwnStage /\ Delivering /\ PillCounted
    BY DEF IInv
<1>1. CASE UNCHANGED vars
  <2>1. UNCHANGED Data!vars /\ UNCHANGED pillVars /\ done' = done /\ thread' = thread
      BY <1>1 DEF vars, Data!vars, pillVars
  <2>2. \A s \in Threads : Stands(s)
      BY <2>1 DEF Data!vars, Stands, Past, Holding
  <2>3. OwnStage'
      BY <1>0, <2>1 DEF OwnStage
  <2>4. Delivering'
      BY <1>0, <2>1, DeliveringStep DEF FlowStep
  <2>5. PillCounted'
      BY <1>0, <2>1, <2>2, PillStands
  <2> QED
      BY <2>3, <2>4, <2>5 DEF IInv
<1>2. CASE Launch \/ Feed \/ Join
  <2>1. /\ OwnStage' /\ done' = done /\ UNCHANGED pillVars
        /\ UNCHANGED Data!vars \/ Data!Create(Main) \/ Moves(Main)
      BY <1>0, <1>2, OwnerIs
  <2>2. Delivering'
      BY <1>0, <2>1, DeliveringStep DEF FlowStep
  <2>3. \A s \in Threads : Stands(s)
    <3>1. CASE UNCHANGED Data!vars
        BY <3>1 DEF Data!vars, Stands, Past, Holding
    <3>2. CASE Data!Create(Main) \/ Moves(Main)
        BY <1>0, <3>2, ProgressMain
    <3> QED
        BY <2>1, <3>1, <3>2
  <2>4. PillCounted'
      BY <1>0, <2>1, <2>3, PillStands
  <2> QED
      BY <2>1, <2>2, <2>4 DEF IInv
<1>3. ASSUME NEW t \in Threads, Poll(t) PROVE IInv'
  <2>1. Application!ThreadStep(t) /\ Application!Base!PollMessage(t)
      BY <1>3 DEF Poll, Application!ThreadStep, Application!Base!Process
  <2>2. OwnStage' /\ done' = done
      BY <1>0, <2>1, ProcessIs
  <2>3. Data!TryPop(t, t)
      BY <1>0, <2>1, SameTryPop
      DEF Application!Base!PollMessage, Application!Base!Goto, OwnStage
  <2>4. Delivering'
      BY <1>0, <2>3, DeliveringStep DEF FlowStep
  <2>5. PillCounted'
      BY <1>0, <1>3, <2>2, <2>3, PillPoll DEF Poll
  <2> QED
      BY <2>2, <2>4, <2>5 DEF IInv
<1>4. ASSUME NEW t \in Threads, Count(t) PROVE IInv'
  <2>1. UNCHANGED Data!vars /\ thread' = thread
      BY <1>4 DEF Count, Data!vars
  <2>2. OwnStage' /\ Delivering'
      BY <1>0, <2>1, DeliveringStep DEF OwnStage, FlowStep
  <2> QED
      BY <1>0, <1>4, <2>2, PillCount DEF IInv
<1>5. ASSUME NEW t \in Threads, CallStop(t) PROVE IInv'
  <2>1. UNCHANGED Data!vars /\ thread' = thread
      BY <1>5 DEF CallStop, Application!Base!Stop, Application!Base!flowVars, Data!vars
  <2>2. OwnStage' /\ Delivering'
      BY <1>0, <2>1, DeliveringStep DEF OwnStage, FlowStep
  <2> QED
      BY <1>0, <1>5, <2>1, <2>2, PillStop DEF IInv
<1>6. ASSUME NEW t \in Threads, Proceed(t) PROVE IInv'
  <2>1. /\ pillCall[t] = "none" /\ Application!ThreadStep(t) /\ UNCHANGED pillVars
        /\ ~Application!Base!PollMessage(t)
      BY <1>6 DEF Proceed
  <2>2. /\ OwnStage' /\ done' = done
        /\ UNCHANGED Data!vars \/ Moves(t)
      BY <1>0, <2>1, ProcessIs
  <2>3. Delivering'
      BY <1>0, <2>2, DeliveringStep DEF FlowStep
  <2>4. PillCounted'
    <3>1. CASE UNCHANGED Data!vars
      <4>1. \A s \in Threads : Stands(s)
          BY <3>1 DEF Data!vars, Stands, Past, Holding
      <4> QED
          BY <1>0, <2>1, <2>2, <4>1, PillStands
    <3>2. CASE Data!Send(t)
      <4>1. \A s \in Threads : Stands(s)
          BY <1>0, <3>2, ProgressSend
      <4> QED
          BY <1>0, <2>1, <2>2, <4>1, PillStands
    <3>3. CASE Data!Release(t)
        BY <1>0, <2>1, <2>2, <3>3, PillRelease
    <3> QED
        BY <2>2, <3>1, <3>2, <3>3 DEF Moves
  <2> QED
      BY <2>2, <2>3, <2>4 DEF IInv
<1> QED
    BY <1>1, <1>2, <1>3, <1>4, <1>5, <1>6 DEF Next, ThreadStep

(* A stage that has counted the pill has processed the lines.              *)
LEMMA CountedLines ==
    ASSUME Delivering, NEW s \in Threads, HasCounted(s)
    PROVE  IsPrefix(Lines, served[s])
<1> DEFINE n == Len(Lines)
<1> DEFINE q == served[s]
<1>1. Data!Typed /\ Ordered
    BY DEF Delivering, Data!IInv, InTurn
<1>2. n \in Nat /\ n <= Past(s) /\ Past(s) \in Nat /\ Past(s) = Len(q)
    BY PastBound DEF HasCounted, Past
<1>3. Lines \in Seq(ToSet(Messages)) /\ q \in Seq(ToSet(Messages))
  <2>1. Data!Content = ToSet(Messages)
      BY DEF Data!Content, Data!ToSet, ToSet
  <2>2. ToSet(Lines) \subseteq ToSet(Messages)
    <3>1. \A i \in DOMAIN Lines : i \in DOMAIN Messages /\ Messages[i] = Lines[i]
        BY MessagesAre, LenProperties, PoisonPillAssumption
    <3> QED
        BY <3>1 DEF ToSet
  <2> QED
      BY <1>1, <2>1, <2>2, Kinds, WiderSeq, PoisonPillAssumption
<1>4. ASSUME NEW i \in 1 .. n PROVE q[i] = Lines[i]
  <2>1. i \in 1 .. Got(s) /\ i <= Past(s)
    <3>1. Holding(s) \in {0, 1} /\ Ahead(s) \in Nat /\ Got(s) = Past(s) + Holding(s) + Ahead(s)
        BY <1>1, Numbers
    <3> QED
        BY <1>2, <3>1
  <2>2. Item(s, i) = Messages[i] /\ Item(s, i) = q[i]
      BY <1>1, <2>1 DEF Ordered, Item
  <2> QED
      BY <2>2, MessagesAre
<1> HIDE DEF q, n
<1>5. SubSeq(Lines, 1, n) = SubSeq(q, 1, n)
    BY <1>2, <1>3, <1>4, LenProperties, MessagesAre DEF n
<1> QED
    BY <1>2, <1>5 DEF IsPrefix, n, q

LEMMA StopAfterLines == IInv => LinesBeforeStop
<1> SUFFICES ASSUME IInv, done, NEW s \in Threads PROVE IsPrefix(Lines, served[s])
    BY DEF LinesBeforeStop
<1> DEFINE T == {u \in Threads : HasCounted(u)}
<1>1. T \in SUBSET Threads /\ Cardinality(T) = NumberOfStages
    BY DEF IInv, PillCounted
<1>2. s \in T
  <2> HIDE DEF T
  <2> QED
      BY <1>1, StagesCounted
<1> QED
    BY <1>2, CountedLines DEF IInv

(* Whatever tree the stages form and however long the input, the stop the  *)
(* pill brings about comes after every stage has processed every line.     *)
THEOREM NoLineLost == ASSUME Tree PROVE Spec => []LinesBeforeStop
<1>1. Init => IInv
    BY InitIInv
<1>2. IInv /\ [Next]_vars => IInv'
    BY NextIInv
<1>3. IInv => LinesBeforeStop
    BY StopAfterLines
<1> QED
    BY <1>1, <1>2, <1>3, PTL DEF Spec
=============================================================================
