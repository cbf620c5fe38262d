------------------------------ MODULE StageFlow -----------------------------
(***************************************************************************)
(* The data path: StageBase, DispatcherBase, MessageBase and the fanout    *)
(* functors.  Reference-counted messages travel from queue to queue,       *)
(* handled by threads that each run one functor at a time, while threads   *)
(* outside the scheduler create messages and dispatch them to a stage.     *)
(*                                                                         *)
(* Which stage a worker processes next is left open here (SchedulerBase    *)
(* and the policies decide it), so every stage may be visited by several   *)
(* workers at once.                                                        *)
(***************************************************************************)
EXTENDS Integers, Sequences, FiniteSets, SequencesExt

CONSTANTS
    NumberOfStages,     \* StageEnum::NumberOfEntries
    Workers,            \* the threads that call StageBase::process
    Producers,          \* the threads that create messages
    Script,             \* Script[p]: the contents of the messages p creates, in order
    EntryStage,         \* EntryStage[p]: the stage p dispatches its messages to
    Route,              \* Route[s]: the dispatches the functor of stage s makes, in order
    MayThrow            \* whether a functor may end with an exception

Stage == 0 .. NumberOfStages - 1
NumberOfEntries == NumberOfStages
Actor == Producers \cup Workers
Content == UNION {ToSet(Script[p]) : p \in Producers}
Dispatch == [to : Stage, clone : BOOLEAN]

ASSUME StageFlowAssumption ==
    /\ NumberOfStages \in Nat \ {0}
    /\ Producers \cap Workers = {}
    /\ Script \in [Producers -> Seq(Content)]
    /\ EntryStage \in [Producers -> Stage]
    /\ Route \in [Stage -> Seq(Dispatch)]
    /\ MayThrow \in BOOLEAN

VARIABLES
    queue,      \* queue[s]: the message pointers in the queue of stage s
    heap,       \* heap[m]: the message object m, numbered by allocation
    frame,      \* frame[a]: what a's call of process, or of the code that
                \* creates a message, holds (see Idle)
    script,     \* script[p]: what p has still to create
    served,     \* served[s]: history of the contents stage s has processed
    thrown      \* history: the contents in whose processing a functor threw

vars == <<queue, heap, frame, script, served, thrown>>

Null == 0

(* hand: the message owned by the local smartptr; carry: the pointer a     *)
(* dispatch has counted and not yet pushed; todo: the dispatches the code  *)
(* has still to make; at: the stage whose functor is running.              *)
Idle == [hand |-> Null, carry |-> Null, todo |-> <<>>, at |-> NumberOfEntries]

(* A new message after the first increment of its count.                   *)
Allocated(c) == [content |-> c, refs |-> 1, live |-> TRUE]

(* intrusive_ptr_add_ref and intrusive_ptr_release: the count is atomic,   *)
(* and the release that brings it to zero deletes the message.             *)
AddRef(m) == [heap EXCEPT ![m].refs = @ + 1]
DropRef(m) == [heap EXCEPT ![m].refs = @ - 1, ![m].live = heap[m].refs # 1]

Init ==
    /\ queue = [s \in Stage |-> <<>>]
    /\ heap = <<>>
    /\ frame = [a \in Actor |-> Idle]
    /\ script = Script
    /\ served = [s \in Stage |-> <<>>]
    /\ thrown = {}

-----------------------------------------------------------------------------
(* A producer makes a message, owned by a local smartptr, and is about to  *)
(* dispatch it.                                                            *)
Create(p) ==
    /\ frame[p] = Idle
    /\ script[p] # <<>>
    /\ heap' = Append(heap, Allocated(Head(script[p])))
    /\ frame' = [frame EXCEPT ![p] =
                  [Idle EXCEPT !.hand = Len(heap) + 1,
                               !.todo = <<[to |-> EntryStage[p], clone |-> FALSE]>>]]
    /\ script' = [script EXCEPT ![p] = Tail(@)]
    /\ UNCHANGED <<queue, served, thrown>>

(* A plausible slip: the queue gives the message and keeps it.             *)
PeekInsteadOfPop(w, s) ==
    /\ frame[w] = Idle
    /\ queue[s] # <<>>
    /\ frame' = [frame EXCEPT ![w] =
                  [hand |-> Head(queue[s]), carry |-> Null, todo |-> Route[s], at |-> s]]
    /\ UNCHANGED <<queue, heap, script, served, thrown>>

(* StageBase::process, when try_pop yields a message: the smartptr adopts  *)
(* the reference the queue held, without counting it again.                *)
TryPop(w, s) ==
    /\ frame[w] = Idle
    /\ queue[s] # <<>>
    /\ frame' = [frame EXCEPT ![w] =
                  [hand |-> Head(queue[s]), carry |-> Null, todo |-> Route[s], at |-> s]]
    /\ queue' = [queue EXCEPT ![s] = Tail(@)]
    /\ UNCHANGED <<heap, script, served, thrown>>

(* About to dispatch, and whether as a copy.                               *)
Dispatching(a, clone) ==
    /\ frame[a].carry = Null
    /\ frame[a].todo # <<>>
    /\ Head(frame[a].todo).clone = clone

(* A plausible slip: the message is pushed without being counted.          *)
RetainUncounted(a) ==
    /\ Dispatching(a, FALSE)
    /\ frame' = [frame EXCEPT ![a].carry = frame[a].hand]
    /\ UNCHANGED <<queue, heap, script, served, thrown>>

(* dispatch(stage, message), up to the push: "increment the reference      *)
(* count so the message isn't deleted while in the queue".                 *)
Retain(a) ==
    /\ Dispatching(a, FALSE)
    /\ heap' = AddRef(frame[a].hand)
    /\ frame' = [frame EXCEPT ![a].carry = frame[a].hand]
    /\ UNCHANGED <<queue, script, served, thrown>>

(* dispatch(stage, message, clone_message), up to the push.                *)
Copy(a) ==
    /\ Dispatching(a, TRUE)
    /\ heap' = Append(heap, Allocated(heap[frame[a].hand].content))
    /\ frame' = [frame EXCEPT ![a].carry = Len(heap) + 1]
    /\ UNCHANGED <<queue, script, served, thrown>>

(* A plausible slip: the fanout stops after its first stage.               *)
PushToFirstOnly(a) ==
    /\ frame[a].carry # Null
    /\ queue' = [queue EXCEPT ![Head(frame[a].todo).to] = Append(@, frame[a].carry)]
    /\ frame' = [frame EXCEPT ![a].carry = Null, ![a].todo = <<>>]
    /\ UNCHANGED <<heap, script, served, thrown>>

(* The push that ends either dispatch; a fanout goes on to its next stage. *)
Push(a) ==
    /\ frame[a].carry # Null
    /\ queue' = [queue EXCEPT ![Head(frame[a].todo).to] = Append(@, frame[a].carry)]
    /\ frame' = [frame EXCEPT ![a].carry = Null, ![a].todo = Tail(@)]
    /\ UNCHANGED <<heap, script, served, thrown>>

(* Every dispatch is made: the smartptr goes out of scope.                 *)
Release(a) ==
    /\ frame[a].hand # Null
    /\ frame[a].carry = Null
    /\ frame[a].todo = <<>>
    /\ heap' = DropRef(frame[a].hand)
    /\ frame' = [frame EXCEPT ![a] = Idle]
    /\ served' = IF a \in Workers
                 THEN [served EXCEPT ![frame[a].at] = Append(@, heap[frame[a].hand].content)]
                 ELSE served
    /\ UNCHANGED <<queue, script, thrown>>

(* A plausible slip: unwinding does not release the message.               *)
ThrowLeaking(w) ==
    /\ MayThrow
    /\ frame[w].hand # Null
    /\ frame[w].carry = Null
    /\ frame' = [frame EXCEPT ![w] = Idle]
    /\ thrown' = thrown \cup {heap[frame[w].hand].content}
    /\ UNCHANGED <<queue, heap, script, served>>

(* The functor throws before, between or after its dispatches: unwinding   *)
(* destroys the smartptr, and the dispatches still to be made are lost.    *)
Throw(w) ==
    /\ MayThrow
    /\ frame[w].hand # Null
    /\ frame[w].carry = Null
    /\ heap' = DropRef(frame[w].hand)
    /\ frame' = [frame EXCEPT ![w] = Idle]
    /\ thrown' = thrown \cup {heap[frame[w].hand].content}
    /\ UNCHANGED <<queue, script, served>>

-----------------------------------------------------------------------------
Send(a) == Retain(a) \/ Copy(a) \/ Push(a)

Produce(p) == Create(p) \/ Send(p) \/ Release(p)

Next ==
    \/ \E p \in Producers : Produce(p)
    \/ \E w \in Workers :
          \/ \E s \in Stage : TryPop(w, s)
          \/ Send(w)
          \/ Release(w)
          \/ Throw(w)

Spec == Init /\ [][Next]_vars
-----------------------------------------------------------------------------
Message == DOMAIN heap

TypeOK ==
    /\ queue \in [Stage -> Seq(Message)]
    /\ heap \in Seq([content : Content, refs : Nat, live : BOOLEAN])
    /\ frame \in [Actor -> [hand : Message \cup {Null}, carry : Message \cup {Null},
                            todo : Seq(Dispatch), at : Stage \cup {NumberOfEntries}]]
    /\ script \in [Producers -> Seq(Content)]
    /\ served \in [Stage -> Seq(Content)]
    /\ thrown \subseteq Content

(* Where the references to message m are.                                  *)
QueueSlots(m) ==
    UNION {{<<s, i>> : i \in {j \in DOMAIN queue[s] : queue[s][j] = m}} : s \in Stage}
Owners(m) == {a \in Actor : frame[a].hand = m}
Carriers(m) == {a \in Actor : frame[a].carry = m}

(* The count of a message is the number of queue slots, local smartptrs    *)
(* and unfinished dispatches that refer to it, and it is deleted exactly   *)
(* when the last of them goes: nobody is left with a pointer to a deleted  *)
(* message, and no message is left behind, exceptions included.            *)
RefCountExact ==
    \A m \in Message :
        /\ heap[m].refs = Cardinality(QueueSlots(m)) + Cardinality(Owners(m))
                                                      + Cardinality(Carriers(m))
        /\ heap[m].live = (heap[m].refs > 0)

(* How often stage s has processed, is processing or will process c.       *)
Occurrences(s, c) ==
    Cardinality({i \in DOMAIN queue[s] : heap[queue[s][i]].content = c})
    + Cardinality({w \in Workers : frame[w].at = s /\ heap[frame[w].hand].content = c})
    + Cardinality({i \in DOMAIN served[s] : served[s][i] = c})

(* The stages from which a message comes to stage s, each of which sends   *)
(* it one way only, and s itself, which does not send it back.             *)
Way(W, s) ==
    /\ s \in W
    /\ \A r \in Stage : \A i \in DOMAIN Route[r] : Route[r][i].to \in W => r \in W
    /\ \A r \in W : \A i, j \in DOMAIN Route[r] :
          Route[r][i].to \in W /\ Route[r][j].to \in W => i = j
    /\ \A i \in DOMAIN Route[s] : Route[s][i].to \notin W

(* There is at most one way from a stage to another.                       *)
OneWay == \A s \in Stage : \E W \in SUBSET Stage : Way(W, s)

(* No two messages are created with the same content.                      *)
DistinctContents ==
    \A p, q \in Producers : \A i \in DOMAIN Script[p], j \in DOMAIN Script[q] :
        Script[p][i] = Script[q][j] => p = q /\ i = j

(* Whatever the interleaving, no stage gets a message twice, where the     *)
(* routes and the scripts give it none twice.                              *)
AtMostOnce == \A s \in Stage, c \in Content : Occurrences(s, c) <= 1

AtRest ==
    /\ \A p \in Producers : script[p] = <<>>
    /\ \A s \in Stage : queue[s] = <<>>
    /\ \A a \in Actor : frame[a] = Idle

AllServed == \A s \in Stage : ToSet(served[s]) = Content

(* When all has come to rest, the entry stage of a producer has processed  *)
(* all that the producer created, and what a stage has processed, every    *)
(* stage it dispatches to has processed, but for the messages in whose     *)
(* processing a functor threw.                                             *)
NothingLost ==
    AtRest =>
        /\ \A p \in Producers :
              ToSet(Script[p]) \subseteq ToSet(served[EntryStage[p]]) \cup thrown
        /\ \A s \in Stage : \A d \in ToSet(Route[s]) :
              ToSet(served[s]) \subseteq ToSet(served[d.to]) \cup thrown
-----------------------------------------------------------------------------
(* A chain of stages as a Pipeline.  The message a worker handles counts   *)
(* as waiting at its stage until the functor has pushed it on (at the last *)
(* stage: until the functor has returned).                                 *)
Unfinished(w, s) ==
    /\ frame[w].at = s
    /\ s # NumberOfStages - 1 => frame[w].todo # <<>>

Handled(s) == SetToSeq({w \in Workers : Unfinished(w, s)})

Contents(ms) == [i \in DOMAIN ms |-> heap[ms[i]].content]

inbox == [s \in Stage |->
    Contents([i \in DOMAIN Handled(s) |-> frame[Handled(s)[i]].hand] \o queue[s])]

pending == [p \in Producers |->
    (IF frame[p].todo = <<>> THEN <<>> ELSE <<heap[frame[p].hand].content>>) \o script[p]]

delivered == served[NumberOfStages - 1]

Fifo == INSTANCE Pipeline WITH Lossy <- MayThrow

(* The stages form a chain, and every producer dispatches to its first.    *)
InAChain ==
    /\ \A p \in Producers : EntryStage[p] = 0
    /\ \A s \in Stage : IF s = NumberOfStages - 1 THEN Route[s] = <<>>
                        ELSE Len(Route[s]) = 1 /\ Route[s][1].to = s + 1

(* Where the stages form a chain and no two workers visit one stage at the *)
(* same time, messages reach every stage in the order they were            *)
(* dispatched, none twice, and none is lost but by an exception.           *)
ImplementsPipeline == Fifo!Spec
=============================================================================
