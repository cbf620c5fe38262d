------------------------- MODULE ThreadAssignments --------------------------
(***************************************************************************)
(* wield::schedulers::utils::ThreadAssignments, at the grain of its atomic *)
(* operations.  The threads of a scheduler share one object: a counter of  *)
(* visitors per stage, changed by an atomic decrement and by a             *)
(* compare-and-swap, and a vector whose element t only thread t touches.   *)
(*                                                                         *)
(* The operations are driven by the most general client that keeps the     *)
(* protocol every scheduling policy keeps: give the assignment up, then    *)
(* try stages, in any order, until one accepts.                            *)
(***************************************************************************)
EXTENDS Integers, FiniteSets

CONSTANTS
    Threads,            \* thread ids, the indices of threadAssignment_
    NumberOfStages,     \* StageEnumType::NumberOfEntries
    MaxConcurrency      \* the MaxConcurrencyContainer given to the constructor

Stage == 0 .. NumberOfStages - 1

NumberOfEntries == NumberOfStages

ASSUME ThreadAssignmentsAssumption ==
    /\ IsFiniteSet(Threads)
    /\ NumberOfStages \in Nat \ {0}
    /\ MaxConcurrency \in [Stage -> Nat]

VARIABLES
    threadAssignment,   \* threadAssignment_[t]
    threadsPerStage,    \* threadsPerStage_[s], atomic
    maximumConcurrency, \* maximumConcurrency_[s], never written after construction
    call                \* call[t]: where t is inside a method, and its locals

vars == <<threadAssignment, threadsPerStage, maximumConcurrency, call>>

(* Outside every method.  The locals of a finished call are dead, so they  *)
(* are reset.                                                              *)
Outside == [op |-> "outside", next |-> NumberOfEntries, currentVisitors |-> 0]

(* The constructors and init(). *)
Init ==
    /\ threadAssignment = [t \in Threads |-> NumberOfEntries]
    /\ threadsPerStage = [s \in Stage |-> 0]
    /\ maximumConcurrency = MaxConcurrency
    /\ call = [t \in Threads |-> Outside]

Assigned(t) == threadAssignment[t] # NumberOfEntries

-----------------------------------------------------------------------------
(* removeCurrentAssignment *)

(* A plausible slip: the visitor count is left alone. *)
RemoveBeginKeepingCount(t) ==
    /\ call[t].op = "outside"
    /\ Assigned(t)
    /\ call' = [call EXCEPT ![t].op = "removing"]
    /\ UNCHANGED <<threadAssignment, threadsPerStage, maximumConcurrency>>

(* The atomic decrement; the slot is free from here on, although the       *)
(* vector still names the stage.                                           *)
RemoveBegin(t) ==
    /\ call[t].op = "outside"
    /\ Assigned(t)
    /\ threadsPerStage' = [threadsPerStage EXCEPT ![threadAssignment[t]] = @ - 1]
    /\ call' = [call EXCEPT ![t].op = "removing"]
    /\ UNCHANGED <<threadAssignment, maximumConcurrency>>

(* A plausible slip: the assignment survives, so that it is removed again. *)
RemoveEndKeepingAssignment(t) ==
    /\ call[t].op = "removing"
    /\ call' = [call EXCEPT ![t] = Outside]
    /\ UNCHANGED <<threadAssignment, threadsPerStage, maximumConcurrency>>

(* The vector's element is cleared. *)
RemoveEnd(t) ==
    /\ call[t].op = "removing"
    /\ threadAssignment' = [threadAssignment EXCEPT ![t] = NumberOfEntries]
    /\ call' = [call EXCEPT ![t] = Outside]
    /\ UNCHANGED <<threadsPerStage, maximumConcurrency>>

-----------------------------------------------------------------------------
(* tryAssign *)

(* A plausible slip: <= for < in the test against the maximum. *)
HasRoomForOneTooMany(s) == threadsPerStage[s] <= maximumConcurrency[s]

HasRoom(s) == threadsPerStage[s] < maximumConcurrency[s]

(* The counter is loaded and compared with the stage's maximum: the call   *)
(* either returns false at once or goes on to the compare-and-swap.        *)
TryRefused(t, s) ==
    /\ call[t].op = "outside"
    /\ ~HasRoom(s)
    /\ UNCHANGED vars

TryLoad(t, s) ==
    /\ call[t].op = "outside"
    /\ HasRoom(s)
    /\ call' = [call EXCEPT ![t] =
                 [op |-> "loaded", next |-> s, currentVisitors |-> threadsPerStage[s]]]
    /\ UNCHANGED <<threadAssignment, threadsPerStage, maximumConcurrency>>

Unchanged(t) == threadsPerStage[call[t].next] = call[t].currentVisitors

(* A plausible slip: a store instead of a compare-and-swap. *)
SwapWithoutCompare(t) ==
    /\ call[t].op = "loaded"
    /\ threadsPerStage' = [threadsPerStage EXCEPT ![call[t].next] = call[t].currentVisitors + 1]
    /\ call' = [call EXCEPT ![t].op = "swapped"]
    /\ UNCHANGED <<threadAssignment, maximumConcurrency>>

(* compare_exchange_strong succeeds. *)
Swap(t) ==
    /\ call[t].op = "loaded"
    /\ Unchanged(t)
    /\ threadsPerStage' = [threadsPerStage EXCEPT ![call[t].next] = call[t].currentVisitors + 1]
    /\ call' = [call EXCEPT ![t].op = "swapped"]
    /\ UNCHANGED <<threadAssignment, maximumConcurrency>>

(* compare_exchange_strong fails: the call returns false. *)
SwapFails(t) ==
    /\ call[t].op = "loaded"
    /\ ~Unchanged(t)
    /\ call' = [call EXCEPT ![t] = Outside]
    /\ UNCHANGED <<threadAssignment, threadsPerStage, maximumConcurrency>>

(* The new assignment is recorded: the call returns true. *)
Assign(t) ==
    /\ call[t].op = "swapped"
    /\ threadAssignment' = [threadAssignment EXCEPT ![t] = call[t].next]
    /\ call' = [call EXCEPT ![t] = Outside]
    /\ UNCHANGED <<threadsPerStage, maximumConcurrency>>

-----------------------------------------------------------------------------
(* What every nextStage does with the object: it first gives up the        *)
(* assignment it has, and tries to get one only while it has none.         *)
NextStage(t) ==
    \/ RemoveBegin(t)
    \/ RemoveEnd(t)
    \/ ~Assigned(t) /\ \E s \in Stage : TryRefused(t, s) \/ TryLoad(t, s)
    \/ Swap(t)
    \/ SwapFails(t)
    \/ Assign(t)

Next == \E t \in Threads : NextStage(t)

Spec == Init /\ [][Next]_vars
-----------------------------------------------------------------------------
Call == [op : {"outside", "removing", "loaded", "swapped"},
         next : Stage \cup {NumberOfEntries},
         currentVisitors : Nat]

(* The values of the object and of the locals of its methods.  A counter   *)
(* is unsigned in the code: that it is a natural number here says that the *)
(* decrement never wraps.                                                  *)
TypeOK ==
    /\ threadAssignment \in [Threads -> Stage \cup {NumberOfEntries}]
    /\ threadsPerStage \in [Stage -> Nat]
    /\ maximumConcurrency \in [Stage -> Nat]
    /\ call \in [Threads -> Call]

(* The stage whose slot thread t occupies: from its successful             *)
(* compare-and-swap to its decrement, which is not the interval in which   *)
(* threadAssignment_ names the stage.                                      *)
visiting == [t \in Threads |->
    IF call[t].op = "swapped" THEN call[t].next
    ELSE IF call[t].op = "removing" THEN NumberOfEntries
    ELSE threadAssignment[t]]

Visitors(s) == {t \in Threads : visiting[t] = s}

(* Each counter is the number of threads that occupy a slot of the stage,  *)
(* whatever the interleaving of decrements and compare-and-swaps: no slot  *)
(* is lost and none is handed out twice.                                   *)
VisitorCountExact ==
    \A s \in Stage : threadsPerStage[s] = Cardinality(Visitors(s))

(* No stage is ever visited by more threads than its maximum concurrency,  *)
(* the guarantee the scheduling policies hand to single-threaded functors. *)
ConcurrencyRespected ==
    \A s \in Stage : Cardinality(Visitors(s)) <= MaxConcurrency[s]

(* A thread tries stages only while it holds no slot, and what it has      *)
(* loaded was below the maximum: what makes the two facts above inductive. *)
CallConsistent ==
    \A t \in Threads :
        /\ call[t].op = "removing" => Assigned(t)
        /\ call[t].op \in {"loaded", "swapped"} =>
              ~Assigned(t) /\ call[t].next \in Stage
        /\ call[t].op = "loaded" =>
              call[t].currentVisitors < MaxConcurrency[call[t].next]

IInv ==
    /\ TypeOK
    /\ maximumConcurrency = MaxConcurrency
    /\ CallConsistent
    /\ VisitorCountExact
    /\ ConcurrencyRespected

(* Seen from the policies, each method is one step of the abstract slots.  *)
Slots == INSTANCE VisitorSlots
ImplementsSlots == Slots!Spec
=============================================================================
