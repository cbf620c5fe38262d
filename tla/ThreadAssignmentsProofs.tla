----------------------- MODULE ThreadAssignmentsProofs ----------------------
(***************************************************************************)
(* ThreadAssignments for every set of threads, every number of stages and  *)
(* every MaxConcurrency: its counters are exact, no stage is over-visited, *)
(* and it implements VisitorSlots.                                         *)
(***************************************************************************)
EXTENDS ThreadAssignments, FiniteSetTheorems, TLAPS

-----------------------------------------------------------------------------
(* Facts about the sets of visitors *)

LEMMA VisitorsFinite ==
    ASSUME NEW s
    PROVE  IsFiniteSet(Visitors(s)) /\ Cardinality(Visitors(s)) \in Nat
<1>1. Visitors(s) \subseteq Threads
    BY DEF Visitors
<1>2. IsFiniteSet(Threads)
    BY ThreadAssignmentsAssumption
<1> QED
    BY <1>1, <1>2, FS_Subset, FS_CardinalityType

(* How a step that changes what one thread visits changes the counts.      *)
LEMMA CountAfterEntering ==
    ASSUME NEW S, IsFiniteSet(S), NEW t, t \notin S
    PROVE  Cardinality(S \cup {t}) = Cardinality(S) + 1
BY FS_AddElement

LEMMA CountAfterLeaving ==
    ASSUME NEW S, IsFiniteSet(S), NEW t \in S
    PROVE  Cardinality(S \ {t}) = Cardinality(S) - 1
BY FS_RemoveElement

(* The sentinel is no stage.                                               *)
LEMMA SentinelIsNoStage == NumberOfEntries \notin Stage
BY ThreadAssignmentsAssumption DEF NumberOfEntries, Stage

-----------------------------------------------------------------------------
(* How each step moves the slots.  VisitingStays covers the steps inside   *)
(* a method that neither take nor free a slot.                             *)

LEMMA InitVisiting ==
    ASSUME Init
    PROVE  visiting = [t \in Threads |-> NumberOfEntries]
BY DEF Init, visiting, Outside

LEMMA VisitingStays ==
    ASSUME IInv, NEW t \in Threads,
           \/ RemoveEnd(t)
           \/ \E s \in Stage : TryRefused(t, s) \/ TryLoad(t, s)
           \/ SwapFails(t)
           \/ Assign(t)
    PROVE  visiting' = visiting
<1>1. CASE RemoveEnd(t)
    BY <1>1 DEF RemoveEnd, IInv, TypeOK, Call, visiting, Outside
<1>2. CASE \E s \in Stage : TryRefused(t, s)
    BY <1>2 DEF TryRefused, vars, visiting
<1>3. CASE \E s \in Stage : TryLoad(t, s)
    BY <1>3 DEF TryLoad, IInv, TypeOK, Call, visiting
<1>4. CASE SwapFails(t)
    BY <1>4 DEF SwapFails, IInv, TypeOK, Call, visiting, Outside
<1>5. CASE Assign(t)
    BY <1>5 DEF Assign, IInv, TypeOK, Call, visiting, Outside
<1> QED
    BY <1>1, <1>2, <1>3, <1>4, <1>5

LEMMA RemoveBeginFreesSlot ==
    ASSUME IInv, NEW t \in Threads, RemoveBegin(t)
    PROVE  /\ visiting[t] = threadAssignment[t]
           /\ threadAssignment[t] \in Stage
           /\ visiting' = [visiting EXCEPT ![t] = NumberOfEntries]
BY DEF RemoveBegin, Assigned, IInv, TypeOK, Call, visiting

LEMMA SwapTakesSlot ==
    ASSUME IInv, NEW t \in Threads, Swap(t)
    PROVE  /\ visiting[t] = NumberOfEntries
           /\ call[t].next \in Stage
           /\ visiting' = [visiting EXCEPT ![t] = call[t].next]
BY DEF Swap, Assigned, CallConsistent, IInv, TypeOK, Call, visiting

-----------------------------------------------------------------------------
(* How taking and freeing a slot change the sets of visitors               *)

LEMMA VisitorsAfterRemoveBegin ==
    ASSUME IInv, NEW t \in Threads, RemoveBegin(t), NEW s \in Stage
    PROVE  Cardinality(Visitors(s))' =
              IF s = threadAssignment[t] THEN Cardinality(Visitors(s)) - 1
                                         ELSE Cardinality(Visitors(s))
<1>1. /\ visiting[t] = threadAssignment[t]
      /\ visiting' = [visiting EXCEPT ![t] = NumberOfEntries]
    BY RemoveBeginFreesSlot
<1>2. NumberOfEntries # s
    BY SentinelIsNoStage
<1>3. CASE s = threadAssignment[t]
  <2>1. Visitors(s)' = Visitors(s) \ {t} /\ t \in Visitors(s)
      BY <1>1, <1>2, <1>3 DEF Visitors, visiting
  <2> QED
      BY <1>3, <2>1, VisitorsFinite, CountAfterLeaving
<1>4. CASE s # threadAssignment[t]
  <2>1. Visitors(s)' = Visitors(s)
      BY <1>1, <1>2, <1>4 DEF Visitors, visiting
  <2> QED
      BY <1>4, <2>1
<1> QED
    BY <1>3, <1>4

LEMMA VisitorsAfterSwap ==
    ASSUME IInv, NEW t \in Threads, Swap(t), NEW s \in Stage
    PROVE  Cardinality(Visitors(s))' =
              IF s = call[t].next THEN Cardinality(Visitors(s)) + 1
                                  ELSE Cardinality(Visitors(s))
<1>1. /\ visiting[t] = NumberOfEntries
      /\ visiting' = [visiting EXCEPT ![t] = call[t].next]
    BY SwapTakesSlot
<1>2. NumberOfEntries # s
    BY SentinelIsNoStage
<1>3. CASE s = call[t].next
  <2>1. Visitors(s)' = Visitors(s) \cup {t} /\ t \notin Visitors(s)
      BY <1>1, <1>2, <1>3 DEF Visitors, visiting
  <2> QED
      BY <1>3, <2>1, VisitorsFinite, CountAfterEntering
<1>4. CASE s # call[t].next
  <2>1. Visitors(s)' = Visitors(s)
      BY <1>1, <1>2, <1>4 DEF Visitors, visiting
  <2> QED
      BY <1>4, <2>1
<1> QED
    BY <1>3, <1>4

-----------------------------------------------------------------------------
(* The inductive invariant                                                 *)

LEMMA InitIInv == Init => IInv
<1> SUFFICES ASSUME Init PROVE IInv
    OBVIOUS
<1>1. TypeOK
    BY ThreadAssignmentsAssumption DEF Init, TypeOK, Call, Outside
<1>2. maximumConcurrency = MaxConcurrency /\ CallConsistent
    BY DEF Init, CallConsistent, Outside
<1>3. \A s \in Stage : Cardinality(Visitors(s)) = 0
  <2>1. ASSUME NEW s \in Stage PROVE Visitors(s) = {}
      BY InitVisiting, SentinelIsNoStage DEF Visitors
  <2> QED
      BY <2>1, FS_EmptySet
<1>4. VisitorCountExact
    BY <1>3 DEF VisitorCountExact, Init
<1>5. ConcurrencyRespected
    BY <1>3, ThreadAssignmentsAssumption DEF ConcurrencyRespected
<1> QED
    BY <1>1, <1>2, <1>4, <1>5 DEF IInv

(* A step inside a method that neither takes nor frees a slot.             *)
LEMMA QuietStepIInv ==
    ASSUME IInv, NEW t \in Threads,
           \/ RemoveEnd(t)
           \/ ~Assigned(t) /\ \E s \in Stage : TryRefused(t, s) \/ TryLoad(t, s)
           \/ SwapFails(t)
           \/ Assign(t)
    PROVE  IInv'
<1>1. visiting' = visiting
    BY VisitingStays
<1>2. threadsPerStage' = threadsPerStage /\ maximumConcurrency' = maximumConcurrency
    BY DEF RemoveEnd, TryRefused, TryLoad, SwapFails, Assign, vars
<1>3. VisitorCountExact' /\ ConcurrencyRespected'
    BY <1>1, <1>2 DEF IInv, VisitorCountExact, ConcurrencyRespected, Visitors
<1>4. TypeOK' /\ CallConsistent'
  <2>1. CASE RemoveEnd(t)
      BY <2>1, SentinelIsNoStage DEF RemoveEnd, IInv, TypeOK, Call, CallConsistent, Outside, Assigned
  <2>2. CASE \E s \in Stage : TryRefused(t, s)
      BY <2>2 DEF TryRefused, vars, IInv, TypeOK, CallConsistent, Assigned
  <2>3. CASE ~Assigned(t) /\ \E s \in Stage : TryLoad(t, s)
      BY <2>3 DEF TryLoad, HasRoom, IInv, TypeOK, Call, CallConsistent, Assigned
  <2>4. CASE SwapFails(t)
      BY <2>4 DEF SwapFails, IInv, TypeOK, Call, CallConsistent, Outside, Assigned
  <2>5. CASE Assign(t)
      BY <2>5 DEF Assign, IInv, TypeOK, Call, CallConsistent, Outside, Assigned
  <2> QED
      BY <2>1, <2>2, <2>3, <2>4, <2>5
<1> QED
    BY <1>2, <1>3, <1>4 DEF IInv

LEMMA RemoveBeginIInv ==
    ASSUME IInv, NEW t \in Threads, RemoveBegin(t)
    PROVE  IInv'
<1>1. threadAssignment[t] \in Stage /\ visiting[t] = threadAssignment[t]
    BY RemoveBeginFreesSlot
<1>2. VisitorCountExact'
    BY <1>1, VisitorsAfterRemoveBegin
    DEF RemoveBegin, IInv, TypeOK, VisitorCountExact
<1>3. ConcurrencyRespected'
  <2>1. \A s \in Stage : Cardinality(Visitors(s))' <= Cardinality(Visitors(s))
      BY VisitorsAfterRemoveBegin, VisitorsFinite
  <2> QED
      BY <2>1, VisitorsFinite, VisitorsAfterRemoveBegin, ThreadAssignmentsAssumption
      DEF IInv, ConcurrencyRespected
<1>4. TypeOK' /\ CallConsistent'
  <2>1. threadsPerStage[threadAssignment[t]] >= 1
    <3>1. t \in Visitors(threadAssignment[t])
        BY <1>1 DEF Visitors
    <3>2. Cardinality(Visitors(threadAssignment[t])) # 0
        BY <3>1, VisitorsFinite, FS_EmptySet
    <3> QED
        BY <1>1, <3>2, VisitorsFinite DEF IInv, TypeOK, VisitorCountExact
  <2>2. threadsPerStage' \in [Stage -> Nat]
      BY <1>1, <2>1 DEF RemoveBegin, IInv, TypeOK
  <2>3. call' \in [Threads -> Call] /\ CallConsistent'
      BY DEF RemoveBegin, IInv, TypeOK, Call, CallConsistent, Assigned
  <2> QED
      BY <2>2, <2>3 DEF RemoveBegin, IInv, TypeOK
<1> QED
    BY <1>2, <1>3, <1>4 DEF RemoveBegin, IInv

LEMMA SwapIInv ==
    ASSUME IInv, NEW t \in Threads, Swap(t)
    PROVE  IInv'
<1> DEFINE n == call[t].next
<1>1. n \in Stage /\ threadsPerStage[n] = call[t].currentVisitors
    BY SwapTakesSlot DEF Swap, Unchanged
<1>2. VisitorCountExact'
    BY <1>1, VisitorsAfterSwap, VisitorsFinite
    DEF Swap, IInv, TypeOK, VisitorCountExact
<1>3. ConcurrencyRespected'
  <2>1. Cardinality(Visitors(n)) < MaxConcurrency[n]
      BY <1>1 DEF Swap, IInv, CallConsistent, VisitorCountExact
  <2> QED
      BY <1>1, <2>1, VisitorsAfterSwap, VisitorsFinite, ThreadAssignmentsAssumption
      DEF IInv, ConcurrencyRespected
<1>4. TypeOK' /\ CallConsistent'
    BY <1>1 DEF Swap, IInv, TypeOK, Call, CallConsistent, Assigned
<1> QED
    BY <1>2, <1>3, <1>4 DEF Swap, IInv

LEMMA StutterIInv == IInv /\ UNCHANGED vars => IInv'
BY DEF IInv, vars, TypeOK, CallConsistent, Assigned, VisitorCountExact,
       ConcurrencyRespected, Visitors, visiting

LEMMA NextIInv == IInv /\ [Next]_vars => IInv'
<1> SUFFICES ASSUME IInv, [Next]_vars PROVE IInv'
    OBVIOUS
<1>1. CASE UNCHANGED vars
    BY <1>1, StutterIInv
<1>2. ASSUME NEW t \in Threads, NextStage(t) PROVE IInv'
    BY <1>2, QuietStepIInv, RemoveBeginIInv, SwapIInv DEF NextStage
<1> QED
    BY <1>1, <1>2 DEF Next

LEMMA Invariance == Spec => []IInv
BY InitIInv, NextIInv, PTL DEF Spec

-----------------------------------------------------------------------------
(* The object and the locals of its methods keep their types; in           *)
(* particular the atomic decrement never wraps an unsigned counter.        *)
THEOREM TypeCorrect == Spec => []TypeOK
<1>1. IInv => TypeOK
    BY DEF IInv
<1> QED
    BY <1>1, Invariance, PTL

(* Every counter is at all times the number of threads that hold a slot of *)
(* its stage.                                                              *)
THEOREM CountersExact == Spec => []VisitorCountExact
<1>1. IInv => VisitorCountExact
    BY DEF IInv
<1> QED
    BY <1>1, Invariance, PTL

(* No interleaving of removeCurrentAssignment and tryAssign lets more than *)
(* MaxConcurrency[s] threads visit stage s.                                *)
THEOREM NeverOverVisited == Spec => []ConcurrencyRespected
<1>1. IInv => ConcurrencyRespected
    BY DEF IInv
<1> QED
    BY <1>1, Invariance, PTL

(* Each method takes effect at one step: the successful compare-and-swap   *)
(* of tryAssign and the decrement of removeCurrentAssignment.              *)
THEOREM Refinement == Spec => ImplementsSlots
<1>1. Init => Slots!Init
    BY InitVisiting DEF Slots!Init, Slots!NumberOfEntries, NumberOfEntries
<1>2. IInv /\ [Next]_vars => [Slots!Next]_visiting
  <2> SUFFICES ASSUME IInv, [Next]_vars
               PROVE  Slots!Next \/ visiting' = visiting
      OBVIOUS
  <2>1. CASE UNCHANGED vars
      BY <2>1 DEF vars, visiting
  <2>2. ASSUME NEW t \in Threads, RemoveBegin(t) PROVE Slots!Next
    <3>1. Slots!Leave(t)
        BY <2>2, RemoveBeginFreesSlot, SentinelIsNoStage
        DEF Slots!Leave, Slots!NumberOfEntries, NumberOfEntries
    <3> QED
        BY <3>1 DEF Slots!Next
  <2>3. ASSUME NEW t \in Threads, Swap(t) PROVE Slots!Next
    <3>1. Cardinality(Visitors(call[t].next)) < MaxConcurrency[call[t].next]
        BY <2>3, SwapTakesSlot
        DEF Swap, Unchanged, IInv, CallConsistent, VisitorCountExact
    <3>2. Slots!Enter(t, call[t].next) /\ call[t].next \in Slots!Stage
        BY <2>3, <3>1, SwapTakesSlot
        DEF Slots!Enter, Slots!Visitors, Visitors, Slots!Stage, Stage,
            Slots!Cardinality, Cardinality, Slots!NumberOfEntries, NumberOfEntries
    <3> QED
        BY <3>2 DEF Slots!Next
  <2>4. ASSUME NEW t \in Threads, NextStage(t) PROVE Slots!Next \/ visiting' = visiting
      BY <2>2, <2>3, <2>4, VisitingStays DEF NextStage
  <2> QED
      BY <2>1, <2>4 DEF Next
<1> QED
    BY <1>1, <1>2, Invariance, PTL DEF Spec, ImplementsSlots, Slots!Spec
=============================================================================
