# A formal model of wield

wield is a header-mostly C++ library for staged, event-driven applications (SEDA).
An application is a graph of *stages*; each stage is a queue plus a functor. A
*scheduler* runs a pool of threads, a *scheduling policy* tells each thread which
stage to visit next, a *polling policy* how long to stay there, and a *dispatcher*
carries reference-counted messages from stage to stage.

This directory models that machinery in TLA+, checks it with TLC and proves facts
about its core with TLAPS. All paths below are relative to the repository
(`wield/...` means `src/wield/...` of the project layout used in `PROJECT.json`).

Contents: 1 inventory, 2 modules and plan, 3 how the models correspond to the code,
4 what each run shows, 5 bounds, 6 fairness, 7 proofs, 8 what the work has found,
9 what is not modelled.

## 1. Inventory

| Component | State | Operations | Interacts with |
|---|---|---|---|
| `schedulers/utils/ThreadAssignments.hpp` | `threadAssignment_[thread]` (plain, one writer each), `threadsPerStage_[stage]` (atomic), `maximumConcurrency_` (constant) | `removeCurrentAssignment`, `tryAssign`, `currentAssignment`, `size` | called by the policies, from all threads at once |
| `StageBase.hpp` | a reference to a queue and one to a functor | `push`, `process` | `process` is called by the scheduler, `push` by the dispatcher |
| `DispatcherBase.hpp` | `stages_`, filled before the threads start | `registerStage`, `dispatch` (share or clone), `operator[]` | called by functors and by code outside the scheduler |
| `MessageBase.hpp`, `details/SmartPtrCreator.hpp` | an intrusive atomic reference count | increment, decrement, adopt a pointer | queues hold counted raw pointers |
| `adapters/FanoutProcessingFunctor.hpp`, `adapters/dynamic/...` | the list of next stages | `dispatch` to each in order, `updateStages` (dynamic) | run inside functors |
| `SchedulerBase.hpp` | `threads_`, `done_` (atomic) | `start`, `stop`, `join`; per thread `tryProcess`, `process` | asks the policy, calls the stage |
| `polling_policies/ExhaustivePollingPolicy.hpp` | `hadMessage_` per batch | `continueProcessing`, `incrementMessageCount` | base class of the policies |
| `src/NumberOfThreads.cpp` | none | `numberOfThreads(n)` | sizes the thread pool |
| `schedulers/RoundRobin.hpp` | slots | `nextStage`, `incrementStage` | |
| `schedulers/SRPT.hpp` | slots, `hadMessages_` (one plain bool for all threads) | `nextStage`, `decrementStage`, `batchEnd` | |
| `schedulers/RandomVisit.hpp` | slots, per-thread visit tables | `nextStage`, `randomStage`, `randomShuffle`, `initVisitTable` | |
| `schedulers/ThreadPerStage.hpp` | none | `nextStage` | thread ids equal stage indices |
| `schedulers/color/*` | slots, a shared queue of stage names | `nextStage`, `dequeNextStage`; the dispatcher pushes a name per message | |
| `schedulers/color_minus/*`, `utils/MessageCount.hpp` | slots, two plain arrays of counters | `nextStage`, `increment`, `updatePrevious`, `highwaterStage` | |
| `adapters/polymorphic/MultipleInputQueueAdapter.hpp` | queues, `which_` | `try_pop`, `addQueue`, `push` (throws) | stands for a stage's queue |
| `PassThroughStageQueue.hpp`, `ProcessingFunctorChain.hpp` | functors | `push` processes at once | recursion into the sender's thread |
| `logging/`, `Exceptions.*`, `Traits.hpp`, `platform/` | the logging policy | output, types | |
| `tests/unit_test/examplePoisonPill-UT.cpp`, `poison_pill/` | a counter in the pill | `PoisonPill::done()` | how an application ends itself |

What makes it hard:

* **Concurrency without locks.** The slots of a stage are handed out by a load, a
  comparison and a compare-and-swap, and given back by a decrement that precedes
  the clearing of the assignment.
* **Ownership across threads.** A message may be in a queue, in the hands of the
  thread that sent it and in those of the thread that received it at once; whoever
  gives the last reference up deletes it.
* **Order.** Nothing but the slot count keeps two messages of a stage in order.
* **Failure.** An exception in a functor ends its thread for good, in the middle of a
  batch, with the slot still taken and the remaining dispatches not made.
* **Termination.** `stop` is noticed between batches only, and never inside `nextStage`.
* **Starvation.** Policies prefer some stages, or find stages busy whenever they look.
* **Two-step bookkeeping.** Color and ColorMinus learn of a message after it is in its
  queue, through a shared queue of names or through plain counters that threads overwrite.
* **Inline processing.** A pass-through queue runs the receiver's functor inside the
  sender's, in as many threads as send to it.
* **Edges.** No reported cores; index arithmetic that wraps at both ends of the enum, or
  goes past the end of an array.

What would make each component correct: exact slot counts and no over-visited stage
(ThreadAssignments); exact reference counts, no double and no lost delivery (data
path, adapters); order per stage where it has one slot, no starvation, no message whose
stage no thread will ever look at again (policies); `join` returns after `stop`
(scheduler); the stop overtakes no message (poison pill); queues that share a stage take
turns (input queue adapter). `PROJECT.json` lists the hazards line by line, with the
properties that watch them.

## 2. Modules and plan

```
                    Pipeline  <··implements··  StageFlow        QueueAdapters
                                                   |
  VisitorSlots <··implements·· ThreadAssignments   |
                                     |        SchedulerBase
                                     |         |       |
                                    AssignmentPolicy   |
                                     |        |        |
                  Color, ColorMinus -+   RoundRobin   ThreadPerStage
                                         SRPT          |       |
                                         RandomVisit   |   PoisonPill
                                              |        |
                                              Policies
```

| Module | What it is |
|---|---|
| `VisitorSlots` | abstract: threads enter a stage with room and leave it, in one step each |
| `ThreadAssignments` | the class, one action per atomic operation, under the most general client |
| `ThreadAssignmentsProofs` | theorems about it |
| `Pipeline` | abstract: a chain of first-in first-out servers, which may lose a message if `Lossy` |
| `StageFlow` | stages, dispatcher, messages and fanout, with any worker at any stage |
| `StageFlowProofs` | theorems about it |
| `SchedulerBase` | start/stop/join and the loop of each thread, around `StageFlow`; any policy |
| `AssignmentPolicy` | `SchedulerBase` x `ThreadAssignments`: any policy built on slots |
| `AssignmentPolicyProofs` | theorems about it, those of `ThreadAssignments` and `StageFlow` among them |
| `RoundRobin`, `SRPT`, `RandomVisit` | that, with the order in which stages are tried |
| `ThreadPerStage` | `SchedulerBase` with the fixed assignment |
| `Policies`, `PoliciesProofs` | one application under whichever of these four its scheduler is built with, and theorems |
| `Color`, `ColorProofs` | `AssignmentPolicy` with the shared queue of stage names and its dispatcher, and theorems |
| `ColorMinus`, `ColorMinusProofs` | `AssignmentPolicy` with the message counters and their dispatcher, and theorems |
| `QueueAdapters`, `QueueAdaptersProofs` | stages behind several input queues, pass-through queues and functor chains, and theorems |
| `PoisonPill`, `PoisonPillProofs` | the example application on `ThreadPerStage`, and a theorem |
| `MC*` | instances for TLC: routes, scripts and slot counts as definitions |

Composition is by `INSTANCE` over shared variables: a module of a larger part uses
the actions of the smaller ones and says what happens to the rest of the state. The four
policies of `Policies` have actions only; their properties are stated once, there.

Everything in the table is done, and every safety property that a run checks is also proved
(section 7); what is left to the runs alone is liveness.

## 3. Models and code

**ThreadAssignments.** `call[t]` holds the program point and the locals of the method
thread `t` is in. `removeCurrentAssignment` is `RemoveBegin` (the atomic decrement)
and `RemoveEnd` (the vector element); reading the thread's own element needs no step.
`tryAssign` is `TryRefused` or `TryLoad` (load and comparison), `Swap` or `SwapFails`
(the compare-and-swap), and `Assign`. Atomics are sequentially consistent in the
code, so one global state is faithful. The vector is written by its own thread only.
The client `NextStage` is what all policies do with the object.

**StageFlow.** A message is a record in `heap`, addressed by its number and never
reused, with a count and whether it is `live`. `frame[a]` is the C++ stack frame that
matters: the local smartptr (`hand`), a pointer that has been counted and not yet
pushed (`carry`), the dispatches still to be made (`todo`) and the stage whose functor
runs (`at`). A dispatch is two steps, `Retain` (or `Copy`) and `Push`, since the other
threads can see the difference. Queues are the concurrent FIFO queues the library is
instantiated with (`tbb::concurrent_queue`), whose `push` and `try_pop` are atomic.
`Throw` may happen between any two dispatches of a functor. Functors are abstracted to
the dispatches they make: `Route[s]`. `EntryStage[p]` is the stage producer `p` dispatches
to. `served` and `thrown` are history.

**SchedulerBase.** `thread[t].pc`: `check` (at `while(!done())`), `next` (in
`nextStage`), `poll` (before `stage.process()`), `work` (in the functor), `ended`
(before `batchEnd`), `exited`. `hadMessage` is the polling information's. Actions of
`StageFlow` are those of the thread while it polls and works. `NumberOfThreads` is
what the policy's `numberOfThreads()` returns.

**AssignmentPolicy.** While `pc` is `next`, the thread steps through
`ThreadAssignments`; the step that records the assignment is followed by the one that
starts the batch. `numberOfThreads` is the function of `NumberOfThreads.cpp`.

**RoundRobin, SRPT.** `next[t]` is the local variable of `nextStage`, constrained to
follow `incrementStage` or `decrementStage`; the latter subtracts in `size_t`, here of
16 bits (`Values`; every width that holds `NumberOfEntries` gives the same function).
SRPT's `hadMessages` is the shared member, read after the assignment is removed. It is
accessed without synchronisation in the code; as every value ever written to it is the
same (theorem `NeverRestarts`), the race has no further outcome under exhaustive polling.

**RandomVisit.** `Init` chooses any table `initVisitTable` may draw for each thread,
which need not hold every stage; `randomStage` reads the entry at `visitIndex`, at whose
end `randomShuffle` leaves any permutation of the table (`Shuffles`, by the bijections of
its indices).

**ThreadPerStage.** `nextStage(t)` is `Visit(t, t)`.

**Color.** The dispatcher's two steps are the push of `DispatcherBase` (`AfterPush` notes
which name has still to be pushed) and `Name`. In `nextStage`, `dequeNextStage` takes a
name and `Attempt` tries its stage; a refusal forgets the name, as in the code. When the
queue of names is empty, the code calls `tryAssign(threadId, NumberOfEntries)`, which
indexes two arrays one past their end. The behaviour is undefined; the outcome depends on
the layout of the class. The word behind `threadsPerStage_` is `maximumConcurrency_[0]`,
the next member; the word behind that is what follows the policy object, which is left
open: `Beyond` is the set of values it may hold. `TryPastTheEnd` is the outcome in which the
increment happens; without it the call changes nothing. A success also writes
`NumberOfEntries` to the thread's own assignment, which is the value it has already, and
`nextStage` goes on searching, since no stage has been found.

**ColorMinus.** `previous` and `current` are plain integers that threads read and write
without synchronisation, so each load and each store is a step: `IncrementLoad` and
`IncrementStore` (dispatcher), `LoadPrevious` and `LoadCurrent` (one turn of
`highwaterStage`), `ObserveLoad` and `ObserveStore` (`updatePrevious`, which the code calls
whether the stage was assigned or not). Word-sized loads and stores are taken to be
indivisible, as they are on the platforms the library builds for. `misjudged` is history:
the stages for which a thread was refused or whose counter lost an increment. A functor that
throws ends its thread as everywhere; `Abandoned(s)` says that a visitor of `s` has died so,
whose slot and whose visit are then lost.

**QueueAdapters.** `stack[a]` is the stack of nested calls of actor `a`: `process`, or the
code that creates a message, and within it each `push` to a pass-through queue, with the
functors of the chain still to run. `Throw` unwinds all of it: only the outermost call
holds a smartptr, so the references the pushes were to give back stay behind (`leaked`).
`search` is the local state of `MultipleInputQueueAdapter::try_pop`, of which there is one,
as the stage has one visitor. `Enter` condenses the scheduler and its policy to what matters
here: a worker goes from its stage to another one that has a slot.

**PoisonPill.** One extra program point per functor (`pillCall`): the pill's functor
first counts (`++count_`, atomic), then perhaps calls `stop`, and then dispatches. `main`
dispatches lines and pill, joins, and releases its own reference to the pill last.

## 4. Runs

| Run | Question | Result |
|---|---|---|
| `thread_assignments` | Are slot counts exact and bounded? Do the atomic operations implement the abstract slots? | yes |
| `stage_flow` | Are reference counts exact, with copies, fanout and exceptions? Is nothing delivered twice, and nothing lost but by an exception? | yes |
| `assignment_policy` | Three stages, one slot each, functors that throw: is the system a FIFO pipeline under any policy, which loses at an exception the message in hand only? Are functors run by too many threads? Do the threads stay within the protocol of the slots? | yes; no; yes |
| `policies` | Under each of RoundRobin, SRPT, RandomVisit and ThreadPerStage: is every stage served and everything freed? Does `stop` work, also after threads have died in functors? | yes, but for stages missing from all random tables; yes, unless a thread finds all its stages held by threads that have ended |
| `srpt_flag` | Does SRPT's flag record that the last batch had messages, for the search to start over at the end? | **no**: it is never set |
| `poison_pill` | Does the pill never overtake a line, and does the application end with nothing leaked? | yes |
| `color` | Does a waiting message always have a name on its way? Is everything served? Does what happens past the arrays spare the later stages? Do batches end after `stop`? | yes; yes, unless a refused thread forgets a name; yes; yes |
| `color_stranded` | And is everything served, whatever is refused? | **no**: a message stays in its queue |
| `color_over_visited` | Does the first stage keep to its maximum concurrency? | **no** |
| `color_minus` | Is no stage taken as seen while a message waits that nobody will visit? Is everything served? | yes, where no functor throws, no thread is refused and no increment is lost |
| `color_minus_counts` | Do the counters only grow? | **no**: dispatches overwrite each other |
| `queue_adapters` | Do the input queues take turns, and does a search find what is there? Are counts exact and is every message handled once, through chains that run inside the sender? | yes, but for what exceptions leave behind |

Every property of a passing run has a *mutant*: a definition changed the way a slip in
the code would change it (a store for a compare-and-swap, `<=` for `<`, a missing
decrement, a wrap one stage too soon, a message counted before it is pushed ...), under
which TLC finds the property violated.

Deadlock is not checked (`CHECK_DEADLOCK FALSE`) where the modelled program may end:
everything that includes producers, since they run out of messages and threads exit.
`MCThreadAssignments`, in which threads go on for ever, is checked for deadlock.

## 5. Bounds

State is bounded by the constants, not by state constraints.

* *Threads*: two or three. Two are enough for every race on one counter or one
  message; three are used where a third matters (a stage with two slots, or two
  threads changing a counter under one that has loaded it).
* *Stages*: two or three (four in `PoisonPill`, which needs the fork, five in
  `QueueAdapters`: two inputs, the stage that reads them, the chain and a stage behind it).
  Two give a first and a last stage and both ways to wrap; three give a middle stage, from
  which SRPT's own test expects the search to start over (`srpt_flag`).
* *Messages*: two, so that one can overtake the other; one where the state space is large
  and order is not in question (`policies`). `color_minus` has one and its copy, both sent to
  the second stage by one functor, so that the two visits and the two counts can overlap;
  `queue_adapters` has four, two in one input queue.
* *Slots*: one or two per stage; one is what makes order, two what makes a counter more
  than a lock. The pass-through stage has none: no thread is to visit it.
* *Tables*: `TableSizeFactor = 1`, so a table of two entries may hold one stage twice.
* *Beyond*: `{0, 2}`, a word that never lets the search past the arrays succeed and one
  that does as often as it can matter for two threads. Larger values let it succeed more
  often, to no further effect with two threads. `color_stranded` uses `{0}`, so
  that its counterexample owes nothing to undefined behaviour.
* *Symmetry*: of threads in `thread_assignments` and of workers in `queue_adapters`, neither
  of which has a liveness property.
* *Exceptions*: any functor may throw in every run but those of the poison pill and of the
  disagreements, whose counterexamples then owe nothing to exceptions.

## 6. Fairness

Weak fairness of each processing thread, of each producer and of the thread in
`start`/`join`: the operating system runs every runnable thread eventually, and none of
the modelled operations blocks. There is no strong fairness, and none for any outcome
of a race: a compare-and-swap may lose every time TLC can arrange it, the words behind
Color's arrays hold what they like, and a shuffle may leave the table as it is. Nobody is
obliged to call `stop`, so liveness properties read "... or `done`". A thread that spins in
`nextStage` takes steps all the time, so weak fairness does not by itself make it find a
stage; that it does is what the runs check.

In Color, a thread with nothing to do repeats a call without effect. That is a stutter, and
no step is demanded of it; a thread that can take a name is enabled for as long as there is
one, and other threads that take it instead serve the stage in its place.

## 7. Proofs

`ThreadAssignmentsProofs`, for any finite set of threads, any number of stages and any
maximum concurrencies (`ThreadAssignmentsAssumption` is all that is assumed):

* `TypeCorrect`: `Spec => []TypeOK`. A counter is a natural number: no decrement wraps.
* `CountersExact`: `Spec => []VisitorCountExact`.
* `NeverOverVisited`: `Spec => []ConcurrencyRespected`.
* `Refinement`: `Spec => ImplementsSlots`.

The argument. A thread *occupies* a slot from its successful compare-and-swap until its
decrement, which is not the interval in which `threadAssignment_` names the stage; the
state function `visiting` says which stage that is. The counter of a stage is then the
number of threads visiting it (`VisitorCountExact`), and each step changes that set by at
most one thread: lemmas about `Cardinality` of a set with an element more or less carry
it through `RemoveBegin` and `Swap`. Types alone are not inductive: the decrement stays
above zero because the set of visitors contains the thread that decrements; and the bound
is not inductive without knowing that a thread between load and swap has loaded a value
below the maximum and holds no slot. `IInv` therefore joins `TypeOK`, the constancy of
`maximumConcurrency`, `CallConsistent`, `VisitorCountExact` and `ConcurrencyRespected`.
The refinement maps `visiting` to `visiting`: `Swap` is `Enter`, `RemoveBegin` is `Leave`,
and all else stutters; the guard of `Enter` is the loaded value, still current when the
swap succeeds.

`AssignmentPolicyProofs`, for any number of stages, slots, threads and messages, any
routes and scripts, with or without exceptions (`AssignmentPolicyAssumption` is all that
is assumed):

* `Protocol`: `Spec => KeepsProtocol`. Every behaviour of the running system is, on the
  variables of its `ThreadAssignments`, a behaviour of that module.
* `Concurrency`: `Spec => []FunctorConcurrency`.

The argument. `SlotsAssumption` shows that the instance `Slots` meets the assumption of
`ThreadAssignments`, whose theorems then hold of it. Each action of the system is a step
of `Slots` or leaves its variables alone (`NextAssignments`); this needs that a thread in
`nextStage` is one of the threads the object was sized for, which `NumberOfThreadsBounded`
gives, whatever the number of cores. With `Protocol`, `NeverOverVisited` holds of the
system (`SlotsInPolicy`). `FunctorConcurrency` speaks of threads in functors, not of
slots: the invariant `BatchInSlot` says that a thread in a batch occupies a slot of the
stage it works at, so the threads at a stage are among those that visit it, and the bound
carries over.

`StageFlow`'s data path is instantiated in the same way (`Data`): `DataPath` shows that what
the threads do to messages, counts and queues are steps of `StageFlow`, for any policy, and
its theorems hold of the running system (`MessagesKept`, `NeverTwice`; `Types` for everything
the scheduler keeps). The invariant is `Sound`: `Slots!IInv`, `BatchInSlot` and
`Data!Arriving`. `BatchInSlot` is needed here too, as only a thread in a batch is in a functor.

* `InOrder`: `Spec => ImplementsPipeline`, where the stages form a chain with one slot each
  (`OneSlotChain`, met by `MCAssignmentPolicy`).

One slot is one visitor (`OneSlotOneVisitor`): with `AtWork`, which says that a functor runs only
in a thread that is in the batch of its stage, two threads in the functor of one stage would both
visit it. So `InOrder` of `StageFlowProofs` applies. A thread that dies in a functor keeps its
slot, and nobody comes after it.

`StageFlowProofs`, for any stages, routes (cycles included), producers, scripts and
threads, with or without exceptions (`StageFlowAssumption`):

* `Types`: `Spec => []TypeOK`. `refs \in Nat` says that no release finds a count of zero.
* `CountsExact`: `Spec => []RefCountExact`.
* `Delivery`: `Spec => []NothingLost`.
* `NeverTwice`: `Spec => []AtMostOnce`, where there is at most one way from a stage to another
  (`OneWay`) and contents are distinct (`DistinctContents`). Both are conditions on the
  application, as a diamond of routes delivers twice by design; `MCStageFlow` meets them, and
  TLC evaluates them there.
* `InOrder`: `Spec /\ []OneVisitor => ImplementsPipeline`, where the stages form a chain
  (`InAChain`) and no two workers ever run the functor of one stage (`OneVisitor`). Who sees to the
  latter is not the data path's concern: slots do, in `AssignmentPolicyProofs`.

The argument. A count is only known to be positive because something is known to refer to the
message, and it is only exact if all references are: `IInv` joins the types, `Coherent` (a call
that is under way owns a message, and what it carries is for the first of its remaining
dispatches) and `Counted` (the sets of queue slots, hands and carriers of a message are finite
and their cardinalities add up to its count). A push moves one slot from a carrier to a queue;
`PushPlaces`, `PopPlaces` and `AssignHolders` say what a push, a pop and an assignment do to the
cardinalities.
`NothingLost` speaks of rest only. Its invariant `AllArrive` speaks of every state: a
content that is due at a stage, because it was created for it or because a stage that
dispatches to it has begun it, is in the queue or the functor of the stage, processed by it, about
to be dispatched to it or among those thrown. `AtMostOnce` is not inductive either: that a stage
has a content once does not keep a second one from being on its way. `AllOnce` follows the
content along the stages that lead to `s` (the set `W` of `Way`) and says that it is in one
place of it: in a script, a queue of `W`, a dispatch into `W`, the functor of `s` or its history.
For `InOrder`, a push to the next stage is `Move`, the return from the last functor `Deliver`, an
exception before the push `Lose`, and all else stutters. `OnRoute` (what a functor has still to
dispatch goes to the next stage) names the queue that is pushed to; `InboxKnown` spells the inbox
of a stage out, as the content of the one message that is handled there, if any, before those of the
queue. The refinement mapping says it by a choice of an order of the handlers, which is a
choice only with two of them.

`PoliciesProofs`, under `PoliciesAssumption` (for RandomVisit some stage may be
visited; for ThreadPerStage there are as many threads as stages):

* `Refinement`: RoundRobin, SRPT and RandomVisit implement `AssignmentPolicy`.
* `Types`, `Concurrency` and `MessagesKept`.
* `NeverRestarts`: `Spec => []~hadMessages`. The counterexample of `srpt_flag` is no accident of
  its instance: the flag is never set in any application.
* `InOrder` and `NeverTwice`, of RoundRobin, SRPT and RandomVisit, by `Refinement` and the
  theorems of `AssignmentPolicyProofs`, under the same conditions on the application.

The argument. `Refinement` needs that the wrapped indices and the entries of the tables are
stages, whence `Searching`, which also says that `hadMessage` is false after a batch: with that
SRPT's flag is never set. ThreadPerStage uses no slots, so it takes no part in the refinement;
`Stationed` (a thread is only ever at its own stage) takes the place of `BatchInSlot`.

`ColorProofs`, whatever values `Beyond` holds (`ColorAssumption`):

* `Types`, `Remembered` (`Spec => []NeverForgotten`), `LaterStages`
  (`Spec => []LaterStagesRespected`) and `MessagesKept`.

The argument. The search past the end of the arrays changes `maximumConcurrency`, which no step
of `ThreadAssignments` does, so Color does not implement `AssignmentPolicy`. It does implement
it if nobody looks at the bound of stage 0: `Slots` is the instance in which that bound is above
the number of threads (`Relaxed`), and every bound but the first's follows. `NeverForgotten`
says that a waiting message has *a* name; for induction that must be counted, since two threads
may be on their way with two names of which the first finds both messages. `Counted`: the
names in the work queue, those being pushed, those that threads try and the visits they led to are
together at least as many as the messages in the queue, unless a name was refused.

`ColorMinusProofs` (`ColorMinusAssumption`):

* `Types`, `Remembered` (`Spec => []NeverForgotten`), `Concurrency` and `MessagesKept`.

The argument. ColorMinus takes the slot some steps before the visit begins (it stores what it
takes as seen in between), which in `AssignmentPolicy` is one step, so it keeps `Sound` step by
step and not by refinement.
`NeverForgotten` is inductive with `Searches`: where no stage was misjudged, what is taken as
seen has been counted (`previous <= current`, also for the value a thread has loaded and
not yet stored), and a thread past `tryAssign` has the stage or was refused it. The latter is
why a refusal has to count as misjudging.

`QueueAdaptersProofs`, for any number of input queues, any chains, any depth of nested calls
(`QueueAdaptersAssumption`: the adapter's stage has one visitor and nobody dispatches to it):

* `AdapterTypes`: `Spec => []TypeOK`; `InlineCounts`: `Spec => []RefCountExact`.
* `SearchFinds`: `Spec => []FoundIfThere`; `Turns`: `Spec => []InputsTakeTurns`.
* `OneAtATime`: `Spec => []OneFunctorAtATime`, in applications in which a functor dispatches
  to one stage at most and only the last of a chain dispatches (`OneAfterTheOther`, met by
  `MCQueueAdapters`). Without that, two functors do work on one message.

* `AllHandled`: `Spec => []NothingLost`, of every application.
* `HandledOnce`: `Spec => []ExactlyOnce`, where there is one way at most to each functor (`OneWay`)
  and contents are distinct (`DistinctContents`; both are met by `MCQueueAdapters`). `ExactlyOnce`
  joins `NothingLost` and `NeverTwice`, and only the latter needs the conditions.

The argument. The invariant `CInv` counts as in `StageFlow`, but a thread has a stack of
calls that hold messages: `Calls(m)` is a set of pairs of a thread and a depth, and every
call and return moves all depths up or down, which `MovedUp` and `ExchangePairs` carry through.
`Throw` leaves the references of all calls but the outermost
behind, and `leaked` makes up for them. For the search, `Ahead` is the distance from the index
`which_` to a queue: a queue that had a message when the search began still has it and lies
ahead (`Searched`), and one that was overtaken lies ahead of the one that overtook it
(`InTurn`). `InOneHand` says that a message is in one queue slot or with one
call that still *holds* it: that is in a functor which has not made its dispatch.

The last two theorems follow a content. Queues, scripts and stacks all change at one end, so
their places are counted from the other one, which does not move (`FromEnd`). `AllArrive` says
that a content that is due at a stage is in its queue, about to be dispatched to it, or, for every
functor behind the stage, still to be handled or handled by that functor. It is inductive with
`OneMessage` (the nested calls of a thread are all about one message, so an exception that
unwinds them all loses that one only) and `AsScripted` (what a producer has still to create is the
end of its script). `AllOnce` says that there is at most one *spot* (`Spot`) at which a content is on
its way to functor `f` or has been handled by it, for any set `V` of stages through which the way
to `f` leads (`Way`). A call to a pass-through stage turns the spot of a dispatch into that of a
functor of the nested call; a return turns nothing into anything.

`PoisonPillProofs`, for any tree of stages and any input (`PoisonPillAssumption`, `Tree`; met by
`MCPoisonPill`):

* `NoLineLost`: `Spec => []LinesBeforeStop`.

The argument. `ThreadPerStage` gives each stage one visitor (`OwnStage`), so each stage handles
its messages in their order, and what it handles comes from one place. `Ordered` says that what
a stage has got is the beginning of what `main` sends, `Linked` that it has got as many as the one
functor that dispatches to it has sent it, `Feeding` the same of `main`. `PillCounted` says that the
count is the number of stages that have counted the pill: a stage that has counted has processed
every line, as the pill is the last of what it gets, and `stop` is called when all have counted.

What stays model-checked, and why. Liveness (`ServesThenStops`, `ServedUnlessDropped`,
`ServedUnlessMisjudged`, `StopEndsBatches`, `Ends`) is beyond the prover, and so is
anything with `ENABLED`. Every invariant and every other action property or refinement of a passing
run is stated by a theorem, of the module that declares it. Applications on
ThreadPerStage other than the poison pill's take no part in `InOrder` and `NeverTwice` of
`PoliciesProofs`, which rest on slots. The four violations are counterexamples and need no
proof. No module has a recursive definition.

## 8. What the work has found

Four disagreements, each with a run that shows it:

1. *SRPT never starts over* (`srpt_flag`). The comment at its flag says that it tracks whether
   the last stage had messages, and the unit test of the policy feeds `batchEnd` a last poll that
   found one and expects the search to start over at the last stage. But `batchEnd` records the
   outcome of the *last* poll, and an exhaustive batch ends because that poll found nothing: the
   flag is never set (theorem `NeverRestarts`), and SRPT walks from the end to the beginning
   whatever it meets. Every stage is still served (`ServesThenStops`).
2. *Color can strand a message* (`color_stranded`). Two names of one stage are taken by two
   threads. The second is refused and drops its name; the first has polled the queue empty
   before the second message arrived, and leaves.
3. *Color's first stage can be over-visited* (`color_over_visited`). See section 3 for the search past
   the end of the arrays, which may increment `maximumConcurrency_[0]`.
4. *The counters of ColorMinus are not monotonic* (`color_minus_counts`). A producer stores a
   sum whose operand it has loaded before others counted.

Three more follow from what the passing runs have to except. Each comes from a promise that the
models refute as soon as the exception is dropped:

* *`join` can hang.* A thread that exits keeps its slot, and `nextStage` does not look at
  `done_`. With `maxNumberOfThreads` above the sum of the maximum concurrencies (the `MaxThreads`
  constructors allow it), the threads that hold the slots see `done_` and exit, and the others
  search for ever. `ServesThenStops` excepts them by name (`LockedOut`); without that,
  `done ~> joined` fails for RoundRobin with one stage, one slot and two threads.
* *`join` can hang under Color*, with any number of threads: the search for a name does not look
  at `done_` either, and a stopped application pushes no more names. What does hold is that
  every *batch* ends (`StopEndsBatches`); `done ~> joined` fails with the constants of
  `color_stranded`.
* *ColorMinus can strand a message.* It calls `updatePrevious` also when `tryAssign` has refused
  the stage. The messages counted until then no longer attract a thread, and the visitor because
  of which the thread was refused may have polled the queue empty before they came. `NeverForgotten`
  and `ServedUnlessMisjudged` hold with that exception, and with that of a lost increment; the
  history variable `misjudged` marks both. Without `misjudged`, `ServedUnlessMisjudged` fails
  with the constants of `color_minus` and no exceptions.

And observations that are no disagreement with a promise, or that have no run:

* *Spurious refusal.* `tryAssign` makes one attempt at a strong compare-and-swap. A thread
  that races with one that *leaves* the stage is refused although there is room. Policies
  move on to the next stage, so a visit is lost and no message, but in Color, where the
  refusal drops the name.
* *An exception through a pass-through push leaks a reference.* The message is then never
  deleted; `RefCountExact` of `QueueAdapters` accounts for it with `leaked`.
* *Chains that dispatch early.* A functor that dispatches before the end of its chain shares the
  message with the next one. The caveat of `ProcessingFunctorChain` says not to, and
  `OneFunctorAtATime` assumes that nobody does (`OneAfterTheOther`).
* *A stage may be in no table.* RandomVisit draws its tables at random, and shuffling adds
  nothing: `ServesThenStops` excepts applications some stage of which no thread ever visits.

## 9. Not modelled

* `MultipleInputQueueAdapter::push`, which always throws: an assumption of `QueueAdapters`
  says that nobody dispatches to that stage. Two visitors of that stage: `which_` is then
  a data race at each access. `unsafe_size` is not used by the library.
* Registration of stages, the move constructor of a stage, the null pointer of an
  unregistered stage: construction happens before the threads start.
* Event sources: a queue whose `try_pop` never fails keeps its thread for good.
* Raw-pointer queues (the test `exampleUsingRawPointersInQueue`): no counts, no ownership.
* `updateStages` of the dynamic fanout: a data race when used while running.
* Batch messages, aggregation and timers in the examples: functors, abstracted to `Route`.
* Queues (`tbb::concurrent_queue`), intrusive pointers, `std::thread`: external, modelled
  from how the code uses them. A push that fails to allocate is not modelled.
* Exceptions that are no `std::exception`: they end the program.
* Wrap-around of the 64-bit counters of `MessageCount`: no run of a program gets there.
* Logging, traits, platform headers, build files: no behaviour the properties are about.

