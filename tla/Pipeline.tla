------------------------------ MODULE Pipeline ------------------------------
(***************************************************************************)
(* What a chain of stages visited by one thread at a time amounts to: each *)
(* stage is a first-in first-out server, and a message is in one inbox at  *)
(* a time, moves on in one step, and never overtakes another.  Where       *)
(* functors may throw, a stage may lose the message it is given, and that  *)
(* message only.                                                           *)
(***************************************************************************)
EXTENDS Integers, Sequences

CONSTANTS
    NumberOfStages,
    Producers,
    Script,             \* Script[p]: what p sends into stage 0, in order
    Lossy               \* whether a stage may lose a message

Stage == 0 .. NumberOfStages - 1
LastStage == NumberOfStages - 1

VARIABLES
    pending,            \* pending[p]: what p has still to send
    inbox,              \* inbox[s]: waiting at s or being handled there
    delivered           \* what has left the last stage

vars == <<pending, inbox, delivered>>

Init ==
    /\ pending = Script
    /\ inbox = [s \in Stage |-> <<>>]
    /\ delivered = <<>>

Inject(p) ==
    /\ pending[p] # <<>>
    /\ inbox' = [inbox EXCEPT ![0] = Append(@, Head(pending[p]))]
    /\ pending' = [pending EXCEPT ![p] = Tail(@)]
    /\ UNCHANGED delivered

Move(s) ==
    /\ s # LastStage
    /\ inbox[s] # <<>>
    /\ inbox' = [inbox EXCEPT ![s] = Tail(@), ![s + 1] = Append(@, Head(inbox[s]))]
    /\ UNCHANGED <<pending, delivered>>

Deliver ==
    /\ inbox[LastStage] # <<>>
    /\ delivered' = Append(delivered, Head(inbox[LastStage]))
    /\ inbox' = [inbox EXCEPT ![LastStage] = Tail(@)]
    /\ UNCHANGED pending

Lose(s) ==
    /\ Lossy
    /\ inbox[s] # <<>>
    /\ inbox' = [inbox EXCEPT ![s] = Tail(@)]
    /\ UNCHANGED <<pending, delivered>>

Next ==
    \/ \E p \in Producers : Inject(p)
    \/ \E s \in Stage : Move(s) \/ Lose(s)
    \/ Deliver

Spec == Init /\ [][Next]_vars
=============================================================================
