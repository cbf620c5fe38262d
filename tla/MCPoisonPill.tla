---------------------------- MODULE MCPoisonPill ----------------------------
(* The pipeline of examplePoisonPill with one line: stage 0 feeds stage 1, *)
(* which feeds stages 2 and 3.                                             *)
EXTENDS PoisonPill

MCLines == <<"a">>

To(s) == [to |-> s, clone |-> FALSE]

MCRoute == 0 :> <<To(1)>> @@ 1 :> <<To(2), To(3)>> @@ 2 :> <<>> @@ 3 :> <<>>

(* What the theorem on the lines supposes of the example.                  *)
ASSUME MCApplication == Tree
=============================================================================
