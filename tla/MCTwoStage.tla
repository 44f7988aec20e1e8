----------------------------- MODULE MCTwoStage -----------------------------
(* Every input has one output. *)
EXTENDS TwoStage

MCFanout == [t \in Threads |-> 1]
=============================================================================
