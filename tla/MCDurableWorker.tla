--------------------------- MODULE MCDurableWorker ---------------------------
(* A worker with a data and a control thread: an input of the data stream   *)
(* has one output, a control message two.                                   *)
EXTENDS DurableWorker

MCFanout == [t \in Threads |-> IF t = "data" THEN 1 ELSE 2]
=============================================================================
