---------------------------- MODULE ReplicaState ----------------------------
(***************************************************************************)
(* What a replica of a stateful worker keeps for one client, and the shape *)
(* of a handler's decision about a message:                                *)
(*   ack     acknowledge it without touching the inbox;                    *)
(*   direct  change the coordinator in memory, send, acknowledge;          *)
(*   input   run it through PersistentStateHandler.handle under an id: if  *)
(*           NEW, the change is logged and applied and the outputs join    *)
(*           the outbox.                                                   *)
(***************************************************************************)
EXTENDS EofCoordinator, SequencesExt

CONSTANTS
    Data,        \* number of DATA messages of the client
    Passing,     \* the ones whose transaction passes the filter
    MaxTx        \* FILTER_OUTPUT_BATCH_MAX_TX

FreshReplica ==
    [count   |-> 0,        \* processed_count of the client
     fwd     |-> 0,        \* transactions forwarded (filter)
     buf     |-> <<>>,     \* buffered transactions, or the partial result
     closed  |-> FALSE,
     acks    |-> {},       \* FLUSH_ACKs counted outside the coordinator (filter)
     allFwd  |-> 0,
     co      |-> FreshCo,
     applied |-> {}, done |-> {},   \* inbox
     outbox  |-> <<>>]

AckOnly == [do |-> "ack"]
Direct(st, outs) == [do |-> "direct", st |-> st, outs |-> outs]
Input(id, st, outs) == [do |-> "input", id |-> id, st |-> st, outs |-> outs, raises |-> FALSE]

(* Messages to the next stage. *)
Down(type, me, txs, total) ==
    Send("down", 0, [type |-> type, from |-> me, txs |-> txs, total |-> total])

(* _apply_close of every worker: drop the client's state, remember it. *)
CloseState(st) ==
    [st EXCEPT !.closed = TRUE, !.count = 0, !.fwd = 0, !.buf = <<>>, !.acks = {}, !.allFwd = 0]

(* abort_change, and the change of a member's flush: the coordinator       *)
(* forgets what a member knows, not what a leader counts.                  *)
AbandonState(st) == CloseState([st EXCEPT !.co = CleanupClient(@)])

(* restore: what was only in memory is as the snapshot had it. *)
Restored(st, snapshot) ==
    [st EXCEPT !.co.processed = snapshot.processed, !.co.responders = snapshot.responders]

(* The inbox ids: DATA, upstream EOF and ABORT by sequence number, control *)
(* messages by kind and sender (seq = client_id).                          *)
SeqId(m) == <<m.type, m.n>>
ControlId(m) == <<m.type, m.sender>>

=============================================================================
