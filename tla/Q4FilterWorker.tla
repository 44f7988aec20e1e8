--------------------------- MODULE Q4FilterWorker ---------------------------
(***************************************************************************)
(* workers/scatter_gather/q4_filter: the handlers of a Q4 filter replica   *)
(* for one client (flush_order mode, replica 0 leads).  The data of a      *)
(* replica are edges of one source to different targets; _QUALIFY_TARGETS  *)
(* is MaxTx.  One Q4 sum partition.  The coordinator is durable here: the  *)
(* answers to the leader are inputs of the inbox too.                      *)
(***************************************************************************)
EXTENDS ReplicaState

(* _gate_emit: edges wait until their source has MaxTx targets; then they  *)
(* all go, and from then on each edge goes at once.  fwd > 0 is qualified. *)
GateOpens(st) == st.fwd > 0 \/ Len(st.buf) + 1 >= MaxTx

(* Every edge leaves as two counted edges: INCOMING and OUTGOING. *)
Counted(edges) == 2 * Len(edges)

(* predict_data_outputs runs the gate on a copy of the state that          *)
(* _apply_data then changes, and must foresee what it lets through.        *)
Q4Predicted(st, n) == IF ~st.closed /\ GateOpens(st) THEN Append(st.buf, n) ELSE <<>>
Q4Applied(st, n) ==
    IF st.closed THEN st
    ELSE IF GateOpens(st)
    THEN [st EXCEPT !.count = @ + 1, !.buf = <<>>, !.fwd = @ + Counted(Append(st.buf, n))]
    ELSE [st EXCEPT !.count = @ + 1, !.buf = Append(@, n)]

Q4DataOutputs(me, edges) == IF edges = <<>> THEN <<>> ELSE <<Down("DATA", me, edges, 0)>>
Q4Data(me, st, m) == Input(SeqId(m), Q4Applied(st, m.n), Q4DataOutputs(me, Q4Predicted(st, m.n)))

(* The EOF of a replica counts what that replica forwarded. *)
Q4EofOutputs(me, st) == <<Down("EOF", me, <<>>, st.fwd)>>

(* A closed client's message is acked unless its outputs are still due. *)
Q4Skips(st, id) == st.closed /\ id \notin st.applied

Q4Abort(me, st, m) ==
    IF st.closed THEN AckOnly
    ELSE Input(SeqId(m), AbandonState(st), <<Down("ABORT", me, <<>>, 0)>>)

Q4UpstreamEof(g, me, st, m) ==
    LET r == OnUpstreamEof(g, me, st.co, m.total, st.count)
    IN  IF Q4Skips(st, SeqId(m)) THEN AckOnly
        ELSE IF ~r.flush THEN Input(SeqId(m), [st EXCEPT !.co = r.co], r.outs)
        ELSE Input(SeqId(m), CloseState([st EXCEPT !.co = r.co]), Q4EofOutputs(me, st))

Q4ProcessedRequest(g, me, st, m) ==
    Direct(st, OnProcessedRequest(g, me, st.co, st.count).outs)

Q4FlushOrder(me, st, m) ==
    IF me = FixedLeader \/ Q4Skips(st, ControlId(m)) THEN AckOnly
    ELSE Input(ControlId(m), AbandonState(st),
               Append(Q4EofOutputs(me, st), BuildFlushAck(me, FixedLeader, 0)))

(* The broadcast that the last answer causes is in the outbox; the inbox   *)
(* takes one answer of each member, whatever the round.                    *)
Q4ProcessedAnswer(g, me, st, m) ==
    LET r == OnProcessedAnswer(g, me, st.co, m)
    IN  Input(ControlId(m), [st EXCEPT !.co = r.co], r.outs)

Q4FlushAck(g, me, st, m) ==
    LET newAcks == Cardinality(st.co.acks \cup {m.sender})
        acked == [st EXCEPT !.co = OnFlushAck(g, me, @, m).co]
    IN  IF Q4Skips(st, ControlId(m)) THEN AckOnly
        ELSE IF newAcks < g.size - 1 THEN Input(ControlId(m), acked, <<>>)
        ELSE Input(ControlId(m), CloseState(acked), Q4EofOutputs(me, st))

Q4FilterHandle(g, me, st, m) ==
    CASE m.type = "DATA" -> Q4Data(me, st, m)
      [] m.type = "EOF" -> Q4UpstreamEof(g, me, st, m)
      [] m.type = "ABORT" -> Q4Abort(me, st, m)
      [] m.type = "PROCESSED_REQUEST" -> Q4ProcessedRequest(g, me, st, m)
      [] m.type = "FLUSH_ORDER" -> Q4FlushOrder(me, st, m)
      [] m.type = "PROCESSED_ANSWER" -> Q4ProcessedAnswer(g, me, st, m)
      [] m.type = "FLUSH_ACK" -> Q4FlushAck(g, me, st, m)

=============================================================================
