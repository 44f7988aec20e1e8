-------------------------- MODULE AggregatorWorker --------------------------
(***************************************************************************)
(* workers/aggregator: the handlers of an aggregator replica for one       *)
(* client (flush_order mode: every replica has a shard of the partials and *)
(* gets its own EOF, replica 0 leads).  A replica with data has one result.*)
(***************************************************************************)
EXTENDS ReplicaState

AggregatorApplied(st, n) ==
    IF st.closed THEN st ELSE [st EXCEPT !.count = @ + 1, !.buf = Append(@, n)]

AggregatorData(st, m) == Input(SeqId(m), AggregatorApplied(st, m.n), <<>>)

ResultOutputs(me, st) ==
    LET results == IF st.buf = <<>> THEN <<>> ELSE <<Down("DATA", me, st.buf, 0)>>
    IN  Append(results, Down("EOF", me, <<>>, Len(results)))

AggregatorUpstreamEof(g, me, st, m) ==
    LET r == OnUpstreamEof(g, me, st.co, m.total, st.count)
    IN  IF st.closed THEN AckOnly
        ELSE IF ~r.flush THEN Input(SeqId(m), [st EXCEPT !.co = r.co], r.outs)
        ELSE Input(SeqId(m), CloseState([st EXCEPT !.co = r.co]), ResultOutputs(me, st))

AggregatorAbort(me, st, m) ==
    IF st.closed THEN AckOnly
    ELSE Input(SeqId(m), AbandonState(st), <<Down("ABORT", me, <<>>, 0)>>)

(* Any control message but FLUSH_ORDER is dropped, and the leader drops    *)
(* that one too.                                                           *)
AggregatorControl(me, st, m) ==
    IF m.type # "FLUSH_ORDER" \/ me = FixedLeader \/ st.closed THEN AckOnly
    ELSE Input(ControlId(m), AbandonState(st),
               Append(ResultOutputs(me, st), BuildFlushAck(me, FixedLeader, 0)))

AggregatorProcessedAnswer(g, me, st, m) ==
    LET r == OnProcessedAnswer(g, me, st.co, m)
    IN  Direct([st EXCEPT !.co = r.co], r.outs)

AggregatorFlushAck(g, me, st, m) ==
    LET newAcks == Cardinality(st.co.acks) + (IF m.sender \in st.co.acks THEN 0 ELSE 1)
        acked == [st EXCEPT !.co = OnFlushAck(g, me, @, m).co]
    IN  IF st.closed THEN AckOnly
        ELSE IF newAcks < g.size - 1 THEN Input(ControlId(m), acked, <<>>)
        ELSE Input(ControlId(m), CloseState(acked), ResultOutputs(me, st))

AggregatorHandle(g, me, st, m) ==
    CASE m.type = "DATA" -> AggregatorData(st, m)
      [] m.type = "EOF" -> AggregatorUpstreamEof(g, me, st, m)
      [] m.type = "ABORT" -> AggregatorAbort(me, st, m)
      [] m.type = "PROCESSED_ANSWER" -> AggregatorProcessedAnswer(g, me, st, m)
      [] m.type = "FLUSH_ACK" -> AggregatorFlushAck(g, me, st, m)
      [] OTHER -> AggregatorControl(me, st, m)

=============================================================================
