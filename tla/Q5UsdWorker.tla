----------------------------- MODULE Q5UsdWorker -----------------------------
(***************************************************************************)
(* workers/filter_q5_usd: the handlers of a Q5 USD filter replica for one  *)
(* client.  A transaction that passes goes straight to the aggregator of   *)
(* the client; nothing is buffered.  One aggregator.  Every handler but    *)
(* that of PROCESSED_ANSWER drops the messages of a closed client before   *)
(* it asks the inbox.                                                      *)
(***************************************************************************)
EXTENDS ReplicaState

Q5EofOutputs(me, total) == <<Down("EOF", me, <<>>, total)>>

(* _apply_data of FilterQ5UsdState. *)
Q5Applied(st, forwarded) ==
    IF st.closed THEN st ELSE [st EXCEPT !.count = @ + 1, !.fwd = @ + forwarded]

(* Passing: in the date range, convertible, and below one dollar. *)
Q5Data(me, st, m) ==
    LET passing == IF m.n \in Passing THEN <<Down("DATA", me, <<m.n>>, 0)>> ELSE <<>>
    IN  IF st.closed THEN AckOnly
        ELSE Input(SeqId(m), Q5Applied(st, Len(passing)), passing)

Q5Abort(me, st, m) ==
    IF st.closed THEN AckOnly
    ELSE Input(SeqId(m), AbandonState(st), <<Down("ABORT", me, <<>>, 0)>>)

Q5UpstreamEof(g, me, st, m) ==
    LET r == OnUpstreamEof(g, me, st.co, m.total, st.count)
    IN  IF st.closed THEN AckOnly
        ELSE IF ~r.flush THEN Input(SeqId(m), [st EXCEPT !.co = r.co], r.outs)
        ELSE Input(SeqId(m), CloseState([st EXCEPT !.co = r.co]), Q5EofOutputs(me, st.fwd))

Q5EofReceived(me, st, m) ==
    LET r == OnEofReceived(me, st.co, m, st.count)
    IN  IF st.closed THEN AckOnly ELSE Input(ControlId(m), [st EXCEPT !.co = r.co], r.outs)

Q5ProcessedRequest(g, me, st, m) ==
    IF st.closed THEN AckOnly ELSE Direct(st, OnProcessedRequest(g, me, st.co, st.count).outs)

(* A member announces an end of its own, with its own count, before it     *)
(* acknowledges; the leader logs its own order as an empty change.         *)
Q5FlushOrder(g, me, st, m) ==
    IF st.closed THEN AckOnly
    ELSE IF ~OnFlushOrder(g, me, st.co).flush THEN Input(ControlId(m), st, <<>>)
    ELSE Input(ControlId(m), AbandonState(st),
               Append(Q5EofOutputs(me, st.fwd), BuildFlushAck(me, m.sender, st.fwd)))

Q5ProcessedAnswer(g, me, st, m) ==
    LET r == OnProcessedAnswer(g, me, st.co, m)
    IN  Direct([st EXCEPT !.co = r.co], r.outs)

Q5FlushAck(g, me, st, m) ==
    LET newAcks == Cardinality(st.co.acks \cup {m.sender})
        acked == [st EXCEPT !.co = OnFlushAck(g, me, @, m).co]
    IN  IF st.closed THEN AckOnly
        ELSE IF newAcks < g.size - 1 THEN Input(ControlId(m), acked, <<>>)
        ELSE Input(ControlId(m), CloseState(acked),
                   Q5EofOutputs(me, st.co.ackFwd + m.count + st.fwd))

Q5UsdHandle(g, me, st, m) ==
    CASE m.type = "DATA" -> Q5Data(me, st, m)
      [] m.type = "EOF" -> Q5UpstreamEof(g, me, st, m)
      [] m.type = "ABORT" -> Q5Abort(me, st, m)
      [] m.type = "EOF_RECEIVED" -> Q5EofReceived(me, st, m)
      [] m.type = "PROCESSED_REQUEST" -> Q5ProcessedRequest(g, me, st, m)
      [] m.type = "FLUSH_ORDER" -> Q5FlushOrder(g, me, st, m)
      [] m.type = "PROCESSED_ANSWER" -> Q5ProcessedAnswer(g, me, st, m)
      [] m.type = "FLUSH_ACK" -> Q5FlushAck(g, me, st, m)

=============================================================================
