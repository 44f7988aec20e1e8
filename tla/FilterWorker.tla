---------------------------- MODULE FilterWorker ----------------------------
(***************************************************************************)
(* workers/filter: the handlers of a filter replica for one client, as the *)
(* decision they take in state st on message m.  One output.               *)
(***************************************************************************)
EXTENDS ReplicaState

(* BatchBuffer._simulate_append: txs join the buffer one by one, and it is *)
(* flushed whenever it is full.                                            *)
SimulateAppend(buf, txs) ==
    FoldLeft(LAMBDA x, tx : IF Len(x.left) + 1 >= MaxTx
                            THEN [flushed |-> Append(x.flushed, Append(x.left, tx)), left |-> <<>>]
                            ELSE [x EXCEPT !.left = Append(@, tx)],
             [flushed |-> <<>>, left |-> buf], txs)

(* plan_append says what apply_append will flush. *)
PlanAppend(buf, txs) == SimulateAppend(buf, txs).flushed
ApplyAppend(buf, txs) == SimulateAppend(buf, txs).left

Drained(me, st) == IF st.buf = <<>> THEN <<>> ELSE <<Down("DATA", me, st.buf, 0)>>

(* An EOF for each output, with that output's total. *)
FilterEofOutputs(me, total) == <<Down("EOF", me, <<>>, total)>>

FilterApplied(st, passing) ==
    IF st.closed THEN st
    ELSE [st EXCEPT !.count = @ + 1, !.fwd = @ + Len(passing), !.buf = ApplyAppend(@, passing)]

(* _data_process_payload: buffer what passes, emit the buffer when full. *)
FilterData(me, st, m) ==
    LET passing == IF m.n \in Passing THEN <<m.n>> ELSE <<>>
        flushed == PlanAppend(st.buf, passing)
    IN  IF st.closed THEN Input(SeqId(m), st, <<>>)
        ELSE Input(SeqId(m), FilterApplied(st, passing),
                   [i \in DOMAIN flushed |-> Down("DATA", me, flushed[i], 0)])

(* A closed client's message is acked unless its outputs are still due. *)
FilterSkips(st, id) == st.closed /\ id \notin st.applied

FilterUpstreamEof(g, me, st, m) ==
    LET r == OnUpstreamEof(g, me, st.co, m.total, st.count)
    IN  IF FilterSkips(st, SeqId(m)) THEN AckOnly
        ELSE IF ~r.flush THEN Input(SeqId(m), [st EXCEPT !.co = r.co], r.outs)
        ELSE Input(SeqId(m), CloseState([st EXCEPT !.co = r.co]),
                   Drained(me, st) \o FilterEofOutputs(me, st.fwd))

FilterAbort(me, st, m) ==
    Input(SeqId(m), AbandonState(st), <<Down("ABORT", me, <<>>, 0)>>)

FilterEofReceived(me, st, m) ==
    LET r == OnEofReceived(me, st.co, m, st.count)
    IN  Input(ControlId(m), [st EXCEPT !.co = r.co], r.outs)

FilterProcessedRequest(g, me, st, m) ==
    Direct(st, OnProcessedRequest(g, me, st.co, st.count).outs)

(* A member drains its buffer and acknowledges with what it forwarded. *)
FilterFlushOrder(me, st, m) ==
    IF FilterSkips(st, ControlId(m)) \/ st.co.expected # None THEN AckOnly
    ELSE Input(ControlId(m), AbandonState(st),
               Append(Drained(me, st), BuildFlushAck(me, m.sender, st.fwd)))

FilterProcessedAnswer(g, me, st, m) ==
    LET r == OnProcessedAnswer(g, me, st.co, m)
    IN  Direct([st EXCEPT !.co = r.co], r.outs)

(* _apply_flush_ack counts a sender once. *)
ApplyFlushAck(st, m) ==
    IF m.sender \in st.acks THEN st
    ELSE [st EXCEPT !.acks = @ \cup {m.sender}, !.allFwd = @ + m.count]

(* Mutant of FilterFlushAck: the leader's own transactions are not counted. *)
FilterFlushAckOthers(g, me, st, m) ==
    LET acked == ApplyFlushAck(st, m)
    IN  IF \/ FilterSkips(st, ControlId(m))
           \/ (ControlId(m) \notin st.applied /\ st.co.expected = None)
        THEN AckOnly
        ELSE IF Cardinality(st.acks) + 1 < g.size - 1 THEN Input(ControlId(m), acked, <<>>)
        ELSE Input(ControlId(m), CloseState([acked EXCEPT !.co = CleanupLeaderState(g, @)]),
                   Drained(me, st) \o FilterEofOutputs(me, st.allFwd + m.count))

(* With the last acknowledgement the leader drains and announces the total. *)
FilterFlushAck(g, me, st, m) ==
    LET acked == ApplyFlushAck(st, m)
    IN  IF \/ FilterSkips(st, ControlId(m))
           \/ (ControlId(m) \notin st.applied /\ st.co.expected = None)
        THEN AckOnly
        ELSE IF Cardinality(st.acks) + 1 < g.size - 1 THEN Input(ControlId(m), acked, <<>>)
        ELSE Input(ControlId(m), CloseState([acked EXCEPT !.co = CleanupLeaderState(g, @)]),
                   Drained(me, st) \o FilterEofOutputs(me, st.allFwd + m.count + st.fwd))

FilterHandle(g, me, st, m) ==
    CASE m.type = "DATA" -> FilterData(me, st, m)
      [] m.type = "EOF" -> FilterUpstreamEof(g, me, st, m)
      [] m.type = "ABORT" -> FilterAbort(me, st, m)
      [] m.type = "EOF_RECEIVED" -> FilterEofReceived(me, st, m)
      [] m.type = "PROCESSED_REQUEST" -> FilterProcessedRequest(g, me, st, m)
      [] m.type = "FLUSH_ORDER" -> FilterFlushOrder(me, st, m)
      [] m.type = "PROCESSED_ANSWER" -> FilterProcessedAnswer(g, me, st, m)
      [] m.type = "FLUSH_ACK" -> FilterFlushAck(g, me, st, m)

=============================================================================
