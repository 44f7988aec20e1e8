----------------------------- MODULE SumWorker -----------------------------
(***************************************************************************)
(* workers/sum: the handlers of a sum replica for one client.  A replica   *)
(* that has seen data emits one partial result when it flushes.            *)
(***************************************************************************)
EXTENDS ReplicaState

Partials(me, st) == IF st.buf = <<>> THEN <<>> ELSE <<Down("DATA", me, st.buf, 0)>>

(* An EOF for each aggregator, with the total of all replicas; one here. *)
SumEofOutputs(me, total) == <<Down("EOF", me, <<>>, total)>>

SumApplied(st, n) ==
    IF st.closed THEN st ELSE [st EXCEPT !.count = @ + 1, !.buf = Append(@, n)]

SumData(st, m) == Input(SeqId(m), SumApplied(st, m.n), <<>>)

(* A closed client's message is acked before the inbox is asked. *)
SumUpstreamEof(g, me, st, m) ==
    LET r == OnUpstreamEof(g, me, st.co, m.total, st.count)
        partials == Partials(me, st)
    IN  IF st.closed THEN AckOnly
        ELSE IF ~r.flush THEN Input(SeqId(m), [st EXCEPT !.co = r.co], r.outs)
        ELSE Input(SeqId(m), CloseState([st EXCEPT !.co = r.co]),
                   partials \o SumEofOutputs(me, Len(partials)))

SumAbort(me, st, m) ==
    IF st.closed THEN AckOnly
    ELSE Input(SeqId(m), AbandonState(st), <<Down("ABORT", me, <<>>, 0)>>)

SumEofReceived(me, st, m) ==
    LET r == OnEofReceived(me, st.co, m, st.count)
    IN  Input(ControlId(m), [st EXCEPT !.co = r.co], r.outs)

SumProcessedRequest(g, me, st, m) ==
    Direct(st, OnProcessedRequest(g, me, st.co, st.count).outs)

SumFlushOrder(me, st, m) ==
    LET partials == Partials(me, st)
    IN  IF st.co.expected # None \/ st.closed THEN AckOnly
        ELSE Input(ControlId(m), AbandonState(st),
                   Append(partials, BuildFlushAck(me, m.sender, Len(partials))))

SumProcessedAnswer(g, me, st, m) ==
    LET r == OnProcessedAnswer(g, me, st.co, m)
    IN  Direct([st EXCEPT !.co = r.co], r.outs)

(* Mutant of SumFlushAck: the leader announces the end before its partial. *)
SumFlushAckEofFirst(g, me, st, m) ==
    LET already == m.sender \in st.co.acks
        newAcks == Cardinality(st.co.acks) + (IF already THEN 0 ELSE 1)
        acksFwd == st.co.ackFwd + (IF already THEN 0 ELSE m.count)
        partials == Partials(me, st)
        acked == [st EXCEPT !.co = OnFlushAck(g, me, @, m).co]
    IN  IF st.closed THEN AckOnly
        ELSE IF newAcks < g.size - 1 THEN Input(ControlId(m), acked, <<>>)
        ELSE Input(ControlId(m), CloseState(acked),
                   SumEofOutputs(me, acksFwd + Len(partials)) \o partials)

(* The last acknowledgement is predicted from the coordinator's counters,  *)
(* which the applied change then updates.                                  *)
SumFlushAck(g, me, st, m) ==
    LET already == m.sender \in st.co.acks
        newAcks == Cardinality(st.co.acks) + (IF already THEN 0 ELSE 1)
        acksFwd == st.co.ackFwd + (IF already THEN 0 ELSE m.count)
        partials == Partials(me, st)
        acked == [st EXCEPT !.co = OnFlushAck(g, me, @, m).co]
    IN  IF st.closed THEN AckOnly
        ELSE IF newAcks < g.size - 1 THEN Input(ControlId(m), acked, <<>>)
        ELSE Input(ControlId(m), CloseState(acked),
                   partials \o SumEofOutputs(me, acksFwd + Len(partials)))

SumHandle(g, me, st, m) ==
    CASE m.type = "DATA" -> SumData(st, m)
      [] m.type = "EOF" -> SumUpstreamEof(g, me, st, m)
      [] m.type = "ABORT" -> SumAbort(me, st, m)
      [] m.type = "EOF_RECEIVED" -> SumEofReceived(me, st, m)
      [] m.type = "PROCESSED_REQUEST" -> SumProcessedRequest(g, me, st, m)
      [] m.type = "FLUSH_ORDER" -> SumFlushOrder(me, st, m)
      [] m.type = "PROCESSED_ANSWER" -> SumProcessedAnswer(g, me, st, m)
      [] m.type = "FLUSH_ACK" -> SumFlushAck(g, me, st, m)

=============================================================================
