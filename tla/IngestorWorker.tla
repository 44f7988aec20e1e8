--------------------------- MODULE IngestorWorker ---------------------------
(***************************************************************************)
(* workers/file_ingestor: the handlers of an ingestor replica for one      *)
(* client.  Every transaction of a batch is forwarded at once.             *)
(***************************************************************************)
EXTENDS ReplicaState

IngestorApplied(st) == IF st.closed THEN st ELSE [st EXCEPT !.count = @ + 1]

IngestorData(me, st, m) ==
    IF st.closed THEN Input(SeqId(m), st, <<>>)
    ELSE Input(SeqId(m), IngestorApplied(st), <<Down("DATA", me, <<m.n>>, 0)>>)

DownstreamEofOutputs(me, total) == <<Down("EOF", me, <<>>, total)>>

IngestorSkips(st, id) == st.closed /\ id \notin st.applied

(* These handlers commit whatever handle() returns: a message the inbox    *)
(* has DONE carries no context, commit_done raises and the message is      *)
(* requeued.                                                               *)
Raising(input) == [input EXCEPT !.raises = TRUE]

IngestorUpstreamEof(g, me, st, m) ==
    LET r == OnUpstreamEof(g, me, st.co, m.total, st.count)
    IN  IF IngestorSkips(st, SeqId(m)) THEN AckOnly
        ELSE IF ~r.flush THEN Raising(Input(SeqId(m), [st EXCEPT !.co = r.co], r.outs))
        ELSE Raising(Input(SeqId(m), CloseState([st EXCEPT !.co = r.co]),
                           DownstreamEofOutputs(me, st.count)))

IngestorAbort(g, me, st, m) ==
    IF IngestorSkips(st, SeqId(m)) THEN AckOnly
    ELSE Input(SeqId(m),
               CloseState([st EXCEPT !.co = CleanupLeaderState(g, CleanupClient(@))]),
               <<Down("ABORT", me, <<>>, 0)>>)

(* EOF_RECEIVED and PROCESSED_REQUEST are not logged. *)
IngestorControl(g, me, st, m) ==
    LET r == IF m.type = "EOF_RECEIVED" THEN OnEofReceived(me, st.co, m, st.count)
             ELSE OnProcessedRequest(g, me, st.co, st.count)
    IN  Direct([st EXCEPT !.co = r.co], r.outs)

IngestorFlushOrder(me, st, m) ==
    IF IngestorSkips(st, ControlId(m)) \/ st.co.expected # None THEN AckOnly
    ELSE Raising(Input(ControlId(m), AbandonState(st),
                       <<BuildFlushAck(me, m.sender, st.count)>>))

IngestorProcessedAnswer(g, me, st, m) ==
    LET r == OnProcessedAnswer(g, me, st.co, m)
    IN  Direct([st EXCEPT !.co = r.co], r.outs)

IngestorFlushAck(g, me, st, m) ==
    LET already == m.sender \in st.co.acks
        newAcks == Cardinality(st.co.acks) + (IF already THEN 0 ELSE 1)
        total == st.co.ackFwd + (IF already THEN 0 ELSE m.count) + st.count
        acked == [st EXCEPT !.co = OnFlushAck(g, me, @, m).co]
    IN  IF \/ IngestorSkips(st, ControlId(m))
           \/ (ControlId(m) \notin st.applied /\ st.co.expected = None)
        THEN AckOnly
        ELSE IF newAcks < g.size - 1 THEN Raising(Input(ControlId(m), acked, <<>>))
        ELSE Raising(Input(ControlId(m), CloseState(acked), DownstreamEofOutputs(me, total)))

(* Whom to answer is not logged either, but a close forgets it. *)
IngestorRestored(st, snapshot) ==
    [Restored(st, snapshot) EXCEPT !.co.pending = IF st.closed THEN None ELSE snapshot.pending]

IngestorHandle(g, me, st, m) ==
    CASE m.type = "DATA" -> IngestorData(me, st, m)
      [] m.type = "EOF" -> IngestorUpstreamEof(g, me, st, m)
      [] m.type = "ABORT" -> IngestorAbort(g, me, st, m)
      [] m.type \in {"EOF_RECEIVED", "PROCESSED_REQUEST"} -> IngestorControl(g, me, st, m)
      [] m.type = "FLUSH_ORDER" -> IngestorFlushOrder(me, st, m)
      [] m.type = "PROCESSED_ANSWER" -> IngestorProcessedAnswer(g, me, st, m)
      [] m.type = "FLUSH_ACK" -> IngestorFlushAck(g, me, st, m)

=============================================================================
