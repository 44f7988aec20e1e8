--------------------------- MODULE EofCoordinator ---------------------------
(***************************************************************************)
(* common/eof_coordinator.py: the state machine each replica of a worker   *)
(* runs to agree that all the data of a client was processed.  One client. *)
(* A group g is [size, mode]; its members are 0 .. g.size - 1.             *)
(*                                                                         *)
(* Every operator returns the new coordinator state, the messages to send  *)
(* and whether the caller must flush (FlushAction).  The forwarded count a *)
(* PROCESSED_ANSWER carries is never read and is left out.                 *)
(***************************************************************************)
EXTENDS Integers, FiniteSets, Sequences

CONSTANT None

Members(g) == 0 .. g.size - 1
FixedLeader == 0

FreshCo ==
    [pending    |-> None,    \* _pending_eof: the leader this member answers to
     seen       |-> FALSE,   \* _seen_eof (flush_order)
     expected   |-> None,    \* _leader_expected
     processed  |-> 0,       \* _leader_processed
     responders |-> {},      \* _leader_responders
     acks       |-> {},      \* _flush_acks
     ackFwd     |-> 0]       \* _forwarded_from_acks

-----------------------------------------------------------------------------
(* Messages and where they go. *)

Packet(type, sender, total, count) ==
    [type |-> type, sender |-> sender, total |-> total, count |-> count]
Send(queue, to, msg) == [queue |-> queue, to |-> to, msg |-> msg]

Broadcast(g, msg) == [i \in 1 .. g.size |-> Send("control", i - 1, msg)]
BuildAnswer(me, leader, count) ==
    Send("response", leader, Packet("PROCESSED_ANSWER", me, 0, count))
BuildFlushAck(me, leader, forwarded) ==
    Send("response", leader, Packet("FLUSH_ACK", me, 0, forwarded))

Result(co, outs, flush) == [co |-> co, outs |-> outs, flush |-> flush]

-----------------------------------------------------------------------------
(* The leader of a client: in broadcast mode whoever got the upstream EOF. *)
IsLeader(g, me, co) ==
    IF g.mode = "broadcast" THEN co.expected # None ELSE me = FixedLeader

OnUpstreamEof(g, me, co, total, count) ==
    IF g.size <= 1 THEN Result(co, <<>>, TRUE)
    ELSE IF g.mode = "broadcast"
    THEN Result([co EXCEPT !.expected = total],
                Broadcast(g, Packet("EOF_RECEIVED", me, total, 0)), FALSE)
    ELSE IF co.seen THEN Result(co, <<>>, FALSE)
    ELSE Result([co EXCEPT !.seen = TRUE,
                           !.expected = IF me = FixedLeader THEN total ELSE @],
                <<BuildAnswer(me, FixedLeader, count)>>, FALSE)

OnEofReceived(me, co, m, count) ==
    IF co.pending # None THEN Result(co, <<>>, FALSE)
    ELSE Result([co EXCEPT !.pending = m.sender], <<BuildAnswer(me, m.sender, count)>>, FALSE)

(* A member that is not pending in broadcast mode does not answer. *)
OnProcessedRequest(g, me, co, count) ==
    LET leader == IF g.mode = "broadcast" THEN co.pending ELSE FixedLeader
    IN  Result(co, IF leader = None THEN <<>> ELSE <<BuildAnswer(me, leader, count)>>, FALSE)

(* Mutant of OnProcessedAnswer: the counts are never compared. *)
OnProcessedAnswerAny(g, me, co, m) ==
    LET next == [co EXCEPT !.responders = @ \cup {m.sender}, !.processed = @ + m.count]
        reset == [next EXCEPT !.responders = {}, !.processed = 0]
    IN  IF co.expected = None \/ Cardinality(next.responders) < g.size
        THEN Result(next, <<>>, FALSE)
        ELSE Result(reset, Broadcast(g, Packet("FLUSH_ORDER", me, 0, 0)), FALSE)

(* Mutant of OnProcessedAnswer: a new round keeps the answers of the last. *)
OnProcessedAnswerKeeps(g, me, co, m) ==
    LET next == [co EXCEPT !.responders = @ \cup {m.sender}, !.processed = @ + m.count]
    IN  IF m.sender \in co.responders THEN Result(co, <<>>, FALSE)
        ELSE IF co.expected = None \/ Cardinality(next.responders) < g.size
        THEN Result(next, <<>>, FALSE)
        ELSE IF next.processed >= co.expected
        THEN Result(next, Broadcast(g, Packet("FLUSH_ORDER", me, 0, 0)), FALSE)
        ELSE Result(next, Broadcast(g, Packet("PROCESSED_REQUEST", me, co.expected, 0)), FALSE)

(* The leader adds the counts up; once all members answered it orders the  *)
(* flush, or starts another round when some data was not processed yet.    *)
OnProcessedAnswer(g, me, co, m) ==
    LET next == [co EXCEPT !.responders = @ \cup {m.sender}, !.processed = @ + m.count]
        reset == [next EXCEPT !.responders = {}, !.processed = 0]
    IN  IF m.sender \in co.responders THEN Result(co, <<>>, FALSE)
        ELSE IF co.expected = None \/ Cardinality(next.responders) < g.size
        THEN Result(next, <<>>, FALSE)
        ELSE IF next.processed >= co.expected
        THEN Result(reset, Broadcast(g, Packet("FLUSH_ORDER", me, 0, 0)), FALSE)
        ELSE Result(reset, Broadcast(g, Packet("PROCESSED_REQUEST", me, co.expected, 0)), FALSE)

(* A member flushes, the leader ignores its own order; nothing changes. *)
OnFlushOrder(g, me, co) == Result(co, <<>>, ~IsLeader(g, me, co))

(* The leader's own state goes once all the others acknowledged a flush.   *)
OnFlushAck(g, me, co, m) ==
    LET next == [co EXCEPT !.acks = @ \cup {m.sender}, !.ackFwd = @ + m.count]
    IN  IF ~IsLeader(g, me, co) THEN Result(co, <<>>, FALSE)
        ELSE IF Cardinality(next.acks) < g.size - 1 THEN Result(next, <<>>, FALSE)
        ELSE Result([next EXCEPT !.acks = {}, !.ackFwd = 0, !.expected = None,
                                 !.pending = IF g.mode = "broadcast" THEN None ELSE @,
                                 !.seen = IF g.mode = "broadcast" THEN @ ELSE FALSE],
                    <<>>, TRUE)

ClearPendingEof(co) == [co EXCEPT !.pending = None]

CleanupClient(co) == [co EXCEPT !.pending = None, !.seen = FALSE]

CleanupLeaderState(g, co) ==
    [co EXCEPT !.acks = {}, !.ackFwd = 0, !.expected = None,
               !.pending = IF g.mode = "broadcast" THEN None ELSE @,
               !.seen = IF g.mode = "broadcast" THEN @ ELSE FALSE]

=============================================================================
