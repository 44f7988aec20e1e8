------------------------------- MODULE Gateway ------------------------------
(***************************************************************************)
(* gateway/gateway.py and client/: one client's session.  The client sends *)
(* its files chunk by chunk, each acknowledged; the gateway's client       *)
(* thread forwards them to the splitters and then sends back the results   *)
(* that one consumer thread for each query collects.  Neither keeps        *)
(* anything on disk.                                                       *)
(*                                                                         *)
(* A scenario has files (the client's, as [path, bytes]), partitions       *)
(* (splitters), chunk (bytes to a chunk), queries (result queues), and     *)
(* begins (where the session starts).                                      *)
(***************************************************************************)
EXTENDS EofGroup

VARIABLES
    client,      \* [at, next, got, due]: next message to send, lines received,
                 \*  and, as a reference, what its files must give
    sock,        \* what the client sent and the gateway has not read
    gw,          \* the session thread: [at, file]
    pend,        \* _pending_eofs_by_client, None when there is no session
    seen,        \* _addressed_result_seen
    cq,          \* the session's queue of result lines
    rc           \* lines each consumer has yet to put into it

gatewayVars == <<client, sock, gw, pend, seen, cq, rc>>

End == "end"                             \* the None of the session's queue
Empty == [type |-> "NOTHING"]
Addressed(q) == q \in {2, 4, 5}          \* Q1 and Q3 are not deduplicated

-----------------------------------------------------------------------------
(* ChunkReader.iter: a file in pieces, an empty one as an empty piece. *)
ChunkOf(file, i) ==
    LET end == IF i * sc.chunk < Len(file.bytes) THEN i * sc.chunk ELSE Len(file.bytes)
    IN  [type |-> "CHUNK", path |-> file.path, offset |-> (i - 1) * sc.chunk,
         bytes |-> SubSeq(file.bytes, (i - 1) * sc.chunk + 1, end)]
ChunksOf(file) ==
    LET pieces == IF file.bytes = <<>> THEN 1 ELSE (Len(file.bytes) + sc.chunk - 1) \div sc.chunk
    IN  [i \in 1 .. pieces |-> ChunkOf(file, i)]

(* Client.stream_files: handshake, the chunks of all files, finish. *)
Session ==
    <<[type |-> "HANDSHAKE"]>> \o FlattenSeq([i \in DOMAIN sc.files |-> ChunksOf(sc.files[i])])
        \o <<[type |-> "FINISH"]>>

ClientSends ==
    /\ client.at = "ready"
    /\ sock' = Session[client.next]
    /\ client' = [client EXCEPT !.at = "unacknowledged"]
    /\ UNCHANGED <<vars, gw, pend, seen, cq, rc>>

(* _wait_ack returns; after FINISH the client reads lines until the socket *)
(* ends (iter_result_lines).                                               *)
Acknowledged ==
    IF client.at = "left" THEN client
    ELSE [client EXCEPT !.at = IF client.next = Len(Session) THEN "reading" ELSE "ready", !.next = @ + 1]

(* SIGTERM, a timeout or a crash of the client. *)
ClientLeaves ==
    /\ sc.leaves /\ client.at \in {"ready", "unacknowledged", "reading"}
    /\ client' = [client EXCEPT !.at = "left"]
    /\ UNCHANGED <<vars, sock, gw, pend, seen, cq, rc>>

-----------------------------------------------------------------------------
(* The client thread of the gateway. *)

(* partition_for client 0. *)
PartitionFor(path) == IF path = "transactions" THEN 0 ELSE 1 % sc.partitions

FileEof(path) == Send("input", PartitionFor(path), [type |-> "FILE_EOF", path |-> path])
Forwards(outs) == queue' = Deliver(outs, queue, {}).queue

Deregistered == pend' = None /\ seen' = {}

(* _recv_handshake and the registration of _serve_client. *)
GatewayHandshake ==
    /\ gw.at = "handshake" /\ sock.type = "HANDSHAKE"
    /\ sock' = Empty /\ client' = Acknowledged
    /\ pend' = Cardinality(sc.queries)
    /\ gw' = [gw EXCEPT !.at = "forwarding"]
    /\ UNCHANGED <<vars, seen, cq, rc>>

(* _forward_chunks: a chunk of another file ends the one before. *)
GatewayChunk ==
    /\ gw.at = "forwarding" /\ sock.type = "CHUNK"
    /\ sock' = Empty /\ client' = Acknowledged
    /\ Forwards((IF gw.file \in {None, sock.path} THEN <<>> ELSE <<FileEof(gw.file)>>)
                    \o <<Send("input", PartitionFor(sock.path), sock)>>)
    /\ gw' = [gw EXCEPT !.file = sock.path]
    /\ UNCHANGED <<sc, out, st, saved, up, th, forgot, crashes, fails, dups, pend, seen, cq, rc>>

(* FINISH ends the last file.  If the client is gone the acknowledgement   *)
(* may raise, and then the upload counts as unfinished.                    *)
GatewayFinish ==
    /\ gw.at = "forwarding" /\ sock.type = "FINISH"
    /\ sock' = Empty /\ client' = Acknowledged
    /\ Forwards(IF gw.file = None THEN <<>> ELSE <<FileEof(gw.file)>>)
    /\ \/ gw' = [at |-> "waiting", file |-> None] /\ UNCHANGED <<pend, seen>>
       \/ client.at = "left" /\ gw' = [at |-> "aborting", file |-> None] /\ Deregistered
    /\ UNCHANGED <<sc, out, st, saved, up, th, forgot, crashes, fails, dups, cq, rc>>

(* The socket of a client that left ends, perhaps within a message. *)
GatewayLosesClient ==
    /\ gw.at \in {"handshake", "forwarding"} /\ client.at = "left"
    /\ gw' = [gw EXCEPT !.at = IF gw.at = "handshake" THEN "over" ELSE "aborting"]
    /\ sock' = Empty /\ Deregistered
    /\ UNCHANGED <<vars, client, cq, rc>>

(* _send_abort. *)
GatewayAborts ==
    /\ gw.at = "aborting"
    /\ Forwards([i \in 1 .. sc.partitions |-> Send("input", i - 1, [type |-> "ABORT"])])
    /\ gw' = [gw EXCEPT !.at = "over"]
    /\ UNCHANGED <<sc, out, st, saved, up, th, forgot, crashes, fails, dups, client, sock, pend, seen, cq, rc>>

(* _wait_for_results: a line to the client, or the end of the session.     *)
(* Sending to a client that left may raise.                                *)
SessionOver == gw' = [gw EXCEPT !.at = "over"] /\ Deregistered

GatewaySends ==
    /\ gw.at = "waiting" /\ cq # <<>>
    /\ cq' = Tail(cq)
    /\ IF Head(cq) = End
       THEN /\ SessionOver
            /\ client' = IF client.at = "left" THEN client ELSE [client EXCEPT !.at = "done"]
       ELSE /\ client' = IF client.at = "left" THEN client ELSE [client EXCEPT !.got = Append(@, Head(cq))]
            /\ \/ UNCHANGED <<gw, pend, seen>>
               \/ client.at = "left" /\ SessionOver
    /\ UNCHANGED <<vars, sock, rc>>

(* queue.Empty, and the socket has ended. *)
GatewayPeeks ==
    /\ gw.at = "waiting" /\ cq = <<>> /\ client.at = "left"
    /\ SessionOver
    /\ UNCHANGED <<vars, client, sock, cq, rc>>

-----------------------------------------------------------------------------
(* The callback of _run_result_consumer for queue q: the session, the      *)
(* duplicates and the EOFs under the lock, the lines after it.             *)

Lines(q, m) == [i \in DOMAIN m.items |-> <<q, m.items[i]>>]

ResultTaken(q) ==
    LET m == Head(queue[<<"result", q>>])
        key == <<q, m.n>>
        ends == m.type = "EOF" /\ pend - 1 <= 0
    IN  /\ queue[<<"result", q>>] # <<>> /\ rc[q] = <<>>
        /\ queue' = [queue EXCEPT ![<<"result", q>>] = Tail(@)]
        /\ IF pend = None \/ (Addressed(q) /\ key \in seen) THEN UNCHANGED <<seen, pend, rc>>
           ELSE /\ seen' = IF Addressed(q) THEN seen \cup {key} ELSE seen
                /\ pend' = IF m.type = "EOF" THEN pend - 1 ELSE pend
                /\ rc' = [rc EXCEPT ![q] = IF m.type = "DATA" THEN Lines(q, m) ELSE IF ends THEN <<End>> ELSE <<>>]
        /\ UNCHANGED <<sc, out, st, saved, up, th, forgot, crashes, fails, dups, client, sock, gw, cq>>

(* The lines of a session that is over go to a queue nobody reads. *)
ResultPut(q) ==
    /\ rc[q] # <<>>
    /\ cq' = IF pend = None THEN cq ELSE cq \o rc[q]
    /\ rc' = [rc EXCEPT ![q] = <<>>]
    /\ UNCHANGED <<vars, client, sock, gw, pend, seen>>

GatewayWorks ==
    \/ GatewayHandshake \/ GatewayChunk \/ GatewayFinish \/ GatewayLosesClient
    \/ GatewayAborts \/ GatewaySends \/ GatewayPeeks
    \/ \E q \in sc.queries : ResultTaken(q) \/ ResultPut(q)

=============================================================================
