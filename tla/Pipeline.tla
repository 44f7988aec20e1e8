------------------------------ MODULE Pipeline ------------------------------
(***************************************************************************)
(* The stages after the groups of EofGroup, the splitters before them and  *)
(* the gateway, put together for one client: its upload down to the line   *)
(* batches, and each query from the messages of its last group to the      *)
(* client.  What other parts of the system send is given by the scenario:  *)
(*   txs, names  the rows of the client's two files;                       *)
(*   feeds     for a queue, the streams of the senders that publish to it, *)
(*             each in order;                                              *)
(*   answers   queries whose results come, once the files' EOFs are out.   *)
(***************************************************************************)
EXTENDS Gateway, Reference

pipelineVars == <<vars, gatewayVars>>

(* What the client must get: the rows of the reference, from the           *)
(* transactions and bank names of its files.                               *)
Answer ==
    UNION {{q} \X (CASE q \in sc.answers -> {q}
                      [] q = 1 -> ComputeQ1(sc.txs)
                      [] q = 2 -> ComputeQ2(sc.txs, sc.names)
                      [] q = 4 -> ComputeQ4(sc.txs)
                      [] q = 5 -> ComputeQ5(sc.txs)) : q \in sc.queries}

(* The lines of a file: what lies between its newlines, but for the header *)
(* and for nothing after the last newline.                                 *)
DataLines(bytes) ==
    LET breaks == {0} \cup {i \in DOMAIN bytes : bytes[i] = Newline}
                      \cup (IF bytes # <<>> /\ Last(bytes) # Newline THEN {Len(bytes) + 1} ELSE {})
        at == SetToSortSeq(breaks, <)
    IN  [i \in 1 .. Len(at) - 2 |-> SubSeq(bytes, at[i + 1] + 1, at[i + 2] - 1)]

Due == [answer |-> Answer, lines |-> [i \in DOMAIN sc.files |-> DataLines(sc.files[i].bytes)]]

-----------------------------------------------------------------------------
(* The ways two streams can share a queue. *)
Merged(s, t, ofS) ==
    [i \in 1 .. Len(s) + Len(t) |->
        IF i \in ofS THEN s[Cardinality({j \in ofS : j <= i})] ELSE t[i - Cardinality({j \in ofS : j <= i})]]
Merges(streams) ==
    IF Len(streams) = 1 THEN {streams[1]}
    ELSE {Merged(streams[1], streams[2], ofS) : ofS \in kSubset(Len(streams[1]), 1 .. Len(streams[1]) + Len(streams[2]))}

Queues == (Threads \X Replicas) \cup ({"result"} \X sc.queries)

StagesInit ==
    /\ \E feed \in [DOMAIN sc.feeds -> UNION {Merges(sc.feeds[n]) : n \in DOMAIN sc.feeds}] :
           /\ \A n \in DOMAIN feed : feed[n] \in Merges(sc.feeds[n])
           /\ queue = [n \in Queues |-> IF n \in DOMAIN feed THEN feed[n] ELSE <<>>]
    /\ out = {}
    /\ st = [r \in Replicas |-> FreshOf(sc.kinds[r])]
    /\ saved = [r \in Replicas |-> InMemory(FreshCo)]
    /\ up = Replicas
    /\ th = [n \in Replicas \X Threads |-> Idle]
    /\ forgot = FALSE
    /\ crashes = 0 /\ fails = 0 /\ dups = 0

(* A session begins with the handshake, with the upload done, or is over.  *)
SessionInit ==
    /\ client = [at |-> CASE sc.begins = "handshake" -> "ready"
                          [] sc.begins = "waiting" -> "reading"
                          [] sc.begins = "over" -> "left",
                 next |-> 1, got |-> <<>>, due |-> Due]
    /\ gw = [at |-> sc.begins, file |-> None]
    /\ pend = IF sc.begins = "waiting" THEN Cardinality(sc.queries) ELSE None
    /\ sock = Empty /\ seen = {} /\ cq = <<>>
    /\ rc = [q \in sc.queries |-> <<>>]

NoSession ==
    /\ client = None /\ sock = None /\ gw = None /\ pend = None
    /\ seen = {} /\ cq = <<>> /\ rc = <<>>

PipelineInit ==
    /\ sc \in Scenarios
    /\ \/ sc.worker = "pipeline" /\ StagesInit /\ SessionInit
       \/ sc.worker # "pipeline" /\ Init /\ NoSession

(* The rest of the system answers query q when both files have ended. *)
FileEnded(path) == \E m \in out : m.type = "EOF" /\ m.to = <<"down", path>>
QueryEnds(q) ==
    /\ \A i \in DOMAIN sc.files : FileEnded(sc.files[i].path)
    /\ ~\E m \in out : m.type = "EOF" /\ m.to = <<"result", q>>
QueryAnswers(q) ==
    LET packet(type, items, n) == Between(type, items, 1) @@ [from |-> q, n |-> <<q, n>>, to |-> <<"result", q>>]
        data == packet("DATA", <<q>>, 0)
        eof == packet("EOF", <<>>, 1)
    IN  /\ QueryEnds(q)
        /\ queue' = [queue EXCEPT ![<<"result", q>>] = @ \o <<data, eof>>]
        /\ out' = out \cup {data, eof}
        /\ UNCHANGED <<sc, st, saved, up, th, forgot, crashes, fails, dups, gatewayVars>>

SessionSteps ==
    /\ sc.worker = "pipeline"
    /\ ClientSends \/ ClientLeaves \/ GatewayWorks \/ \E q \in sc.answers : QueryAnswers(q)

StageSteps == Next /\ UNCHANGED gatewayVars

(* Nobody has anything to do. *)
Resting ==
    IF sc.worker # "pipeline" THEN Quiet
    ELSE /\ Quiet /\ \A q \in sc.queries : rc[q] = <<>>
         /\ client.at \notin {"ready", "unacknowledged"} /\ gw.at # "aborting"
         /\ client.at = "left" => gw.at = "over"
         /\ client.at = "reading" => cq = <<>> /\ \A q \in sc.answers : ~QueryEnds(q)

PipelineNext == StageSteps \/ SessionSteps \/ (Resting /\ UNCHANGED pipelineVars)

(* The stages and the session go on as long as there is something to do:   *)
(* the fairness of PipelineNext, with the condition under which it is      *)
(* enabled written out.                                                    *)
PipelineSpec ==
    /\ PipelineInit /\ [][PipelineNext]_pipelineVars
    /\ GroupFairness
    /\ []<>(sc.worker # "pipeline" \/ Resting) \/ []<><<TRUE>>_pipelineVars

-----------------------------------------------------------------------------
SessionStatus ==
    IF sc.worker # "pipeline" \/ sc.begins = "over" THEN "open"
    ELSE CASE client.at = "done" -> "complete" [] client.at = "left" -> "left" [] OTHER -> "open"

Delivery ==
    INSTANCE ResultDelivery WITH answer <- IF sc.worker = "pipeline" THEN client.due.answer ELSE {},
                                 got <- IF sc.worker = "pipeline" THEN client.got ELSE <<>>,
                                 status <- SessionStatus

(* The client gets each line of the answer exactly once and the session    *)
(* does not end before: whatever the order of the senders' messages, which *)
(* stage crashes and what it publishes again, no result is lost between    *)
(* two stages, sent twice by two shards or overtaken by the EOF that       *)
(* closes the session (gateway.py, _run_result_consumer).                  *)
ImplementsDelivery == Delivery!Spec

(* Q3 has no result queue here, its barrier is in Q3Barrier: once the      *)
(* averages have ended there is one of each format, and the candidates     *)
(* that the date filter routes to the barrier and the barrier keeps are    *)
(* the rows of compute_q3, however the sum replicas shared the             *)
(* transactions and whatever crashed.                                      *)
Q3IsExact ==
    (sc.worker = "pipeline" /\ \E m \in out : m.type = "EOF" /\ m.to = <<"down", "averages">>) =>
        LET sent == {m \in out : m.type = "DATA" /\ m.to = <<"down", "averages">>}
            averages == {m.items[1] : m \in sent}
            candidates == Range(Routed("DATE", "q3_candidates", Routed("USD", "date", sc.txs)))
        IN  /\ Cardinality({a.format : a \in averages}) = Cardinality(sent)
            /\ {tx \in candidates : KeptByBarrier(averages, tx)} = ComputeQ3(sc.txs)

(* The EOF of a stage announces what the same sender sent to the same      *)
(* queue, and follows it: lines of transactions, batches of accounts,      *)
(* items of the others.  The EOF of Q4 counts for all dedupers.            *)
Units(m) == IF m.to = <<"down", "accounts">> THEN 1 ELSE Len(m.items)
StageEofIsExact ==
    sc.worker = "pipeline" =>
        \A e \in {m \in out : m.type = "EOF"} :
            e.total = MapThenSumSet(Units, {m \in out : /\ m.type = "DATA" /\ m.to = e.to
                                                       /\ (m.from = e.from \/ e.to = <<"result", 4>>)})

(* Wherever the chunks cut a file and whichever splitter crashes, a batch  *)
(* holds the lines that follow the number it carries, no line is in two,   *)
(* and all are out when the EOF is.                                        *)
SplitIsExact ==
    sc.worker = "pipeline" =>
        \A i \in DOMAIN sc.files :
            LET path == sc.files[i].path
                lines == client.due.lines[i]
                batches == {m \in out : m.type = "DATA" /\ m.to = <<"down", path>>}
                sent == UNION {{m.first - 2 + k : k \in DOMAIN m.items} : m \in batches}
            IN  /\ \A m \in batches : \A k \in DOMAIN m.items : m.items[k] = lines[m.first - 2 + k]
                /\ Cardinality(sent) = MapThenSumSet(LAMBDA m : Len(m.items), batches)
                /\ FileEnded(path) => sent = DOMAIN lines

-----------------------------------------------------------------------------
Aborted == \E n \in DOMAIN sc.feeds : \E i \in DOMAIN sc.feeds[n] : Last(sc.feeds[n][i]).type = "ABORT"

(* When a client has left and nothing is left to do, no stage keeps        *)
(* anything of it and whoever got its data heard of its end: the edges of  *)
(* the splitters an EOF or an ABORT each, and every stage behind a group   *)
(* that was told of the abort is closed and empty.                         *)
AbandonedIsForgotten ==
    (sc.worker = "pipeline" /\ Resting /\ client.at = "left") =>
        /\ \A r \in Replicas : sc.kinds[r] = "splitter" =>
               /\ st[r].data = FreshFiles
               /\ st[r].done # {} => \A path \in Edges : \E m \in out : m.type \in {"EOF", "ABORT"} /\ m.to = <<"down", path>>
        /\ Aborted => \A r \in Replicas : st[r].closed /\ st[r].eofs = {} /\ st[r].data = FreshOf(sc.kinds[r]).data

Settled ==
    /\ client.at \in {"left", "done"} /\ gw.at = "over"
    /\ \A r \in Replicas : st[r].closed \/ (sc.kinds[r] = "splitter" /\ st[r].data = FreshFiles)

(* A session ends, by the end of the results or because the client left,   *)
(* and every stage closes the client: no stage waits for an EOF or a batch *)
(* it took for a duplicate, and no crash leaves one in an outbox.          *)
SessionEnds == <>(sc.worker = "pipeline" => Settled)

=============================================================================
