------------------------------ MODULE Q4Stages ------------------------------
(***************************************************************************)
(* workers/scatter_gather: the four fan-in stages after the Q4 filter.     *)
(*   q4sum         counts the edges at an intermediate account and plans   *)
(*                 the blocks to join;                                     *)
(*   q4joiner      multiplies the two sides of its blocks into pair paths; *)
(*   q4aggregator  adds the paths of a pair up to the threshold and sends  *)
(*                 the two accounts of a pair that reaches it;             *)
(*   q4deduper     sends each account once; deduper 0 announces the end.   *)
(* Accounts are numbers and partition_for_parts is a sum modulo.           *)
(***************************************************************************)
EXTENDS StageState

Q4_QUALIFY_THRESHOLD == 6
Q4_SUM_HOT_PAIR_THRESHOLD == 2
HotBuckets == 2                \* Q4_SUM_HOT_A_BUCKETS and _B_BUCKETS

Q4_EDGE_INCOMING == "in"
Q4_EDGE_OUTGOING == "out"

(* Both sum and joiner keep {key: {endpoint: count}} for each side. *)
FreshSides == [in |-> <<>>, out |-> <<>>]
Endpoints(side, key) == {e \in {k[2] : k \in DOMAIN side} : <<key, e>> \in DOMAIN side}
Keys(side) == {k[1] : k \in DOMAIN side}
AddEdge(d, key, e) ==
    IF e.role = Q4_EDGE_INCOMING THEN [d EXCEPT !.in = AddCount(@, <<key, e.end>>, e.count)]
    ELSE [d EXCEPT !.out = AddCount(@, <<key, e.end>>, e.count)]

-----------------------------------------------------------------------------
(* q4_sum.  Counted edges are [role, mid, end, count]. *)

BlockPlan(incoming, outgoing) ==
    IF incoming * outgoing <= Q4_SUM_HOT_PAIR_THRESHOLD THEN 1 ELSE HotBuckets
AccountBucket(account, buckets) == account % buckets
BlockPartition(g, e) == (e.mid + e.a + e.b) % Amount(g, "q4joiner")

(* The half edges of an intermediate: each goes to all blocks of its own   *)
(* bucket, so that every pair meets in one block.                          *)
BlockEdges(d, mid) ==
    LET buckets == BlockPlan(Cardinality(Endpoints(d.in, mid)), Cardinality(Endpoints(d.out, mid)))
    IN  {[role |-> Q4_EDGE_INCOMING, mid |-> mid, end |-> e, a |-> AccountBucket(e, buckets), b |-> b,
          count |-> d.in[<<mid, e>>]] : e \in Endpoints(d.in, mid), b \in 0 .. buckets - 1}
        \cup {[role |-> Q4_EDGE_OUTGOING, mid |-> mid, end |-> e, a |-> a, b |-> AccountBucket(e, buckets),
               count |-> d.out[<<mid, e>>]] : e \in Endpoints(d.out, mid), a \in 0 .. buckets - 1}

Q4SumFlush(g, d) ==
    LET edges == Listed(UNION {BlockEdges(d, mid) : mid \in Keys(d.in) \cap Keys(d.out)})
        parts == [p \in Shards(g, "q4joiner") |-> SelectSeq(edges, LAMBDA e : BlockPartition(g, e) = p)]
    IN  Scatter(g, "q4joiner", parts) \o ScatterEofs(g, "q4joiner", parts)

Q4SumApplied(st, edges) ==
    IF st.closed THEN st
    ELSE [st EXCEPT !.data = FoldLeft(LAMBDA d, e : AddEdge(d, e.mid, e), @, edges)]
Q4SumData(st, m) == Input(SeqId(m), Q4SumApplied(st, m.items), <<>>)

Q4SumHandle(g, me, st, m) ==
    CASE m.type = "DATA" -> Q4SumData(st, m)
      [] m.type = "EOF" -> FanInEof(g.senders, me, st, m, FreshSides, Q4SumFlush(g, st.data))
      [] m.type = "ABORT" -> Emit(SeqId(m), me, CloseStage(st, FreshSides), AbortAll(g, "q4joiner"))

-----------------------------------------------------------------------------
(* q4_joiner.  Its keys are blocks; pair paths are [source, target, paths]. *)

PairPartition(g, p) == (p.source + p.target) % Amount(g, "q4aggregator")

PairPaths(d, block) ==
    {[source |-> s, target |-> t, block |-> block,
      paths |-> Min({d.in[<<block, s>>] * d.out[<<block, t>>], Q4_QUALIFY_THRESHOLD})] :
        <<s, t>> \in {p \in Endpoints(d.in, block) \X Endpoints(d.out, block) : p[1] # p[2]}}

Q4JoinerFlush(g, d) ==
    LET pairs == Listed(UNION {PairPaths(d, block) : block \in Keys(d.in) \cap Keys(d.out)})
        parts == [p \in Shards(g, "q4aggregator") |-> SelectSeq(pairs, LAMBDA x : PairPartition(g, x) = p)]
    IN  Scatter(g, "q4aggregator", parts) \o ScatterEofs(g, "q4aggregator", parts)

Q4JoinerApplied(st, edges) ==
    IF st.closed THEN st
    ELSE [st EXCEPT !.data = FoldLeft(LAMBDA d, e : AddEdge(d, <<e.mid, e.a, e.b>>, e), @, edges)]
Q4JoinerData(st, m) == Input(SeqId(m), Q4JoinerApplied(st, m.items), <<>>)

(* The abort of the last three stages: a closed client's is acknowledged.  *)
Q4AbortOnce(me, st, m, empty, outs) ==
    IF st.closed THEN AckOnly ELSE Emit(SeqId(m), me, CloseStage(st, empty), outs)

Q4JoinerHandle(g, me, st, m) ==
    CASE m.type = "DATA" -> Q4JoinerData(st, m)
      [] m.type = "EOF" -> FanInEof(Amount(g, "q4sum"), me, st, m, FreshSides, Q4JoinerFlush(g, st.data))
      [] m.type = "ABORT" -> Q4AbortOnce(me, st, m, FreshSides, AbortAll(g, "q4aggregator"))

-----------------------------------------------------------------------------
(* q4_aggregator. *)

FreshPairs == [counts |-> <<>>, qualified |-> {}, sent |-> <<>>]
AccountPartition(g, account) == account % Amount(g, "q4deduper")
AccountParts(g, accounts) ==
    [p \in Shards(g, "q4deduper") |-> SelectSeq(accounts, LAMBDA a : AccountPartition(g, a) = p)]

(* _apply_batch on one pair: sent collects the accounts to forward. *)
AddPair(d, p) ==
    LET key == <<p.source, p.target>>
        counts == AddCount(d.counts, key, p.paths)
    IN  IF p.source = p.target \/ key \in d.qualified THEN d
        ELSE IF counts[key] < Q4_QUALIFY_THRESHOLD THEN [d EXCEPT !.counts = counts]
        ELSE [d EXCEPT !.counts = [k \in DOMAIN counts \ {key} |-> counts[k]],
                       !.qualified = @ \cup {key}, !.sent = @ \o <<p.source, p.target>>]

(* predict_data_outputs: the accounts that _apply_data is about to add.    *)
Q4AggregatorApplied(st, pairs) ==
    IF st.closed THEN st ELSE [st EXCEPT !.data = FoldLeft(AddPair, @, pairs)]
Q4AggregatorPredicted(st, pairs) ==
    LET sent == Q4AggregatorApplied(st, pairs).data.sent
    IN  SubSeq(sent, Len(st.data.sent) + 1, Len(sent))

Q4AggregatorData(g, me, st, m) ==
    IF StageSkips(st, SeqId(m)) THEN AckOnly
    ELSE Emit(SeqId(m), me, Q4AggregatorApplied(st, m.items),
              Scatter(g, "q4deduper", AccountParts(g, Q4AggregatorPredicted(st, m.items))))

Q4AggregatorHandle(g, me, st, m) ==
    CASE m.type = "DATA" -> Q4AggregatorData(g, me, st, m)
      [] m.type = "EOF" -> FanInEof(Amount(g, "q4joiner"), me, st, m, FreshPairs,
                               ScatterEofs(g, "q4deduper", AccountParts(g, st.data.sent)))
      [] m.type = "ABORT" -> Q4AbortOnce(me, st, m, FreshPairs, AbortAll(g, "q4deduper"))

-----------------------------------------------------------------------------
(* q4_deduper.  reports, total and led are the leader's. *)

FreshAccounts == [accounts |-> {}, reports |-> {}, total |-> 0, led |-> FALSE]

GatewayEof(total) == Send("result", 4, Between("EOF", <<>>, total))
LeaderReport(g, emitted) == Send("response", ShardOf(g, "q4deduper", 0), Between("EOF_RECEIVED", <<>>, emitted))

(* The accounts fit one batch. *)
GatewayData(accounts) ==
    IF accounts = {} THEN <<>> ELSE <<Send("result", 4, Between("DATA", Listed(accounts), 0))>>

(* Mutant of CloseOutputs: the report leaves before the accounts. *)
CloseOutputsReportFirst(g, accounts) ==
    <<IF Amount(g, "q4deduper") = 1 THEN GatewayEof(Cardinality(accounts))
      ELSE LeaderReport(g, Cardinality(accounts))>> \o GatewayData(accounts)

CloseOutputs(g, accounts) ==
    Append(GatewayData(accounts),
           IF Amount(g, "q4deduper") = 1 THEN GatewayEof(Cardinality(accounts))
           ELSE LeaderReport(g, Cardinality(accounts)))

Q4DeduperApplied(st, accounts) ==
    IF st.closed THEN st ELSE [st EXCEPT !.data.accounts = @ \cup Range(accounts)]
Q4DeduperData(st, m) ==
    IF StageSkips(st, SeqId(m)) THEN AckOnly
    ELSE Input(SeqId(m), Q4DeduperApplied(st, m.items), <<>>)

(* leader_report_would_complete, and the changes of the leader's tally: it *)
(* counts a shard once, and nothing after it has closed.                   *)
LeaderReportWouldComplete(g, d, sender) ==
    ~d.led /\ sender \notin d.reports /\ Cardinality(d.reports) + 1 >= Amount(g, "q4deduper")
ApplyLeaderReport(d, sender, emitted) ==
    IF d.led \/ sender \in d.reports THEN d
    ELSE [d EXCEPT !.reports = @ \cup {sender}, !.total = @ + emitted]
ApplyLeaderClose(d) == [d EXCEPT !.reports = {}, !.total = 0, !.led = TRUE]

(* _handle_leader_report. *)
Q4DeduperReport(g, me, st, m) ==
    LET id == <<m.type, m.from>>
        d == st.data
    IN  IF me # ShardOf(g, "q4deduper", 0) \/ (d.led /\ id \notin st.applied) THEN AckOnly
        ELSE IF LeaderReportWouldComplete(g, d, m.from)
        THEN Emit(id, me, [st EXCEPT !.data = ApplyLeaderClose(ApplyLeaderReport(d, m.from, m.total))],
                  <<GatewayEof(d.total + m.total)>>)
        ELSE Input(id, [st EXCEPT !.data = ApplyLeaderReport(d, m.from, m.total)], <<>>)

Q4DeduperHandle(g, me, st, m) ==
    LET empty == [st.data EXCEPT !.accounts = {}]
    IN  CASE m.type = "DATA" -> Q4DeduperData(st, m)
          [] m.type = "EOF" -> FanInEof(Amount(g, "q4aggregator"), me, st, m, empty,
                                        CloseOutputs(g, st.data.accounts))
          [] m.type = "ABORT" -> Q4AbortOnce(me, st, m, empty, <<>>)
          [] m.type = "EOF_RECEIVED" -> Q4DeduperReport(g, me, st, m)

=============================================================================
