----------------------------- MODULE Reductions -----------------------------
(***************************************************************************)
(* What the transactions of a client become on their way to the joiners:   *)
(* the routes of the filters, the Q5 conversion, and the reductions of the *)
(* sum and aggregator workers (processors.py), whose protocol is in        *)
(* FilterWorker, Q5UsdWorker, SumWorker and AggregatorWorker.              *)
(*                                                                         *)
(* A transaction is [bank, amount, row, currency, format, day].  Amounts   *)
(* are in tenths of a unit; the row stands for the account as well.  A     *)
(* quotient is the pair of its parts: <<sum, count>>, <<amount, rate>>.    *)
(***************************************************************************)
EXTENDS JoinerWorker, Q4Stages

USD == "US Dollar"
Unit == 10

-----------------------------------------------------------------------------
(* The filters. *)

FilterTransaction(configuration, tx) ==
    CASE configuration = "Q1" -> tx.amount < 50 * Unit
      [] configuration = "Q5" -> tx.format \in {"Wire", "ACH"}
      [] configuration = "USD" -> tx.currency = USD

(* The raw comparison of strings: "2022/09/06 00:10" follows "2022/09/06", *)
(* so that no transaction of the last day is in the window.                *)
ByRawTimestamp(tx, first, last) == first <= tx.day /\ tx.day < last

(* All outputs are enabled. *)
RouteTransaction(configuration, tx) ==
    CASE configuration = "Q1" -> IF FilterTransaction("Q1", tx) THEN {"gateway"} ELSE {}
      [] configuration = "Q5" -> IF FilterTransaction("Q5", tx) THEN {"q5_usd"} ELSE {}
      [] configuration = "USD" -> IF FilterTransaction("USD", tx) THEN {"q1", "sum_q2", "date"} ELSE {}
      [] configuration = "DATE" ->
            (IF ByRawTimestamp(tx, 1, 6) THEN {"sum_q3", "q4"} ELSE {})
                \cup (IF ByRawTimestamp(tx, 6, 15) THEN {"q3_candidates"} ELSE {})

Routed(configuration, to, txs) == SelectSeq(txs, LAMBDA tx : to \in RouteTransaction(configuration, tx))

(* The Q5 USD filter.  Rates are units of a currency for a dollar, and not *)
(* every day has one of every currency.                                    *)
Rates == <<1, "Euro">> :> 2 @@ <<5, "Euro">> :> 2

InDateRange(tx) == tx.day \in 1 .. 5
GetRate(day, currency) == IF <<day, currency>> \in DOMAIN Rates THEN Rates[<<day, currency>>] ELSE None
ConvertToUsd(tx) ==
    IF tx.currency = USD THEN <<tx.amount, 1>> ELSE <<tx.amount, GetRate(tx.day, tx.currency)>>
BelowOneDollar(tx) ==
    LET usd == ConvertToUsd(tx)
    IN  InDateRange(tx) /\ usd[2] # None /\ usd[1] < usd[2] * Unit

-----------------------------------------------------------------------------
(* The sums: processors of a replica, and the partials it flushes. *)

KeepBetter(best, p) ==
    IF p.bank \notin DOMAIN best \/ Better(p, best[p.bank]) THEN (p.bank :> p) @@ best ELSE best

Q2Process(best, tx) ==
    KeepBetter(best, [bank |-> NotebookBankId(tx.bank), amount |-> tx.amount, row |-> tx.row])

FreshQ3 == [sums |-> <<>>, counts |-> <<>>]
Q3Process(d, tx) ==
    [sums |-> AddCount(d.sums, tx.format, tx.amount), counts |-> AddCount(d.counts, tx.format, 1)]

(* A partial has the key it is sharded by. *)
Q2PartialTuple(candidate) == [key |-> candidate.bank, payload |-> candidate]
Q2Partials(best) == Listed({Q2PartialTuple(best[bank]) : bank \in DOMAIN best})

Q3PartialTuple(format, sum, count) ==
    [key |-> format, payload |-> [format |-> format, sum |-> sum, count |-> count]]
Q3Partials(d) == Listed({Q3PartialTuple(format, d.sums[format], d.counts[format]) : format \in DOMAIN d.sums})

SumPartials(configuration, txs) ==
    CASE configuration = "Q2" -> Q2Partials(FoldLeft(Q2Process, <<>>, txs))
      [] configuration = "Q3" -> Q3Partials(FoldLeft(Q3Process, FreshQ3, txs))

(* A digest of the key, modulo the aggregators: here a fixed function. *)
Digest == "1" :> 4 @@ "2" :> 7 @@ "Wire" :> 3 @@ "ACH" :> 6 @@ "Cash" :> 5
ShardForKey(key, shards) == Digest[key] % shards

-----------------------------------------------------------------------------
(* The aggregators. *)

Q2Accept(best, partial) == KeepBetter(best, [partial EXCEPT !.bank = NotebookBankId(@)])

(* Mutant of Q3Accept: every partial counts for one. *)
Q3AcceptOne(d, partial) ==
    [sums |-> AddCount(d.sums, partial.format, partial.sum), counts |-> AddCount(d.counts, partial.format, 1)]

Q3Accept(d, partial) ==
    [sums |-> AddCount(d.sums, partial.format, partial.sum),
     counts |-> AddCount(d.counts, partial.format, partial.count)]
Q3Results(d) ==
    Listed({[format |-> format, average |-> <<d.sums[format], d.counts[format]>>] : format \in DOMAIN d.sums})

(* What an aggregator that got these payloads sends: without any it has no *)
(* processor, and no results.  Each transaction of Q5 counts for one.      *)
AggregatorResults(configuration, payloads) ==
    IF payloads = <<>> THEN <<>>
    ELSE CASE configuration = "Q2" -> Listed(Range(FoldLeft(Q2Accept, <<>>, payloads)))
           [] configuration = "Q3" -> Q3Results(FoldLeft(Q3Accept, FreshQ3, payloads))
           [] configuration = "Q5" -> <<Len(payloads)>>

-----------------------------------------------------------------------------
(* The barrier keeps a candidate below a hundredth of its format's average. *)
THRESHOLD_DIVISOR == 100
KeptByBarrier(averages, tx) ==
    \E a \in averages : a.format = tx.format /\ tx.amount * THRESHOLD_DIVISOR * a.average[2] < a.average[1]

-----------------------------------------------------------------------------
(* The gate of the Q4 filter, source by source.  Payments are [source,     *)
(* target, currency, day]; accounts are numbers.                           *)
QUALIFY_TARGETS == 2           \* _QUALIFY_TARGETS, six in the code

CountedFor(tx) ==
    <<[role |-> Q4_EDGE_INCOMING, mid |-> tx.target, end |-> tx.source, count |-> 1],
      [role |-> Q4_EDGE_OUTGOING, mid |-> tx.source, end |-> tx.target, count |-> 1]>>

FreshSource == [targets |-> {}, qualified |-> FALSE, pending |-> <<>>, sent |-> <<>>]
GateEmit(state, tx) ==
    LET pending == Append(state.pending, tx)
        targets == state.targets \cup {tx.target}
    IN  IF state.qualified THEN [state EXCEPT !.sent = @ \o CountedFor(tx)]
        ELSE IF Cardinality(targets) < QUALIFY_TARGETS
        THEN [state EXCEPT !.pending = pending, !.targets = targets]
        ELSE [targets |-> {}, qualified |-> TRUE, pending |-> <<>>,
              sent |-> FlattenSeq([i \in DOMAIN pending |-> CountedFor(pending[i])])]

(* What the filter sends to a Q4 sum, source after source. *)
PartitionOf(counted, sums) == counted.mid % sums
GatedEdges(sum, sums, txs) ==
    LET sources == Listed({txs[i].source : i \in DOMAIN txs})
        of(s) == FoldLeft(GateEmit, FreshSource, SelectSeq(txs, LAMBDA tx : tx.source = s)).sent
    IN  SelectSeq(FlattenSeq([i \in DOMAIN sources |-> of(sources[i])]), LAMBDA e : PartitionOf(e, sums) = sum)

-----------------------------------------------------------------------------
(* The way through both, for a sum that got these transactions, in this    *)
(* order, on each replica: the results of an aggregator shard.             *)
Reduced(configuration, shard, shards, replicas) ==
    LET partials == FlattenSeq([r \in DOMAIN replicas |-> SumPartials(configuration, replicas[r])])
        mine == SelectSeq(partials, LAMBDA p : ShardForKey(p.key, shards) = shard)
    IN  AggregatorResults(configuration, [i \in DOMAIN mine |-> mine[i].payload])

(* Q5 has no sum, and the aggregator is the client's. *)
CountedQ5(shard, client, shards, txs) ==
    IF shard # client % shards THEN <<>>
    ELSE AggregatorResults("Q5", SelectSeq(Routed("Q5", "q5_usd", txs), BelowOneDollar))

=============================================================================
