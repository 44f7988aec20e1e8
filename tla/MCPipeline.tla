----------------------------- MODULE MCPipeline -----------------------------
EXTENDS Pipeline, MCEofGroup

(* A pipeline whose stages are of these kinds, 0 first. *)
Chain(kinds) ==
    [worker |-> "pipeline", input |-> "sharded", size |-> Len(kinds), kinds |-> [r \in 0 .. Len(kinds) - 1 |-> kinds[r + 1]],
     senders |-> 2, partitions |-> 2, chunk |-> 3]
Query(queries, feeds) ==
    [files |-> <<>>, answers |-> {}, leaves |-> FALSE, queries |-> queries, feeds |-> feeds, begins |-> "waiting"]
Abandoned(feeds) ==
    [files |-> <<>>, answers |-> {}, leaves |-> FALSE, queries |-> {}, feeds |-> feeds, begins |-> "over"]
Rows(txs, names) == [txs |-> txs, names |-> names]

(* What sender publishes: a message for each sequence of items, then end. *)
Stream(sender, batches, end) ==
    [i \in 1 .. Len(batches) + 1 |->
        (IF i <= Len(batches) THEN Between("DATA", batches[i], 0) ELSE Between(end, <<>>, Len(batches)))
            @@ [from |-> sender, n |-> <<sender, i>>, to |-> None]]

-----------------------------------------------------------------------------
(* Two banks, one under two spellings and with a tie; payments in another  *)
(* currency, with and without a rate, at one dollar and below; one on the  *)
(* first day after each window; candidates at the bound and below.         *)
Tx(bank, amount, currency, format, day) ==
    [bank |-> bank, amount |-> amount, currency |-> currency, format |-> format, day |-> day]
InFile(txs) == [i \in DOMAIN txs |-> txs[i] @@ [row |-> i + 1]]
Txs == InFile(<<Tx("2", 700, USD, "Wire", 1), Tx("01", 900, USD, "ACH", 3), Tx("1", 900, USD, "Wire", 5),
                Tx("1", 5000, "Euro", "Wire", 2), Tx("2", 8, USD, "ACH", 5), Tx("1", 19, "Euro", "Wire", 5),
                Tx("1", 20, "Euro", "Wire", 1), Tx("1", 1, "Yen", "ACH", 2), Tx("2", 10, USD, "Cash", 2),
                Tx("1", 3, USD, "ACH", 6), Tx("2", 5, USD, "ACH", 6), Tx("2", 8, USD, "Wire", 14), Tx("1", 1, USD, "Wire", 15)>>)
Few == InFile(<<Tx("2", 30, USD, "Cash", 1)>>)
Name(bank, name) == [bank |-> bank, name |-> name]
Names == {Name("01", "a"), Name("1", "b"), Name("2", "c")}

(* The transactions of two sum replicas, each in its order of arrival. *)
Arrivals(txs, first) == <<SelectSeq(Reverse(txs), LAMBDA tx : tx.row % 2 = first), SelectSeq(txs, LAMBDA tx : tx.row % 2 # first)>>
FromShards(txs, end) ==
    <<"input", 0>> :> [i \in 1 .. 2 |-> Stream(i - 1, txs[i], IF i = 1 THEN end ELSE "EOF")]
Singly(items) == [i \in DOMAIN items |-> <<items[i]>>]
Q2Partial(txs, first) ==
    [i \in 1 .. 2 |-> Singly(Reduced("Q2", i - 1, 2, Arrivals(Routed("USD", "sum_q2", txs), first)))]
Q3Partial(txs, first) ==
    [i \in 1 .. 2 |-> Singly(Reduced("Q3", i - 1, 2, Arrivals(Routed("DATE", "sum_q3", Routed("USD", "date", txs)), first)))]
Q5Partial(txs, id) == [i \in 1 .. 2 |-> Singly(CountedQ5(i - 1, id, 2, txs))]
Q1Feed(txs) == <<"result", 1>> :> <<Stream(0, <<Routed("Q1", "gateway", Routed("USD", "q1", txs))>>, "EOF")>>

Q2Feeds(end) ==
    FromShards(Q2Partial(Txs, 0), end)
    @@ (<<"control", 1>> :> <<Stream(0, <<(<<Name("01", "a"), Name("1", "b")>>), <<Name("2", "c")>>>>, end)>>)
Q2Chain == Chain(<<"joinerQ2", "banknames">>) @@ Rows(Txs, Names)

Q2Scenarios ==
    {Q2Chain @@ Query({2}, Q2Feeds("EOF")) @@ Trouble({r}, {}, 0) : r \in {0, 1}}
    \cup {Q2Chain @@ Query({2}, Q2Feeds("EOF")) @@ Trouble({}, {"DATA", "EOF"}, 0),
          Q2Chain @@ Abandoned(Q2Feeds("ABORT")) @@ Calm}
CountScenarios ==
    {Chain(<<"joinerQ5">>) @@ Rows(Txs, {}) @@ Query({5}, FromShards(Q5Partial(Txs, 1), "EOF")) @@ Trouble({0}, {}, 1),
     Chain(<<"joinerQ5">>) @@ Rows(Txs, {}) @@ Query({1, 5}, Q1Feed(Txs) @@ FromShards(Q5Partial(Txs, 0), "EOF")) @@ Calm}
    \cup {Chain(<<"joinerQ5">>) @@ Rows(Few, {}) @@ Query({5}, FromShards(Q5Partial(Few, 0), "EOF")) @@ Calm,
          Chain(<<"joinerQ2", "banknames", "joinerQ5">>) @@ Rows(Few, {Name("2", "c")})
            @@ Query({2, 5}, FromShards(Q2Partial(Few, 0), "EOF") @@ (<<"control", 1>> :> <<Stream(1, <<(<<Name("2", "c")>>)>>, "EOF")>>)
                                 @@ (<<"input", 2>> :> FromShards(Q5Partial(Few, 0), "EOF")[<<"input", 0>>])) @@ Calm}
    \cup {Chain(<<"joinerQ3">>) @@ Rows(Txs, {}) @@ Abandoned(FromShards(Q3Partial(Txs, first), end)) @@ Trouble({0}, {}, 0) :
            first \in {0, 1}, end \in {"EOF", "ABORT"}}

-----------------------------------------------------------------------------
(* Accounts 1 and t have 2 * 2 + 1 * 2 paths over 3 and 4; 1 and 5 have 2; *)
(* 3 is also its own target.  Account 6 would have twelve paths to t, but  *)
(* pays only 3; a payment is late and one is not in dollars.  Intermediate *)
(* 3 is hot.  An even t is at another deduper than 1.                      *)
Pay(source, target, currency, day) == [source |-> source, target |-> target, currency |-> currency, day |-> day]
Often(n, tx) == [i \in 1 .. n |-> tx]
Payments(t) ==
    Often(6, Pay(6, 3, USD, 1)) \o Often(2, Pay(1, 3, USD, 1)) \o Often(2, Pay(3, t, USD, 5)) \o <<Pay(1, 4, USD, 2)>>
        \o Often(2, Pay(4, t, USD, 1)) \o <<Pay(3, 5, USD, 2), Pay(3, 1, USD, 1), Pay(4, 6, USD, 3)>>
        \o Often(9, Pay(1, 3, USD, 6)) \o Often(9, Pay(1, 3, "Euro", 1))
Gated(t, sum, sums) == GatedEdges(sum, sums, Routed("DATE", "q4", Routed("USD", "date", Payments(t))))

OneSum(t, end) ==
    LET edges == Gated(t, 0, 1)
    IN  <<"input", 0>> :> <<Stream(0, <<SubSeq(edges, 1, 7), SubSeq(edges, 8, Len(edges))>>, end)>>
TwoSums(t, end) ==
    (<<"input", 0>> :> <<Stream(0, <<Gated(t, 0, 2)>>, end)>>) @@ (<<"input", 1>> :> <<Stream(0, <<Gated(t, 1, 2)>>, end)>>)

Q4Chain(kinds, t) == [Chain(kinds) EXCEPT !.senders = 1] @@ Rows(Payments(t), {})
WideMiddle == Q4Chain(<<"q4sum", "q4joiner", "q4joiner", "q4aggregator", "q4deduper", "q4deduper">>, 2)
WideEnds == Q4Chain(<<"q4sum", "q4sum", "q4joiner", "q4aggregator", "q4aggregator", "q4deduper">>, 2)
OneOfEach == Q4Chain(<<"q4sum", "q4joiner", "q4aggregator", "q4deduper">>, 2)
TwoJoiners == Q4Chain(<<"q4sum", "q4joiner", "q4joiner", "q4aggregator", "q4deduper">>, 2)
TwoDedupers(t) == Q4Chain(<<"q4sum", "q4joiner", "q4aggregator", "q4deduper", "q4deduper">>, t)

(* The stages that crash have one replica, or two and no session to go on  *)
(* beside them.                                                            *)
Q4Scenarios ==
    {TwoDedupers(2) @@ Query({4}, OneSum(2, "EOF")) @@ Calm, WideEnds @@ Query({4}, TwoSums(2, "EOF")) @@ Calm,
     WideMiddle @@ Abandoned(OneSum(2, "ABORT")) @@ Calm, WideEnds @@ Abandoned(TwoSums(2, "ABORT")) @@ Calm,
     OneOfEach @@ Query({4}, OneSum(2, "EOF")) @@ Trouble({2}, {"REPUBLISHED"}, 0)}
    \cup {OneOfEach @@ Query({4}, OneSum(2, "EOF")) @@ Trouble({r}, {}, 0) : r \in {0, 3}}
    \cup {TwoJoiners @@ Abandoned(OneSum(2, "EOF")) @@ Trouble({r}, {}, 0) : r \in {1, 3}}
    \cup {TwoDedupers(7) @@ Abandoned(OneSum(7, "EOF")) @@ Trouble({r}, {}, 0) : r \in {3, 4}}

-----------------------------------------------------------------------------
(* A header and lines of two bytes, cut within lines and at their ends;    *)
(* one file has no newline at its end.                                     *)
Transactions == [path |-> "transactions", bytes |-> <<"h", Newline, "a", "b", Newline, "c", "d", Newline, "e">>]
Accounts == [path |-> "accounts", bytes |-> <<"h", Newline, "x", "y", Newline>>]
NoAccounts == [path |-> "accounts", bytes |-> <<>>]

Upload(files, partitions, size) ==
    [Chain([i \in 1 .. partitions |-> "splitter"]) EXCEPT !.partitions = partitions, !.chunk = size]
        @@ Rows(<<>>, {}) @@ [files |-> files, answers |-> {1, 4}, leaves |-> TRUE, queries |-> {1, 4}, feeds |-> <<>>, begins |-> "handshake"]

UploadScenarios ==
    {Upload(<<Transactions, Accounts>>, n, size) @@ Calm : n \in {1, 2}, size \in {2, 3}}
    \cup {Upload(<<Transactions, accounts>>, 1, 4) @@ Trouble({0}, {}, 0) : accounts \in {Accounts, NoAccounts}}

PipelineScenarios == LiveScenarios \cup Q2Scenarios \cup CountScenarios \cup Q4Scenarios \cup UploadScenarios

=============================================================================
