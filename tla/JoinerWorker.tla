---------------------------- MODULE JoinerWorker ----------------------------
(***************************************************************************)
(* workers/joiner: reduces the partials of the aggregator shards of Q2, Q3 *)
(* or Q5 (g.kinds[me]) and emits when the EOF of each shard has come.  It  *)
(* counts EOFs; that none counts twice is left to the inbox.               *)
(***************************************************************************)
EXTENDS StageState

(* Q2 partials are [bank, amount, row], the row standing for the account   *)
(* too; bank ids are normalised by notebook_bank_id ("01" is bank "1").    *)
NotebookBankId(bank) == IF bank = "01" THEN "1" ELSE bank

Better(candidate, current) ==
    \/ candidate.amount > current.amount
    \/ candidate.amount = current.amount /\ candidate.row # 0 /\ current.row # 0 /\ candidate.row < current.row

FreshJoiner == [eofs |-> 0, any |-> FALSE, best |-> <<>>, total |-> 0, payloads |-> <<>>]

AcceptQ2(d, raw) ==
    LET p == [raw EXCEPT !.bank = NotebookBankId(@)]
    IN  IF p.bank \notin DOMAIN d.best \/ Better(p, d.best[p.bank])
        THEN [d EXCEPT !.best = (p.bank :> p) @@ @] ELSE d

(* One item to a DATA message. *)
Accept(kind, d, item) ==
    CASE kind = "joinerQ2" -> AcceptQ2(d, item)
      [] kind = "joinerQ3" -> [d EXCEPT !.payloads = Append(@, item)]
      [] kind = "joinerQ5" -> [d EXCEPT !.total = @ + item]

(* results_for: no processor, no results.  The order of a dict of banks is *)
(* that of some sequence of them.                                          *)
JoinerResults(kind, d) ==
    IF ~d.any THEN <<>>
    ELSE CASE kind = "joinerQ2" -> Listed(Range(d.best))
           [] kind = "joinerQ3" -> d.payloads
           [] kind = "joinerQ5" -> <<d.total>>

(* Q2 goes to the bank name joiner, Q3 to the barrier, Q5 to the gateway.  *)
JoinerSend(g, me, msg) ==
    CASE g.kinds[me] = "joinerQ2" -> Send("input", ShardOf(g, "banknames", 0), msg)
      [] g.kinds[me] = "joinerQ3" -> Send("down", "averages", msg)
      [] g.kinds[me] = "joinerQ5" -> Send("result", 5, msg)

JoinedOutputs(g, me, results) ==
    Append([i \in 1 .. Len(results) |-> JoinerSend(g, me, Between("DATA", <<results[i]>>, 0))],
           JoinerSend(g, me, Between("EOF", <<>>, Len(results))))

(* _apply_data, _apply_eof and _apply_close of JoinerState. *)
JoinerApplied(kind, st, item) ==
    IF st.closed THEN st ELSE [st EXCEPT !.data = Accept(kind, [@ EXCEPT !.any = TRUE], item)]
JoinerCounted(st) == IF st.closed THEN st ELSE [st EXCEPT !.data.eofs = @ + 1]
JoinerClosed(st) == CloseStage(st, FreshJoiner)

JoinerData(g, me, st, m) == Input(SeqId(m), JoinerApplied(g.kinds[me], st, m.items[1]), <<>>)

JoinerEof(g, me, st, m) ==
    IF ~st.closed /\ st.data.eofs + 1 = g.senders
    THEN Emit(SeqId(m), me, JoinerClosed(st),
              JoinedOutputs(g, me, JoinerResults(g.kinds[me], st.data)))
    ELSE Input(SeqId(m), JoinerCounted(st), <<>>)

JoinerAbort(g, me, st, m) ==
    Emit(SeqId(m), me, JoinerClosed(st),
         IF g.kinds[me] = "joinerQ5" THEN <<>> ELSE <<JoinerSend(g, me, Between("ABORT", <<>>, 0))>>)

JoinerHandle(g, me, st, m) ==
    CASE m.type = "DATA" -> JoinerData(g, me, st, m)
      [] m.type = "EOF" -> JoinerEof(g, me, st, m)
      [] m.type = "ABORT" -> JoinerAbort(g, me, st, m)

=============================================================================
