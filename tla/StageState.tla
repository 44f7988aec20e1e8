----------------------------- MODULE StageState -----------------------------
(***************************************************************************)
(* What the single-purpose stages of a query keep for one client: the      *)
(* joiners, the bank name joiner, the Q4 stages and the file splitter.     *)
(* g.kinds[r] is the kind of stage r; the stages of a kind are numbered    *)
(* one after the other, as their IDs are.                                  *)
(***************************************************************************)
EXTENDS ReplicaState

FreshStage(data) ==
    [closed  |-> FALSE,
     data    |-> data,       \* what the stage accumulates
     eofs    |-> {},         \* UpstreamEofCounter: senders whose EOF came
     seq     |-> 0,          \* SenderSequencer: outputs stamped so far
     co      |-> FreshCo,    \* no coordinator in these stages
     applied |-> {}, done |-> {},
     outbox  |-> <<>>]

(* Replicas of a kind, and the one that has a shard. *)
Amount(g, kind) == Cardinality({r \in DOMAIN g.kinds : g.kinds[r] = kind})
ShardOf(g, kind, shard) == CHOOSE r \in DOMAIN g.kinds :
    g.kinds[r] = kind /\ Cardinality({p \in DOMAIN g.kinds : g.kinds[p] = kind /\ p < r}) = shard

(* The elements of a set in some order. *)
Listed(S) == FoldSet(LAMBDA x, s : Append(s, x), <<>>, S)

(* A message between stages; n is (sender_id, seq), items the payload.     *)
Between(type, items, total) == [type |-> type, items |-> items, total |-> total]

(* handle() of a NEW input: the outputs get the sender's next numbers.     *)
Emit(id, me, st, outs) ==
    Input(id, [st EXCEPT !.seq = @ + Len(outs)],
          [i \in 1 .. Len(outs) |->
              [outs[i] EXCEPT !.msg = @ @@ [from |-> me, n |-> <<me, st.seq + i>>,
                                     to |-> <<outs[i].queue, outs[i].to>>]]])

(* UpstreamEofCounter.would_flush and on_eof. *)
WouldFlush(expected, st, sender) ==
    ~st.closed /\ sender \notin st.eofs /\ Cardinality(st.eofs) + 1 >= expected
OnEof(st, sender) == IF st.closed THEN st ELSE [st EXCEPT !.eofs = @ \cup {sender}]

(* _apply_close, with UpstreamEofCounter.close. *)
CloseStage(st, empty) == [st EXCEPT !.closed = TRUE, !.data = empty, !.eofs = {}]

(* A closed client's message is acknowledged unless its outputs are due.   *)
StageSkips(st, id) == st.closed /\ id \notin st.applied

(* _handle_eof of the Q4 stages: the last upstream EOF flushes and closes. *)
FanInEof(expected, me, st, m, empty, outs) ==
    IF StageSkips(st, SeqId(m)) THEN AckOnly
    ELSE IF WouldFlush(expected, st, m.from) THEN Emit(SeqId(m), me, CloseStage(st, empty), outs)
    ELSE Input(SeqId(m), OnEof(st, m.from), <<>>)

(* The shards of a kind; its message to each. *)
Shards(g, kind) == 0 .. Amount(g, kind) - 1
ToAll(g, kind, msgs) ==
    [i \in 1 .. Amount(g, kind) |-> Send("input", ShardOf(g, kind, i - 1), msgs[i - 1])]

(* Mutant of AbortAll: only the first replica hears of it. *)
AbortFirst(g, kind) == <<Send("input", ShardOf(g, kind, 0), Between("ABORT", <<>>, 0))>>

AbortAll(g, kind) == ToAll(g, kind, [p \in Shards(g, kind) |-> Between("ABORT", <<>>, 0)])

(* parts[p] are the items for shard p: one DATA for each shard that has    *)
(* some (the batch limit is not reached), then to every shard its EOF.     *)
Scatter(g, kind, parts) ==
    SelectSeq(ToAll(g, kind, [p \in Shards(g, kind) |-> Between("DATA", parts[p], 0)]),
              LAMBDA send : send.msg.items # <<>>)
ScatterEofs(g, kind, parts) ==
    ToAll(g, kind, [p \in Shards(g, kind) |-> Between("EOF", <<>>, Len(parts[p]))])

(* counts[key] += count, from 0. *)
AddCount(counts, key, count) ==
    (key :> (IF key \in DOMAIN counts THEN counts[key] ELSE 0) + count) @@ counts

=============================================================================
