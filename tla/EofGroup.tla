------------------------------ MODULE EofGroup ------------------------------
(***************************************************************************)
(* The replicas of one worker finishing one client.  Each replica has a    *)
(* data, a control and a response thread, each with a queue of its own and *)
(* one message in hand (prefetch 1), around one durable state.             *)
(*                                                                         *)
(* Logged changes survive a crash (DurableWorker shows it), so a crash     *)
(* keeps the replica's state except what the coordinator holds only in     *)
(* memory: that goes back to what the last snapshot saved.  handle() and   *)
(* commit_done() are one step each, as their lock makes them; recovery     *)
(* with its republishing is one step, since the threads start after it.    *)
(***************************************************************************)
EXTENDS FilterWorker, SumWorker, IngestorWorker, AggregatorWorker, Q5UsdWorker, Q4FilterWorker, Stages, TLC

CONSTANTS
    Scenarios    \* [worker, size, mode, input, ends] of the group, and the bounds:
                 \*  crashable, crashes   replicas that crash, and how often
                 \*  failing, fails       messages whose sends raise, and how often
                 \*  dups                 upstream messages published again

VARIABLES
    sc,          \* the scenario at hand
    queue,       \* the ready messages of each queue
    out,         \* messages the next stage got (it drops repeated ones)
    st,          \* state of each replica
    saved,       \* coordinator state in each replica's snapshot
    up,          \* replicas that run
    th,          \* what each thread has in hand
    forgot,      \* history: a crash lost an acknowledged PROCESSED_ANSWER
    crashes, fails, dups

vars == <<sc, queue, out, st, saved, up, th, forgot, crashes, fails, dups>>

Replicas == 0 .. sc.size - 1
Threads == {"input", "control", "response"}

(* A shared input queue is that of replica 0. *)
Shared(t) == t = "input" /\ sc.input = "shared"
QueueOf(r, t) == IF Shared(t) THEN <<t, 0>> ELSE <<t, r>>

Handler(r, t, m) ==
    CASE sc.worker = "filter" -> FilterHandle(sc, r, st[r], m)
      [] sc.worker = "sum" -> SumHandle(sc, r, st[r], m)
      [] sc.worker = "ingestor" -> IngestorHandle(sc, r, st[r], m)
      [] sc.worker = "aggregator" -> AggregatorHandle(sc, r, st[r], m)
      [] sc.worker = "q5usd" -> Q5UsdHandle(sc, r, st[r], m)
      [] sc.worker = "q4filter" -> Q4FilterHandle(sc, r, st[r], m)
      [] sc.worker = "pipeline" -> StageHandle(sc, r, t, st[r], m)

Idle == [at |-> "idle"]
Busy(m, id, todo) == [at |-> "publish", msg |-> m, id |-> id, todo |-> todo]
Acking(m) == [at |-> "ack", msg |-> m]

(* Messages go back to the front of the queue they came from. *)
Requeue(q, r, t) ==
    [q EXCEPT ![QueueOf(r, t)] = (IF th[<<r, t>>] = Idle THEN <<>> ELSE <<th[<<r, t>>].msg>>) \o @]

(* A stage publishes to the queues of its own group or to the next stage;  *)
(* of a pipeline, out keeps all messages.                                  *)
Deliver(outs, q, o) ==
    [queue |-> FoldLeft(LAMBDA x, d : IF <<d.queue, d.to>> \in DOMAIN x
                                      THEN [x EXCEPT ![<<d.queue, d.to>>] = Append(@, d.msg)] ELSE x, q, outs),
     out |-> o \cup {d.msg : d \in {x \in Range(outs) : x.queue = "down" \/ sc.worker = "pipeline"}}]

(* What the coordinator holds only in memory: the counts of the answers    *)
(* (the Q4 filter logs them) and, in the ingestor, whom to answer.         *)
InMemory(co) ==
    [processed |-> co.processed, responders |-> co.responders,
     pending |-> IF sc.worker = "ingestor" THEN co.pending ELSE None]

-----------------------------------------------------------------------------
(* What the upstream stage put in the input queues: the client's data in   *)
(* order on one queue, then EOF; or ABORT to every replica.  Partials for  *)
(* an aggregator and edges for a Q4 filter are spread over the shards, and *)
(* each shard gets the EOF.                                                *)

Spread == sc.worker \in {"aggregator", "q4filter"}
Home == IF sc.input = "sharded" THEN sc.size - 1 ELSE 0
DataMsg(n) == [type |-> "DATA", n |-> n, total |-> 0]
EndMsg == [type |-> sc.ends, n |-> Data + 1, total |-> Data]

InputOf(place, r) ==
    FlattenSeq([n \in 1 .. Data |-> IF place[n] = r THEN <<DataMsg(n)>> ELSE <<>>])
    \o (IF sc.ends = "ABORT" \/ Spread \/ r = Home THEN <<EndMsg>> ELSE <<>>)

Places ==
    IF ~Spread THEN {[n \in 1 .. Data |-> Home]}
    ELSE {place \in [1 .. Data -> Replicas] : \A n \in 2 .. Data : place[n - 1] <= place[n]}

Init ==
    /\ sc \in Scenarios
    /\ \E place \in Places :
           queue = [q \in Threads \X Replicas |-> IF q[1] = "input" THEN InputOf(place, q[2]) ELSE <<>>]
    /\ out = {}
    /\ st = [r \in Replicas |-> FreshReplica]
    /\ saved = [r \in Replicas |-> InMemory(FreshCo)]
    /\ up = Replicas
    /\ th = [n \in Replicas \X Threads |-> Idle]
    /\ forgot = FALSE
    /\ crashes = 0 /\ fails = 0 /\ dups = 0

(* A recovering upstream replica publishes a message once more. *)
UpstreamRepeats(r) ==
    LET q == queue[<<"input", r>>]
    IN  /\ dups < sc.dups /\ q # <<>> /\ sc.input = "sharded"
        /\ dups' = dups + 1
        /\ \E i \in DOMAIN q : queue' = [queue EXCEPT ![<<"input", r>>] = Append(@, q[i])]
        /\ UNCHANGED <<sc, out, st, saved, up, th, forgot, crashes, fails>>

-----------------------------------------------------------------------------
(* A thread takes message m; h is the handler's decision about it.         *)

Then(r, t, hand) == th' = [th EXCEPT ![<<r, t>>] = hand]

(* DONE inputs are acknowledged, as what the handler drops. *)
AcksOnly(r, t, h) ==
    /\ h.do = "ack" \/ (h.do = "input" /\ h.id \in st[r].done /\ ~h.raises)
    /\ Then(r, t, Idle)
    /\ UNCHANGED st

(* handle() of a NEW input.  Without outputs, and without a crash to tell  *)
(* the difference, the commit and the acknowledgement are the same step.   *)
MayCrash(r) == r \in sc.crashable /\ crashes < sc.crashes
Handles(r, t, m, h) ==
    /\ h.do = "input" /\ h.id \notin st[r].applied \cup st[r].done
    /\ IF h.outs = <<>> /\ ~MayCrash(r)
       THEN st' = [st EXCEPT ![r] = [h.st EXCEPT !.done = @ \cup {h.id}]] /\ Then(r, t, Idle)
       ELSE /\ st' = [st EXCEPT ![r] = [h.st EXCEPT !.applied = @ \cup {h.id},
                                           !.outbox = Append(@, [id |-> h.id, outs |-> h.outs])]]
            /\ Then(r, t, Busy(m, h.id, h.outs))

HandlesAgain(r, t, m, h) ==
    /\ h.do = "input" /\ h.id \in st[r].applied
    /\ \E i \in DOMAIN st[r].outbox :
           /\ st[r].outbox[i].id = h.id
           /\ Then(r, t, Busy(m, h.id, st[r].outbox[i].outs))
    /\ UNCHANGED st

HandlesDirectly(r, t, m, h) ==
    /\ h.do = "direct"
    /\ st' = [st EXCEPT ![r] = h.st]
    /\ Then(r, t, IF h.outs = <<>> THEN Idle ELSE Busy(m, None, h.outs))

(* On a queue with one consumer the delivery and the handling are one step. *)
Fetches(r) ==
    /\ Shared("input") /\ r \in up /\ th[<<r, "input">>] = Idle
    /\ queue[QueueOf(r, "input")] # <<>>
    /\ Then(r, "input", [at |-> "fetched", msg |-> Head(queue[QueueOf(r, "input")])])
    /\ queue' = [queue EXCEPT ![QueueOf(r, "input")] = Tail(@)]
    /\ UNCHANGED <<sc, out, st, saved, up, forgot, crashes, fails, dups>>

Takes(r, t) ==
    /\ r \in up
    /\ IF Shared(t) THEN th[<<r, t>>].at = "fetched" /\ UNCHANGED queue
       ELSE /\ th[<<r, t>>] = Idle /\ queue[QueueOf(r, t)] # <<>>
            /\ queue' = [queue EXCEPT ![QueueOf(r, t)] = Tail(@)]
    /\ LET m == IF Shared(t) THEN th[<<r, t>>].msg ELSE Head(queue[QueueOf(r, t)])
           h == Handler(r, t, m)
       IN  \/ AcksOnly(r, t, h)
           \/ Handles(r, t, m, h)
           \/ HandlesAgain(r, t, m, h)
           \/ HandlesDirectly(r, t, m, h)
    /\ UNCHANGED <<sc, out, saved, up, forgot, crashes, fails, dups>>

Publishes(r, t) ==
    LET hand == th[<<r, t>>]
    IN  /\ hand.at = "publish" /\ hand.todo # <<>>
        /\ LET d == Deliver(<<Head(hand.todo)>>, queue, out)
           IN  queue' = d.queue /\ out' = d.out
        /\ Then(r, t, [hand EXCEPT !.todo = Tail(@)])
        /\ UNCHANGED <<sc, st, saved, up, forgot, crashes, fails, dups>>

(* A send raises, whether or not the broker got the message: nack.  The    *)
(* ingestor forgets its pending EOF, to answer again.                      *)
Cleared(r, hand) ==
    IF sc.worker = "ingestor" /\ hand.msg.type \in {"EOF_RECEIVED", "PROCESSED_REQUEST"}
    THEN [st EXCEPT ![r].co = ClearPendingEof(@)] ELSE st

PublishFails(r, t) ==
    LET hand == th[<<r, t>>]
    IN  /\ hand.at = "publish" /\ hand.todo # <<>>
        /\ fails < sc.fails /\ hand.msg.type \in sc.failing
        /\ fails' = fails + 1
        /\ \E reached \in {<<>>, <<Head(hand.todo)>>} :
               LET d == Deliver(reached, queue, out)
               IN  queue' = Requeue(d.queue, r, t) /\ out' = d.out
        /\ st' = Cleared(r, hand)
        /\ Then(r, t, Idle)
        /\ UNCHANGED <<sc, saved, up, forgot, crashes, dups>>

(* commit_done, with or without a snapshot; a direct message has no        *)
(* commit.  Snapshots and acknowledgements that no crash will tell from    *)
(* what follows are left out.                                              *)
Commits(r, t) ==
    LET hand == th[<<r, t>>]
    IN  /\ hand.at = "publish" /\ hand.todo = <<>>
        /\ IF hand.id = None THEN Then(r, t, Idle) /\ UNCHANGED <<st, saved>>
           ELSE /\ Then(r, t, IF MayCrash(r) THEN Acking(hand.msg) ELSE Idle)
                /\ st' = [st EXCEPT ![r].applied = @ \ {hand.id}, ![r].done = @ \cup {hand.id},
                                    ![r].outbox = SelectSeq(@, LAMBDA e : e.id # hand.id)]
                /\ \/ MayCrash(r) /\ saved' = [saved EXCEPT ![r] = InMemory(st[r].co)]
                   \/ saved' = saved
        /\ UNCHANGED <<sc, queue, out, up, forgot, crashes, fails, dups>>

Acks(r, t) ==
    /\ th[<<r, t>>].at = "ack"
    /\ Then(r, t, Idle)
    /\ UNCHANGED <<sc, queue, out, st, saved, up, forgot, crashes, fails, dups>>

-----------------------------------------------------------------------------
(* The Q4 filter logs all that its coordinator knows. *)
Reloaded(s, snapshot) ==
    CASE sc.worker = "q4filter" -> s
      [] sc.worker = "ingestor" -> IngestorRestored(s, snapshot)
      [] OTHER -> Restored(s, snapshot)

(* A crash loses answers the leader has acknowledged or is acting on, or   *)
(* an answer a snapshot already holds as given.                            *)
Unsent(r, t) == th[<<r, t>>].at = "publish" /\ th[<<r, t>>].id = None /\ th[<<r, t>>].todo # <<>>
Forgets(r) ==
    \/ sc.worker # "q4filter" /\ (Unsent(r, "response") \/ st[r].co.responders # saved[r].responders)
    \/ sc.worker = "ingestor" /\ Unsent(r, "control") /\ saved[r].pending # None

(* A stage of a pipeline that has nothing in hand has nothing to lose. *)
Crashes(r) ==
    /\ r \in up /\ MayCrash(r)
    /\ sc.worker = "pipeline" => \E t \in Threads : th[<<r, t>>] # Idle
    /\ crashes' = crashes + 1
    /\ up' = up \ {r}
    /\ queue' = Requeue(Requeue(Requeue(queue, r, "input"), r, "control"), r, "response")
    /\ th' = [n \in DOMAIN th |-> IF n[1] = r THEN Idle ELSE th[n]]
    /\ st' = [st EXCEPT ![r] = Reloaded(@, saved[r])]
    /\ forgot' = (forgot \/ Forgets(r))
    /\ UNCHANGED <<sc, out, saved, fails, dups>>

(* Mutant of Restarts: the outbox is not published again. *)
RestartsSilently(r) ==
    /\ r \notin up
    /\ up' = up \cup {r}
    /\ UNCHANGED <<sc, queue, out, st, saved, th, forgot, crashes, fails, dups>>

Pending(r) == FlattenSeq([i \in DOMAIN st[r].outbox |-> st[r].outbox[i].outs])

Restarts(r) ==
    /\ r \notin up
    /\ up' = up \cup {r}
    /\ LET d == Deliver(Pending(r), queue, out)
       IN  queue' = d.queue /\ out' = d.out
    /\ UNCHANGED <<sc, st, saved, th, forgot, crashes, fails, dups>>

(* _republish_pending of these logs a send that raises and goes on; the    *)
(* others exit and are restarted.                                          *)
Swallows(r) ==
    \/ sc.worker \in {"sum", "aggregator", "q4filter"}
    \/ sc.worker = "pipeline" /\ sc.kinds[r] \in {"banknames", "q4joiner", "q4aggregator", "q4deduper"}

RestartsPartly(r) ==
    /\ r \notin up /\ Swallows(r)
    /\ fails < sc.fails /\ "REPUBLISHED" \in sc.failing
    /\ fails' = fails + 1
    /\ up' = up \cup {r}
    /\ \E i \in DOMAIN Pending(r) :
           LET d == Deliver(RemoveAt(Pending(r), i), queue, out)
           IN  queue' = d.queue /\ out' = d.out
    /\ UNCHANGED <<sc, st, saved, th, forgot, crashes, dups>>

Works(r, t) ==
    \/ t = "input" /\ Fetches(r)
    \/ Takes(r, t) \/ Publishes(r, t) \/ Commits(r, t) \/ Acks(r, t)

Next ==
    \E r \in Replicas :
        \/ \E t \in Threads : Works(r, t) \/ PublishFails(r, t)
        \/ UpstreamRepeats(r) \/ Crashes(r) \/ Restarts(r) \/ RestartsPartly(r)

Spec == Init /\ [][Next]_vars

(* Some replica's data thread is scheduled, and some control and response  *)
(* thread; the monitor restarts a dead replica.                            *)
GroupFairness ==
    /\ WF_vars(sc.worker # "pipeline" /\ \E r \in Replicas : Restarts(r))
    /\ \A t \in Threads : WF_vars(sc.worker # "pipeline" /\ \E r \in Replicas : Works(r, t))

-----------------------------------------------------------------------------
(* Everything stamped on a DATA message of the group: delivered or in an   *)
(* outbox.                                                                 *)
Stamped ==
    LET pending(r) == {o.msg : o \in UNION {Range(e.outs) : e \in Range(st[r].outbox)}}
    IN  {m \in out \cup UNION {pending(r) : r \in Replicas} : m.type = "DATA"}

(* The Q4 filter forwards the edges of a source with MaxTx targets. *)
Qualified == {r \in Replicas : MaxTx <= Cardinality({id \in st[r].done : id[1] = "DATA"})}
Wanted ==
    CASE sc.worker \in {"filter", "q5usd"} -> Passing
      [] sc.worker = "q4filter" -> {n \in 1 .. Data : \E r \in Qualified : <<"DATA", n>> \in st[r].done}
      [] OTHER -> 1 .. Data
Kept(n) == (\E r \in Replicas : n \in Range(st[r].buf)) \/ (\E m \in Stamped : n \in Range(m.txs))

(* A data message that a replica finished and may acknowledge is in its    *)
(* buffer, in its outbox or downstream: a client is never closed while     *)
(* some of its data is still to be processed (_apply_data drops the data   *)
(* of a closed client).                                                    *)
NothingDropped ==
    sc.ends = "EOF" =>
        \A n \in Wanted : (\E r \in Replicas : <<"DATA", n>> \in st[r].done) => Kept(n)

Leads(r) == <<"EOF", EndMsg.n>> \in st[r].applied \cup st[r].done

(* The EOF for the next stage carries the number of transactions (filter,  *)
(* ingestor) or of messages (sum) that the group sends, or of messages     *)
(* (aggregator) or counted edges (Q4 filter) of its own shard; of the many *)
(* EOFs of a Q5 USD group the leader's counts for all.  Whatever crashed   *)
(* or was repeated, nothing is sent twice under two identities.            *)
EofTotalIsExact ==
    \A e \in {m \in out : m.type = "EOF"} :
        LET own == {m \in Stamped : m.from = e.from}
            once == \A n \in Wanted : Cardinality({m \in Stamped : n \in Range(m.txs)}) = 1
        IN  CASE sc.worker = "aggregator" -> e.total = Cardinality(own)
              [] sc.worker = "q4filter" -> once /\ e.total = MapThenSumSet(LAMBDA m : Counted(m.txs), own)
              [] sc.worker = "q5usd" /\ ~Leads(e.from) -> once /\ e.total = Cardinality(own)
              [] sc.worker = "sum" -> once /\ e.total = Cardinality(Stamped)
              [] OTHER -> once /\ e.total = Cardinality(Wanted)

(* With sharded input the EOF overtakes no data on its way downstream: a   *)
(* single downstream replica closes the client on it without counting.     *)
EofFollowsData ==
    \A e \in {m \in out : m.type = "EOF"} :
        sc.input = "sharded" => \A m \in Stamped : (Spread => m.from = e.from) => m \in out

Finished ==
    /\ \A r \in Replicas : st[r].closed
    /\ \E m \in out : m.type = sc.ends
    /\ Spread \/ sc.worker = "q5usd" => \A r \in Replicas : \E m \in out : m.type = sc.ends /\ m.from = r

Quiet ==
    /\ up = Replicas
    /\ \A n \in DOMAIN th : th[n] = Idle
    /\ \A q \in DOMAIN queue : queue[q] = <<>>

(* When nothing is left to do every replica has closed the client and the  *)
(* next stage has heard of its end: no crash but one that forgets answers, *)
(* no failed send and no repeated message leaves the group waiting for a   *)
(* message nobody will send.                                               *)
StopsOnlyWhenFinished == Quiet => forgot \/ Finished

(* The group gets there: rounds of PROCESSED_REQUEST, nacks and            *)
(* redeliveries do not go on for ever.                                     *)
EventuallyFinished == <>(sc.worker = "pipeline" \/ forgot \/ Finished)

(* "A leader crash here is rebuilt by redelivery + coordinator retry"      *)
(* (file_ingestor.py): whichever replica crashes, when nothing is left to  *)
(* do every replica has closed the client and the next stage has heard of  *)
(* its end.                                                                *)
LeaderCrashIsRebuilt == Quiet => Finished

=============================================================================
