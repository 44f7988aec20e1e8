---------------------------- MODULE DurableWorker ----------------------------
(***************************************************************************)
(* A durable worker: PersistentStateHandler (inbox, outbox, sequencer, WAL *)
(* and snapshot) driven by the consume loop of WorkerRunner.  Several      *)
(* consumer threads share the handler under one lock; each has a broker    *)
(* queue of its own and its messages carry its own MsgKind.  The process   *)
(* may crash between any two steps and restarts from its files.            *)
(*                                                                         *)
(* Abstracted: one client; the worker state is the sequence of the inputs  *)
(* whose state change was applied; business_fn yields Fanout[kind] outputs *)
(* on one addressed edge whose bodies depend on the state it read.         *)
(***************************************************************************)
EXTENDS Sequences, Functions, DedupTracker

CONSTANTS
    Threads,        \* consumer threads = message kinds
    Senders,        \* upstream instances
    MaxSeq,         \* bound: largest seq an upstream instance stamps
    Fanout,         \* outputs of one input, by kind
    SnapshotEvery,  \* snapshot_every
    MaxTroubles,    \* bound: crashes, messages upstream publishes again and
                    \* publishes that raise, together
    NoThread        \* the lock is free

ASSUME ConstantsAssumption ==
    /\ MaxSeq \in Nat /\ SnapshotEvery \in Nat
    /\ MaxTroubles \in Nat
    /\ Fanout \in [Threads -> Nat]
    /\ NoThread \notin Threads

VARIABLES
    (* broker *)
    produced,   \* history: messages upstream has published
    queue,      \* per thread: ready messages, oldest first
    acked,      \* history: messages the worker acknowledged
    published,  \* history: entries the worker published
    (* disk *)
    wal,        \* records of wal.current
    files,      \* the snapshot files that exist, by name
    (* process *)
    mode,       \* "down", "replay", "republish" or "up"
    pos,        \* replay: the next WAL record
    mem,        \* what a snapshot saves: state, inbox, outbox and sequencer
    count,      \* applied_since_snapshot
    lock,       \* the worker's lock, held across a snapshot
    at,         \* per thread: where its consume loop is
    held,       \* per thread: the message delivered and not acknowledged, if any
    todo,       \* per thread: entries still to publish
    pending,    \* recovery: the set of entries still to publish again
    troubles    \* bound

broker == <<produced, queue, acked>>
disk == <<wal, files>>
loop == <<at, held, todo>>
vars == <<produced, queue, acked, published, wal, files, mode, pos, mem, count, lock,
          at, held, todo, pending, troubles>>

Messages == [kind : Threads, sender : Senders, seq : 0 .. MaxSeq]

Bucket(m) == <<m.kind, m.sender>>

(* An OutboxEntry: the durable seq stamped on it, the input it belongs to, *)
(* its index among the outputs of that input, and a body computed from the *)
(* state (here: how many changes had been applied).                        *)
Entries == [seq : Nat, input : Messages, index : Nat, body : Nat]

Applied(m, outs) == [type |-> "INPUT_APPLIED", input |-> m, outputs |-> outs]
Done(m) == [type |-> "INPUT_DONE", input |-> m, outputs |-> <<>>]
Records == [type : {"INPUT_APPLIED", "INPUT_DONE"}, input : Messages, outputs : Seq(Entries)]

-----------------------------------------------------------------------------
(* The handler's memory and the operations of its parts. *)

FreshMem == [state |-> <<>>, applied |-> {}, done |-> [b \in {} |-> FreshTracker],
             outbox |-> [m \in {} |-> <<>>], next |-> 0]

(* Inbox.classify *)
IsDone(mm, m) == Bucket(m) \in DOMAIN mm.done /\ IsDuplicate(mm.done[Bucket(m)], m.seq)

Classify(mm, m) == IF m \in mm.applied THEN "APPLIED"
                   ELSE IF IsDone(mm, m) THEN "DONE"
                   ELSE "NEW"

(* SenderSequencer.stamp, on what business_fn returns for the state read. *)
Stamp(mm, m) ==
    [i \in 1 .. Fanout[m.kind] |->
        [seq |-> mm.next + i - 1, input |-> m, index |-> i, body |-> Len(mm.state)]]

(* Mutant: the next stamp repeats the last seq observed. *)
ObserveSeqsNoIncrement(next, outs) ==
    IF outs # <<>> /\ outs[Len(outs)].seq > next THEN outs[Len(outs)].seq ELSE next

(* SenderSequencer.observe *)
ObserveSeqs(next, outs) ==
    IF outs # <<>> /\ outs[Len(outs)].seq + 1 > next THEN outs[Len(outs)].seq + 1 ELSE next

(* What handle() and _apply_record do after the append: apply_change,      *)
(* mark_applied, outbox.add and sequencer.observe.                         *)
ApplyInput(mm, m, outs) ==
    [state |-> Append(mm.state, m), applied |-> mm.applied \cup {m}, done |-> mm.done,
     outbox |-> [x \in DOMAIN mm.outbox \cup {m} |-> IF x = m THEN outs ELSE mm.outbox[x]],
     next |-> ObserveSeqs(mm.next, outs)]

(* Inbox.mark_done (with its setdefault) and Outbox.remove_input. *)
TrackerOf(mm, b) == IF b \in DOMAIN mm.done THEN mm.done[b] ELSE FreshTracker

(* Mutant: no Outbox.remove_input. *)
MarkDoneKeepsOutbox(mm, m) ==
    [mm EXCEPT !.applied = @ \ {m},
               !.done = [b \in DOMAIN @ \cup {Bucket(m)} |->
                            IF b = Bucket(m) THEN Observe(TrackerOf(mm, b), m.seq) ELSE @[b]]]

MarkDone(mm, m) ==
    [state |-> mm.state, applied |-> mm.applied \ {m},
     done |-> [b \in DOMAIN mm.done \cup {Bucket(m)} |->
                  IF b = Bucket(m) THEN Observe(TrackerOf(mm, b), m.seq) ELSE mm.done[b]],
     outbox |-> [x \in DOMAIN mm.outbox \ {m} |-> mm.outbox[x]],
     next |-> mm.next]

(* Outbox.entries_for_input *)
EntriesFor(mm, m) == IF m \in DOMAIN mm.outbox THEN mm.outbox[m] ELSE <<>>

(* Outbox.all_pending *)
AllPending(mm) == UNION {Range(mm.outbox[m]) : m \in DOMAIN mm.outbox}

(* Mutant: replay does not consult the inbox. *)
ReappliesAlways(mm, r) == r.type = "INPUT_APPLIED"

(* _apply_record: skip what the loaded snapshot already reflects, count an *)
(* input that was applied again.                                           *)
Reapplies(mm, r) == r.type = "INPUT_APPLIED" /\ Classify(mm, r.input) = "NEW"

ApplyRecord(mm, r) ==
    CASE Reapplies(mm, r) -> ApplyInput(mm, r.input, r.outputs)
      [] r.type = "INPUT_DONE" /\ Classify(mm, r.input) # "DONE" ->
            MarkDone(mm, r.input)
      [] OTHER -> mm

(* os.replace(src, dst) over the directory of snapshot files. *)
Replace(fs, src, dst) ==
    [f \in (DOMAIN fs \ {src}) \cup {dst} |-> IF f = dst THEN fs[src] ELSE fs[f]]

(* Mutant: no fallback to the previous snapshot. *)
LoadedCurrentOnly(fs) == IF "current" \in DOMAIN fs THEN fs["current"] ELSE FreshMem

(* LastState.load and the restores of recover(): the current snapshot,     *)
(* else the previous one, else the handler's constructor values.           *)
Loaded(fs) ==
    CASE "current" \in DOMAIN fs -> fs["current"]
      [] "current" \notin DOMAIN fs /\ "previous" \in DOMAIN fs -> fs["previous"]
      [] OTHER -> FreshMem

-----------------------------------------------------------------------------
Init ==
    /\ produced = {} /\ queue = [t \in Threads |-> <<>>]
    /\ acked = {} /\ published = {}
    /\ wal = <<>> /\ files = [f \in {} |-> FreshMem]
    /\ mode = "up" /\ pos = 0 /\ mem = FreshMem /\ count = 0 /\ lock = NoThread
    /\ at = [t \in Threads |-> "idle"] /\ held = [t \in Threads |-> <<>>]
    /\ todo = [t \in Threads |-> <<>>] /\ pending = {}
    /\ troubles = 0

(* An upstream instance publishes its next message ... *)
Produce(m) ==
    /\ m \notin produced
    /\ \A n \in 0 .. m.seq - 1 : [m EXCEPT !.seq = n] \in produced
    /\ produced' = produced \cup {m}
    /\ queue' = [queue EXCEPT ![m.kind] = Append(@, m)]
    /\ UNCHANGED <<acked, published, disk, mode, pos, mem, count, lock, loop, pending, troubles>>

(* ... or publishes an old one again, after a restart or a nack of its own.*)
ProduceAgain(m) ==
    /\ m \in produced /\ troubles < MaxTroubles
    /\ troubles' = troubles + 1
    /\ queue' = [queue EXCEPT ![m.kind] = Append(@, m)]
    /\ UNCHANGED <<produced, acked, published, disk, mode, pos, mem, count, lock, loop, pending>>

(* The broker delivers the head of t's queue and handle() takes the lock.  *)
Deliver(t) ==
    /\ mode = "up" /\ at[t] = "idle" /\ lock = NoThread /\ queue[t] # <<>>
    /\ held' = [held EXCEPT ![t] = <<Head(queue[t])>>]
    /\ queue' = [queue EXCEPT ![t] = Tail(@)]

(* handle() of a DONE message: nothing to do but acknowledge it. *)
HandleDone(t) ==
    /\ Deliver(t)
    /\ Classify(mem, Head(queue[t])) = "DONE"
    /\ at' = [at EXCEPT ![t] = "ack"]
    /\ UNCHANGED <<produced, acked, published, disk, mode, pos, mem, count, lock, todo, pending, troubles>>

(* handle() of a NEW message: log it, apply it, then publish its outputs.  *)
HandleNew(t) ==
    LET m == Head(queue[t])
        outs == Stamp(mem, m)
    IN  /\ Deliver(t)
        /\ Classify(mem, m) = "NEW"
        /\ wal' = Append(wal, Applied(m, outs))
        /\ mem' = ApplyInput(mem, m, outs) /\ count' = count + 1
        /\ at' = [at EXCEPT ![t] = "publish"]
        /\ todo' = [todo EXCEPT ![t] = EntriesFor(mem', m)]
        /\ UNCHANGED <<produced, acked, published, files, mode, pos, lock, pending, troubles>>

(* Mutant: an APPLIED message is acknowledged like a DONE one. *)
HandleAppliedAcks(t) ==
    /\ Deliver(t)
    /\ Classify(mem, Head(queue[t])) = "APPLIED"
    /\ at' = [at EXCEPT ![t] = "ack"]
    /\ UNCHANGED <<produced, acked, published, disk, mode, pos, mem, count, lock, todo, pending, troubles>>

(* handle() of an APPLIED message: only its stored outputs are published.  *)
HandleApplied(t) ==
    /\ Deliver(t)
    /\ Classify(mem, Head(queue[t])) = "APPLIED"
    /\ at' = [at EXCEPT ![t] = "publish"]
    /\ todo' = [todo EXCEPT ![t] = EntriesFor(mem, Head(queue[t]))]
    /\ UNCHANGED <<produced, acked, published, disk, mode, pos, mem, count, lock, pending, troubles>>

(* _publish sends one entry, outside the lock. *)
Publish(t) ==
    /\ mode = "up" /\ at[t] = "publish" /\ todo[t] # <<>>
    /\ published' = published \cup {Head(todo[t])}
    /\ todo' = [todo EXCEPT ![t] = Tail(@)]
    /\ UNCHANGED <<broker, disk, mode, pos, mem, count, lock, at, held, pending, troubles>>

(* Mutant: nack without requeue. *)
PublishFailsDrops(t) ==
    /\ mode = "up" /\ at[t] = "publish" /\ todo[t] # <<>> /\ troubles < MaxTroubles
    /\ troubles' = troubles + 1
    /\ at' = [at EXCEPT ![t] = "idle"]
    /\ held' = [held EXCEPT ![t] = <<>>]
    /\ todo' = [todo EXCEPT ![t] = <<>>]
    /\ UNCHANGED <<broker, published, disk, mode, pos, mem, count, lock, pending>>

(* Mutant: the nacked message is put at the end of its queue. *)
PublishFailsGoesLast(t) ==
    /\ mode = "up" /\ at[t] = "publish" /\ todo[t] # <<>> /\ troubles < MaxTroubles
    /\ troubles' = troubles + 1
    /\ queue' = [queue EXCEPT ![t] = @ \o held[t]]
    /\ at' = [at EXCEPT ![t] = "idle"]
    /\ held' = [held EXCEPT ![t] = <<>>]
    /\ todo' = [todo EXCEPT ![t] = <<>>]
    /\ UNCHANGED <<produced, acked, published, disk, mode, pos, mem, count, lock, pending>>

(* Mutant: nack, but the loop still believes it holds the message. *)
PublishFailsHolds(t) ==
    /\ mode = "up" /\ at[t] = "publish" /\ todo[t] # <<>> /\ troubles < MaxTroubles
    /\ troubles' = troubles + 1
    /\ queue' = [queue EXCEPT ![t] = held[t] \o @]
    /\ at' = [at EXCEPT ![t] = "idle"]
    /\ todo' = [todo EXCEPT ![t] = <<>>]
    /\ UNCHANGED <<produced, acked, published, disk, mode, pos, mem, count, lock, held, pending>>

(* A publish raises: process() nacks with requeue, and the broker puts the *)
(* message back at the head of the queue.                                  *)
PublishFails(t) ==
    /\ mode = "up" /\ at[t] = "publish" /\ todo[t] # <<>> /\ troubles < MaxTroubles
    /\ troubles' = troubles + 1
    /\ queue' = [queue EXCEPT ![t] = held[t] \o @]
    /\ at' = [at EXCEPT ![t] = "idle"]
    /\ held' = [held EXCEPT ![t] = <<>>]
    /\ todo' = [todo EXCEPT ![t] = <<>>]
    /\ UNCHANGED <<produced, acked, published, disk, mode, pos, mem, count, lock, pending>>

(* Mutant: INPUT_DONE is not logged. *)
CommitDoneUnlogged(t) ==
    /\ mode = "up" /\ at[t] = "publish" /\ todo[t] = <<>> /\ lock = NoThread
    /\ mem' = MarkDone(mem, Head(held[t]))
    /\ at' = [at EXCEPT ![t] = IF count >= SnapshotEvery THEN "write_tmp" ELSE "ack"]
    /\ lock' = IF count >= SnapshotEvery THEN t ELSE NoThread
    /\ UNCHANGED <<broker, published, disk, mode, pos, count, held, todo, pending, troubles>>

(* Mutant: the lock is released before the snapshot. *)
CommitDoneUnlocked(t) ==
    /\ mode = "up" /\ at[t] = "publish" /\ todo[t] = <<>> /\ lock = NoThread
    /\ wal' = Append(wal, Done(Head(held[t])))
    /\ mem' = MarkDone(mem, Head(held[t]))
    /\ at' = [at EXCEPT ![t] = IF count >= SnapshotEvery THEN "write_tmp" ELSE "ack"]
    /\ UNCHANGED <<broker, published, files, mode, pos, count, lock, held, todo, pending, troubles>>

(* commit_done() up to maybe_snapshot, which keeps the lock if it is time. *)
CommitDone(t) ==
    LET m == Head(held[t])
        snapshot == count >= SnapshotEvery
    IN  /\ mode = "up" /\ at[t] = "publish" /\ todo[t] = <<>> /\ lock = NoThread
        /\ wal' = Append(wal, Done(m))
        /\ mem' = MarkDone(mem, m)
        /\ at' = [at EXCEPT ![t] = IF snapshot THEN "write_tmp" ELSE "ack"]
        /\ lock' = IF snapshot THEN t ELSE NoThread
        /\ UNCHANGED <<broker, published, files, mode, pos, count, held, todo, pending, troubles>>

(* The steps of snapshot_now(): LastState.commit, then Wal.rotate. *)
SnapshotStep(t, from, to) ==
    /\ mode = "up" /\ at[t] = from
    /\ at' = [at EXCEPT ![t] = to]
    /\ UNCHANGED <<broker, published, mode, pos, held, todo, pending, troubles>>

WriteTmp(t) ==
    /\ SnapshotStep(t, "write_tmp", "shift")
    /\ files' = [f \in DOMAIN files \cup {"tmp"} |->
                     IF f = "tmp" THEN mem ELSE files[f]]
    /\ UNCHANGED <<wal, mem, count, lock>>

ShiftCurrent(t) ==
    /\ SnapshotStep(t, "shift", "install")
    /\ files' = IF "current" \in DOMAIN files
                THEN Replace(files, "current", "previous")
                ELSE files
    /\ UNCHANGED <<wal, mem, count, lock>>

InstallTmp(t) ==
    /\ SnapshotStep(t, "install", "rotate")
    /\ files' = Replace(files, "tmp", "current")
    /\ UNCHANGED <<wal, mem, count, lock>>

Rotate(t) ==
    /\ SnapshotStep(t, "rotate", "ack")
    /\ wal' = <<>>
    /\ count' = 0 /\ lock' = NoThread
    /\ UNCHANGED <<files, mem>>

Ack(t) ==
    /\ mode = "up" /\ at[t] = "ack"
    /\ acked' = acked \cup {Head(held[t])}
    /\ at' = [at EXCEPT ![t] = "idle"]
    /\ held' = [held EXCEPT ![t] = <<>>]
    /\ UNCHANGED <<produced, queue, published, disk, mode, pos, mem, count, lock, todo, pending, troubles>>

(* The process dies: memory is lost, the broker requeues what was not      *)
(* acknowledged, and the files stay as they are.                           *)
Crash ==
    /\ mode # "down" /\ troubles < MaxTroubles
    /\ troubles' = troubles + 1
    /\ queue' = [t \in Threads |-> held[t] \o queue[t]]
    /\ mode' = "down" /\ pos' = 0 /\ mem' = FreshMem /\ count' = 0 /\ lock' = NoThread
    /\ at' = [t \in Threads |-> "idle"] /\ held' = [t \in Threads |-> <<>>]
    /\ todo' = [t \in Threads |-> <<>>] /\ pending' = {}
    /\ UNCHANGED <<produced, acked, published, disk>>

(* recover(): load the snapshot, replay the WAL record by record ... *)
Restart ==
    /\ mode = "down"
    /\ mode' = "replay" /\ pos' = 1 /\ mem' = Loaded(files) /\ count' = 0
    /\ UNCHANGED <<broker, published, disk, lock, loop, pending, troubles>>

Replay ==
    /\ mode = "replay" /\ pos <= Len(wal)
    /\ mem' = ApplyRecord(mem, wal[pos])
    /\ count' = IF Reapplies(mem, wal[pos]) THEN count + 1 ELSE count
    /\ pos' = pos + 1
    /\ UNCHANGED <<broker, published, disk, mode, lock, loop, pending, troubles>>

(* ... then recover_and_republish publishes the whole outbox, in the order *)
(* it was filled, before the threads consume.                              *)
ReplayEnds ==
    /\ mode = "replay" /\ pos > Len(wal)
    /\ mode' = "republish" /\ pos' = 0 /\ pending' = AllPending(mem)
    /\ UNCHANGED <<broker, published, disk, mem, count, lock, loop, troubles>>

RepublishEntry(e) ==
    /\ mode = "republish"
    /\ \A f \in pending : e.seq <= f.seq
    /\ published' = published \cup {e}
    /\ pending' = pending \ {e}
    /\ UNCHANGED <<broker, disk, mode, pos, mem, count, lock, loop, troubles>>

Republish == \E e \in pending : RepublishEntry(e)

RecoveryEnds ==
    /\ mode = "republish" /\ pending = {}
    /\ mode' = "up"
    /\ UNCHANGED <<broker, published, disk, pos, mem, count, lock, loop, pending, troubles>>

Handle(t) == HandleDone(t) \/ HandleNew(t) \/ HandleApplied(t)
Snapshot(t) == WriteTmp(t) \/ ShiftCurrent(t) \/ InstallTmp(t) \/ Rotate(t)
Recovery == Restart \/ Replay \/ ReplayEnds \/ Republish \/ RecoveryEnds

Next ==
    \/ \E m \in Messages : Produce(m) \/ ProduceAgain(m)
    \/ \E t \in Threads : \/ Handle(t) \/ Publish(t) \/ PublishFails(t)
                          \/ CommitDone(t) \/ Snapshot(t) \/ Ack(t)
    \/ Crash
    \/ Recovery

Spec == Init /\ [][Next]_vars

(* Upstream publishes what it has, the scheduler runs every thread, also   *)
(* one that waits for the lock, and the monitor restarts the process.      *)
Fairness ==
    /\ WF_vars(\E m \in Messages : Produce(m))
    /\ \A t \in Threads : /\ SF_vars(Handle(t) \/ CommitDone(t))
                           /\ WF_vars(Publish(t) \/ Snapshot(t) \/ Ack(t))
    /\ WF_vars(Recovery)

FairSpec == Spec /\ Fairness

-----------------------------------------------------------------------------
IsMemory(mm) ==
    /\ mm = [state |-> mm.state, applied |-> mm.applied, done |-> mm.done,
             outbox |-> mm.outbox, next |-> mm.next]
    /\ mm.state \in Seq(Messages) /\ mm.applied \subseteq Messages
    /\ mm.done \in [DOMAIN mm.done -> Tracker]
    /\ DOMAIN mm.done \subseteq Threads \X Senders
    /\ mm.outbox \in [DOMAIN mm.outbox -> Seq(Entries)] /\ DOMAIN mm.outbox \subseteq Messages
    /\ mm.next \in Nat

Places == {"idle", "publish", "write_tmp", "shift", "install", "rotate", "ack"}

(* Every variable has its type; a thread holds a message unless it is idle.*)
TypeOK ==
    /\ produced \subseteq Messages /\ acked \subseteq Messages
    /\ queue \in [Threads -> Seq(Messages)]
    /\ published \subseteq Entries
    /\ wal \in Seq(Records)
    /\ DOMAIN files \subseteq {"current", "previous", "tmp"}
    /\ \A f \in DOMAIN files : IsMemory(files[f])
    /\ mode \in {"down", "replay", "republish", "up"} /\ pos \in Nat
    /\ IsMemory(mem) /\ count \in Nat
    /\ lock \in Threads \cup {NoThread}
    /\ at \in [Threads -> Places]
    /\ held \in [Threads -> Seq(Messages)]
    /\ \A t \in Threads : Len(held[t]) = IF at[t] = "idle" THEN 0 ELSE 1
    /\ todo \in [Threads -> Seq(Entries)] /\ pending \subseteq Entries
    /\ troubles \in Nat

(* "No message is applied twice" (fault_tolerance/README.md): whatever is  *)
(* redelivered, crashed or replayed over a snapshot the crash left beside  *)
(* an un-rotated WAL, no state change is ever in the state twice.          *)
AppliedOnce == \A i, j \in DOMAIN mem.state : mem.state[i] = mem.state[j] => i = j

(* What a restart would find durable about m. *)
DiskDone(m) == \/ IsDone(Loaded(files), m)
               \/ \E i \in DOMAIN wal : wal[i] = Done(m)

(* INPUT_DONE is durable before the broker forgets the message: the promise*)
(* 3 of persistent_state_handler.py, across snapshots and rotations.       *)
AckedIsDurable == \A m \in acked : DiskDone(m)

(* "No confirmed message is lost": once the worker is up, the change of    *)
(* every acknowledged input is in its state and all its outputs are out.   *)
AckedIsDelivered ==
    \A m \in acked :
        /\ mode = "up" => \E i \in DOMAIN mem.state : mem.state[i] = m
        /\ \A i \in 1 .. Fanout[m.kind] : \E e \in published : e.input = m /\ e.index = i

(* An output keeps its id and its body however often it is published: two  *)
(* published entries share a seq iff they are the same output of the same  *)
(* input, and then they are equal.  So a consumer that deduplicates on seq *)
(* sees each output once, and never two outputs under one id.              *)
OutputIdsStable ==
    \A e, f \in published :
        (e.seq = f.seq \/ (e.input = f.input /\ e.index = f.index)) => e = f

(* What recover() would rebuild from the files as they are now. *)
Rebuilt(w, fs) ==
    LET after[n \in 0 .. Len(w)] ==
            IF n = 0 THEN Loaded(fs) ELSE ApplyRecord(after[n - 1], w[n])
    IN  after[Len(w)]

Recovered == Rebuilt(wal, files)

(* At every instant of a running worker a crash would rebuild exactly its  *)
(* memory: state, inbox, outbox and sequencer, with the state in the same  *)
(* order, also in the middle of a snapshot (double buffer, then rotate).   *)
CrashLosesNothing ==
    mode \in {"republish", "up"} => Recovered = mem

(* An output waits in the outbox exactly while its input is APPLIED, also  *)
(* half way through a replay: what a crash may have kept from the broker   *)
(* is what recovery publishes again, and nothing stays behind.             *)
OutboxMatchesInbox == DOMAIN mem.outbox = mem.applied

(* What is durable: inputs whose change a restart would find applied. *)
Durable ==
    {m \in Messages :
        \/ \E i \in DOMAIN Loaded(files).state : Loaded(files).state[i] = m
        \/ \E i \in DOMAIN wal : wal[i].type = "INPUT_APPLIED" /\ wal[i].input = m}

(* The worker implements ExactlyOnce, with the files as the truth: only    *)
(* the INPUT_APPLIED append commits an input, and crash, replay, snapshot  *)
(* and rotation are invisible.                                             *)
Abstract == INSTANCE ExactlyOnce WITH
                Outputs <- Entries, committed <- Durable, delivered <- published
ImplementsExactlyOnce == Abstract!Spec

(* What is durably done stays durably done: no snapshot, rename, rotation, *)
(* crash or replay makes a restart forget a finished input.                *)
DoneIsForever == [][\A m \in Messages : DiskDone(m) => DiskDone(m)']_vars

(* The strengthening that makes AppliedOnce and DoneIsForever inductive: a *)
(* memory, live or in a file, never calls an input it contains NEW; a live *)
(* one knows every input the files say is done, as far as it has replayed; *)
(* and a snapshot on its way to be current still equals the memory.        *)
GoodMem(mm) ==
    /\ IsMemory(mm)
    /\ \A b \in DOMAIN mm.done :
          \A p \in mm.done[b].pending : 0 < p /\ p < mm.done[b].biggest
    /\ \A i, j \in DOMAIN mm.state : mm.state[i] = mm.state[j] => i = j
    /\ \A i \in DOMAIN mm.state : Classify(mm, mm.state[i]) # "NEW"

Covers(mm, n) ==
    \A m \in Messages :
        (\/ IsDone(Loaded(files), m)
         \/ \E i \in DOMAIN wal : i <= n /\ wal[i] = Done(m)) => IsDone(mm, m)

GoodMemories == GoodMem(mem) /\ \A f \in DOMAIN files : GoodMem(files[f])

IdleUnlessUp == mode # "up" => \A t \in Threads : at[t] = "idle"

MemoryCovers ==
    /\ mode = "replay" => pos \in 1 .. Len(wal) + 1 /\ Covers(mem, pos - 1)
    /\ mode \in {"republish", "up"} => Covers(mem, Len(wal))

SnapshotLocked ==
    \A t \in Threads :
       /\ at[t] \in {"write_tmp", "shift", "install", "rotate"} => lock = t
       /\ at[t] \in {"shift", "install"} =>
             "tmp" \in DOMAIN files /\ files["tmp"].done = mem.done
       /\ at[t] = "rotate" =>
             "current" \in DOMAIN files /\ files["current"].done = mem.done

IInv == TypeOK /\ GoodMemories /\ IdleUnlessUp /\ MemoryCovers /\ SnapshotLocked

(* A set of entries with every output of m. *)
Whole(m, S) ==
    \A i \in 1 .. Fanout[m.kind] : \E e \in S : e.input = m /\ e.index = i

(* What the broker still has for thread t, in the order of delivery. *)
Line(t) == held[t] \o queue[t]

Precedes(x, m) == Bucket(x) = Bucket(m) /\ x.seq < m.seq

Finished == {m \in Messages : DiskDone(m)}

(* In the line s a message comes after all that its sender numbered before *)
(* it, but for those in D.                                                 *)
Ordered(s, D) ==
    \A i \in DOMAIN s : \A x \in Messages :
        Precedes(x, s[i]) => x \in D \/ \E j \in 1 .. i - 1 : s[j] = x

InOrder ==
    /\ \A m \in produced : /\ m \in Finished \cup Range(Line(m.kind))
                           /\ \A x \in Messages : Precedes(x, m) => x \in produced
    /\ \A t \in Threads : Ordered(Line(t), Finished)

(* The thread's message on its way out: durably done once it is committed; *)
(* until then each of its outputs is out or still to publish.              *)
OnItsWay ==
    \A t \in Threads :
       /\ at[t] \notin {"idle", "publish"} => DiskDone(Head(held[t]))
       /\ at[t] = "publish" => Whole(Head(held[t]), published \cup Range(todo[t]))

(* Memory mm, against the files and the broker: no tracker has a gap; DONE *)
(* is what is durably done, and its outputs are out; the outputs of an     *)
(* APPLIED input are in the outbox; and the state is what is durable.      *)
Settled(mm) ==
    /\ \A b \in DOMAIN mm.done : mm.done[b].pending = {}
    /\ \A m \in Messages : IsDone(mm, m) <=> DiskDone(m)
    /\ \A m \in Messages : IsDone(mm, m) => Whole(m, published)
    /\ \A m \in mm.applied : m \in DOMAIN mm.outbox /\ Whole(m, Range(mm.outbox[m]))
    /\ Durable = {m \in Messages : Classify(mm, m) # "NEW"}
    /\ Durable = Range(mm.state)

(* The strengthening behind AckedIsDurable, AckedIsDelivered and           *)
(* ImplementsExactlyOnce.  The tracker alone could take an input for DONE  *)
(* that it never saw; it does not, because nothing overtakes in a line.    *)
NothingOvertakes == InOrder /\ OnItsWay /\ Settled(Recovered)

(* Every message upstream publishes is acknowledged in the end, if the     *)
(* process crashes and the broker refuses only finitely often.             *)
EventuallyAcked == <>(acked = Messages)

=============================================================================
