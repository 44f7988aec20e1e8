------------------------------ MODULE Q3Barrier ------------------------------
(***************************************************************************)
(* The q3_barrier worker: two consumer threads, one per stream (averages   *)
(* and candidates), share a PersistentStateHandler under one lock.  A      *)
(* client's candidate batches are kept in a file of its own; when both     *)
(* streams of the client have ended, the batches of the file are emitted   *)
(* and the client is closed.  A snapshot saves only the lengths of the     *)
(* open files: recovery truncates them and lets the WAL append the rest.   *)
(*                                                                         *)
(* Abstracted: one average per client, below which every candidate lies;   *)
(* a batch is one unit long; the result batches of a client travel as one  *)
(* entry; LastState.commit and Wal.rotate are one step (see DurableWorker);*)
(* the inbox is exact (the streams are FIFO, see DedupStream).             *)
(***************************************************************************)
EXTENDS Naturals, Sequences, SequencesExt, FiniteSets

CONSTANTS
    Clients,
    Aborted,        \* clients that disconnect: their streams end in ABORT
    Batches,        \* bound: candidate batches of a client
    SnapshotEvery,  \* SNAPSHOT_INTERVAL
    MaxCrashes,     \* bound: crashes
    MaxFails,       \* bound: sends that raise
    Zero            \* the byte a file is extended with

Streams == {"avg", "cand"}
NoStream == "none"

(* The last message of a stream is its EOF or ABORT; the others are DATA.  *)
LastOf(s) == IF s = "avg" THEN 1 ELSE Batches
Inputs == {[stream |-> s, client |-> c, n |-> n] : s \in Streams, c \in Clients, n \in 0 .. Batches + 1}
Exists(m) == m.n <= LastOf(m.stream)
TypeOf(m) == IF m.n < LastOf(m.stream) THEN "DATA"
             ELSE IF m.client \in Aborted THEN "ABORT" ELSE "EOF"

VARIABLES
    queue,      \* per stream: ready messages
    produced,   \* history: messages the upstream workers published
    acked,      \* history: messages acknowledged
    out,        \* messages sent to the gateway queue, oldest first
    (* disk *)
    files,      \* candidate files that exist, by client
    wal,        \* records of wal.current
    snap,       \* the current snapshot (empty sequence: none)
    (* process *)
    mode,       \* "up", "down", "replay" or "republish"
    pos,        \* next WAL record to replay
    mem,        \* Q3BarrierState, inbox and outbox
    count,      \* applied_since_snapshot
    lock, at, held, todo, pending,
    crashes, fails

disk == <<files, wal, snap>>
loop == <<at, held, todo>>
vars == <<queue, produced, acked, out, files, wal, snap, mode, pos, mem, count, lock,
          at, held, todo, pending, crashes, fails>>

FreshMem == [avg |-> {}, avgEof |-> {}, candEof |-> {}, closed |-> {}, open |-> {},
             applied |-> {}, done |-> {}, outbox |-> <<>>]

-----------------------------------------------------------------------------
(* Q3BarrierState.apply_change, on the memory and on the candidate files. *)

CloseMem(mm, c) ==
    [mm EXCEPT !.avg = @ \ {c}, !.avgEof = @ \ {c}, !.candEof = @ \ {c},
               !.open = @ \ {c}, !.closed = @ \cup {c}]

ChangeMem(mm, m) ==
    IF m.client \in mm.closed THEN mm
    ELSE CASE TypeOf(m) = "DATA" /\ m.stream = "avg"  -> [mm EXCEPT !.avg = @ \cup {m.client}]
           [] TypeOf(m) = "DATA" /\ m.stream = "cand" -> [mm EXCEPT !.open = @ \cup {m.client}]
           [] TypeOf(m) = "EOF" /\ m.stream = "avg"   -> [mm EXCEPT !.avgEof = @ \cup {m.client}]
           [] TypeOf(m) = "EOF" /\ m.stream = "cand"  -> [mm EXCEPT !.candEof = @ \cup {m.client}]
           [] OTHER -> mm

FileOf(fs, c) == IF c \in DOMAIN fs THEN fs[c] ELSE <<>>
SetFile(fs, c, content) == [d \in DOMAIN fs \cup {c} |-> IF d = c THEN content ELSE fs[d]]
DeleteFile(fs, c) == [d \in DOMAIN fs \ {c} |-> fs[d]]

(* A batch goes to the end of the file, whatever the file holds already. *)
ChangeFiles(mm, fs, m) ==
    IF m.client \notin mm.closed /\ m.stream = "cand" /\ TypeOf(m) = "DATA"
    THEN SetFile(fs, m.client, Append(FileOf(fs, m.client), m.n))
    ELSE fs

(* _apply_close deletes the file only if the process has it open. *)
CloseFiles(mm, fs, c) == IF c \in mm.open THEN DeleteFile(fs, c) ELSE fs

(* A WAL record: the input, whether its change closes the client, and the  *)
(* outputs stamped on it.                                                  *)
ApplyMem(mm, r) ==
    LET changed == IF r.closes THEN CloseMem(ChangeMem(mm, r.input), r.input.client)
                   ELSE ChangeMem(mm, r.input)
    IN  [changed EXCEPT !.applied = @ \cup {r.input},
                        !.outbox = Append(@, [input |-> r.input, outputs |-> r.outputs])]

ApplyFiles(mm, fs, r) ==
    IF r.closes
    THEN CloseFiles(ChangeMem(mm, r.input), ChangeFiles(mm, fs, r.input), r.input.client)
    ELSE ChangeFiles(mm, fs, r.input)

MarkDone(mm, m) ==
    [mm EXCEPT !.applied = @ \ {m}, !.done = @ \cup {m},
               !.outbox = SelectSeq(@, LAMBDA e : e.input # m)]

EntriesFor(mm, m) ==
    FlattenSeq([i \in 1 .. Len(mm.outbox) |->
                  IF mm.outbox[i].input = m THEN mm.outbox[i].outputs ELSE <<>>])

AllPending(mm) == FlattenSeq([i \in 1 .. Len(mm.outbox) |-> mm.outbox[i].outputs])

(* _emit_outputs: what the file holds, then an EOF with the count. *)
EmitOutputs(mm, c) ==
    LET results == IF c \in mm.open /\ c \in mm.avg THEN FileOf(files, c) ELSE <<>>
        eof == [type |-> "EOF", client |-> c, results |-> <<>>, total |-> Len(results)]
    IN  IF results = <<>> THEN <<eof>>
        ELSE <<[type |-> "DATA", client |-> c, results |-> results, total |-> 0], eof>>

(* Mutant of OtherEnded: the first EOF opens the barrier. *)
OtherEndedAlways(mm, m) == TRUE

(* business_fn of _handle_average and _handle_candidate: the EOF that      *)
(* finds the other stream ended emits and closes; an ABORT closes.         *)
OtherEnded(mm, m) == m.client \in (IF m.stream = "avg" THEN mm.candEof ELSE mm.avgEof)

(* Mutant of Record: every EOF emits, and only an ABORT closes. *)
RecordEager(m) ==
    [type |-> "APPLIED", input |-> m, closes |-> TypeOf(m) = "ABORT",
     outputs |-> IF TypeOf(m) = "EOF" THEN EmitOutputs(mem, m.client) ELSE <<>>]

(* What handle() logs: the input, its change and its outputs. *)
Record(m) ==
    LET emits == TypeOf(m) = "EOF" /\ OtherEnded(mem, m)
    IN  [type |-> "APPLIED", input |-> m, closes |-> emits \/ TypeOf(m) = "ABORT",
         outputs |-> IF emits THEN EmitOutputs(mem, m.client) ELSE <<>>]
DoneRecord(m) == [type |-> "DONE", input |-> m, closes |-> FALSE, outputs |-> <<>>]

-----------------------------------------------------------------------------
Init ==
    /\ queue = [s \in Streams |-> <<>>] /\ produced = {} /\ acked = {} /\ out = <<>>
    /\ files = [c \in {} |-> <<>>] /\ wal = <<>> /\ snap = <<>>
    /\ mode = "up" /\ pos = 0 /\ mem = FreshMem /\ count = 0 /\ lock = NoStream
    /\ at = [s \in Streams |-> "idle"] /\ held = [s \in Streams |-> <<>>]
    /\ todo = [s \in Streams |-> <<>>] /\ pending = <<>>
    /\ crashes = 0 /\ fails = 0

(* The upstream workers publish each client's streams in order. *)
Produce(m) ==
    /\ m \notin produced /\ Exists(m)
    /\ m.n > 0 => [m EXCEPT !.n = @ - 1] \in produced
    /\ produced' = produced \cup {m}
    /\ queue' = [queue EXCEPT ![m.stream] = Append(@, m)]
    /\ UNCHANGED <<acked, out, disk, mode, pos, mem, count, lock, loop, pending, crashes, fails>>

Deliver(s) ==
    /\ mode = "up" /\ at[s] = "idle" /\ lock = NoStream /\ queue[s] # <<>>
    /\ queue' = [queue EXCEPT ![s] = Tail(@)]

(* A message of a closed client, or one the inbox finished, is only acked. *)
HandleClosedOrDone(s) ==
    LET m == Head(queue[s])
    IN  /\ Deliver(s)
        /\ m.client \in mem.closed \/ (m \notin mem.applied /\ m \in mem.done)
        /\ acked' = acked \cup {m}
        /\ UNCHANGED <<produced, out, disk, mode, pos, mem, count, lock, loop, pending,
                       crashes, fails>>

(* handle() of a NEW message appends its record, still under the lock ... *)
HandleNew(s) ==
    LET m == Head(queue[s])
    IN  /\ Deliver(s)
        /\ m.client \notin mem.closed /\ m \notin mem.applied \cup mem.done
        /\ wal' = Append(wal, Record(m))
        /\ held' = [held EXCEPT ![s] = <<m>>]
        /\ at' = [at EXCEPT ![s] = "apply"] /\ lock' = s
        /\ UNCHANGED <<produced, acked, out, files, snap, mode, pos, mem, count, todo,
                       pending, crashes, fails>>

(* ... then changes memory and file. *)
Apply(s) ==
    LET r == wal[Len(wal)]
    IN  /\ mode = "up" /\ at[s] = "apply"
        /\ mem' = ApplyMem(mem, r)
        /\ files' = ApplyFiles(mem, files, r)
        /\ count' = count + 1
        /\ todo' = [todo EXCEPT ![s] = r.outputs]
        /\ at' = [at EXCEPT ![s] = "publish"] /\ lock' = NoStream
        /\ UNCHANGED <<queue, produced, acked, out, wal, snap, mode, pos, held, pending,
                       crashes, fails>>

(* A redelivered APPLIED message publishes its stored outputs. *)
HandleApplied(s) ==
    LET m == Head(queue[s])
    IN  /\ Deliver(s)
        /\ m.client \notin mem.closed /\ m \in mem.applied
        /\ held' = [held EXCEPT ![s] = <<m>>]
        /\ todo' = [todo EXCEPT ![s] = EntriesFor(mem, m)]
        /\ at' = [at EXCEPT ![s] = "publish"]
        /\ UNCHANGED <<produced, acked, out, disk, mode, pos, mem, count, lock, pending,
                       crashes, fails>>

Publish(s) ==
    /\ mode = "up" /\ at[s] = "publish" /\ todo[s] # <<>>
    /\ out' = Append(out, Head(todo[s]))
    /\ todo' = [todo EXCEPT ![s] = Tail(@)]
    /\ UNCHANGED <<queue, produced, acked, disk, mode, pos, mem, count, lock, at, held,
                   pending, crashes, fails>>

PublishFails(s) ==
    /\ mode = "up" /\ at[s] = "publish" /\ todo[s] # <<>> /\ fails < MaxFails
    /\ fails' = fails + 1
    /\ queue' = [queue EXCEPT ![s] = held[s] \o @]
    /\ at' = [at EXCEPT ![s] = "idle"] /\ held' = [held EXCEPT ![s] = <<>>]
    /\ todo' = [todo EXCEPT ![s] = <<>>]
    /\ UNCHANGED <<produced, acked, out, disk, mode, pos, mem, count, lock, pending, crashes>>

(* commit_done with its snapshot: the state, and the length of every open  *)
(* file.                                                                   *)
SnapshotOf(mm) == <<[mem |-> mm, lengths |-> [c \in mm.open |-> Len(FileOf(files, c))]]>>

Commit(s) ==
    LET m == Head(held[s])
        snapshot == count >= SnapshotEvery
    IN  /\ mode = "up" /\ at[s] = "publish" /\ todo[s] = <<>> /\ lock = NoStream
        /\ mem' = MarkDone(mem, m)
        /\ wal' = IF snapshot THEN <<>> ELSE Append(wal, DoneRecord(m))
        /\ snap' = IF snapshot THEN SnapshotOf(mem') ELSE snap
        /\ count' = IF snapshot THEN 0 ELSE count
        /\ at' = [at EXCEPT ![s] = "ack"]
        /\ UNCHANGED <<queue, produced, acked, out, files, mode, pos, lock, held, todo,
                       pending, crashes, fails>>

Ack(s) ==
    /\ mode = "up" /\ at[s] = "ack"
    /\ acked' = acked \cup {Head(held[s])}
    /\ at' = [at EXCEPT ![s] = "idle"] /\ held' = [held EXCEPT ![s] = <<>>]
    /\ UNCHANGED <<queue, produced, out, disk, mode, pos, mem, count, lock, todo, pending,
                   crashes, fails>>

Crash ==
    /\ mode # "down" /\ crashes < MaxCrashes
    /\ crashes' = crashes + 1
    /\ queue' = [s \in Streams |-> held[s] \o queue[s]]
    /\ mode' = "down" /\ pos' = 0 /\ mem' = FreshMem /\ count' = 0 /\ lock' = NoStream
    /\ at' = [s \in Streams |-> "idle"] /\ held' = [s \in Streams |-> <<>>]
    /\ todo' = [s \in Streams |-> <<>>] /\ pending' = <<>>
    /\ UNCHANGED <<produced, acked, out, disk, fails>>

(* _DiskLog.truncate_to: a shorter file is extended with zeros. *)
Truncate(content, n) == [i \in 1 .. n |-> IF i <= Len(content) THEN content[i] ELSE Zero]

(* Mutant of RestoreFiles: every file is emptied, none truncated. *)
RestoreFilesEmpty(s) == [c \in DOMAIN s.lengths |-> <<>>]

(* restore() truncates the files whose length the snapshot recorded. *)
RestoreFiles(s) ==
    [c \in DOMAIN files \cup DOMAIN s.lengths |->
        IF c \in DOMAIN s.lengths THEN Truncate(FileOf(files, c), s.lengths[c]) ELSE files[c]]

(* Mutant of Restart: without a snapshot the stale files stay. *)
RestartKeepsFiles ==
    /\ mode = "down"
    /\ mode' = "replay" /\ pos' = 1 /\ count' = 0
    /\ mem' = (IF snap = <<>> THEN FreshMem ELSE snap[1].mem)
    /\ files' = (IF snap = <<>> THEN files ELSE RestoreFiles(snap[1]))
    /\ UNCHANGED <<queue, produced, acked, out, wal, snap, lock, loop, pending, crashes, fails>>

(* start(): without a snapshot the candidate files are deleted, otherwise  *)
(* restore() handles them; then the WAL is replayed record by record ...   *)
Restart ==
    /\ mode = "down"
    /\ mode' = "replay" /\ pos' = 1 /\ count' = 0
    /\ IF snap = <<>>
       THEN mem' = FreshMem /\ files' = [c \in {} |-> <<>>]
       ELSE mem' = snap[1].mem /\ files' = RestoreFiles(snap[1])
    /\ UNCHANGED <<queue, produced, acked, out, wal, snap, lock, loop, pending, crashes, fails>>

Replay ==
    LET r == wal[pos]
        new == r.type = "APPLIED" /\ r.input \notin mem.applied \cup mem.done
        ends == r.type = "DONE" /\ r.input \notin mem.done
    IN  /\ mode = "replay" /\ pos <= Len(wal)
        /\ mem' = IF new THEN ApplyMem(mem, r) ELSE IF ends THEN MarkDone(mem, r.input) ELSE mem
        /\ files' = IF new THEN ApplyFiles(mem, files, r) ELSE files
        /\ count' = IF new THEN count + 1 ELSE count
        /\ pos' = pos + 1
        /\ UNCHANGED <<queue, produced, acked, out, wal, snap, mode, lock, loop, pending,
                       crashes, fails>>

(* ... and the outbox published again. *)
ReplayEnds ==
    /\ mode = "replay" /\ pos > Len(wal)
    /\ mode' = "republish" /\ pos' = 0 /\ pending' = AllPending(mem)
    /\ UNCHANGED <<queue, produced, acked, out, disk, mem, count, lock, loop, crashes, fails>>

Republish ==
    /\ mode = "republish" /\ pending # <<>>
    /\ out' = Append(out, Head(pending))
    /\ pending' = Tail(pending)
    /\ UNCHANGED <<queue, produced, acked, disk, mode, pos, mem, count, lock, loop, crashes, fails>>

RecoveryEnds ==
    /\ mode = "republish" /\ pending = <<>>
    /\ mode' = "up"
    /\ UNCHANGED <<queue, produced, acked, out, disk, pos, mem, count, lock, loop, pending,
                   crashes, fails>>

Handle(s) == HandleClosedOrDone(s) \/ HandleNew(s) \/ HandleApplied(s)
Recovery == Restart \/ Replay \/ ReplayEnds \/ Republish \/ RecoveryEnds

Next ==
    \/ \E m \in Inputs : Produce(m)
    \/ \E s \in Streams : \/ Handle(s) \/ Apply(s) \/ Publish(s) \/ PublishFails(s)
                          \/ Commit(s) \/ Ack(s)
    \/ Crash \/ Recovery

Spec == Init /\ [][Next]_vars

-----------------------------------------------------------------------------
AppliedBatches(c) ==
    {m \in mem.applied \cup mem.done : m.client = c /\ m.stream = "cand" /\ TypeOf(m) = "DATA"}

(* The candidates of an open client survive any crash: whatever was        *)
(* snapshotted, truncated and replayed, every batch that was applied is in *)
(* the client's file, in order of arrival.                                 *)
NoCandidateLost ==
    mode = "up" => \A c \in mem.open :
        \A m \in AppliedBatches(c) : \E i \in DOMAIN files[c] : files[c][i] = m.n

(* A client's file holds exactly the batches that were applied: "a WAL     *)
(* replay re-appends exactly the post-checkpoint batches (no               *)
(* double-append)" (q3_barrier_state.py).                                  *)
LogExact ==
    mode = "up" => \A c \in mem.open :
        (\A s \in Streams : at[s] # "apply") =>
            files[c] = [i \in 1 .. Cardinality(AppliedBatches(c)) |-> i - 1]

(* Before the first snapshot a crash doubles no candidate: the stale files *)
(* are deleted and the whole WAL is replayed                               *)
(* (test_crash_before_first_snapshot_does_not_double_candidate_log).       *)
ExactBeforeSnapshot == snap = <<>> => LogExact

(* The barrier: results leave only after every message of both streams of  *)
(* the client was applied, and then they cover all its candidates; an      *)
(* aborted client emits nothing.                                           *)
EmitsOnlyWhenComplete ==
    \A i \in DOMAIN out :
        LET c == out[i].client
        IN  /\ c \notin Aborted
            /\ \A m \in Inputs : m.client = c /\ Exists(m) => m \in produced
            /\ out[i].type = "DATA" => Range(out[i].results) = 0 .. Batches - 1

(* Crash or redelivery may send a client's results again, but never two    *)
(* different versions of them.                                             *)
OneResult ==
    \A i, j \in DOMAIN out :
        (out[i].client = out[j].client /\ out[i].type = out[j].type) => out[i] = out[j]

=============================================================================
