---------------------------- MODULE OutputProofs ----------------------------
(***************************************************************************)
(* The outputs of a durable worker keep their ids and bodies, for any      *)
(* threads, senders, fan-out, snapshot interval and gap cap, and any       *)
(* number of crashes, duplicates and failed publishes.                     *)
(***************************************************************************)
EXTENDS OutputLemmas

(* Messages stay in the queue of their kind. *)
LEMMA NextStreams == IInv /\ Streams /\ [Next]_vars => Streams'
<1> SUFFICES ASSUME IInv, Streams, [Next]_vars PROVE Streams'
    OBVIOUS
<1>0. /\ queue \in [Threads -> Seq(Messages)] /\ held \in [Threads -> Seq(Messages)]
      /\ \A u \in Threads : queue[u] \in Seq(OwnKind(u)) /\ held[u] \in Seq(OwnKind(u))
      /\ \A u \in Threads : <<>> \in Seq(OwnKind(u))
    BY DEF IInv, TypeOK, Streams
<1>1. ASSUME UNCHANGED <<queue, held>> PROVE Streams'
    BY <1>1 DEF Streams
<1>2. ASSUME NEW m \in Messages, Produce(m) \/ ProduceAgain(m) PROVE Streams'
  <2>1. m.kind \in Threads /\ m \in OwnKind(m.kind)
    BY MessageFacts DEF OwnKind
  <2>2. Append(queue[m.kind], m) \in Seq(OwnKind(m.kind))
    BY <1>0, <2>1
  <2>3. held' = held /\ queue' = [queue EXCEPT ![m.kind] = Append(@, m)]
    BY <1>2 DEF Produce, ProduceAgain, loop
  <2> QED
    BY <1>0, <2>1, <2>2, <2>3 DEF Streams
<1>3. ASSUME NEW t \in Threads, Deliver(t) PROVE Streams'
  <2>1. queue[t] # <<>> /\ held' = [held EXCEPT ![t] = <<Head(queue[t])>>]
        /\ queue' = [queue EXCEPT ![t] = Tail(@)]
    BY <1>3 DEF Deliver
  <2>2. Head(queue[t]) \in OwnKind(t) /\ Tail(queue[t]) \in Seq(OwnKind(t))
    BY <1>0, <2>1, HeadTailProperties
  <2>3. <<Head(queue[t])>> \in Seq(OwnKind(t))
    BY <2>2
  <2> QED
    BY <1>0, <2>1, <2>2, <2>3 DEF Streams
<1>4. ASSUME NEW t \in Threads, PublishFails(t) PROVE Streams'
  <2>1. held[t] \o queue[t] \in Seq(OwnKind(t))
    BY <1>0, ConcatProperties
  <2> QED
    BY <1>0, <1>4, <2>1 DEF PublishFails, Streams
<1>5. ASSUME NEW t \in Threads, Ack(t) PROVE Streams'
    BY <1>0, <1>5 DEF Ack, Streams
<1>6. CASE Crash
  <2>1. \A u \in Threads : held[u] \o queue[u] \in Seq(OwnKind(u))
    BY <1>0, ConcatProperties
  <2> QED
    BY <1>0, <1>6, <2>1 DEF Crash, Streams
<1>7. \A t \in Threads : Handle(t) => Deliver(t)
    BY DEF Handle, HandleDone, HandleNew, HandleApplied
<1>8. \A t \in Threads : Publish(t) \/ CommitDone(t) \/ Snapshot(t) => UNCHANGED <<queue, held>>
    BY DEF Publish, CommitDone, Snapshot, WriteTmp, ShiftCurrent, InstallTmp, Rotate, SnapshotStep, broker
<1>9. Recovery \/ UNCHANGED vars => UNCHANGED <<queue, held>>
    BY DEF Recovery, Restart, Replay, ReplayEnds, Republish, RepublishEntry, RecoveryEnds,
           broker, loop, vars
<1> QED
    BY <1>1, <1>2, <1>3, <1>4, <1>5, <1>6, <1>7, <1>8, <1>9 DEF Next

(* What a thread publishes stays APPLIED until the thread commits it: only *)
(* the thread of its own kind marks an input done.                         *)
LEMMA NextHolding == IInv /\ Streams /\ Holding /\ [Next]_vars => Holding'
<1> SUFFICES ASSUME IInv, Streams, Holding, [Next]_vars PROVE Holding'
    OBVIOUS
<1>0. TypeOK /\ at \in [Threads -> Places]
    BY DEF IInv, TypeOK
<1>1. ASSUME UNCHANGED <<at, held, mem>> PROVE Holding'
    BY <1>1 DEF Holding
<1>2. ASSUME NEW t \in Threads, HandleDone(t) \/ HandleNew(t) \/ HandleApplied(t) PROVE Holding'
  <2>1. Deliver(t)
    BY <1>2 DEF HandleDone, HandleNew, HandleApplied
  <2>2. Head(held'[t]) = Head(queue[t]) /\ \A u \in Threads \ {t} : held'[u] = held[u]
    BY <1>0, <2>1, DeliverType
  <2>3. mem.applied \subseteq mem'.applied
    BY <1>2 DEF HandleDone, HandleNew, HandleApplied, ApplyInput
  <2>4. at'[t] = "publish" => Head(queue[t]) \in mem'.applied
    BY <1>0, <1>2 DEF HandleDone, HandleNew, HandleApplied, ApplyInput, Classify
  <2>5. \A u \in Threads \ {t} : at'[u] = at[u]
    BY <1>0, <1>2 DEF HandleDone, HandleNew, HandleApplied
  <2> QED
    BY <2>2, <2>3, <2>4, <2>5 DEF Holding
<1>3. ASSUME NEW t \in Threads, Publish(t) \/ PublishFails(t) \/ Ack(t) PROVE Holding'
  <2>1. mem' = mem /\ \A u \in Threads : at'[u] = "publish" => at[u] = "publish" /\ held'[u] = held[u]
    BY <1>0, <1>3 DEF Publish, PublishFails, Ack, TypeOK
  <2> QED
    BY <2>1 DEF Holding
<1>4. ASSUME NEW t \in Threads, CommitDone(t) PROVE Holding'
  <2>1. /\ held' = held /\ mem'.applied = mem.applied \ {Head(held[t])}
        /\ at'[t] # "publish" /\ \A u \in Threads \ {t} : at'[u] = at[u]
    BY <1>0, <1>4 DEF CommitDone, MarkDone
  <2>2. \A u \in Threads : at[u] = "publish" => Head(held[u]).kind = u
    <3>1. \A u \in Threads : held[u] \in Seq(OwnKind(u)) /\ (at[u] = "publish" => Len(held[u]) = 1)
      BY <1>0 DEF TypeOK, Streams
    <3>2. \A u \in Threads : at[u] = "publish" => Head(held[u]) \in OwnKind(u)
      BY <3>1, EmptySeq, HeadTailProperties
    <3> QED
      BY <3>2 DEF OwnKind
  <2>3. at[t] = "publish"
    BY <1>4 DEF CommitDone
  <2> QED
    BY <2>1, <2>2, <2>3 DEF Holding
<1>5. ASSUME NEW t \in Threads, Snapshot(t) PROVE Holding'
  <2>1. mem' = mem /\ held' = held /\ \A u \in Threads : at'[u] = "publish" => at[u] = "publish"
    BY <1>0, <1>5 DEF Snapshot, WriteTmp, ShiftCurrent, InstallTmp, Rotate, SnapshotStep
  <2> QED
    BY <2>1 DEF Holding
<1>6. ASSUME \A u \in Threads : at'[u] = "idle" PROVE Holding'
    BY <1>6 DEF Holding
<1>7. Crash \/ Recovery => \A u \in Threads : at'[u] = "idle"
    BY ZenonT(20) DEF Crash, Recovery, Restart, Replay, ReplayEnds, Republish, RepublishEntry, RecoveryEnds,
           loop, IInv, IdleUnlessUp
<1>8. UNCHANGED vars \/ (\E m \in Messages : Produce(m) \/ ProduceAgain(m))
        => UNCHANGED <<at, held, mem>>
    BY DEF Produce, ProduceAgain, loop, vars
<1> QED
    BY <1>1, <1>2, <1>3, <1>4, <1>5, <1>6, <1>7, <1>8 DEF Next, Handle

(* Under the lock of a snapshot the memory stays what was written. *)
LEMMA NextSaved == IInv /\ Saved /\ [Next]_vars => Saved'
<1> SUFFICES ASSUME IInv, Saved, [Next]_vars PROVE Saved'
    OBVIOUS
<1> DEFINE Late == {"shift", "install", "rotate"}
<1>0. /\ TypeOK /\ at \in [Threads -> Places]
      /\ \A u \in Threads : at[u] \in Late \cup {"write_tmp"} => lock = u
    BY DEF IInv, TypeOK, SnapshotLocked
<1>1. ASSUME UNCHANGED <<mem, files>>, \A u \in Threads : at'[u] \in Late => at'[u] = at[u]
      PROVE  Saved'
    BY <1>1 DEF Saved
<1>2. ASSUME \A u \in Threads : at'[u] \notin Late PROVE Saved'
    BY <1>2 DEF Saved
<1>3. ASSUME NEW t \in Threads, HandleNew(t) \/ CommitDone(t) PROVE Saved'
  <2>1. lock = NoThread /\ at'[t] \notin Late /\ \A u \in Threads \ {t} : at'[u] = at[u]
    BY <1>0, <1>3 DEF HandleNew, CommitDone, Deliver
  <2> QED
    BY <1>0, <1>2, <2>1, ConstantsAssumption
<1>4. ASSUME NEW t \in Threads,
             HandleDone(t) \/ HandleApplied(t) \/ Publish(t) \/ PublishFails(t) \/ Ack(t)
      PROVE  Saved'
  <2>1. UNCHANGED <<mem, files>> /\ \A u \in Threads : at'[u] \in Late => at'[u] = at[u]
    BY <1>0, <1>4, ZenonT(20) DEF HandleDone, HandleApplied, Publish, PublishFails, Ack, disk
  <2> QED
    BY <1>1, <2>1
<1>5. ASSUME NEW t \in Threads, Snapshot(t) PROVE Saved'
  <2>1. lock = t /\ \A u \in Threads \ {t} : at'[u] \notin Late
    BY <1>0, <1>5 DEF Snapshot, WriteTmp, ShiftCurrent, InstallTmp, Rotate, SnapshotStep
  <2>2. CASE WriteTmp(t)
    BY <1>0, <2>1, <2>2, WriteTmpLoads DEF WriteTmp, SnapshotStep, Saved
  <2>3. CASE ShiftCurrent(t)
    <3>1. at[t] = "shift" /\ at'[t] = "install" /\ mem' = mem /\ files["tmp"] = mem
          /\ "tmp" \in DOMAIN files
      BY <1>0, <2>3 DEF ShiftCurrent, SnapshotStep, Saved, IInv, SnapshotLocked
    <3>2. files'["tmp"] = files["tmp"]
      BY <2>3, <3>1 DEF ShiftCurrent, Replace
    <3> QED
      BY <2>1, <3>1, <3>2 DEF Saved
  <2>4. CASE InstallTmp(t)
    <3>1. at[t] = "install" /\ at'[t] = "rotate" /\ mem' = mem /\ files["tmp"] = mem
      BY <1>0, <2>4 DEF InstallTmp, SnapshotStep, Saved
    <3>2. files'["current"] = files["tmp"]
      BY <2>4 DEF InstallTmp, Replace
    <3> QED
      BY <2>1, <3>1, <3>2 DEF Saved
  <2>5. CASE Rotate(t)
    <3>1. at'[t] = "ack"
      BY <1>0, <2>5 DEF Rotate, SnapshotStep
    <3> QED
      BY <1>2, <2>1, <3>1
  <2> QED
    BY <1>5, <2>2, <2>3, <2>4, <2>5 DEF Snapshot
<1>6. Crash \/ Recovery => \A u \in Threads : at'[u] \notin Late
    BY ZenonT(20) DEF Crash, Recovery, Restart, Replay, ReplayEnds, Republish, RepublishEntry, RecoveryEnds,
           loop, IInv, IdleUnlessUp
<1>7. UNCHANGED vars \/ (\E m \in Messages : Produce(m) \/ ProduceAgain(m))
        => UNCHANGED <<mem, files, at>>
    BY DEF Produce, ProduceAgain, disk, loop, vars
<1> QED
    BY <1>1, <1>2, <1>3, <1>4, <1>5, <1>6, <1>7 DEF Next, Handle

(* The steps that leave memory, log and snapshot alone publish or schedule *)
(* only what is known.                                                     *)
LEMMA LoopRecoverable ==
    ASSUME OInv, NEW t \in Threads,
           HandleDone(t) \/ HandleApplied(t) \/ Publish(t) \/ PublishFails(t) \/ Ack(t)
           \/ WriteTmp(t) \/ ShiftCurrent(t)
    PROVE  Recoverable'
<1>0. TypeOK /\ mode = "up" /\ UNCHANGED <<mode, mem, wal, pending>>
      /\ todo \in [Threads -> Seq(Entries)]
  <2>1. TypeOK /\ todo \in [Threads -> Seq(Entries)]
    BY DEF OInv, IInv, TypeOK
  <2>2. HandleDone(t) \/ HandleApplied(t) => mode = "up" /\ UNCHANGED <<mode, mem, wal, pending>>
    BY DEF HandleDone, HandleApplied, Deliver, disk
  <2>3. Publish(t) \/ PublishFails(t) \/ Ack(t) => mode = "up" /\ UNCHANGED <<mode, mem, wal, pending>>
    BY DEF Publish, PublishFails, Ack, disk
  <2>4. WriteTmp(t) \/ ShiftCurrent(t) => mode = "up" /\ UNCHANGED <<mode, mem, wal, pending>>
    BY DEF WriteTmp, ShiftCurrent, SnapshotStep
  <2> QED
    BY <2>1, <2>2, <2>3, <2>4
<1>1. Loaded(files') = Loaded(files)
  <2>1. CASE WriteTmp(t) \/ ShiftCurrent(t)
    BY <2>1, WriteTmpLoads, ShiftLoads
  <2>2. CASE HandleDone(t) \/ HandleApplied(t) \/ Publish(t) \/ PublishFails(t) \/ Ack(t)
    BY <2>2, ZenonT(20) DEF HandleDone, HandleApplied, Publish, PublishFails, Ack, disk
  <2> QED
    BY <2>1, <2>2
<1>2. PICK h, last : /\ last = h[Len(wal)] /\ IsReplay(h)
                     /\ Recovers(h, last) /\ Consistent(last)
    BY DEF OInv, Recoverable
<1>3. last = mem /\ Recovers(h, last)'
    BY <1>0, <1>2 DEF Recovers
<1>4. Known(last)' \subseteq Known(last)
  <2>1. CASE UNCHANGED <<published, todo>>
    BY <1>0, <2>1 DEF Known
  <2>2. CASE HandleApplied(t)
    <3>1. Range(EntriesFor(mem, Head(queue[t]))) \subseteq AllPending(mem)
      <4>1. CASE Head(queue[t]) \in DOMAIN mem.outbox
        BY <4>1 DEF EntriesFor, AllPending
      <4>2. CASE Head(queue[t]) \notin DOMAIN mem.outbox
        BY <4>2 DEF EntriesFor, Range
      <4> QED
        BY <4>1, <4>2
    <3>2. published' = published /\
          \A u \in Threads : todo'[u] = IF u = t THEN EntriesFor(mem, Head(queue[t])) ELSE todo[u]
      BY <1>0, <2>2 DEF HandleApplied
    <3> QED
      BY <1>0, <1>3, <3>1, <3>2 DEF Known
  <2>3. CASE Publish(t)
    <3>1. todo[t] \in Seq(Entries) /\ todo[t] # <<>>
      BY <1>0, <2>3 DEF Publish
    <3>2. Head(todo[t]) \in Range(todo[t]) /\ Range(Tail(todo[t])) \subseteq Range(todo[t])
      BY <3>1 DEF Range
    <3>3. published' = published \cup {Head(todo[t])} /\
          \A u \in Threads : todo'[u] = IF u = t THEN Tail(todo[t]) ELSE todo[u]
      BY <1>0, <2>3 DEF Publish
    <3> QED
      BY <1>0, <3>2, <3>3 DEF Known
  <2>4. CASE PublishFails(t)
    <3>1. published' = published /\ \A u \in Threads : todo'[u] = IF u = t THEN <<>> ELSE todo[u]
      BY <1>0, <2>4 DEF PublishFails
    <3>2. Range(<<>>) = {}
      BY DEF Range
    <3> QED
      BY <1>0, <3>1, <3>2 DEF Known
  <2>5. HandleDone(t) \/ Ack(t) \/ WriteTmp(t) \/ ShiftCurrent(t) => UNCHANGED <<published, todo>>
    BY DEF HandleDone, Ack, WriteTmp, ShiftCurrent, SnapshotStep
  <2> QED
    BY <2>1, <2>2, <2>3, <2>4, <2>5
<1> QED
    BY <1>0, <1>1, <1>2, <1>3, <1>4, KeepsRecoverable, ZenonT(20)

(* Crash and recovery: the entries of the outbox are known beforehand, and *)
(* the memory runs through the replay that the invariant speaks of.        *)
LEMMA RecoveryRecoverable ==
    ASSUME OInv, Crash \/ Recovery
    PROVE  Recoverable'
<1>0. TypeOK /\ wal' = wal /\ files' = files /\ wal \in Seq(Records) /\ Len(wal) \in Nat
    BY LenProperties DEF OInv, IInv, TypeOK, Crash, Recovery, Restart, Replay, ReplayEnds, Republish,
           RepublishEntry, RecoveryEnds, disk
<1>1. PICK h, last : /\ last = h[Len(wal)] /\ IsReplay(h)
                     /\ Recovers(h, last) /\ Consistent(last)
    BY DEF OInv, Recoverable
<1>2. ASSUME Recovers(h, last)', Known(last)' \subseteq Known(last) PROVE Recoverable'
    BY <1>0, <1>1, <1>2, KeepsRecoverable
<1>3. CASE Crash
  <2>1. mode' = "down" /\ published' = published /\ pending' = {}
        /\ \A u \in Threads : todo'[u] = <<>>
    BY <1>3 DEF Crash
  <2>2. Range(<<>>) = {}
    BY DEF Range
  <2>3. Known(last)' \subseteq Known(last)
    BY <2>1, <2>2 DEF Known
  <2> QED
    BY <1>2, <2>1, <2>3 DEF Recovers
<1>4. CASE Restart
  <2>1. mode' = "replay" /\ pos' - 1 = 0 /\ mem' = Loaded(files)
        /\ UNCHANGED <<published, pending, todo>>
    BY <1>4 DEF Restart, loop
  <2>2. Recovers(h, last)'
    BY <1>1, <2>1 DEF Recovers, IsReplay
  <2> QED
    BY <1>2, <2>1, <2>2 DEF Known
<1>5. CASE Replay
  <2>1. mode = "replay" /\ mode' = "replay" /\ pos' = pos + 1 /\ pos <= Len(wal)
        /\ mem' = ApplyRecord(mem, wal[pos]) /\ UNCHANGED <<published, pending, todo>>
    BY <1>5 DEF Replay, loop
  <2>2. pos \in 1 .. Len(wal) /\ pos' - 1 = pos
    BY <1>0, <2>1 DEF OInv, IInv, MemoryCovers
  <2>3. mem = h[pos - 1]
    BY <1>1, <2>1 DEF Recovers
  <2>4. mem' = h[pos]
    BY <1>1, <2>1, <2>2, <2>3 DEF IsReplay
  <2>5. Recovers(h, last)'
    BY <2>1, <2>2, <2>4 DEF Recovers
  <2> QED
    BY <1>2, <2>1, <2>5 DEF Known
<1>6. CASE ReplayEnds
  <2>1. mode = "replay" /\ mode' = "republish" /\ mem' = mem /\ pos > Len(wal)
        /\ pending' = AllPending(mem) /\ UNCHANGED <<published, todo>>
    BY <1>6 DEF ReplayEnds, loop
  <2>2. pos - 1 = Len(wal)
    BY <1>0, <2>1 DEF OInv, IInv, MemoryCovers
  <2>3. mem = last
    BY <1>1, <2>1, <2>2 DEF Recovers
  <2>4. Known(last)' \subseteq Known(last)
    BY <2>1, <2>3 DEF Known
  <2> QED
    BY <1>2, <2>1, <2>3, <2>4 DEF Recovers
<1>7. CASE Republish
  <2>1. PICK e \in pending : RepublishEntry(e)
    BY <1>7 DEF Republish
  <2>2. mode = "republish" /\ mode' = mode /\ mem' = mem /\ todo' = todo
        /\ published' = published \cup {e} /\ pending' = pending \ {e}
    BY <2>1 DEF RepublishEntry, loop
  <2>3. Known(last)' \subseteq Known(last)
    BY <2>2 DEF Known
  <2> QED
    BY <1>1, <1>2, <2>2, <2>3 DEF Recovers
<1>8. CASE RecoveryEnds
  <2>1. mode = "republish" /\ mode' = "up" /\ mem' = mem /\ UNCHANGED <<published, pending, todo>>
    BY <1>8 DEF RecoveryEnds, loop
  <2> QED
    BY <1>1, <1>2, <2>1 DEF Recovers, Known
<1> QED
    BY <1>3, <1>4, <1>5, <1>6, <1>7, <1>8, SMTT(20) DEF Recovery

(* The constructors' values: an empty outbox and the first seq to come. *)
LEMMA FreshKnowsNothing ==
    AllPending(FreshMem) = {} /\ FreshMem.next \in Nat /\ Range(<<>>) = {}
<1>1. DOMAIN FreshMem.outbox = {} /\ FreshMem.next \in Nat
    BY DEF FreshMem
<1>2. AllPending(FreshMem) = {}
    BY <1>1 DEF AllPending
<1> QED
    BY <1>1, <1>2 DEF Range

(* A new worker has no log and knows no entry. *)
LEMMA InitOInv == Init => OInv
<1> SUFFICES ASSUME Init PROVE OInv
    OBVIOUS
<1>1. IInv
    BY InitIInv
<1>2. Streams /\ Holding /\ Saved
    BY DEF Init, Streams, Holding, Saved
<1>3. wal = <<>> /\ Loaded(files) = FreshMem /\ mem = FreshMem /\ mode = "up"
      /\ published = {} /\ pending = {} /\ \A t \in Threads : todo[t] = <<>>
    BY DEF Init, Loaded
<1>4. Known(FreshMem) = {}
    BY <1>3, FreshKnowsNothing DEF Known
<1>5. PICK h : h = [i \in {0} |-> FreshMem]
    BY ZenonT(20)
<1>6. FreshMem = h[Len(wal)] /\ IsReplay(h) /\ Recovers(h, FreshMem)
    BY <1>3, <1>5 DEF IsReplay, Recovers
<1>7. Consistent(FreshMem)
    BY <1>3, <1>4, FreshKnowsNothing DEF Consistent, Stable
<1> QED
    BY <1>1, <1>2, <1>6, <1>7 DEF OInv, Recoverable

(* The strengthened invariant is inductive. *)
LEMMA NextOInv == OInv /\ [Next]_vars => OInv'
<1> SUFFICES ASSUME OInv, [Next]_vars PROVE OInv'
    OBVIOUS
<1>1. IInv' /\ Streams' /\ Holding' /\ Saved'
    BY NextIInv, NextStreams, NextHolding, NextSaved DEF OInv
<1>2. ASSUME UNCHANGED vars \/ (\E m \in Messages : Produce(m) \/ ProduceAgain(m))
      PROVE  Recoverable'
  <2>1. UNCHANGED <<wal, files, mem, mode, pos, published, pending, todo>>
    BY <1>2 DEF Produce, ProduceAgain, disk, loop, vars
  <2>2. PICK h, last : /\ last = h[Len(wal)] /\ IsReplay(h)
                       /\ Recovers(h, last) /\ Consistent(last)
    BY DEF OInv, Recoverable
  <2>3. Recovers(h, last)' /\ Known(last)' = Known(last)
    BY <2>1, <2>2 DEF Recovers, Known
  <2> QED
    BY <2>1, <2>2, <2>3, KeepsRecoverable
<1>3. Recoverable'
    BY <1>2, HandleNewRecoverable, CommitDoneRecoverable, SnapshotRecoverable, LoopRecoverable,
       RecoveryRecoverable DEF Next, Handle, Snapshot
<1> QED
    BY <1>1, <1>3 DEF OInv

(* Whatever crashes, is published again or replayed, two published entries *)
(* that share a seq, or an input and an index, are one and the same: the   *)
(* seq that stamp() gives an output is never given to another one.         *)
THEOREM OutputsKeepTheirIds == Spec => []OutputIdsStable
<1>1. OInv => OutputIdsStable
  <2> SUFFICES ASSUME OInv PROVE OutputIdsStable
    OBVIOUS
  <2>1. PICK last : Consistent(last)
    BY DEF OInv, Recoverable
  <2>2. published \subseteq Known(last)
    BY DEF Known
  <2> QED
    BY <2>1, <2>2 DEF Consistent, Stable, OutputIdsStable
<1> QED
    BY InitOInv, NextOInv, <1>1, PTL DEF Spec

-----------------------------------------------------------------------------
(* What one more record finishes and makes durable. *)
LEMMA RecordOnDisk ==
    ASSUME IInv, NEW r \in Records, wal' = Append(wal, r), files' = files
    PROVE  /\ \A x \in Messages : DiskDone(x)' <=> DiskDone(x) \/ r = Done(x)
           /\ \A x \in Messages : x \in Durable' <=> \/ x \in Durable
                                                     \/ r.type = "INPUT_APPLIED" /\ r.input = x
           /\ Durable \subseteq Messages /\ Durable' \subseteq Messages
<1>1. PICK k : /\ DOMAIN wal' = DOMAIN wal \cup {k} /\ wal'[k] = r
               /\ \A i \in DOMAIN wal : wal'[i] = wal[i]
  <2>1. /\ DOMAIN wal' = 1 .. Len(wal) + 1 /\ DOMAIN wal = 1 .. Len(wal) /\ Len(wal) \in Nat
        /\ wal'[Len(wal) + 1] = r /\ \A i \in DOMAIN wal : wal'[i] = wal[i]
    BY AppendCovers
  <2>2. DOMAIN wal' = DOMAIN wal \cup {Len(wal) + 1}
    BY <2>1
  <2> QED
    BY <2>1, <2>2, ZenonT(20)
<1>2. \A x : (\E i \in DOMAIN wal' : wal'[i] = Done(x))
             <=> (\E i \in DOMAIN wal : wal[i] = Done(x)) \/ r = Done(x)
    BY <1>1
<1>3. \A x : (\E i \in DOMAIN wal' : wal'[i].type = "INPUT_APPLIED" /\ wal'[i].input = x)
             <=> \/ \E i \in DOMAIN wal : wal[i].type = "INPUT_APPLIED" /\ wal[i].input = x
                 \/ r.type = "INPUT_APPLIED" /\ r.input = x
    BY <1>1
<1> QED
    BY <1>2, <1>3, ZenonT(20) DEF DiskDone, Durable

(* handle() of a NEW input commits it: the one step that makes something   *)
(* durable.                                                                *)
LEMMA HandleNewSettled ==
    ASSUME OInv, Settled(mem), NEW t \in Threads, HandleNew(t)
    PROVE  /\ Settled(mem)'
           /\ Head(queue[t]) \in Messages \ Durable
           /\ Durable' = Durable \cup {Head(queue[t])}
<1> DEFINE m == Head(queue[t])
           outs == Stamp(mem, m)
           r == Applied(m, outs)
<1>1. IInv /\ TypeOK /\ IsMemory(mem) /\ m \in Messages
    BY DeliverType DEF OInv, IInv, TypeOK, HandleNew
<1>2. /\ Classify(mem, m) = "NEW" /\ wal' = Append(wal, r) /\ files' = files
      /\ mem' = ApplyInput(mem, m, outs) /\ mode = "up" /\ mode' = "up"
      /\ published' = published
    BY DEF HandleNew, Deliver
<1>4. r \in Records
    BY <1>1, StampType DEF Applied, Records
<1>5. /\ \A x \in Messages : DiskDone(x)' <=> DiskDone(x) \/ r = Done(x)
      /\ \A x \in Messages : x \in Durable' <=> \/ x \in Durable
                                                \/ r.type = "INPUT_APPLIED" /\ r.input = x
      /\ Durable \subseteq Messages /\ Durable' \subseteq Messages
    BY <1>1, <1>2, <1>4, RecordOnDisk
<1>6. r.type = "INPUT_APPLIED" /\ r.input = m /\ \A x : r # Done(x)
    BY DEF Applied, Done
<1>7. PICK new : new = ApplyInput(mem, m, outs)
    OBVIOUS
<1> HIDE DEF r
<1>8. \A x \in Messages : DiskDone(x)' <=> DiskDone(x)
    BY <1>5, <1>6
<1>9. Durable' = Durable \cup {m}
    BY <1>1, <1>5, <1>6
<1> HIDE DEF m, outs
<1>10. /\ new.done = mem.done /\ new.applied = mem.applied \cup {m}
       /\ new.state = Append(mem.state, m)
       /\ new.outbox = [x \in DOMAIN mem.outbox \cup {m} |->
                           IF x = m THEN outs ELSE mem.outbox[x]]
    BY <1>7 DEF ApplyInput
<1>11. \A x : IsDone(new, x) <=> IsDone(mem, x)
    BY <1>10 DEF IsDone
<1>12. \A x : Classify(new, x) # "NEW" <=> Classify(mem, x) # "NEW" \/ x = m
    BY <1>10, <1>11 DEF Classify
<1>13. Range(new.state) = Range(mem.state) \cup {m}
  <2>1. mem.state \in Seq(Messages)
    BY <1>1 DEF IsMemory
  <2> QED
    BY <1>1, <1>10, <2>1, AppendProperties, LenProperties DEF Range
<1>14. \A x \in new.applied : x \in DOMAIN new.outbox /\ Whole(x, Range(new.outbox[x]))
  <2>1. Whole(m, Range(outs))
    BY <1>1, StampWhole DEF m, outs
  <2> QED
    BY <1>10, <2>1 DEF Settled
<1>15. Settled(new)'
  <2>1. \A b \in DOMAIN new.done : new.done[b].pending = {}
    BY <1>10 DEF Settled
  <2>2. \A x \in Messages : /\ IsDone(new, x) <=> DiskDone(x)'
                            /\ IsDone(new, x) => Whole(x, published')
    BY <1>2, <1>8, <1>11 DEF Settled
  <2>3. Durable' = {x \in Messages : Classify(new, x) # "NEW"} /\ Durable' = Range(new.state)
    BY <1>1, <1>9, <1>12, <1>13 DEF Settled
  <2> QED
    BY <1>14, <2>1, <2>2, <2>3 DEF Settled
<1>16. mem' = new
    BY <1>2, <1>7 DEF m, outs
<1>17. Settled(mem)'
    BY <1>15, <1>16 DEF Settled
<1> QED
    BY <1>1, <1>2, <1>9, <1>17 DEF Settled, m

(* commit_done() of an input whose predecessors are done. *)
LEMMA CommitDoneSettled ==
    ASSUME OInv, InOrder, OnItsWay, Settled(mem), NEW t \in Threads, CommitDone(t)
    PROVE  Settled(mem)' /\ Durable' = Durable /\ DiskDone(Head(held[t]))'
<1> DEFINE m == Head(held[t])
<1>1. IInv /\ TypeOK /\ GoodMem(mem) /\ m \in mem.applied /\ m \in Messages
  <2>1. IInv /\ TypeOK /\ GoodMem(mem)
    BY DEF OInv, IInv, GoodMemories
  <2>2. m \in mem.applied
    BY DEF OInv, Holding, CommitDone
  <2>3. mem.applied \subseteq Messages
    BY <2>1 DEF GoodMem, IsMemory
  <2> QED
    BY <2>1, <2>2, <2>3
<1>2. /\ wal' = Append(wal, Done(m)) /\ files' = files
      /\ mem' = MarkDone(mem, m) /\ mode = "up" /\ mode' = "up" /\ at[t] = "publish"
      /\ todo[t] = <<>> /\ published' = published /\ held' = held
    BY DEF CommitDone
<1>4. /\ \A x \in Messages : DiskDone(x)' <=> DiskDone(x) \/ Done(m) = Done(x)
      /\ \A x \in Messages : x \in Durable' <=> x \in Durable
      /\ Durable \subseteq Messages /\ Durable' \subseteq Messages
  <2>1. Done(m) \in Records /\ Done(m).type # "INPUT_APPLIED"
    BY <1>1, DoneIsRecord DEF Done
  <2> QED
    BY <1>1, <1>2, <2>1, RecordOnDisk
<1>6. \A x \in Messages : Precedes(x, m) => IsDone(mem, x)
  <2>1. held[t] \in Seq(Messages) /\ Len(held[t]) = 1 /\ queue[t] \in Seq(Messages)
    BY <1>1, <1>2 DEF TypeOK
  <2>2. Line(t) \in Seq(Messages) /\ Line(t) # <<>> /\ Head(Line(t)) = m
    BY <1>1, <2>1, LineSteps DEF Line
  <2>3. 1 \in DOMAIN Line(t) /\ Line(t)[1] = m
    BY <2>2
  <2>4. \A x \in Messages : Precedes(x, m) => DiskDone(x)
    BY <2>3 DEF InOrder, Ordered, Finished
  <2> QED
    BY <2>4 DEF Settled
<1>7. Whole(m, published)
  <2>1. Range(<<>>) = {}
    BY DEF Range
  <2>2. published \cup Range(todo[t]) = published
    BY <1>2, <2>1
  <2> QED
    BY <1>2, <2>2 DEF OnItsWay
<1>8. PICK new : new = MarkDone(mem, m)
    OBVIOUS
<1> HIDE DEF m
<1>9. \A x \in Messages : DiskDone(x)' <=> DiskDone(x) \/ x = m
  <2>1. \A x : Done(m) = Done(x) <=> x = m
    BY DEF Done
  <2> QED
    BY <1>4, <2>1
<1>10. Durable' = Durable
    BY <1>4
<1>11. /\ \A b \in DOMAIN new.done : new.done[b].pending = {}
       /\ \A x \in Messages : IsDone(new, x) <=> IsDone(mem, x) \/ x = m
  <2>1. \A b \in DOMAIN mem.done : mem.done[b].pending = {}
    BY DEF Settled
  <2> QED
    BY <1>1, <1>6, <1>8, <2>1, MarkDoneExact, MarkDoneGood
<1>12. /\ new.applied = mem.applied \ {m} /\ new.state = mem.state
       /\ new.outbox = [x \in DOMAIN mem.outbox \ {m} |-> mem.outbox[x]]
    BY <1>8 DEF MarkDone
<1>13. \A x \in Messages : Classify(new, x) # "NEW" <=> Classify(mem, x) # "NEW"
    BY <1>1, <1>11, <1>12 DEF Classify
<1>14. \A x \in new.applied : x \in DOMAIN new.outbox /\ Whole(x, Range(new.outbox[x]))
    BY <1>12 DEF Settled
<1>15. Settled(new)'
  <2>1. \A x \in Messages : /\ IsDone(new, x) <=> DiskDone(x)'
                            /\ IsDone(new, x) => Whole(x, published')
    BY <1>2, <1>7, <1>9, <1>11 DEF Settled
  <2>2. Durable' = {x \in Messages : Classify(new, x) # "NEW"} /\ Durable' = Range(new.state)
    BY <1>10, <1>12, <1>13 DEF Settled
  <2> QED
    BY <1>11, <1>14, <2>1, <2>2 DEF Settled
<1>16. mem' = new
    BY <1>2, <1>8
<1>17. Settled(mem)'
    BY <1>15, <1>16 DEF Settled
<1> QED
    BY <1>1, <1>2, <1>9, <1>10, <1>17 DEF m

(* The renames and the rotation of a snapshot. *)
LEMMA SnapshotSettled ==
    ASSUME OInv, Settled(mem), NEW t \in Threads, InstallTmp(t) \/ Rotate(t)
    PROVE  Settled(mem)' /\ Durable' = Durable
<1>1. /\ mode = "up" /\ mode' = "up" /\ mem' = mem /\ published' = published
      /\ wal' = wal \/ wal' = <<>>
    BY DEF InstallTmp, Rotate, SnapshotStep
<1>3. Loaded(files') = mem
  <2>1. CASE InstallTmp(t)
    BY <2>1 DEF InstallTmp, SnapshotStep, Replace, Loaded, OInv, IInv, SnapshotLocked, Saved
  <2>2. CASE Rotate(t)
    BY <2>2 DEF Rotate, SnapshotStep, Loaded, OInv, IInv, SnapshotLocked, Saved
  <2> QED
    BY <2>1, <2>2
<1>4. \A i \in DOMAIN wal' : i \in DOMAIN wal /\ wal'[i] = wal[i]
    BY <1>1
<1>5. PICK r : r = mem
    OBVIOUS
<1>6. \A x \in Messages : DiskDone(x)' <=> IsDone(r, x)
    BY <1>3, <1>4, <1>5 DEF DiskDone, Settled
<1>7. Durable' = Durable
  <2>1. \A x \in Messages : (\E i \in DOMAIN r.state : r.state[i] = x) <=> x \in Durable
    BY <1>5 DEF Settled, Range
  <2>2. \A x \in Messages : (\E i \in DOMAIN wal : wal[i].type = "INPUT_APPLIED" /\ wal[i].input = x)
                            => x \in Durable
    BY DEF Durable
  <2>3. Durable' = {x \in Messages : \/ \E i \in DOMAIN r.state : r.state[i] = x
                                     \/ \E i \in DOMAIN wal' : wal'[i].type = "INPUT_APPLIED"
                                                               /\ wal'[i].input = x}
    BY <1>3, <1>5 DEF Durable
  <2>4. Durable \subseteq Messages
    BY DEF Durable
  <2> QED
    BY <1>4, <2>1, <2>2, <2>3, <2>4
<1>8. Settled(r)'
    BY <1>1, <1>5, <1>6, <1>7 DEF Settled
<1>9. Settled(mem)'
    BY <1>1, <1>5, <1>8 DEF Settled
<1> QED
    BY <1>7, <1>9

=============================================================================
