---------------------------- MODULE DurableProofs ----------------------------
(***************************************************************************)
(* The durable worker for any threads, senders, fan-out, snapshot interval *)
(* and gap cap, any number of crashes, duplicates and failed publishes.    *)
(***************************************************************************)
EXTENDS DurableLemmas

(* Steps that touch neither the disk nor the memory, and take a thread at  *)
(* most out of a snapshot, preserve the invariant.                         *)
LEMMA FrameIInv ==
    ASSUME IInv, TypeOK',
           wal' = wal, files' = files, mode' = mode, pos' = pos, mem' = mem, lock' = lock,
           \A u \in Threads : \/ at'[u] = at[u]
                              \/ mode = "up" /\ at'[u] \in {"idle", "publish", "ack"}
    PROVE  IInv'
<1>1. \A n : Covers(mem, n) => Covers(mem, n)'
    BY DEF Covers, IsDone
<1>2. GoodMem(mem)' /\ \A f \in DOMAIN files' : GoodMem(files[f])'
    BY DEF IInv, GoodMemories
<1>3. mode' # "up" => \A t \in Threads : at'[t] = "idle"
    BY DEF IInv, IdleUnlessUp
<1>4. /\ mode' = "replay" => pos' \in 1 .. Len(wal') + 1 /\ Covers(mem, pos - 1)'
      /\ mode' \in {"republish", "up"} => Covers(mem, Len(wal))'
    BY <1>1 DEF IInv, MemoryCovers
<1>5. \A t \in Threads :
        /\ at'[t] \in {"write_tmp", "shift", "install", "rotate"} => lock' = t
        /\ at'[t] \in {"shift", "install"} =>
              "tmp" \in DOMAIN files' /\ files'["tmp"].done = mem'.done
        /\ at'[t] = "rotate" =>
              "current" \in DOMAIN files' /\ files'["current"].done = mem'.done
    BY DEF IInv, SnapshotLocked
<1> QED
    BY <1>2, <1>3, <1>4, <1>5 DEF IInv, GoodMemories, IdleUnlessUp, MemoryCovers, SnapshotLocked

(* What a longer WAL, or a snapshot that covers the memory, leaves done.   *)
LEMMA AppendCovers ==
    ASSUME IInv, NEW r \in Records, wal' = Append(wal, r), files' = files
    PROVE  /\ DOMAIN wal' = 1 .. Len(wal) + 1 /\ DOMAIN wal = 1 .. Len(wal) /\ Len(wal) \in Nat
           /\ Len(wal') = Len(wal) + 1
           /\ \A i \in DOMAIN wal : wal'[i] = wal[i]
           /\ wal'[Len(wal) + 1] = r
<1>1. wal \in Seq(Records)
    BY DEF IInv, TypeOK
<1> QED
    BY <1>1, AppendProperties, LenProperties

(* LastState.commit's first rename changes nothing that load() returns. *)
LEMMA ShiftLoads ==
    ASSUME NEW t \in Threads, ShiftCurrent(t)
    PROVE  Loaded(files') = Loaded(files)
<1>1. CASE "current" \in DOMAIN files
  <2>1. files' = Replace(files, "current", "previous")
    BY <1>1 DEF ShiftCurrent
  <2>2. "current" \notin DOMAIN files' /\ "previous" \in DOMAIN files'
        /\ files'["previous"] = files["current"]
    BY <2>1 DEF Replace
  <2> QED
    BY <1>1, <2>2 DEF Loaded
<1>2. CASE "current" \notin DOMAIN files
    BY <1>2 DEF ShiftCurrent
<1> QED
    BY <1>1, <1>2

(* Nor does writing the temporary file, which then equals the memory. *)
LEMMA WriteTmpLoads ==
    ASSUME NEW t \in Threads, WriteTmp(t)
    PROVE  Loaded(files') = Loaded(files) /\ "tmp" \in DOMAIN files' /\ files'["tmp"] = mem
BY DEF WriteTmp, Loaded

(* After the second rename load() returns the snapshot just taken. *)
LEMMA InstallLoads ==
    ASSUME IInv, NEW t \in Threads, InstallTmp(t)
    PROVE  /\ "current" \in DOMAIN files' /\ files'["current"].done = mem.done
           /\ Loaded(files') = files'["current"]
           /\ \A m \in Messages : IsDone(Loaded(files'), m) <=> IsDone(mem, m)
<1>1. "tmp" \in DOMAIN files /\ files["tmp"].done = mem.done
    BY DEF IInv, SnapshotLocked, InstallTmp, SnapshotStep
<1>2. "current" \in DOMAIN files' /\ files'["current"] = files["tmp"]
    BY <1>1 DEF InstallTmp, Replace
<1>3. Loaded(files') = files'["current"]
    BY <1>2 DEF Loaded
<1> QED
    BY <1>1, <1>2, <1>3 DEF IsDone

(* The invariant is inductive. *)
LEMMA NextIInv == IInv /\ [Next]_vars => IInv'
<1> SUFFICES ASSUME IInv, [Next]_vars PROVE IInv'
    OBVIOUS
<1>0. TypeOK /\ TypeOK' /\ GoodMem(mem) /\ \A f \in DOMAIN files : GoodMem(files[f])
    BY NextTypeOK DEF IInv, GoodMemories
<1>1. CASE UNCHANGED vars
    BY <1>0, <1>1, FrameIInv DEF vars
<1>2. ASSUME NEW m \in Messages, Produce(m) \/ ProduceAgain(m) PROVE IInv'
    BY <1>0, <1>2, FrameIInv DEF Produce, ProduceAgain, disk, loop
<1>3. ASSUME NEW t \in Threads, HandleDone(t) \/ HandleApplied(t) PROVE IInv'
  <2>1. UNCHANGED <<wal, files, mode, pos, mem, lock>> /\ mode = "up"
    BY <1>3 DEF HandleDone, HandleApplied, Deliver, disk
  <2>2. \A u \in Threads : at'[u] = at[u] \/ at'[u] \in {"idle", "publish", "ack"}
    BY <1>0, <1>3, SMTT(20) DEF HandleDone, HandleApplied, TypeOK
  <2> QED
    BY <1>0, <2>1, <2>2, FrameIInv
<1>4. ASSUME NEW t \in Threads, HandleNew(t) PROVE IInv'
  <2> DEFINE m == Head(queue[t])
             outs == Stamp(mem, m)
             r == Applied(m, outs)
  <2>1. m \in Messages /\ outs \in Seq(Entries) /\ r \in Records
    BY <1>0, <1>4, DeliverType, StampType DEF HandleNew, GoodMem, Applied, Records
  <2>2. wal' = Append(wal, r) /\ files' = files /\ mode = "up" /\ mode' = "up" /\ lock' = lock
        /\ lock = NoThread
    BY <1>4 DEF HandleNew, Deliver
  <2>3. GoodMem(mem') /\ mem'.done = mem.done
    BY <1>0, <1>4, <2>1, ApplyInputGood DEF HandleNew
  <2>4. Covers(mem, Len(wal))'
    <3>1. \A i \in DOMAIN wal' : \A x \in Messages : wal'[i] = Done(x) => i \in DOMAIN wal /\ wal[i] = Done(x)
      <4>1. \A x : r # Done(x)
        BY DEF Applied, Done
      <4> QED
        BY <2>1, <2>2, <4>1, AppendCovers
    <3>2. Covers(mem, Len(wal)) /\ \A i \in DOMAIN wal : i <= Len(wal)
      BY <2>1, <2>2, AppendCovers DEF IInv, MemoryCovers
    <3> QED
      BY <2>2, <2>3, <3>1, <3>2 DEF Covers, IsDone
  <2>5. \A u \in Threads : at'[u] \notin {"write_tmp", "shift", "install", "rotate"}
    <3>1. \A u \in Threads : at[u] \notin {"write_tmp", "shift", "install", "rotate"}
      BY <2>2, ConstantsAssumption DEF IInv, SnapshotLocked
    <3>2. at \in [Threads -> Places] /\ at' = [at EXCEPT ![t] = "publish"]
      BY <1>0, <1>4 DEF HandleNew, TypeOK
    <3> QED
      BY <3>1, <3>2
  <2> QED
    <3>11. GoodMemories'
      BY <1>0, <2>2, <2>3, <2>4, <2>5 DEF GoodMemories
    <3>12. IdleUnlessUp'
      BY <1>0, <2>2, <2>3, <2>4, <2>5 DEF IdleUnlessUp
    <3>13. MemoryCovers'
      BY <1>0, <2>2, <2>3, <2>4, <2>5 DEF MemoryCovers
    <3>14. SnapshotLocked'
      BY <1>0, <2>2, <2>3, <2>4, <2>5 DEF SnapshotLocked
    <3> QED
      BY <1>0, <3>11, <3>12, <3>13, <3>14 DEF IInv
<1>5. ASSUME NEW t \in Threads, Publish(t) PROVE IInv'
    BY <1>0, <1>5, FrameIInv DEF Publish, disk
<1>6. ASSUME NEW t \in Threads, PublishFails(t) \/ Ack(t) PROVE IInv'
  <2>1. UNCHANGED <<wal, files, mode, pos, mem, lock>> /\ mode = "up"
    BY <1>6, ZenonT(20) DEF PublishFails, Ack, disk
  <2>2. \A u \in Threads : at'[u] = at[u] \/ at'[u] \in {"idle", "publish", "ack"}
    BY <1>0, <1>6, SMTT(20) DEF PublishFails, Ack, TypeOK
  <2> QED
    BY <1>0, <2>1, <2>2, FrameIInv
<1>7. ASSUME NEW t \in Threads, CommitDone(t) PROVE IInv'
  <2> DEFINE m == Head(held[t])
  <2>1. m \in Messages
    <3>1. held[t] \in Seq(Messages) /\ Len(held[t]) = 1
      BY <1>0, <1>7 DEF TypeOK, CommitDone
    <3> QED
      BY <3>1, EmptySeq, HeadTailProperties
  <2>2. Done(m) \in Records
    BY <2>1, DoneIsRecord
  <2>3. wal' = Append(wal, Done(m)) /\ files' = files /\ mode = "up" /\ mode' = "up"
        /\ lock = NoThread
    BY <1>7 DEF CommitDone
  <2>4. GoodMem(mem') /\ IsDone(mem', m) /\ \A x \in Messages : IsDone(mem, x) => IsDone(mem', x)
    BY <1>0, <1>7, <2>1, MarkDoneGood DEF CommitDone
  <2>5. Covers(mem, Len(wal))'
    <3> SUFFICES ASSUME NEW x \in Messages,
                        \/ IsDone(Loaded(files), x)
                        \/ \E i \in DOMAIN wal' : wal'[i] = Done(x)
                 PROVE  IsDone(mem', x)
      BY <2>3 DEF Covers
    <3>1. Covers(mem, Len(wal)) /\ \A i \in DOMAIN wal : i <= Len(wal)
      BY <2>2, <2>3, AppendCovers DEF IInv, MemoryCovers
    <3>2. \A i \in DOMAIN wal' : (i \in DOMAIN wal /\ wal'[i] = wal[i]) \/ wal'[i] = Done(m)
      BY <2>2, <2>3, AppendCovers
    <3>3. Done(x) = Done(m) => x = m
      BY DEF Done
    <3> QED
      BY <2>4, <3>1, <3>2, <3>3 DEF Covers
  <2>6. \A u \in Threads : \/ at'[u] \notin {"write_tmp", "shift", "install", "rotate"}
                           \/ at'[u] = "write_tmp" /\ lock' = u
    <3>1. \A u \in Threads : at[u] \notin {"write_tmp", "shift", "install", "rotate"}
      BY <2>3, ConstantsAssumption DEF IInv, SnapshotLocked
    <3>2. \A u \in Threads \ {t} : at'[u] = at[u]
      BY <1>0, <1>7 DEF CommitDone, TypeOK
    <3>3. (at'[t] = "write_tmp" /\ lock' = t) \/ at'[t] = "ack"
      BY <1>0, <1>7 DEF CommitDone, TypeOK
    <3> QED
      BY <3>1, <3>2, <3>3
  <2> QED
    <3>11. GoodMemories'
      BY <1>0, <2>3, <2>4, <2>5, <2>6 DEF GoodMemories
    <3>12. IdleUnlessUp'
      BY <1>0, <2>3, <2>4, <2>5, <2>6 DEF IdleUnlessUp
    <3>13. MemoryCovers'
      BY <1>0, <2>3, <2>4, <2>5, <2>6 DEF MemoryCovers
    <3>14. SnapshotLocked'
      BY <1>0, <2>3, <2>4, <2>5, <2>6 DEF SnapshotLocked
    <3> QED
      BY <1>0, <3>11, <3>12, <3>13, <3>14 DEF IInv
<1>8. ASSUME NEW t \in Threads, WriteTmp(t) \/ ShiftCurrent(t) \/ InstallTmp(t) PROVE IInv'
  <2>1. mode = "up" /\ mode' = "up" /\ UNCHANGED <<wal, mem, lock>> /\ lock = t
    BY <1>8 DEF WriteTmp, ShiftCurrent, InstallTmp, SnapshotStep, IInv, SnapshotLocked
  <2>2. \A u \in Threads \ {t} : at'[u] \notin {"write_tmp", "shift", "install", "rotate"}
    BY <1>0, <1>8, <2>1, ZenonT(20) DEF WriteTmp, ShiftCurrent, InstallTmp, SnapshotStep, IInv, SnapshotLocked, TypeOK
  <2>3. Covers(mem, Len(wal))
    BY <2>1 DEF IInv, MemoryCovers
  <2>4. CASE WriteTmp(t)
    <3>1. at'[t] = "shift"
      BY <1>0, <2>4 DEF WriteTmp, SnapshotStep, TypeOK
    <3>2. \A f \in DOMAIN files' : GoodMem(files'[f])
      BY <1>0, <2>4 DEF WriteTmp
    <3>3. Covers(mem, Len(wal))'
      BY <2>1, <2>3, <2>4, WriteTmpLoads DEF Covers
    <3> QED
      <4>11. GoodMemories'
        BY <1>0, <2>1, <2>2, <2>4, <3>1, <3>2, <3>3, WriteTmpLoads DEF GoodMemories
      <4>12. IdleUnlessUp'
        BY <1>0, <2>1, <2>2, <2>4, <3>1, <3>2, <3>3, WriteTmpLoads DEF IdleUnlessUp
      <4>13. MemoryCovers'
        BY <1>0, <2>1, <2>2, <2>4, <3>1, <3>2, <3>3, WriteTmpLoads DEF MemoryCovers
      <4>14. SnapshotLocked'
        BY <1>0, <2>1, <2>2, <2>4, <3>1, <3>2, <3>3, WriteTmpLoads DEF SnapshotLocked
      <4> QED
        BY <1>0, <4>11, <4>12, <4>13, <4>14 DEF IInv
  <2>5. CASE ShiftCurrent(t)
    <3>1. at'[t] = "install" /\ at[t] = "shift"
      BY <1>0, <2>5 DEF ShiftCurrent, SnapshotStep, TypeOK
    <3>2. \A f \in DOMAIN files' : GoodMem(files'[f])
      BY <1>0, <2>5 DEF ShiftCurrent, Replace
    <3>3. Covers(mem, Len(wal))'
      BY <2>1, <2>3, <2>5, ShiftLoads DEF Covers
    <3>4. "tmp" \in DOMAIN files' /\ files'["tmp"].done = mem.done
      BY <2>5, <3>1 DEF ShiftCurrent, Replace, IInv, SnapshotLocked
    <3> QED
      <4>11. GoodMemories'
        BY <1>0, <2>1, <2>2, <3>1, <3>2, <3>3, <3>4 DEF GoodMemories
      <4>12. IdleUnlessUp'
        BY <1>0, <2>1, <2>2, <3>1, <3>2, <3>3, <3>4 DEF IdleUnlessUp
      <4>13. MemoryCovers'
        BY <1>0, <2>1, <2>2, <3>1, <3>2, <3>3, <3>4 DEF MemoryCovers
      <4>14. SnapshotLocked'
        BY <1>0, <2>1, <2>2, <3>1, <3>2, <3>3, <3>4, SMTT(20) DEF SnapshotLocked
      <4> QED
        BY <1>0, <4>11, <4>12, <4>13, <4>14 DEF IInv
  <2>6. CASE InstallTmp(t)
    <3>1. at'[t] = "rotate" /\ at[t] = "install"
      BY <1>0, <2>6 DEF InstallTmp, SnapshotStep, TypeOK
    <3>2. \A f \in DOMAIN files' : GoodMem(files'[f])
      BY <1>0, <2>6, <3>1 DEF InstallTmp, Replace, IInv, SnapshotLocked
    <3>3. Covers(mem, Len(wal))'
      BY <2>1, <2>3, <2>6, InstallLoads DEF Covers
    <3> QED
      <4>11. GoodMemories'
        BY <1>0, <2>1, <2>2, <2>6, <3>1, <3>2, <3>3, InstallLoads DEF GoodMemories
      <4>12. IdleUnlessUp'
        BY <1>0, <2>1, <2>2, <2>6, <3>1, <3>2, <3>3, InstallLoads DEF IdleUnlessUp
      <4>13. MemoryCovers'
        BY <1>0, <2>1, <2>2, <2>6, <3>1, <3>2, <3>3, InstallLoads DEF MemoryCovers
      <4>14. SnapshotLocked'
        BY <1>0, <2>1, <2>2, <2>6, <3>1, <3>2, <3>3, InstallLoads, SMTT(20) DEF SnapshotLocked
      <4> QED
        BY <1>0, <4>11, <4>12, <4>13, <4>14 DEF IInv
  <2> QED
    BY <1>8, <2>4, <2>5, <2>6
<1>9. ASSUME NEW t \in Threads, Rotate(t) PROVE IInv'
  <2>1. mode = "up" /\ mode' = "up" /\ UNCHANGED <<files, mem>> /\ lock = t /\ wal' = <<>>
        /\ at[t] = "rotate"
    BY <1>9 DEF Rotate, SnapshotStep, IInv, SnapshotLocked
  <2>2. \A u \in Threads : at'[u] \notin {"write_tmp", "shift", "install", "rotate"}
    BY <1>0, <1>9, <2>1 DEF Rotate, SnapshotStep, IInv, SnapshotLocked, TypeOK
  <2>3. Covers(mem, Len(wal))'
    <3>1. Covers(mem, Len(wal))
      BY <2>1 DEF IInv, MemoryCovers
    <3>2. \A x \in Messages : IsDone(Loaded(files), x) => IsDone(mem, x)
      BY <3>1 DEF Covers
    <3>3. DOMAIN wal' = {} /\ files' = files /\ mem' = mem
      BY <2>1
    <3> QED
      BY <3>2, <3>3 DEF Covers
  <2> QED
    <3>11. GoodMemories'
      BY <1>0, <2>1, <2>2, <2>3 DEF GoodMemories
    <3>12. IdleUnlessUp'
      BY <1>0, <2>1, <2>2, <2>3 DEF IdleUnlessUp
    <3>13. MemoryCovers'
      BY <1>0, <2>1, <2>2, <2>3 DEF MemoryCovers
    <3>14. SnapshotLocked'
      BY <1>0, <2>1, <2>2, <2>3 DEF SnapshotLocked
    <3> QED
      BY <1>0, <3>11, <3>12, <3>13, <3>14 DEF IInv
<1>10. CASE Crash
  <2>1. mode' = "down" /\ files' = files /\ mem' = FreshMem /\ \A t \in Threads : at'[t] = "idle"
    BY <1>10 DEF Crash, disk
  <2> QED
    <3>11. GoodMemories'
      BY <1>0, <2>1, FreshGood DEF GoodMemories
    <3>12. IdleUnlessUp'
      BY <1>0, <2>1, FreshGood DEF IdleUnlessUp
    <3>13. MemoryCovers'
      BY <1>0, <2>1, FreshGood DEF MemoryCovers
    <3>14. SnapshotLocked'
      BY <1>0, <2>1, FreshGood DEF SnapshotLocked
    <3> QED
      BY <1>0, <3>11, <3>12, <3>13, <3>14 DEF IInv
<1>11. CASE Restart
  <2>1. mode' = "replay" /\ pos' = 1 /\ mem' = Loaded(files)
        /\ UNCHANGED <<wal, files, at>> /\ \A t \in Threads : at[t] = "idle"
    BY <1>11 DEF Restart, disk, loop, IInv, IdleUnlessUp
  <2>2. GoodMem(mem')
    BY <1>0, <2>1, LoadedGood
  <2>3. wal \in Seq(Records) /\ Len(wal) \in Nat /\ DOMAIN wal = 1 .. Len(wal)
    BY <1>0, LenProperties DEF TypeOK
  <2>4. Covers(mem, pos - 1)' /\ pos' \in 1 .. Len(wal') + 1
    BY <2>1, <2>3 DEF Covers
  <2> QED
    <3>11. GoodMemories'
      BY <1>0, <2>1, <2>2, <2>4 DEF GoodMemories
    <3>12. IdleUnlessUp'
      BY <1>0, <2>1, <2>2, <2>4 DEF IdleUnlessUp
    <3>13. MemoryCovers'
      BY <1>0, <2>1, <2>2, <2>4 DEF MemoryCovers
    <3>14. SnapshotLocked'
      BY <1>0, <2>1, <2>2, <2>4 DEF SnapshotLocked
    <3> QED
      BY <1>0, <3>11, <3>12, <3>13, <3>14 DEF IInv
<1>12. CASE Replay
  <2>1. mode = "replay" /\ mode' = "replay" /\ pos' = pos + 1 /\ mem' = ApplyRecord(mem, wal[pos])
        /\ UNCHANGED <<wal, files, at>> /\ pos <= Len(wal)
        /\ \A t \in Threads : at[t] = "idle"
    BY <1>12 DEF Replay, disk, loop, IInv, IdleUnlessUp
  <2>2. wal \in Seq(Records) /\ Len(wal) \in Nat /\ DOMAIN wal = 1 .. Len(wal)
        /\ pos \in DOMAIN wal /\ wal[pos] \in Records
    <3>1. wal \in Seq(Records)
      BY <1>0 DEF TypeOK
    <3>2. Len(wal) \in Nat /\ DOMAIN wal = 1 .. Len(wal)
      BY <3>1, LenProperties
    <3>3. pos \in 1 .. Len(wal) + 1
      BY <2>1 DEF IInv, MemoryCovers
    <3>4. pos \in 1 .. Len(wal)
      BY <2>1, <3>2, <3>3
    <3> QED
      BY <3>1, <3>2, <3>4, ElementOfSeq, SMTT(20)
  <2>3. /\ GoodMem(mem')
        /\ \A x \in Messages : IsDone(mem, x) => IsDone(mem', x)
        /\ wal[pos].type = "INPUT_DONE" => IsDone(mem', wal[pos].input)
    BY <1>0, <2>1, <2>2, ApplyRecordGood
  <2>4. Covers(mem, pos - 1)'
    <3> SUFFICES ASSUME NEW x \in Messages,
                        \/ IsDone(Loaded(files), x)
                        \/ \E i \in DOMAIN wal : i <= pos /\ wal[i] = Done(x)
                 PROVE  IsDone(mem', x)
      BY <2>1, <2>2 DEF Covers
    <3>1. Covers(mem, pos - 1)
      BY <2>1 DEF IInv, MemoryCovers
    <3>2. \A i \in DOMAIN wal : i <= pos => i <= pos - 1 \/ i = pos
      BY <2>2
    <3>3. wal[pos] = Done(x) => IsDone(mem', x)
      BY <2>3 DEF Done
    <3> QED
      BY <2>3, <3>1, <3>2, <3>3 DEF Covers
  <2> QED
    <3>11. GoodMemories'
      BY <1>0, <2>1, <2>2, <2>3, <2>4 DEF GoodMemories
    <3>12. IdleUnlessUp'
      BY <1>0, <2>1, <2>2, <2>3, <2>4 DEF IdleUnlessUp
    <3>13. MemoryCovers'
      BY <1>0, <2>1, <2>2, <2>3, <2>4 DEF MemoryCovers
    <3>14. SnapshotLocked'
      BY <1>0, <2>1, <2>2, <2>3, <2>4 DEF SnapshotLocked
    <3> QED
      BY <1>0, <3>11, <3>12, <3>13, <3>14 DEF IInv
<1>13. CASE ReplayEnds
  <2>1. mode = "replay" /\ mode' = "republish" /\ UNCHANGED <<wal, files, mem, at>>
        /\ pos > Len(wal) /\ \A t \in Threads : at[t] = "idle"
    BY <1>13 DEF ReplayEnds, disk, loop, IInv, IdleUnlessUp
  <2>2. wal \in Seq(Records) /\ Len(wal) \in Nat /\ DOMAIN wal = 1 .. Len(wal)
    BY <1>0, LenProperties DEF TypeOK
  <2>3. Covers(mem, Len(wal))'
    <3>1. Covers(mem, pos - 1) /\ pos \in Nat /\ pos - 1 = Len(wal)
      BY <2>1, <2>2 DEF IInv, MemoryCovers
    <3> QED
      BY <2>1, <3>1 DEF Covers
  <2> QED
    <3>11. GoodMemories'
      BY <1>0, <2>1, <2>3 DEF GoodMemories
    <3>12. IdleUnlessUp'
      BY <1>0, <2>1, <2>3 DEF IdleUnlessUp
    <3>13. MemoryCovers'
      BY <1>0, <2>1, <2>3 DEF MemoryCovers
    <3>14. SnapshotLocked'
      BY <1>0, <2>1, <2>3 DEF SnapshotLocked
    <3> QED
      BY <1>0, <3>11, <3>12, <3>13, <3>14 DEF IInv
<1>14. CASE Republish
    BY <1>0, <1>14, FrameIInv DEF Republish, RepublishEntry, disk, loop
<1>15. CASE RecoveryEnds
  <2>1. mode = "republish" /\ mode' = "up" /\ UNCHANGED <<wal, files, mem, at>>
        /\ \A t \in Threads : at[t] = "idle"
    BY <1>15 DEF RecoveryEnds, disk, loop, IInv, IdleUnlessUp
  <2>2. Covers(mem, Len(wal))'
    BY <2>1 DEF IInv, MemoryCovers, Covers
  <2> QED
    <3>11. GoodMemories'
      BY <1>0, <2>1, <2>2 DEF GoodMemories
    <3>12. IdleUnlessUp'
      BY <1>0, <2>1, <2>2 DEF IdleUnlessUp
    <3>13. MemoryCovers'
      BY <1>0, <2>1, <2>2 DEF MemoryCovers
    <3>14. SnapshotLocked'
      BY <1>0, <2>1, <2>2 DEF SnapshotLocked
    <3> QED
      BY <1>0, <3>11, <3>12, <3>13, <3>14 DEF IInv
<1> QED
    BY <1>1, <1>2, <1>3, <1>4, <1>5, <1>6, <1>7, <1>8, <1>9, <1>10, <1>11, <1>12, <1>13,
       <1>14, <1>15 DEF Next, Handle, Snapshot, Recovery

(* No step loses a finished input: an append keeps the records before it,  *)
(* the first rename keeps what load() returns, and by the time the second  *)
(* rename and the rotation replace snapshot and WAL, the memory that was   *)
(* saved covers both.                                                      *)
LEMMA DoneSurvives ==
    ASSUME IInv, [Next]_vars, NEW m \in Messages, DiskDone(m)
    PROVE  DiskDone(m)'
<1>1. CASE wal' = wal /\ Loaded(files') = Loaded(files)
    BY <1>1 DEF DiskDone
<1>2. ASSUME NEW r \in Records, wal' = Append(wal, r), files' = files PROVE DiskDone(m)'
    BY <1>2, AppendCovers DEF DiskDone
<1>3. ASSUME NEW t \in Threads, HandleNew(t) PROVE DiskDone(m)'
  <2>1. TypeOK /\ GoodMem(mem) /\ Head(queue[t]) \in Messages
    BY <1>3, DeliverType DEF HandleNew, IInv, GoodMemories
  <2>2. Applied(Head(queue[t]), Stamp(mem, Head(queue[t]))) \in Records
    BY <2>1, StampType DEF Applied, Records, GoodMem
  <2> QED
    BY <1>2, <1>3, <2>2, SMTT(20) DEF HandleNew
<1>4. ASSUME NEW t \in Threads, CommitDone(t) PROVE DiskDone(m)'
  <2>1. held[t] \in Seq(Messages) /\ Len(held[t]) = 1
    BY <1>4 DEF IInv, TypeOK, CommitDone
  <2>2. Head(held[t]) \in Messages
    BY <2>1, EmptySeq, HeadTailProperties
  <2>3. Done(Head(held[t])) \in Records
    BY <2>2, DoneIsRecord
  <2> QED
    BY <1>2, <1>4, <2>3 DEF CommitDone
<1>5. ASSUME NEW t \in Threads, InstallTmp(t) PROVE DiskDone(m)'
  <2>1. Covers(mem, Len(wal)) /\ wal \in Seq(Records)
    BY <1>5 DEF IInv, MemoryCovers, TypeOK, InstallTmp, SnapshotStep
  <2>2. \A i \in DOMAIN wal : i <= Len(wal)
    BY <2>1, IndexBound
  <2>3. IsDone(mem, m)
    BY <2>1, <2>2 DEF Covers, DiskDone
  <2> QED
    BY <1>5, <2>3, InstallLoads, SMTT(20) DEF DiskDone
<1>6. ASSUME NEW t \in Threads, Rotate(t) PROVE DiskDone(m)'
  <2>1. Covers(mem, Len(wal)) /\ wal \in Seq(Records) /\ files' = files
        /\ "current" \in DOMAIN files /\ files["current"].done = mem.done
    BY <1>6, SMTT(20) DEF IInv, MemoryCovers, SnapshotLocked, TypeOK, Rotate, SnapshotStep
  <2>2. \A i \in DOMAIN wal : i <= Len(wal)
    BY <2>1, IndexBound
  <2>3. IsDone(mem, m)
    BY <2>1, <2>2 DEF Covers, DiskDone
  <2>4. Loaded(files) = files["current"]
    BY <2>1 DEF Loaded
  <2> QED
    BY <2>1, <2>3, <2>4 DEF DiskDone, IsDone
<1>7. ASSUME NEW t \in Threads, WriteTmp(t) \/ ShiftCurrent(t) PROVE DiskDone(m)'
    BY <1>1, <1>7, WriteTmpLoads, ShiftLoads DEF WriteTmp, ShiftCurrent
<1>8. ASSUME UNCHANGED disk PROVE DiskDone(m)'
    BY <1>1, <1>8 DEF disk
<1>9. \A t \in Threads : (HandleDone(t) \/ HandleApplied(t) \/ Publish(t) \/ PublishFails(t) \/ Ack(t))
        => UNCHANGED disk
    BY ZenonT(20) DEF HandleDone, HandleApplied, Publish, PublishFails, Ack
<1>10. Crash \/ Recovery \/ (\E x \in Messages : Produce(x) \/ ProduceAgain(x)) \/ UNCHANGED vars
        => UNCHANGED disk
    BY ZenonT(20) DEF Crash, Recovery, Restart, Replay, ReplayEnds, Republish, RepublishEntry, RecoveryEnds,
           Produce, ProduceAgain, vars, disk
<1> QED
    BY <1>3, <1>4, <1>5, <1>6, <1>7, <1>8, <1>9, <1>10 DEF Next, Handle, Snapshot

-----------------------------------------------------------------------------
(* Steps that leave every line as it is. *)
LEMMA SameLines ==
    ASSUME InOrder, produced \subseteq Messages, produced' = produced, Finished \subseteq Finished',
           \A t \in Threads : Line(t)' = Line(t)
    PROVE  InOrder'
<1>1. \A t \in Threads : Ordered(Line(t), Finished)'
    BY DEF InOrder, Ordered
<1>2. \A m \in produced : Range(Line(m.kind)') = Range(Line(m.kind))
    BY MessageFacts
<1> QED
    BY <1>1, <1>2 DEF InOrder

(* Upstream numbers its messages in order, a queue keeps the order, and a  *)
(* message leaves its line when it is durably done.                        *)
LEMMA NextInOrder == IInv /\ InOrder /\ OnItsWay /\ [Next]_vars => InOrder'
<1> SUFFICES ASSUME IInv, InOrder, OnItsWay, [Next]_vars PROVE InOrder'
    OBVIOUS
<1>0. /\ IInv /\ TypeOK /\ InOrder /\ OnItsWay /\ produced \subseteq Messages
      /\ queue \in [Threads -> Seq(Messages)] /\ held \in [Threads -> Seq(Messages)]
      /\ \A t \in Threads : Len(held[t]) = IF at[t] = "idle" THEN 0 ELSE 1
    BY DEF IInv, TypeOK
<1>1. Finished \subseteq Finished'
    BY <1>0, DoneSurvives DEF Finished
<1>2. ASSUME produced' = produced, \A t \in Threads : Line(t)' = Line(t) PROVE InOrder'
    BY <1>0, <1>1, <1>2, SameLines
<1>3. ASSUME NEW m \in Messages, Produce(m) \/ ProduceAgain(m) PROVE InOrder'
  <2> DEFINE k == m.kind
  <2>1. /\ held' = held /\ queue' = [queue EXCEPT ![k] = Append(@, m)]
        /\ produced' = produced \cup {m}
    BY <1>3 DEF Produce, ProduceAgain, loop
  <2>2. k \in Threads /\ m.seq \in Nat
    BY MessageFacts
  <2>3. Line(k)' = Append(Line(k), m) /\ Line(k) \in Seq(Messages)
    BY <1>0, <2>1, <2>2, LineSteps, SMTT(20) DEF Line
  <2>4. \A t \in Threads \ {k} : Line(t)' = Line(t)
    BY <1>0, <2>1 DEF Line
  <2>5. \A x \in Messages : Precedes(x, m) => x \in produced
    <3>1. CASE m \in produced
      BY <1>0, <3>1 DEF InOrder
    <3>2. CASE Produce(m)
      <4> SUFFICES ASSUME NEW x \in Messages, Precedes(x, m) PROVE x \in produced
        OBVIOUS
      <4>1. x.seq \in 0 .. m.seq - 1
        BY <2>2, MessageFacts DEF Precedes
      <4>2. x = [m EXCEPT !.seq = x.seq]
        BY DEF Precedes, Bucket, Messages
      <4> QED
        BY <3>2, <4>1, <4>2 DEF Produce
    <3> QED
      BY <1>3, <3>1, <3>2 DEF ProduceAgain
  <2>6. \A x \in Messages : Precedes(x, m) => x \in Finished \cup Range(Line(k))
    BY <1>0, <2>5 DEF InOrder, Precedes, Bucket
  <2>7. /\ Ordered(Append(Line(k), m), Finished)
        /\ Range(Append(Line(k), m)) = Range(Line(k)) \cup {m}
    BY <1>0, <2>2, <2>3, <2>6, OrderedAppend DEF InOrder
  <2>8. \A t \in Threads : Ordered(Line(t)', Finished) /\ Range(Line(t)) \subseteq Range(Line(t)')
    BY <1>0, <2>3, <2>4, <2>7 DEF InOrder
  <2>9. \A t \in Threads : Ordered(Line(t), Finished)'
    BY <1>1, <2>8 DEF Ordered
  <2>10. \A x \in produced' : x \in (Finished \cup Range(Line(x.kind)))'
    BY <1>0, <1>1, <2>1, <2>2, <2>3, <2>7, <2>8, MessageFacts DEF InOrder
  <2> QED
    BY <1>0, <2>1, <2>5, <2>9, <2>10 DEF InOrder
<1>4. ASSUME NEW t \in Threads, Ack(t) PROVE InOrder'
  <2>1. /\ at[t] = "ack" /\ queue' = queue /\ held' = [held EXCEPT ![t] = <<>>]
        /\ produced' = produced
    BY <1>4 DEF Ack
  <2>2. Len(held[t]) = 1 /\ Head(held[t]) \in Messages /\ Head(held[t]) \in Finished
    <3>1. Len(held[t]) = 1 /\ DiskDone(Head(held[t]))
      BY <1>0, <2>1 DEF OnItsWay
    <3>2. held[t] \in Seq(Messages)
      BY <1>0
    <3>3. Head(held[t]) \in Messages
      BY <3>1, <3>2
    <3> QED
      BY <3>1, <3>3 DEF Finished
  <2>3. /\ Line(t) \in Seq(Messages) /\ Line(t) # <<>>
        /\ Head(Line(t)) = Head(held[t]) /\ Tail(Line(t)) = Line(t)'
    BY <1>0, <2>1, <2>2, LineSteps, SMTT(20) DEF Line
  <2>4. Ordered(Line(t)', Finished) /\ Range(Line(t)) \subseteq Range(Line(t)') \cup Finished
    BY <1>0, <2>2, <2>3, OrderedTail DEF InOrder
  <2>5. \A u \in Threads \ {t} : Line(u)' = Line(u)
    BY <1>0, <2>1 DEF Line
  <2>6. \A u \in Threads : Ordered(Line(u), Finished)'
    BY <1>0, <1>1, <2>4, <2>5, SMTT(20) DEF InOrder, Ordered
  <2>7. \A x \in produced' : x \in (Finished \cup Range(Line(x.kind)))'
    BY <1>0, <1>1, <2>1, <2>4, <2>5, MessageFacts DEF InOrder
  <2> QED
    BY <1>0, <2>1, <2>6, <2>7 DEF InOrder
<1>5. ASSUME NEW t \in Threads, Deliver(t), produced' = produced PROVE InOrder'
  <2>1. /\ held[t] = <<>> /\ queue[t] # <<>> /\ queue[t] \in Seq(Messages)
        /\ held' = [held EXCEPT ![t] = <<Head(queue[t])>>]
        /\ queue' = [queue EXCEPT ![t] = Tail(@)]
    BY <1>0, <1>5, EmptySeq DEF Deliver
  <2>2. Head(queue[t]) \in Messages
    BY <2>1, HeadTailProperties
  <2>3. Line(t)' = Line(t)
    BY <1>0, <2>1, <2>2, LineSteps DEF Line
  <2>4. \A u \in Threads \ {t} : Line(u)' = Line(u)
    BY <1>0, <2>1 DEF Line
  <2> QED
    BY <1>2, <1>5, <2>3, <2>4
<1>6. ASSUME NEW t \in Threads, PublishFails(t) PROVE InOrder'
  <2>1. /\ queue' = [queue EXCEPT ![t] = held[t] \o @] /\ held' = [held EXCEPT ![t] = <<>>]
        /\ produced' = produced
    BY <1>6 DEF PublishFails
  <2>2. held[t] \o queue[t] \in Seq(Messages) /\ <<>> \o (held[t] \o queue[t]) = held[t] \o queue[t]
    BY <1>0, ConcatProperties, ConcatEmptySeq
  <2> QED
    BY <1>0, <1>2, <2>1, <2>2 DEF Line
<1>7. CASE Crash
  <2>1. /\ queue' = [u \in Threads |-> held[u] \o queue[u]]
        /\ held' = [u \in Threads |-> <<>>] /\ produced' = produced
    BY <1>7 DEF Crash
  <2>2. \A u \in Threads : /\ held[u] \o queue[u] \in Seq(Messages)
                           /\ <<>> \o (held[u] \o queue[u]) = held[u] \o queue[u]
    BY <1>0, ConcatProperties, ConcatEmptySeq
  <2> QED
    BY <1>2, <2>1, <2>2 DEF Line
<1>8. ASSUME UNCHANGED <<produced, queue, held>> PROVE InOrder'
    BY <1>2, <1>8 DEF Line
<1>9. \A t \in Threads : Handle(t) => Deliver(t) /\ produced' = produced
    BY DEF Handle, HandleDone, HandleNew, HandleApplied
<1>10. \A t \in Threads : Publish(t) \/ CommitDone(t) \/ Snapshot(t)
                          => UNCHANGED <<produced, queue, held>>
    BY DEF Publish, CommitDone, Snapshot, WriteTmp, ShiftCurrent, InstallTmp, Rotate, SnapshotStep, broker
<1>11. Recovery \/ UNCHANGED vars => UNCHANGED <<produced, queue, held>>
    BY DEF Recovery, Restart, Replay, ReplayEnds, Republish, RepublishEntry, RecoveryEnds,
           broker, loop, vars
<1> QED
    BY <1>3, <1>4, <1>5, <1>6, <1>7, <1>8, <1>9, <1>10, <1>11 DEF Next

-----------------------------------------------------------------------------
(* The inductive invariant holds in every reachable state. *)
THEOREM InductiveInvariant == Spec => []IInv
BY InitIInv, NextIInv, PTL DEF Spec

(* Type correctness of handler, disk, broker and consume loops. *)
THEOREM TypeCorrect == Spec => []TypeOK
<1>1. IInv => TypeOK
    BY DEF IInv
<1> QED
    BY InductiveInvariant, <1>1, PTL

(* "No message is applied twice", for any number of crashes, redeliveries, *)
(* snapshots and threads, and for any order of delivery.                   *)
THEOREM NothingAppliedTwice == Spec => []AppliedOnce
<1>1. IInv => AppliedOnce
    BY DEF IInv, GoodMemories, GoodMem, AppliedOnce
<1> QED
    BY InductiveInvariant, <1>1, PTL

(* A finished input stays finished on disk through every snapshot, rename, *)
(* rotation, crash and replay.                                             *)
THEOREM DoneStaysDone == Spec => DoneIsForever
<1>1. IInv /\ [Next]_vars => [\A m \in Messages : DiskDone(m) => DiskDone(m)']_vars
    BY DoneSurvives
<1> QED
    BY InductiveInvariant, <1>1, PTL DEF Spec, DoneIsForever

-----------------------------------------------------------------------------
(* The outbox of every memory, live or in a file, is that of its inbox. *)
Paired(mm) == DOMAIN mm.outbox = mm.applied
AllPaired == Paired(mem) /\ \A f \in DOMAIN files : Paired(files[f])

(* mark_applied comes with outbox.add, mark_done with remove_input. *)
LEMMA RecordPaired ==
    ASSUME NEW mm, Paired(mm)
    PROVE  /\ \A m, outs : Paired(ApplyInput(mm, m, outs))
           /\ \A m : Paired(MarkDone(mm, m))
           /\ \A r : Paired(ApplyRecord(mm, r))
<1>1. \A m, outs : Paired(ApplyInput(mm, m, outs))
    BY DEF Paired, ApplyInput
<1>2. \A m : Paired(MarkDone(mm, m))
    BY DEF Paired, MarkDone
<1>3. \A r : Paired(ApplyRecord(mm, r))
    BY <1>1, <1>2, Zenon DEF ApplyRecord
<1> QED
    BY <1>1, <1>2, <1>3

(* Snapshots are copies of such a memory, so a load returns one. *)
LEMMA NextPaired == IInv /\ AllPaired /\ [Next]_vars => AllPaired'
<1> SUFFICES ASSUME IInv, AllPaired, [Next]_vars PROVE AllPaired'
    OBVIOUS
<1>1. Paired(FreshMem)
    BY DEF Paired, FreshMem
<1>2. ASSUME UNCHANGED <<mem, files>> PROVE AllPaired'
    BY <1>2 DEF AllPaired, Paired
<1>3. ASSUME files' = files, Paired(mem') PROVE AllPaired'
    BY <1>3 DEF AllPaired
<1>4. ASSUME NEW t \in Threads, HandleNew(t) \/ CommitDone(t) PROVE AllPaired'
    BY <1>3, <1>4, RecordPaired, SMTT(20) DEF HandleNew, CommitDone, AllPaired
<1>5. ASSUME NEW t \in Threads, Snapshot(t) PROVE AllPaired'
  <2>1. mem' = mem
    BY <1>5 DEF Snapshot, WriteTmp, ShiftCurrent, InstallTmp, Rotate
  <2>2. CASE WriteTmp(t)
    BY <2>1, <2>2 DEF WriteTmp, AllPaired
  <2>3. CASE ShiftCurrent(t)
    BY <2>1, <2>3 DEF ShiftCurrent, Replace, AllPaired
  <2>4. CASE InstallTmp(t)
    <3>1. "tmp" \in DOMAIN files
      BY <2>4 DEF InstallTmp, SnapshotStep, IInv, SnapshotLocked
    <3> QED
      BY <2>1, <2>4, <3>1 DEF InstallTmp, Replace, AllPaired
  <2>5. CASE Rotate(t)
    BY <1>2, <2>5 DEF Rotate
  <2> QED
    BY <1>5, <2>2, <2>3, <2>4, <2>5 DEF Snapshot
<1>6. CASE Crash
    BY <1>1, <1>3, <1>6 DEF Crash, disk
<1>7. CASE Restart
    BY <1>1, <1>3, <1>7 DEF Restart, disk, Loaded, AllPaired
<1>8. CASE Replay
    BY <1>3, <1>8, RecordPaired DEF Replay, disk, AllPaired
<1>9. ReplayEnds \/ Republish \/ RecoveryEnds \/ UNCHANGED vars
      \/ (\E m \in Messages : Produce(m) \/ ProduceAgain(m)) => UNCHANGED <<mem, files>>
    BY DEF ReplayEnds, Republish, RepublishEntry, RecoveryEnds, Produce, ProduceAgain, disk, vars
<1>10. \A t \in Threads : HandleDone(t) \/ HandleApplied(t) \/ Publish(t) \/ PublishFails(t) \/ Ack(t)
        => UNCHANGED <<mem, files>>
    BY ZenonT(20) DEF HandleDone, HandleApplied, Publish, PublishFails, Ack, disk
<1> QED
    BY <1>2, <1>4, <1>5, <1>6, <1>7, <1>8, <1>9, <1>10 DEF Next, Handle, Recovery

(* An output waits in the outbox exactly while its input is APPLIED, in    *)
(* every memory a recovery passes through, from every snapshot it may load.*)
THEOREM OutboxFollowsInbox == Spec => []OutboxMatchesInbox
<1>1. Init => AllPaired
    BY SMTT(20) DEF Init, AllPaired, Paired, FreshMem
<1>2. AllPaired => OutboxMatchesInbox
    BY DEF AllPaired, Paired, OutboxMatchesInbox
<1> QED
    BY InductiveInvariant, NextPaired, <1>1, <1>2, PTL DEF Spec

=============================================================================
