-------------------------- MODULE ExactlyOnceProofs --------------------------
(***************************************************************************)
(* The durable worker implements ExactlyOnce, for any threads, senders,    *)
(* fan-out, snapshot interval and gap cap, and any number of crashes,      *)
(* duplicates and failed publishes.                                        *)
(*                                                                         *)
(* A restart rebuilds the live memory (CrashLosesNothing), so that what is *)
(* durable can be read off one memory; and because no message overtakes an *)
(* earlier one of its sender, the trackers of that memory have no gaps and *)
(* call DONE only what was committed.                                      *)
(***************************************************************************)
EXTENDS OutputProofs, WellFoundedInduction

(* A set of naturals that is not empty has a least element: induction for  *)
(* the recursion of a replay.                                              *)
LEMMA LeastNat ==
    ASSUME NEW T \in SUBSET Nat, T # {}
    PROVE  \E x \in T : \A y \in T : x <= y
<1>1. PICK x \in T : \A y \in T : <<y, x>> \notin OpToRel(<, Nat)
    BY NatLessThanWellFounded, WFMin, ZenonT(20)
<1>2. \A y \in T : ~(y < x)
    BY <1>1, ZenonT(20) DEF OpToRel
<1> QED
    BY <1>2

(* The memories of a replay of the log w over the files fs. *)
Replays(h, w, fs) ==
    /\ h[0] = Loaded(fs)
    /\ \A i \in 1 .. Len(w) : h[i] = ApplyRecord(h[i - 1], w[i])

(* Two replays of one log over the same files agree. *)
LEMMA ReplayUnique ==
    ASSUME NEW w \in Seq(Records), NEW fs, NEW g, NEW h, Replays(g, w, fs), Replays(h, w, fs)
    PROVE  g[Len(w)] = h[Len(w)]
<1>1. Len(w) \in Nat
    BY LenProperties
<1> DEFINE Wrong == {i \in 0 .. Len(w) : g[i] # h[i]}
<1>2. CASE Wrong # {}
  <2>1. PICK i \in Wrong : \A j \in Wrong : i <= j
    <3>1. Wrong \in SUBSET Nat
      BY <1>1
    <3> HIDE DEF Wrong
    <3> QED
      BY <1>2, <3>1, LeastNat
  <2>2. i # 0
    BY <2>1 DEF Replays
  <2>3. i \in 1 .. Len(w) /\ i - 1 \in 0 .. Len(w) /\ i - 1 \notin Wrong
    BY <1>1, <2>1, <2>2
  <2> QED
    BY <2>1, <2>3 DEF Replays
<1> QED
    BY <1>1, <1>2

(* Recovery ends with the last memory of a replay. *)
LEMMA RebuiltIs ==
    ASSUME NEW w \in Seq(Records), NEW fs, NEW h, Replays(h, w, fs)
    PROVE  Rebuilt(w, fs) = h[Len(w)]
<1>1. Len(w) \in Nat
    BY LenProperties
<1> DEFINE Def(f) == [n \in 0 .. Len(w) |->
                        IF n = 0 THEN Loaded(fs) ELSE ApplyRecord(f[n - 1], w[n])]
           after == CHOOSE f : f = Def(f)
           k == [n \in 0 .. Len(w) |-> h[n]]
<1>2. k = Def(k)
  <2>1. \A n \in 0 .. Len(w) : k[n] = h[n]
    OBVIOUS
  <2>2. ASSUME NEW n \in 0 .. Len(w)
        PROVE  k[n] = IF n = 0 THEN Loaded(fs) ELSE ApplyRecord(k[n - 1], w[n])
    <3>1. n # 0 => n \in 1 .. Len(w) /\ n - 1 \in 0 .. Len(w)
      BY <1>1
    <3> HIDE DEF k
    <3> QED
      BY <2>1, <3>1 DEF Replays
  <2> QED
    BY <2>2, ZenonT(20)
<1>3. after = Def(after)
  <2> HIDE DEF k
  <2>1. \E f : f = Def(f)
    BY <1>2, ZenonT(20)
  <2> QED
    BY <2>1, ZenonT(20)
<1>4. Rebuilt(w, fs) = after[Len(w)]
    BY ZenonT(20) DEF Rebuilt
<1> HIDE DEF after
<1>5. \A n \in 0 .. Len(w) :
         after[n] = IF n = 0 THEN Loaded(fs) ELSE ApplyRecord(after[n - 1], w[n])
    BY <1>3, ZenonT(20)
<1>6. Replays(after, w, fs)
    BY <1>1, <1>5 DEF Replays
<1> QED
    BY <1>4, <1>6, ReplayUnique

(* The memory that the invariant of the outputs speaks of is the one that  *)
(* a recovery rebuilds.                                                    *)
LEMMA RecoveredIsConsistent ==
    OInv => CrashLosesNothing /\ Consistent(Recovered)
<1> SUFFICES ASSUME OInv PROVE CrashLosesNothing /\ Consistent(Recovered)
    OBVIOUS
<1>1. PICK h, last : /\ last = h[Len(wal)] /\ IsReplay(h)
                     /\ Recovers(h, last) /\ Consistent(last)
    BY DEF OInv, Recoverable
<1>2. wal \in Seq(Records) /\ Replays(h, wal, files)
    BY <1>1 DEF OInv, IInv, TypeOK, IsReplay, Replays
<1>3. Recovered = last
    BY <1>1, <1>2, RebuiltIs DEF Recovered
<1> QED
    BY <1>1, <1>3 DEF CrashLosesNothing, Recovers

(* A crash at any moment of a running worker, also between the renames and *)
(* the rotation of a snapshot, rebuilds its memory: state in its order,    *)
(* inbox, outbox and sequencer.                                            *)
THEOREM CrashRebuildsMemory == Spec => []CrashLosesNothing
BY InitOInv, NextOInv, RecoveredIsConsistent, PTL DEF Spec

(* The same in the state after a step. *)
LEMMA RecoveredIsConsistentNext == OInv' => CrashLosesNothing' /\ Consistent(Recovered)'
BY RecoveredIsConsistent, PTL

(* While the worker runs, the memory that a restart would rebuild is its   *)
(* own.                                                                    *)
LEMMA UpMemory ==
    ASSUME OInv, OInv', mode = "up", mode' = "up"
    PROVE  /\ Recovered = mem /\ Recovered' = mem'
           /\ Settled(Recovered) <=> Settled(mem)
           /\ Settled(Recovered)' <=> Settled(mem)'
<1>1. Recovered = mem /\ Recovered' = mem'
    BY RecoveredIsConsistent, RecoveredIsConsistentNext DEF CrashLosesNothing
<1>2. Settled(Recovered) <=> Settled(mem)
    BY <1>1
<1>3. PICK r : r = mem'
    OBVIOUS
<1>4. Settled(Recovered)' <=> Settled(r)'
    BY <1>1, <1>3 DEF Settled
<1>5. Settled(mem)' <=> Settled(r)'
    BY <1>3 DEF Settled
<1> QED
    BY <1>1, <1>2, <1>4, <1>5

(* Steps that leave the log and the loaded snapshot as they are. *)
LEMMA QuietSettled ==
    ASSUME OInv, Settled(Recovered), wal' = wal, Loaded(files') = Loaded(files),
           published \subseteq published'
    PROVE  Recovered' = Recovered /\ Durable' = Durable /\ Settled(Recovered)'
<1>1. Recovered' = Recovered
  <2>1. PICK h : IsReplay(h)
    BY DEF OInv, Recoverable
  <2>2. wal \in Seq(Records) /\ Replays(h, wal, files) /\ Replays(h, wal, files')
    BY <2>1 DEF OInv, IInv, TypeOK, IsReplay, Replays
  <2>3. Rebuilt(wal, files) = Rebuilt(wal, files')
    BY <2>2, RebuiltIs
  <2> QED
    BY <2>3 DEF Recovered
<1>2. Durable' = Durable
    BY DEF Durable
<1>3. \A m \in Messages : DiskDone(m)' <=> DiskDone(m)
    BY DEF DiskDone
<1>4. \A m \in Messages : Whole(m, published) => Whole(m, published')
    BY WholeGrows
<1> QED
    BY <1>1, <1>2, <1>3, <1>4 DEF Settled

XInv == OInv /\ NothingOvertakes

(* What the rebuilt memory says of files and broker stays true; only       *)
(* handle() of a NEW input makes something durable.                        *)
LEMMA NextSettled ==
    ASSUME XInv, [Next]_vars
    PROVE  Settled(Recovered)' /\ (Durable' = Durable \/ \E t \in Threads : HandleNew(t))
<1>0. OInv /\ OInv' /\ Settled(Recovered)
    BY NextOInv DEF XInv, NothingOvertakes
<1>1. ASSUME wal' = wal, Loaded(files') = Loaded(files), published \subseteq published'
      PROVE  Settled(Recovered)' /\ Durable' = Durable
    BY <1>0, <1>1, QuietSettled
<1>2. ASSUME NEW t \in Threads, HandleNew(t) PROVE Settled(Recovered)'
  <2>1. mode = "up" /\ mode' = "up"
    BY <1>2 DEF HandleNew, Deliver
  <2> QED
    BY <1>0, <1>2, <2>1, UpMemory, HandleNewSettled
<1>3. ASSUME NEW t \in Threads, CommitDone(t) PROVE Settled(Recovered)' /\ Durable' = Durable
  <2>1. mode = "up" /\ mode' = "up" /\ InOrder /\ OnItsWay
    BY <1>3 DEF CommitDone, XInv, NothingOvertakes
  <2> QED
    BY <1>0, <1>3, <2>1, UpMemory, CommitDoneSettled
<1>4. ASSUME NEW t \in Threads, Snapshot(t) PROVE Settled(Recovered)' /\ Durable' = Durable
  <2>1. CASE InstallTmp(t) \/ Rotate(t)
    <3>1. mode = "up" /\ mode' = "up"
      BY <2>1 DEF InstallTmp, Rotate, SnapshotStep
    <3> QED
      BY <1>0, <2>1, <3>1, UpMemory, SnapshotSettled
  <2>2. CASE WriteTmp(t) \/ ShiftCurrent(t)
    <3>1. wal' = wal /\ published' = published
      BY <2>2 DEF WriteTmp, ShiftCurrent, SnapshotStep
    <3> QED
      BY <1>1, <2>2, <3>1, WriteTmpLoads, ShiftLoads
  <2> QED
    BY <1>4, <2>1, <2>2 DEF Snapshot
<1>5. ASSUME NEW t \in Threads,
             HandleDone(t) \/ HandleApplied(t) \/ Publish(t) \/ PublishFails(t) \/ Ack(t)
      PROVE  wal' = wal /\ files' = files /\ published \subseteq published'
    BY <1>5, ZenonT(20) DEF HandleDone, HandleApplied, Publish, PublishFails, Ack, disk
<1>6. ASSUME Crash \/ Recovery \/ UNCHANGED vars \/ \E m \in Messages : Produce(m) \/ ProduceAgain(m)
      PROVE  wal' = wal /\ files' = files /\ published \subseteq published'
    BY <1>6, ZenonT(20) DEF Crash, Recovery, Restart, Replay, ReplayEnds, Republish,
           RepublishEntry, RecoveryEnds, Produce, ProduceAgain, disk, vars
<1> QED
    BY <1>1, <1>2, <1>3, <1>4, <1>5, <1>6 DEF Next, Handle

(* A message is committed when every output of it is out. *)
LEMMA NextOnItsWay == XInv /\ [Next]_vars => OnItsWay'
<1> SUFFICES ASSUME XInv, [Next]_vars PROVE OnItsWay'
    OBVIOUS
<1>0. /\ OInv /\ OInv' /\ IInv /\ TypeOK /\ OnItsWay /\ Settled(Recovered)
      /\ at \in [Threads -> Places] /\ todo \in [Threads -> Seq(Entries)]
      /\ held \in [Threads -> Seq(Messages)]
      /\ \A u \in Threads : Len(held[u]) = IF at[u] = "idle" THEN 0 ELSE 1
    BY NextOInv DEF XInv, OInv, IInv, NothingOvertakes, TypeOK
<1>1. \A u \in Threads : at[u] # "idle" => Head(held[u]) \in Messages
    BY <1>0
<1>2. mode = "up" => mem = Recovered
    BY <1>0, RecoveredIsConsistent DEF CrashLosesNothing
<1> DEFINE Good(u) == /\ at'[u] \notin {"idle", "publish"} => DiskDone(Head(held[u]))'
                      /\ at'[u] = "publish" => Whole(Head(held'[u]), published' \cup Range(todo'[u]))
<1>3. ASSUME NEW u \in Threads, published \subseteq published',
             at'[u] = at[u], held'[u] = held[u], todo'[u] = todo[u]
      PROVE  Good(u)
  <2>1. at[u] \notin {"idle", "publish"} => DiskDone(Head(held[u]))'
    <3>1. at[u] \notin {"idle", "publish"} => DiskDone(Head(held[u])) /\ Head(held[u]) \in Messages
      BY <1>0, <1>1 DEF OnItsWay
    <3>2. PICK m : m = Head(held[u])
      OBVIOUS
    <3>3. at[u] \notin {"idle", "publish"} => DiskDone(m)'
      BY <1>0, <3>1, <3>2, DoneSurvives
    <3> QED
      BY <1>3, <3>2, <3>3 DEF DiskDone
  <2>2. at[u] = "publish" => Whole(Head(held[u]), published' \cup Range(todo[u]))
    <3>1. at[u] = "publish" => Whole(Head(held[u]), published \cup Range(todo[u]))
      BY <1>0 DEF OnItsWay
    <3>2. published \cup Range(todo[u]) \subseteq published' \cup Range(todo[u])
      BY <1>3
    <3> QED
      BY <3>1, <3>2, WholeGrows, ZenonT(20)
  <2> QED
    BY <1>3, <2>1, <2>2
<1>4. ASSUME NEW t \in Threads, Good(t), published \subseteq published',
             \A u \in Threads \ {t} : at'[u] = at[u] /\ held'[u] = held[u] /\ todo'[u] = todo[u]
      PROVE  OnItsWay'
  <2>1. \A u \in Threads : Good(u)
    BY <1>3, <1>4
  <2> QED
    BY <2>1 DEF OnItsWay
<1>5. ASSUME NEW t \in Threads, Handle(t) PROVE OnItsWay'
  <2> DEFINE m == Head(queue[t])
  <2>1. Deliver(t) /\ published' = published /\ mode = "up"
    BY <1>5 DEF Handle, HandleDone, HandleNew, HandleApplied, Deliver
  <2>2. m \in Messages /\ held'[t] = <<m>> /\ \A u \in Threads \ {t} : held'[u] = held[u]
    BY <1>0, <2>1, DeliverType
  <2>3. Head(held'[t]) = m
    BY <2>2
  <2>4. \A u \in Threads \ {t} : at'[u] = at[u] /\ todo'[u] = todo[u]
    BY <1>0, <1>5 DEF Handle, HandleDone, HandleNew, HandleApplied
  <2>5. CASE HandleDone(t)
    <3>1. at'[t] = "ack" /\ Classify(mem, m) = "DONE"
      BY <1>0, <2>5 DEF HandleDone
    <3>2. PICK x \in Messages : x = m
      BY <2>2
    <3>3. DiskDone(x)
      BY <1>0, <1>2, <2>1, <3>1, <3>2 DEF Classify, Settled
    <3>4. DiskDone(x)'
      BY <1>0, <3>3, DoneSurvives
    <3>5. Good(t)
      BY <2>3, <3>1, <3>2, <3>4 DEF DiskDone
    <3> QED
      BY <1>4, <2>1, <2>2, <2>4, <3>5
  <2>6. CASE HandleNew(t)
    <3>1. at'[t] = "publish" /\ todo'[t] = EntriesFor(mem', m)
          /\ mem' = ApplyInput(mem, m, Stamp(mem, m))
      BY <1>0, <2>6 DEF HandleNew
    <3>2. EntriesFor(mem', m) = Stamp(mem, m)
      BY <3>1 DEF EntriesFor, ApplyInput
    <3>3. Whole(m, Range(todo'[t]))
      BY <2>2, <3>1, <3>2, StampWhole
    <3>4. Whole(m, published' \cup Range(todo'[t]))
      BY <3>3 DEF Whole
    <3>5. Good(t)
      BY <2>3, <3>1, <3>4
    <3> QED
      BY <1>4, <2>1, <2>2, <2>4, <3>5
  <2>7. CASE HandleApplied(t)
    <3>1. at'[t] = "publish" /\ todo'[t] = EntriesFor(mem, m) /\ m \in mem.applied
      BY <1>0, <2>7 DEF HandleApplied, Classify
    <3>2. Whole(m, Range(EntriesFor(mem, m)))
      BY <1>0, <1>2, <2>1, <3>1 DEF Settled, EntriesFor
    <3>3. Whole(m, published' \cup Range(todo'[t]))
      BY <3>1, <3>2, WholeGrows
    <3>4. Good(t)
      BY <2>3, <3>1, <3>3
    <3> QED
      BY <1>4, <2>1, <2>2, <2>4, <3>4
  <2> QED
    BY <1>5, <2>5, <2>6, <2>7 DEF Handle
<1>6. ASSUME NEW t \in Threads, Publish(t) PROVE OnItsWay'
  <2>1. /\ at[t] = "publish" /\ at' = at /\ held' = held /\ todo[t] # <<>>
        /\ published' = published \cup {Head(todo[t])}
        /\ todo' = [todo EXCEPT ![t] = Tail(@)]
    BY <1>6 DEF Publish
  <2>2. todo[t] \in Seq(Entries) /\ todo'[t] = Tail(todo[t])
    BY <1>0, <2>1
  <2>3. Range(todo[t]) \subseteq {Head(todo[t])} \cup Range(Tail(todo[t]))
    BY <2>1, <2>2, RangeTail
  <2>4. published \cup Range(todo[t]) \subseteq published' \cup Range(todo'[t])
    BY <2>1, <2>2, <2>3
  <2>5. Whole(Head(held[t]), published' \cup Range(todo'[t]))
    <3>1. Whole(Head(held[t]), published \cup Range(todo[t]))
      BY <1>0, <2>1 DEF OnItsWay
    <3> QED
      BY <2>4, <3>1, WholeGrows, ZenonT(20)
  <2>6. Good(t)
    BY <2>1, <2>5
  <2> QED
    BY <1>0, <1>4, <2>1, <2>6
<1>7. ASSUME NEW t \in Threads, CommitDone(t) \/ Snapshot(t) PROVE OnItsWay'
  <2>1. /\ published' = published /\ held' = held /\ todo' = todo /\ at'[t] # "publish"
        /\ \A u \in Threads \ {t} : at'[u] = at[u]
    BY <1>0, <1>7 DEF CommitDone, Snapshot, WriteTmp, ShiftCurrent, InstallTmp, Rotate, SnapshotStep
  <2>2. DiskDone(Head(held[t]))'
    <3>1. CASE CommitDone(t)
      <4>1. mode = "up" /\ InOrder
        BY <3>1 DEF CommitDone, XInv, NothingOvertakes
      <4>2. Settled(mem)
        BY <1>0, <1>2, <4>1
      <4> QED
        BY <1>0, <3>1, <4>1, <4>2, CommitDoneSettled
    <3>2. CASE Snapshot(t)
      <4>1. at[t] \notin {"idle", "publish"}
        BY <3>2 DEF Snapshot, WriteTmp, ShiftCurrent, InstallTmp, Rotate, SnapshotStep
      <4>2. PICK x \in Messages : x = Head(held[t])
        BY <1>1, <4>1
      <4>3. DiskDone(x)'
        BY <1>0, <4>1, <4>2, DoneSurvives DEF OnItsWay
      <4> QED
        BY <2>1, <4>2, <4>3 DEF DiskDone
    <3> QED
      BY <1>7, <3>1, <3>2
  <2>3. Good(t)
    BY <2>1, <2>2
  <2> QED
    BY <1>4, <2>1, <2>3
<1>8. ASSUME NEW t \in Threads, PublishFails(t) \/ Ack(t) PROVE OnItsWay'
  <2>1. /\ published' = published /\ at'[t] = "idle"
        /\ \A u \in Threads \ {t} : at'[u] = at[u] /\ held'[u] = held[u] /\ todo'[u] = todo[u]
    BY <1>0, <1>8 DEF PublishFails, Ack
  <2> QED
    BY <1>4, <2>1
<1>9. ASSUME \A u \in Threads : at'[u] = "idle" PROVE OnItsWay'
    BY <1>9 DEF OnItsWay
<1>10. Crash \/ Recovery => \A u \in Threads : at'[u] = "idle"
    BY <1>0, ZenonT(20) DEF Crash, Recovery, Restart, Replay, ReplayEnds, Republish, RepublishEntry,
           RecoveryEnds, loop, IInv, IdleUnlessUp
<1>11. ASSUME UNCHANGED vars \/ \E m \in Messages : Produce(m) \/ ProduceAgain(m) PROVE OnItsWay'
  <2>1. published' = published /\ at' = at /\ held' = held /\ todo' = todo
    BY <1>11 DEF Produce, ProduceAgain, loop, vars
  <2> QED
    BY <1>3, <2>1 DEF OnItsWay
<1> QED
    BY <1>5, <1>6, <1>7, <1>8, <1>9, <1>10, <1>11, SMTT(20) DEF Next

(* A new worker has seen, kept and sent nothing. *)
LEMMA InitXInv == Init => XInv /\ Durable = {}
<1> SUFFICES ASSUME Init PROVE XInv /\ Durable = {}
    OBVIOUS
<1>1. OInv /\ Recovered = FreshMem
    BY InitOInv, RecoveredIsConsistent DEF Init, CrashLosesNothing
<1>2. /\ wal = <<>> /\ Loaded(files) = FreshMem /\ produced = {}
      /\ \A t \in Threads : held[t] = <<>> /\ queue[t] = <<>> /\ at[t] = "idle"
    BY DEF Init, Loaded
<1>3. InOrder
  <2>1. \A t \in Threads : DOMAIN Line(t) = {}
    <3>1. <<>> \in Seq(Messages) /\ DOMAIN <<>> = {}
      OBVIOUS
    <3>2. <<>> \o <<>> = <<>>
      BY <3>1, ConcatEmptySeq
    <3> QED
      BY <1>2, <3>1, <3>2 DEF Line
  <2> QED
    BY <1>2, <2>1 DEF InOrder, Ordered
<1>4. OnItsWay
    BY <1>2 DEF OnItsWay
<1>5. /\ FreshMem.applied = {} /\ DOMAIN FreshMem.done = {} /\ FreshMem.state = <<>>
      /\ DOMAIN wal = {}
  <2>1. FreshMem.applied = {} /\ DOMAIN FreshMem.done = {} /\ FreshMem.state = <<>>
    BY DEF FreshMem
  <2>2. DOMAIN wal = {}
    BY <1>2
  <2> QED
    BY <2>1, <2>2
<1>6. \A m \in Messages : ~IsDone(FreshMem, m) /\ ~DiskDone(m) /\ Classify(FreshMem, m) = "NEW"
    BY <1>2, <1>5 DEF IsDone, DiskDone, Classify
<1>7. Durable = {} /\ Range(FreshMem.state) = {}
    BY <1>2, <1>5 DEF Durable, Range
<1>8. Settled(FreshMem)
    BY <1>5, <1>6, <1>7 DEF Settled
<1> QED
    BY <1>1, <1>3, <1>4, <1>7, <1>8 DEF XInv, NothingOvertakes

(* The strengthening is inductive. *)
LEMMA NextXInv == XInv /\ [Next]_vars => XInv'
<1>1. XInv => IInv /\ InOrder /\ OnItsWay
    BY DEF XInv, OInv, NothingOvertakes
<1> QED
    BY <1>1, NextOInv, NextInOrder, NextOnItsWay, NextSettled DEF XInv, NothingOvertakes

(* No message overtakes an earlier one of its sender, so that the bounded  *)
(* trackers call DONE exactly what was committed and sent.                 *)
THEOREM TrackersAreExact == Spec => []NothingOvertakes
<1>1. XInv => NothingOvertakes
    BY DEF XInv
<1> QED
    BY InitXInv, NextXInv, <1>1, PTL DEF Spec

(* What a thread acknowledges is durably done, hence committed and sent. *)
LEMMA AckReady ==
    ASSUME XInv, NEW t \in Threads, at[t] = "ack"
    PROVE  LET m == Head(held[t])
           IN  m \in Messages /\ DiskDone(m) /\ m \in Durable /\ Whole(m, published)
<1> DEFINE m == Head(held[t])
<1>1. DiskDone(m) /\ Settled(Recovered)
    BY DEF XInv, NothingOvertakes, OnItsWay
<1>2. m \in Messages
  <2>1. held[t] \in Seq(Messages) /\ Len(held[t]) = 1
    BY DEF XInv, OInv, IInv, TypeOK
  <2> QED
    BY <2>1
<1>3. IsDone(Recovered, m)
    BY <1>1, <1>2 DEF Settled
<1>4. Classify(Recovered, m) # "NEW"
    BY <1>3 DEF Classify
<1> QED
    BY <1>1, <1>2, <1>3, <1>4 DEF Settled

(* Only Ack acknowledges, and only the sending steps publish. *)
LEMMA OnlyAckAcks ==
    ASSUME [Next]_vars
    PROVE  /\ acked' = acked \/ \E t \in Threads : Ack(t)
           /\ \/ published' = published
              \/ \E t \in Threads : Publish(t)
              \/ \E e \in pending : RepublishEntry(e)
<1>1. \A t \in Threads : Handle(t) \/ PublishFails(t) \/ CommitDone(t) \/ Snapshot(t)
                         => UNCHANGED <<acked, published>>
  <2> TAKE t \in Threads
  <2>1. Handle(t) => UNCHANGED <<acked, published>>
    BY DEF Handle, HandleDone, HandleNew, HandleApplied
  <2>2. PublishFails(t) \/ CommitDone(t) => UNCHANGED <<acked, published>>
    BY DEF PublishFails, CommitDone, broker
  <2>3. Snapshot(t) => UNCHANGED <<acked, published>>
    BY DEF Snapshot, WriteTmp, ShiftCurrent, InstallTmp, Rotate, SnapshotStep, broker
  <2> QED
    BY <2>1, <2>2, <2>3
<1>2. \A t \in Threads : (Publish(t) => acked' = acked) /\ (Ack(t) => published' = published)
    BY DEF Publish, Ack, broker
<1>3. UNCHANGED vars \/ Crash \/ (\E m \in Messages : Produce(m) \/ ProduceAgain(m))
      \/ Restart \/ Replay \/ ReplayEnds \/ RecoveryEnds => UNCHANGED <<acked, published>>
    BY DEF vars, Crash, Produce, ProduceAgain, Restart, Replay, ReplayEnds, RecoveryEnds, broker
<1>4. Republish => acked' = acked /\ \E e \in pending : RepublishEntry(e)
    BY DEF Republish, RepublishEntry, broker
<1> QED
    BY <1>1, <1>2, <1>3, <1>4 DEF Next, Recovery

(* A message is acknowledged only after its INPUT_DONE is on disk, and no  *)
(* rename, rotation or crash makes a restart forget it: also when inbox or *)
(* tracker, not the consume loop, decided that it was DONE.                *)
THEOREM AckedStaysDurable == Spec => []AckedIsDurable
<1>1. Init => AckedIsDurable
    BY DEF Init, AckedIsDurable
<1>2. XInv /\ TypeOK /\ AckedIsDurable /\ [Next]_vars => AckedIsDurable'
  <2> SUFFICES ASSUME XInv, TypeOK, AckedIsDurable, [Next]_vars, NEW m \in acked' PROVE DiskDone(m)'
    BY DEF AckedIsDurable
  <2>1. CASE m \in acked
    BY <2>1, DoneSurvives DEF XInv, OInv, AckedIsDurable, TypeOK
  <2>2. CASE m \notin acked
    <3>1. PICK t \in Threads : Ack(t)
      BY <2>2, OnlyAckAcks
    <3>2. m = Head(held[t]) /\ DiskDone(m) /\ m \in Messages
      BY <2>2, <3>1, AckReady DEF Ack
    <3> QED
      BY <3>2, DoneSurvives DEF XInv, OInv
  <2> QED
    BY <2>1, <2>2
<1> QED
    BY InitXInv, NextXInv, TypeCorrect, <1>1, <1>2, PTL DEF Spec

(* Every acknowledged input is in the state of a running worker, and all   *)
(* its outputs are out.                                                    *)
THEOREM AckedWasDelivered == Spec => []AckedIsDelivered
<1>1. XInv /\ TypeOK /\ AckedIsDurable => AckedIsDelivered
  <2> SUFFICES ASSUME XInv, TypeOK, AckedIsDurable, NEW m \in acked
               PROVE  /\ mode = "up" => \E i \in DOMAIN mem.state : mem.state[i] = m
                      /\ Whole(m, published)
    BY DEF AckedIsDelivered, Whole
  <2>1. m \in Messages /\ DiskDone(m) /\ Settled(Recovered)
    BY DEF TypeOK, AckedIsDurable, XInv, NothingOvertakes
  <2>2. IsDone(Recovered, m) /\ Whole(m, published)
    BY <2>1 DEF Settled
  <2>3. m \in Range(Recovered.state)
    BY <2>1, <2>2 DEF Settled, Classify
  <2>4. mode = "up" => mem = Recovered
    BY RecoveredIsConsistent DEF XInv, CrashLosesNothing
  <2> QED
    BY <2>2, <2>3, <2>4 DEF Range
<1> QED
    BY InitXInv, NextXInv, TypeCorrect, AckedStaysDurable, <1>1, PTL DEF Spec

-----------------------------------------------------------------------------
(* An entry on its way belongs to a committed input and clashes with no    *)
(* entry that is out.                                                      *)
LEMMA SendsDeliver ==
    ASSUME XInv, NEW e, e \in pending \/ \E t \in Threads : e \in Range(todo[t])
    PROVE  /\ e \in Entries /\ e.input \in Durable
           /\ \A f \in published : Abstract!SameOutput(e, f) => e = f
<1>1. Consistent(Recovered) /\ Settled(Recovered)
    BY RecoveredIsConsistent DEF XInv, NothingOvertakes
<1>2. e \in Known(Recovered) /\ published \subseteq Known(Recovered)
    BY DEF Known
<1>3. e \in Entries /\ Classify(Recovered, e.input) # "NEW"
    BY <1>1, <1>2 DEF Consistent
<1>4. e.input \in Durable
    BY <1>1, <1>3 DEF Settled, Entries
<1> QED
    BY <1>1, <1>2, <1>3, <1>4 DEF Consistent, Stable, Abstract!SameOutput

(* Every step is one of ExactlyOnce: handle() of a NEW input commits it, a *)
(* first publish delivers, an acknowledgement acknowledges, and everything *)
(* else, crash, replay and snapshot included, is invisible.                *)
LEMMA StepRefines == XInv /\ [Next]_vars => [Abstract!Next]_(Abstract!vars)
<1> SUFFICES ASSUME XInv, [Next]_vars PROVE Abstract!Next \/ UNCHANGED Abstract!vars
    OBVIOUS
<1>0. OInv /\ OInv' /\ Settled(Recovered) /\ TypeOK
    BY NextOInv DEF XInv, NothingOvertakes, OInv, IInv
<1>1. ASSUME NEW t \in Threads, HandleNew(t) PROVE Abstract!Next
  <2>0. Settled(mem)
    <3>1. mode = "up" /\ mode' = "up"
      BY <1>1 DEF HandleNew, Deliver
    <3> QED
      BY <1>0, <3>1, UpMemory
  <2>1. PICK m \in Messages \ Durable : Durable' = Durable \cup {m}
    BY <1>0, <1>1, <2>0, HandleNewSettled
  <2>2. UNCHANGED <<published, acked>>
    BY <1>1 DEF HandleNew
  <2> QED
    BY <2>1, <2>2 DEF Abstract!Next, Abstract!Commit
<1>2. ASSUME NEW t \in Threads, Ack(t) PROVE Abstract!Next
  <2>1. PICK m \in Messages : m = Head(held[t]) /\ m \in Durable /\ Whole(m, published)
    BY <1>2, AckReady DEF Ack
  <2>2. acked' = acked \cup {m} /\ published' = published
    BY <1>2, <2>1 DEF Ack
  <2>3. Durable' = Durable
    BY <1>2 DEF Ack, disk, Durable
  <2> QED
    BY <2>1, <2>2, <2>3 DEF Abstract!Next, Abstract!Ack, Abstract!AllDelivered, Whole
<1>3. ASSUME NEW e, e \in pending \/ \E t \in Threads : e \in Range(todo[t]),
             published' = published \cup {e}, acked' = acked, Durable' = Durable
      PROVE  Abstract!Next \/ UNCHANGED Abstract!vars
  <2>1. CASE e \in published
    BY <1>3, <2>1 DEF Abstract!vars
  <2>2. CASE e \notin published
    BY <1>3, <2>2, SendsDeliver DEF Abstract!Next, Abstract!Deliver
  <2> QED
    BY <2>1, <2>2
<1>4. ASSUME NEW t \in Threads, Publish(t) PROVE Abstract!Next \/ UNCHANGED Abstract!vars
  <2>1. todo[t] \in Seq(Entries) /\ todo[t] # <<>>
    BY <1>0, <1>4 DEF TypeOK, Publish
  <2>2. Head(todo[t]) \in Range(todo[t])
    BY <2>1 DEF Range
  <2>3. published' = published \cup {Head(todo[t])} /\ acked' = acked /\ Durable' = Durable
    BY <1>4 DEF Publish, broker, disk, Durable
  <2> QED
    BY <1>3, <2>2, <2>3
<1>5. ASSUME NEW e \in pending, RepublishEntry(e) PROVE Abstract!Next \/ UNCHANGED Abstract!vars
  <2>1. published' = published \cup {e} /\ acked' = acked /\ Durable' = Durable
    BY <1>5 DEF RepublishEntry, broker, disk, Durable
  <2> QED
    BY <1>3, <2>1
<1>6. ASSUME acked' = acked, published' = published, Durable' = Durable
      PROVE  UNCHANGED Abstract!vars
    BY <1>6 DEF Abstract!vars
<1> QED
    BY <1>1, <1>2, <1>4, <1>5, <1>6, NextSettled, OnlyAckAcks

(* The durable worker implements the abstract exactly-once worker, with    *)
(* the files as the truth about what is committed.                         *)
THEOREM WorkerImplementsExactlyOnce == Spec => ImplementsExactlyOnce
<1>1. Init => Abstract!Init
    BY InitXInv DEF Init, Abstract!Init
<1> QED
    BY <1>1, InitXInv, NextXInv, StepRefines, PTL DEF Spec, ImplementsExactlyOnce, Abstract!Spec

=============================================================================
