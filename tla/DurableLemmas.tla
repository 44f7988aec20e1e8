---------------------------- MODULE DurableLemmas ----------------------------
(***************************************************************************)
(* Lemmas of the durable worker: what the operations of its memory keep,   *)
(* and that every step preserves the types.                                *)
(***************************************************************************)
EXTENDS DurableWorker, SequenceTheorems, TLAPS

(* observe() keeps a tracker a tracker. *)
LEMMA ObserveType ==
    ASSUME NEW t \in Tracker, NEW s \in Nat
    PROVE  Observe(t, s) \in Tracker
BY MaxGapAssumption DEF Tracker, Observe

(* What was observed is a duplicate, provided nothing at or above biggest  *)
(* is pending.                                                             *)
LEMMA ObserveMarks ==
    ASSUME NEW t \in Tracker, NEW s \in Nat,
           \A p \in t.pending : p < t.biggest
    PROVE  IsDuplicate(Observe(t, s), s)
BY MaxGapAssumption DEF Tracker, Observe, IsDuplicate

(* A duplicate stays a duplicate: observe() only adds pending numbers      *)
(* above the old biggest.                                                  *)
LEMMA ObserveKeeps ==
    ASSUME NEW t \in Tracker, NEW s \in Nat, NEW x \in Nat, IsDuplicate(t, x)
    PROVE  IsDuplicate(Observe(t, s), x)
BY MaxGapAssumption DEF Tracker, Observe, IsDuplicate

(* The pending numbers stay strictly between 0 and biggest. *)
LEMMA ObserveBounds ==
    ASSUME NEW t \in Tracker, NEW s \in Nat,
           \A p \in t.pending : 0 < p /\ p < t.biggest
    PROVE  LET u == Observe(t, s)
           IN  \A p \in u.pending : 0 < p /\ p < u.biggest
BY MaxGapAssumption DEF Tracker, Observe

-----------------------------------------------------------------------------
(* The fields of a message and its inbox bucket are well typed. *)
LEMMA MessageFacts ==
    ASSUME NEW m \in Messages
    PROVE  m.kind \in Threads /\ m.sender \in Senders /\ m.seq \in Nat
           /\ Bucket(m) \in Threads \X Senders
BY ConstantsAssumption DEF Messages, Bucket

(* Records of the log are numbered up to its length. *)
LEMMA IndexBound ==
    ASSUME NEW s \in Seq(Records)
    PROVE  \A i \in DOMAIN s : i <= Len(s)
<1>1. DOMAIN s = 1 .. Len(s) /\ Len(s) \in Nat
    BY LenProperties
<1> QED
    BY <1>1

(* The INPUT_DONE of a message is a WAL record. *)
LEMMA DoneIsRecord ==
    ASSUME NEW m \in Messages
    PROVE  Done(m) \in Records
<1>1. <<>> \in Seq(Entries)
    BY EmptySeq
<1> QED
    BY <1>1 DEF Done, Records

(* The outputs stamped on an input are entries. *)
LEMMA StampType ==
    ASSUME NEW mm, IsMemory(mm), NEW m \in Messages
    PROVE  Stamp(mm, m) \in Seq(Entries)
<1>1. Fanout[m.kind] \in Nat
    BY MessageFacts, ConstantsAssumption
<1>2. mm.next \in Nat /\ Len(mm.state) \in Nat
    BY LenProperties DEF IsMemory
<1>3. \A i \in 1 .. Fanout[m.kind] :
        [seq |-> mm.next + i - 1, input |-> m, index |-> i, body |-> Len(mm.state)] \in Entries
    BY <1>1, <1>2 DEF Entries
<1> QED
    BY <1>1, <1>3, IsASeq DEF Stamp

(* Applying a NEW input keeps a memory good and changes no verdict DONE. *)
LEMMA ApplyInputGood ==
    ASSUME NEW mm, GoodMem(mm), NEW m \in Messages, Classify(mm, m) = "NEW",
           NEW outs \in Seq(Entries)
    PROVE  /\ GoodMem(ApplyInput(mm, m, outs))
           /\ ApplyInput(mm, m, outs).done = mm.done
<1> DEFINE u == ApplyInput(mm, m, outs)
<1>1. u = [state |-> Append(mm.state, m), applied |-> mm.applied \cup {m},
           done |-> mm.done,
           outbox |-> [x \in DOMAIN mm.outbox \cup {m} |-> IF x = m THEN outs ELSE mm.outbox[x]],
           next |-> ObserveSeqs(mm.next, outs)]
    BY DEF ApplyInput
<1>2. ObserveSeqs(mm.next, outs) \in Nat
  <2>1. outs # <<>> => outs[Len(outs)] \in Entries
    BY LenProperties, ElementOfSeq, EmptySeq
  <2> QED
    BY <2>1 DEF ObserveSeqs, Entries, GoodMem, IsMemory
<1>3. /\ u.state \in Seq(Messages)
      /\ \A i \in DOMAIN u.state :
            \/ i = Len(mm.state) + 1 /\ u.state[i] = m
            \/ i \in DOMAIN mm.state /\ u.state[i] = mm.state[i]
  <2>1. u.state = Append(mm.state, m) /\ mm.state \in Seq(Messages)
    BY <1>1 DEF GoodMem, IsMemory
  <2>2. u.state \in Seq(Messages) /\ Len(u.state) = Len(mm.state) + 1
        /\ DOMAIN mm.state = 1 .. Len(mm.state) /\ Len(mm.state) \in Nat
        /\ DOMAIN u.state = 1 .. Len(mm.state) + 1
    BY <2>1, AppendProperties, LenProperties
  <2>3. \A i \in 1 .. Len(mm.state) : u.state[i] = mm.state[i]
    BY <2>1, AppendProperties
  <2>4. u.state[Len(mm.state) + 1] = m
    BY <2>1, AppendProperties
  <2> HIDE DEF u
  <2> QED
    BY <2>2, <2>3, <2>4, SMTT(20)
<1>4. IsMemory(u)
  <2>1. DOMAIN u.outbox = DOMAIN mm.outbox \cup {m}
        /\ u.outbox \in [DOMAIN u.outbox -> Seq(Entries)]
    BY <1>1 DEF GoodMem, IsMemory
  <2>2. u.applied \subseteq Messages /\ u.next \in Nat /\ u.done = mm.done
    BY <1>1, <1>2 DEF GoodMem, IsMemory
  <2>3. u = [state |-> u.state, applied |-> u.applied, done |-> u.done,
             outbox |-> u.outbox, next |-> u.next]
    BY <1>1
  <2> HIDE DEF u
  <2> QED
    BY <1>3, <2>1, <2>2, <2>3 DEF GoodMem, IsMemory
<1>5. \A i \in DOMAIN mm.state : mm.state[i] # m
    BY DEF GoodMem
<1>6. \A i, j \in DOMAIN u.state : u.state[i] = u.state[j] => i = j
    BY <1>3, <1>5 DEF GoodMem
<1>7. \A i \in DOMAIN u.state : Classify(u, u.state[i]) # "NEW"
  <2>1. u.applied = mm.applied \cup {m} /\ \A x : IsDone(u, x) <=> IsDone(mm, x)
    BY <1>1 DEF IsDone
  <2>2. \A i \in DOMAIN mm.state : mm.state[i] \in mm.applied \/ IsDone(mm, mm.state[i])
    BY DEF GoodMem, Classify
  <2> HIDE DEF u
  <2> QED
    BY <1>3, <2>1, <2>2 DEF Classify
<1> HIDE DEF u
<1>8. u.done = mm.done
    BY <1>1
<1>9. GoodMem(u)
    BY <1>4, <1>6, <1>7, <1>8 DEF GoodMem
<1> QED
    BY <1>8, <1>9 DEF u

(* Marking an input done keeps a memory good, makes that input DONE and    *)
(* every input that was DONE stays so.                                     *)
LEMMA MarkDoneGood ==
    ASSUME NEW mm, GoodMem(mm), NEW m \in Messages
    PROVE  /\ GoodMem(MarkDone(mm, m))
           /\ IsDone(MarkDone(mm, m), m)
           /\ \A x \in Messages : IsDone(mm, x) => IsDone(MarkDone(mm, m), x)
<1> DEFINE u == MarkDone(mm, m)
           b == Bucket(m)
           tracker == TrackerOf(mm, b)
<1>0. b \in Threads \X Senders /\ m.seq \in Nat
    BY MessageFacts
<1>1. u = [state |-> mm.state, applied |-> mm.applied \ {m},
           done |-> [c \in DOMAIN mm.done \cup {b} |->
                        IF c = b THEN Observe(tracker, m.seq) ELSE mm.done[c]],
           outbox |-> [x \in DOMAIN mm.outbox \ {m} |-> mm.outbox[x]],
           next |-> mm.next]
    BY SMTT(20) DEF MarkDone
<1>2. tracker \in Tracker /\ \A p \in tracker.pending : 0 < p /\ p < tracker.biggest
    BY DEF GoodMem, IsMemory, FreshTracker, Tracker, TrackerOf
<1>3. /\ Observe(tracker, m.seq) \in Tracker
      /\ \A p \in Observe(tracker, m.seq).pending :
            0 < p /\ p < Observe(tracker, m.seq).biggest
      /\ IsDuplicate(Observe(tracker, m.seq), m.seq)
  <2> HIDE DEF tracker
  <2>1. \A p \in tracker.pending : p < tracker.biggest
    BY <1>2
  <2> QED
    BY <1>0, <1>2, <2>1, ObserveType, ObserveBounds, ObserveMarks, SMTT(20)
<1>4. IsMemory(u)
    BY <1>0, <1>1, <1>3 DEF GoodMem, IsMemory
<1>5. IsDone(u, m)
    BY <1>1, <1>3 DEF IsDone
<1>6. ASSUME NEW x \in Messages, IsDone(mm, x) PROVE IsDone(u, x)
  <2>1. CASE Bucket(x) = b
    <3>1. IsDuplicate(tracker, x.seq) /\ x.seq \in Nat
      BY <1>6, <2>1, MessageFacts DEF IsDone, TrackerOf
    <3>2. IsDuplicate(Observe(tracker, m.seq), x.seq)
      BY <1>0, <1>2, <3>1, ObserveKeeps
    <3> QED
      BY <1>1, <2>1, <3>2 DEF IsDone
  <2>2. CASE Bucket(x) # b
    BY <1>1, <1>6, <2>2 DEF IsDone
  <2> QED
    BY <2>1, <2>2
<1>7. \A i \in DOMAIN u.state : Classify(u, u.state[i]) # "NEW"
  <2> SUFFICES ASSUME NEW i \in DOMAIN u.state PROVE Classify(u, u.state[i]) # "NEW"
    OBVIOUS
  <2>1. i \in DOMAIN mm.state /\ u.state[i] = mm.state[i] /\ mm.state[i] \in Messages
    BY <1>1, LenProperties, ElementOfSeq DEF GoodMem, IsMemory
  <2>2. mm.state[i] \in mm.applied \/ IsDone(mm, mm.state[i])
    BY <2>1 DEF GoodMem, Classify
  <2>3. mm.state[i] = m \/ mm.state[i] \in u.applied \/ IsDone(u, mm.state[i])
    BY <1>1, <1>6, <2>1, <2>2
  <2> QED
    BY <1>5, <2>1, <2>3 DEF Classify
<1>8. \A c \in DOMAIN u.done : \A p \in u.done[c].pending : 0 < p /\ p < u.done[c].biggest
    BY <1>1, <1>3 DEF GoodMem
<1>9. \A i, j \in DOMAIN u.state : u.state[i] = u.state[j] => i = j
    BY <1>1 DEF GoodMem
<1> HIDE DEF u
<1>10. GoodMem(u)
    BY <1>4, <1>7, <1>8, <1>9 DEF GoodMem
<1> QED
    BY <1>5, <1>6, <1>10 DEF u

(* Replaying any record keeps a memory good, loses no verdict DONE, and    *)
(* an INPUT_DONE record makes its input DONE.                              *)
LEMMA ApplyRecordGood ==
    ASSUME NEW mm, GoodMem(mm), NEW r \in Records
    PROVE  /\ GoodMem(ApplyRecord(mm, r))
           /\ \A x \in Messages : IsDone(mm, x) => IsDone(ApplyRecord(mm, r), x)
           /\ r.type = "INPUT_DONE" => IsDone(ApplyRecord(mm, r), r.input)
<1>0. r.input \in Messages /\ r.outputs \in Seq(Entries)
    BY DEF Records
<1>1. CASE Reapplies(mm, r)
  <2>1. ApplyRecord(mm, r) = ApplyInput(mm, r.input, r.outputs) /\ r.type # "INPUT_DONE"
    BY <1>1 DEF ApplyRecord, Reapplies
  <2> QED
    BY <1>0, <1>1, <2>1, ApplyInputGood DEF Reapplies, IsDone
<1>2. CASE r.type = "INPUT_DONE" /\ Classify(mm, r.input) # "DONE"
  <2>1. ApplyRecord(mm, r) = MarkDone(mm, r.input)
    BY <1>2 DEF ApplyRecord, Reapplies
  <2> QED
    BY <1>0, <2>1, MarkDoneGood
<1>3. CASE ~Reapplies(mm, r) /\ ~(r.type = "INPUT_DONE" /\ Classify(mm, r.input) # "DONE")
  <2>1. ApplyRecord(mm, r) = mm
    BY <1>3 DEF ApplyRecord
  <2> QED
    BY <1>3, <2>1 DEF Classify
<1> QED
    BY <1>1, <1>2, <1>3

(* The memory a handler starts with (its constructor values) is good. *)
LEMMA FreshGood == GoodMem(FreshMem)
<1>1. IsMemory(FreshMem)
  <2>1. <<>> \in Seq(Messages)
    OBVIOUS
  <2> QED
    BY <2>1 DEF IsMemory, FreshMem
<1>2. DOMAIN FreshMem.state = {} /\ DOMAIN FreshMem.done = {}
    BY DEF FreshMem
<1> QED
    BY <1>1, <1>2 DEF GoodMem

(* So is whatever LastState.load returns. *)
LEMMA LoadedGood ==
    ASSUME NEW fs, \A f \in DOMAIN fs : GoodMem(fs[f])
    PROVE  GoodMem(Loaded(fs))
BY FreshGood DEF Loaded

-----------------------------------------------------------------------------
(* Type correctness of the broker's side of a delivery. *)
LEMMA DeliverType ==
    ASSUME TypeOK, NEW t \in Threads, Deliver(t)
    PROVE  /\ Head(queue[t]) \in Messages
           /\ queue' \in [Threads -> Seq(Messages)]
           /\ held' \in [Threads -> Seq(Messages)]
           /\ held'[t] = <<Head(queue[t])>> /\ Len(held'[t]) = 1
           /\ \A u \in Threads \ {t} : held'[u] = held[u]
<1>1. queue[t] \in Seq(Messages) /\ queue[t] # <<>>
    BY DEF TypeOK, Deliver
<1>2. Head(queue[t]) \in Messages /\ Tail(queue[t]) \in Seq(Messages)
    BY <1>1, HeadTailProperties
<1>3. <<Head(queue[t])>> \in Seq(Messages) /\ Len(<<Head(queue[t])>>) = 1
    BY <1>2
<1> QED
    BY <1>2, <1>3 DEF TypeOK, Deliver

(* A worker that starts with empty files satisfies the invariant. *)
LEMMA InitIInv == Init => IInv
<1> SUFFICES ASSUME Init PROVE IInv
    OBVIOUS
<1> USE DEF Init
<1>1. GoodMem(mem) /\ \A f \in DOMAIN files : GoodMem(files[f])
    BY FreshGood
<1>2. TypeOK
  <2>1. IsMemory(mem) /\ \A f \in DOMAIN files : IsMemory(files[f])
    BY <1>1 DEF GoodMem
  <2>2. /\ queue \in [Threads -> Seq(Messages)] /\ held \in [Threads -> Seq(Messages)]
        /\ todo \in [Threads -> Seq(Entries)] /\ wal \in Seq(Records)
        /\ \A t \in Threads : Len(held[t]) = 0 /\ at[t] = "idle"
    OBVIOUS
  <2>3. at \in [Threads -> Places] /\ DOMAIN files = {}
    BY DEF Places
  <2> QED
    BY <2>1, <2>2, <2>3 DEF TypeOK
<1>3. Covers(mem, Len(wal))
  <2>1. Loaded(files) = FreshMem /\ DOMAIN wal = {}
    BY DEF Loaded
  <2> QED
    BY <2>1 DEF Covers
<1>4. \A t \in Threads : at[t] = "idle"
    OBVIOUS
<1> QED
    BY <1>1, <1>2, <1>3, <1>4 DEF IInv, GoodMemories, IdleUnlessUp, MemoryCovers, SnapshotLocked

(* Every action, crash and recovery included, keeps the types. *)
LEMMA NextTypeOK == IInv /\ [Next]_vars => TypeOK'
<1> SUFFICES ASSUME IInv, [Next]_vars PROVE TypeOK'
    OBVIOUS
<1>0. TypeOK /\ GoodMem(mem) /\ \A f \in DOMAIN files : GoodMem(files[f])
    BY DEF IInv, GoodMemories
<1>1. CASE UNCHANGED vars
    BY <1>0, <1>1, ZenonT(20) DEF vars, TypeOK, IsMemory
<1>2. ASSUME NEW m \in Messages, Produce(m) PROVE TypeOK'
  <2>1. queue' \in [Threads -> Seq(Messages)]
    <3>1. m.kind \in Threads /\ Append(queue[m.kind], m) \in Seq(Messages)
      BY <1>0, MessageFacts DEF TypeOK
    <3> QED
      BY <1>0, <1>2, <3>1 DEF TypeOK, Produce
  <2>2. produced' \subseteq Messages
    BY <1>0, <1>2 DEF TypeOK, Produce
  <2> QED
    BY <1>0, <1>2, <2>1, <2>2, SMTT(20) DEF TypeOK, Produce, disk, loop
<1>2a. ASSUME NEW m \in Messages, ProduceAgain(m) PROVE TypeOK'
  <2>1. queue' \in [Threads -> Seq(Messages)]
    <3>1. m.kind \in Threads /\ Append(queue[m.kind], m) \in Seq(Messages)
      BY <1>0, MessageFacts DEF TypeOK
    <3> QED
      BY <1>0, <1>2a, <3>1 DEF TypeOK, ProduceAgain
  <2>2. troubles' \in Nat
    BY <1>0, <1>2a DEF TypeOK, ProduceAgain
  <2> QED
    BY <1>0, <1>2a, <2>1, <2>2 DEF TypeOK, ProduceAgain, disk, loop
<1>3. ASSUME NEW t \in Threads, HandleDone(t) PROVE TypeOK'
  <2>1. Deliver(t)
    BY <1>3 DEF HandleDone
  <2>2. at' \in [Threads -> Places] /\ at'[t] = "ack" /\ \A u \in Threads \ {t} : at'[u] = at[u]
    BY <1>0, <1>3 DEF TypeOK, HandleDone, Places
  <2>3. /\ queue' \in [Threads -> Seq(Messages)] /\ held' \in [Threads -> Seq(Messages)]
        /\ \A u \in Threads : Len(held'[u]) = IF at'[u] = "idle" THEN 0 ELSE 1
    BY <1>0, <2>1, <2>2, DeliverType, ZenonT(30) DEF TypeOK
  <2> QED
    BY <1>0, <1>3, <2>2, <2>3 DEF TypeOK, HandleDone, disk
<1>4. ASSUME NEW t \in Threads, HandleNew(t) PROVE TypeOK'
  <2> DEFINE m == Head(queue[t])
             outs == Stamp(mem, m)
  <2>1. Deliver(t) /\ m \in Messages
    BY <1>0, <1>4, DeliverType DEF HandleNew
  <2>2. outs \in Seq(Entries)
    BY <1>0, <2>1, StampType DEF GoodMem
  <2>3. at' \in [Threads -> Places] /\ at'[t] = "publish" /\ \A u \in Threads \ {t} : at'[u] = at[u]
    BY <1>0, <1>4 DEF TypeOK, HandleNew, Places
  <2>4. wal' \in Seq(Records)
    <3>1. Applied(m, outs) \in Records
      BY <2>1, <2>2, SMTT(20) DEF Applied, Records
    <3> QED
      BY <1>0, <1>4, <3>1 DEF HandleNew, TypeOK
  <2>5. IsMemory(mem') /\ mem' = ApplyInput(mem, m, outs)
    BY <1>0, <1>4, <2>1, <2>2, ApplyInputGood DEF HandleNew, GoodMem
  <2>6. EntriesFor(mem', m) \in Seq(Entries)
    BY <2>2, <2>5 DEF EntriesFor, ApplyInput
  <2>7. todo' \in [Threads -> Seq(Entries)] /\ count' \in Nat
    BY <1>0, <1>4, <2>6 DEF HandleNew, TypeOK
  <2>8. /\ queue' \in [Threads -> Seq(Messages)] /\ held' \in [Threads -> Seq(Messages)]
        /\ \A u \in Threads : Len(held'[u]) = IF at'[u] = "idle" THEN 0 ELSE 1
    BY <1>0, <2>1, <2>3, DeliverType, ZenonT(30) DEF TypeOK
  <2>9. UNCHANGED <<produced, acked, published, files, mode, pos, lock, pending, troubles>>
    BY <1>4 DEF HandleNew
  <2> QED
    BY <1>0, <2>3, <2>4, <2>5, <2>7, <2>8, <2>9 DEF TypeOK
<1>5. ASSUME NEW t \in Threads, HandleApplied(t) PROVE TypeOK'
  <2>1. Deliver(t)
    BY <1>5 DEF HandleApplied
  <2>2. at' \in [Threads -> Places] /\ at'[t] = "publish" /\ \A u \in Threads \ {t} : at'[u] = at[u]
    BY <1>0, <1>5 DEF TypeOK, HandleApplied, Places
  <2>3. EntriesFor(mem, Head(queue[t])) \in Seq(Entries)
    BY <1>0 DEF EntriesFor, TypeOK, IsMemory
  <2>4. todo' \in [Threads -> Seq(Entries)]
    BY <1>0, <1>5, <2>3 DEF HandleApplied, TypeOK
  <2>5. /\ queue' \in [Threads -> Seq(Messages)] /\ held' \in [Threads -> Seq(Messages)]
        /\ \A u \in Threads : Len(held'[u]) = IF at'[u] = "idle" THEN 0 ELSE 1
    BY <1>0, <2>1, <2>2, DeliverType, ZenonT(30) DEF TypeOK
  <2> QED
    BY <1>0, <1>5, <2>2, <2>4, <2>5 DEF TypeOK, HandleApplied, disk
<1>6. ASSUME NEW t \in Threads, Publish(t) PROVE TypeOK'
  <2>1. todo[t] \in Seq(Entries) /\ todo[t] # <<>>
    BY <1>0, <1>6 DEF TypeOK, Publish
  <2>2. Head(todo[t]) \in Entries /\ Tail(todo[t]) \in Seq(Entries)
    BY <2>1, HeadTailProperties
  <2>3. published' \subseteq Entries /\ todo' \in [Threads -> Seq(Entries)]
    BY <1>0, <1>6, <2>2 DEF TypeOK, Publish
  <2> QED
    BY <1>0, <1>6, <2>3 DEF TypeOK, Publish, broker, disk
<1>7. ASSUME NEW t \in Threads, PublishFails(t) PROVE TypeOK'
  <2>1. queue' \in [Threads -> Seq(Messages)]
    <3>1. held[t] \o queue[t] \in Seq(Messages)
      BY <1>0, ConcatProperties DEF TypeOK
    <3> QED
      BY <1>0, <1>7, <3>1 DEF TypeOK, PublishFails
  <2>2. /\ held' \in [Threads -> Seq(Messages)] /\ Len(held'[t]) = 0
        /\ \A u \in Threads \ {t} : held'[u] = held[u]
    BY <1>0, <1>7 DEF TypeOK, PublishFails
  <2>3. at' \in [Threads -> Places] /\ at'[t] = "idle" /\ \A u \in Threads \ {t} : at'[u] = at[u]
    BY <1>0, <1>7 DEF TypeOK, PublishFails, Places
  <2>4. todo' \in [Threads -> Seq(Entries)] /\ troubles' \in Nat
    BY <1>0, <1>7 DEF TypeOK, PublishFails
  <2>5. \A u \in Threads : Len(held'[u]) = IF at'[u] = "idle" THEN 0 ELSE 1
    BY <1>0, <2>2, <2>3, ZenonT(20) DEF TypeOK
  <2> QED
    BY <1>0, <1>7, <2>1, <2>2, <2>3, <2>4, <2>5 DEF TypeOK, PublishFails, disk
<1>8. ASSUME NEW t \in Threads, CommitDone(t) PROVE TypeOK'
  <2> DEFINE m == Head(held[t])
  <2>1. m \in Messages
    <3>1. held[t] \in Seq(Messages) /\ Len(held[t]) = 1
      BY <1>0, <1>8 DEF TypeOK, CommitDone
    <3>2. held[t] # <<>>
      BY <3>1, EmptySeq
    <3> QED
      BY <3>1, <3>2, HeadTailProperties
  <2>2. wal' \in Seq(Records)
    <3>1. Done(m) \in Records
      BY <2>1, DoneIsRecord, SMTT(20)
    <3> QED
      BY <1>0, <1>8, <3>1 DEF CommitDone, TypeOK
  <2>3. IsMemory(mem')
    BY <1>0, <1>8, <2>1, MarkDoneGood DEF CommitDone, GoodMem
  <2>4. /\ at' \in [Threads -> Places] /\ at'[t] # "idle"
        /\ \A u \in Threads \ {t} : at'[u] = at[u]
        /\ lock' \in Threads \cup {NoThread} /\ at[t] # "idle"
    BY <1>0, <1>8 DEF TypeOK, CommitDone, Places
  <2> QED
    BY <1>0, <1>8, <2>2, <2>3, <2>4 DEF TypeOK, CommitDone, broker
<1>9. ASSUME NEW t \in Threads, Snapshot(t) PROVE TypeOK'
  <2>1. /\ at' \in [Threads -> Places] /\ at'[t] # "idle" /\ at[t] # "idle"
        /\ \A u \in Threads \ {t} : at'[u] = at[u]
    BY <1>0, <1>9, ZenonT(20) DEF TypeOK, Snapshot, SnapshotStep, WriteTmp, ShiftCurrent, InstallTmp, Rotate, Places
  <2>2. wal' \in Seq(Records) /\ count' \in Nat /\ lock' \in Threads \cup {NoThread} /\ mem' = mem
    <3>1. CASE Rotate(t)
      BY <1>0, <3>1 DEF TypeOK, Rotate
    <3>2. CASE WriteTmp(t) \/ ShiftCurrent(t) \/ InstallTmp(t)
      BY <1>0, <3>2 DEF TypeOK, WriteTmp, ShiftCurrent, InstallTmp
    <3> QED
      BY <1>9, <3>1, <3>2 DEF Snapshot
  <2>3. /\ DOMAIN files' \subseteq {"current", "previous", "tmp"}
        /\ \A f \in DOMAIN files' : IsMemory(files'[f])
    <3>1. CASE WriteTmp(t)
      BY <1>0, <3>1 DEF TypeOK, WriteTmp, GoodMem
    <3>2. CASE ShiftCurrent(t)
      BY <1>0, <3>2 DEF TypeOK, ShiftCurrent, Replace
    <3>3. CASE InstallTmp(t)
      <4>1. "tmp" \in DOMAIN files
        BY <3>3 DEF IInv, SnapshotLocked, InstallTmp, SnapshotStep
      <4> QED
        BY <1>0, <3>3, <4>1 DEF TypeOK, InstallTmp, Replace
    <3>4. CASE Rotate(t)
      BY <1>0, <3>4 DEF TypeOK, Rotate
    <3> QED
      BY <1>9, <3>1, <3>2, <3>3, <3>4 DEF Snapshot
  <2>4. UNCHANGED <<broker, published, mode, pos, held, todo, pending, troubles>>
    BY <1>9, SMTT(20) DEF Snapshot, SnapshotStep, WriteTmp, ShiftCurrent, InstallTmp, Rotate
  <2> QED
    BY <1>0, <2>1, <2>2, <2>3, <2>4 DEF TypeOK, broker
<1>10. ASSUME NEW t \in Threads, Ack(t) PROVE TypeOK'
  <2>1. Head(held[t]) \in Messages
    <3>1. held[t] \in Seq(Messages) /\ Len(held[t]) = 1
      BY <1>0, <1>10 DEF TypeOK, Ack
    <3>2. held[t] # <<>>
      BY <3>1, EmptySeq
    <3> QED
      BY <3>1, <3>2, HeadTailProperties
  <2>2. /\ held' \in [Threads -> Seq(Messages)] /\ Len(held'[t]) = 0
        /\ \A u \in Threads \ {t} : held'[u] = held[u]
    BY <1>0, <1>10 DEF TypeOK, Ack
  <2>3. at' \in [Threads -> Places] /\ at'[t] = "idle" /\ \A u \in Threads \ {t} : at'[u] = at[u]
    BY <1>0, <1>10 DEF TypeOK, Ack, Places
  <2>4. \A u \in Threads : Len(held'[u]) = IF at'[u] = "idle" THEN 0 ELSE 1
    BY <1>0, <2>2, <2>3, ZenonT(20) DEF TypeOK
  <2>5. acked' \subseteq Messages
    BY <1>0, <1>10, <2>1 DEF TypeOK, Ack
  <2> QED
    BY <1>0, <1>10, <2>2, <2>3, <2>4, <2>5 DEF TypeOK, Ack, disk
<1>11. CASE Crash
  <2>1. queue' \in [Threads -> Seq(Messages)]
    BY <1>0, <1>11, ConcatProperties DEF TypeOK, Crash
  <2>2. /\ held' \in [Threads -> Seq(Messages)] /\ todo' \in [Threads -> Seq(Entries)]
        /\ at' \in [Threads -> Places]
        /\ \A t \in Threads : Len(held'[t]) = 0 /\ at'[t] = "idle"
    BY <1>11 DEF Crash, Places
  <2>3. IsMemory(mem') /\ troubles' \in Nat
    <3>1. mem' = FreshMem /\ troubles' = troubles + 1 /\ troubles \in Nat
      BY <1>0, <1>11 DEF Crash, TypeOK
    <3>2. IsMemory(FreshMem)
      BY FreshGood, SMTT(20) DEF GoodMem
    <3> QED
      BY <3>1, <3>2
  <2> QED
    BY <1>0, <1>11, <2>1, <2>2, <2>3 DEF TypeOK, Crash, disk
<1>12. CASE Restart
  <2>1. IsMemory(mem')
    BY <1>0, <1>12, LoadedGood DEF Restart, GoodMem
  <2>2. mode' = "replay" /\ pos' = 1 /\ count' = 0
        /\ UNCHANGED <<produced, queue, acked, published, wal, files, lock, at, held, todo,
                       pending, troubles>>
    BY <1>12 DEF Restart, broker, disk, loop
  <2> QED
    BY <1>0, <2>1, <2>2 DEF TypeOK
<1>13. CASE Replay
  <2>1. wal[pos] \in Records
    <3>1. wal \in Seq(Records)
      BY <1>0 DEF TypeOK
    <3>2. pos <= Len(wal) /\ pos \in 1 .. Len(wal) + 1
      BY <1>13 DEF Replay, IInv, MemoryCovers
    <3>3. Len(wal) \in Nat
      BY <3>1, LenProperties
    <3>4. pos \in 1 .. Len(wal)
      BY <3>2, <3>3, SMTT(20)
    <3> QED
      BY <3>1, <3>4, ElementOfSeq
  <2>2. IsMemory(mem')
    BY <1>0, <1>13, <2>1, ApplyRecordGood DEF Replay, GoodMem
  <2>3. count' \in Nat /\ pos' \in Nat
    BY <1>0, <1>13 DEF Replay, TypeOK
  <2> QED
    BY <1>0, <1>13, <2>2, <2>3 DEF TypeOK, Replay, broker, disk, loop
<1>14. CASE ReplayEnds
  <2>1. AllPending(mem) \subseteq Entries
    BY <1>0, LenProperties, ElementOfSeq DEF AllPending, Range, TypeOK, IsMemory
  <2> QED
    BY <1>0, <1>14, <2>1 DEF TypeOK, ReplayEnds, broker, disk, loop
<1>15. CASE Republish
    BY <1>0, <1>15 DEF TypeOK, Republish, RepublishEntry, broker, disk, loop
<1>16. CASE RecoveryEnds
    BY <1>0, <1>16 DEF TypeOK, RecoveryEnds, broker, disk, loop
<1> QED
    BY <1>1, <1>2, <1>2a, <1>3, <1>4, <1>5, <1>6, <1>7, <1>8, <1>9, <1>10, <1>11, <1>12, <1>13,
       <1>14, <1>15, <1>16 DEF Next, Handle, Recovery

-----------------------------------------------------------------------------
(* A line grows at its end, loses its first message to an acknowledgement, *)
(* and is the same before and after a delivery or a requeue.               *)
LEMMA LineSteps ==
    ASSUME NEW h \in Seq(Messages), NEW q \in Seq(Messages), NEW m \in Messages
    PROVE  /\ h \o q \in Seq(Messages) /\ <<>> \o q = q
           /\ h \o Append(q, m) = Append(h \o q, m)
           /\ q # <<>> => <<Head(q)>> \o Tail(q) = q
           /\ Len(h) = 1 => h \o q # <<>> /\ Head(h \o q) = Head(h) /\ Tail(h \o q) = q
<1>1. h \o q \in Seq(Messages) /\ <<>> \o q = q
    BY ConcatProperties, ConcatEmptySeq
<1>2. h \o Append(q, m) = Append(h \o q, m)
  <2>1. <<m>> \in Seq(Messages)
    OBVIOUS
  <2> QED
    BY <1>1, <2>1, AppendIsConcat, ConcatAssociative
<1>3. q # <<>> => <<Head(q)>> \o Tail(q) = q
    OBVIOUS
<1>4. ASSUME Len(h) = 1 PROVE h \o q # <<>> /\ Head(h \o q) = Head(h) /\ Tail(h \o q) = q
  <2>1. h \o q # <<>> /\ Head(h \o q) = Head(h)
    BY <1>4
  <2>2. Len(q) \in Nat /\ Len(h \o q) = 1 + Len(q) /\ \A i \in 1 .. Len(q) : (h \o q)[i + 1] = q[i]
    <3>1. Len(q) \in Nat /\ Len(h \o q) = 1 + Len(q)
      <4>1. Len(h \o q) = Len(h) + Len(q)
        BY ConcatProperties, ZenonT(20)
      <4> QED
        BY <1>4, <4>1
    <3>2. ASSUME NEW i \in 1 .. Len(q) PROVE (h \o q)[i + 1] = q[i]
      <4>1. i + 1 \in 1 .. Len(h) + Len(q) /\ ~(i + 1 <= Len(h)) /\ (i + 1) - Len(h) = i
        BY <1>4, <3>1
      <4>2. (h \o q)[i + 1] = q[(i + 1) - Len(h)]
        BY <4>1, ConcatProperties, ZenonT(20)
      <4> QED
        BY <4>1, <4>2
    <3> QED
      BY <3>1, <3>2
  <2>3. /\ Tail(h \o q) \in Seq(Messages) /\ Len(Tail(h \o q)) = Len(q)
        /\ \A i \in 1 .. Len(q) : Tail(h \o q)[i] = (h \o q)[i + 1]
    BY <1>1, <2>1, <2>2, HeadTailProperties
  <2> QED
    BY <2>1, <2>2, <2>3, SeqEqual
<1> QED
    BY <1>1, <1>2, <1>3, <1>4

(* A message may join a line once its predecessors are in it or in D. *)
LEMMA OrderedAppend ==
    ASSUME NEW s \in Seq(Messages), NEW m \in Messages, NEW D, Ordered(s, D),
           \A x \in Messages : Precedes(x, m) => x \in D \cup Range(s)
    PROVE  Ordered(Append(s, m), D) /\ Range(Append(s, m)) = Range(s) \cup {m}
<1>1. /\ Len(s) \in Nat /\ DOMAIN s = 1 .. Len(s) /\ DOMAIN Append(s, m) = 1 .. Len(s) + 1
      /\ \A i \in 1 .. Len(s) : Append(s, m)[i] = s[i]
      /\ Append(s, m)[Len(s) + 1] = m
  <2>1. Len(s) \in Nat /\ DOMAIN s = 1 .. Len(s)
    BY LenProperties
  <2>2. /\ Append(s, m) \in Seq(Messages) /\ Len(Append(s, m)) = Len(s) + 1
        /\ \A i \in 1 .. Len(s) : Append(s, m)[i] = s[i]
        /\ Append(s, m)[Len(s) + 1] = m
    BY AppendProperties
  <2>3. DOMAIN Append(s, m) = 1 .. Len(s) + 1
    <3>1. PICK r : r = Append(s, m)
      OBVIOUS
    <3>2. r \in Seq(Messages) /\ Len(r) = Len(s) + 1
      BY <2>2, <3>1, Zenon
    <3>3. DOMAIN r = 1 .. Len(s) + 1
      BY ONLY <3>2, LenProperties
    <3> QED
      BY <3>1, <3>3, Zenon
  <2> QED
    BY <2>1, <2>2, <2>3, Zenon
<1> PICK r : r = Append(s, m)
    OBVIOUS
<1>2. ASSUME NEW i \in DOMAIN r, NEW x \in Messages, Precedes(x, r[i])
      PROVE  x \in D \/ \E j \in 1 .. i - 1 : r[j] = x
  <2>1. CASE i = Len(s) + 1
    <3>1. x \in D \/ \E j \in 1 .. Len(s) : s[j] = x
      BY <1>1, <1>2, <2>1 DEF Range
    <3> QED
      BY <1>1, <2>1, <3>1
  <2>2. CASE i \in 1 .. Len(s)
    <3>1. x \in D \/ \E j \in 1 .. i - 1 : s[j] = x
      BY <1>1, <1>2, <2>2 DEF Ordered
    <3> QED
      BY <1>1, <2>2, <3>1
  <2>3. DOMAIN r = 1 .. Len(s) + 1
    BY <1>1, Zenon
  <2>4. i = Len(s) + 1 \/ i \in 1 .. Len(s)
    BY ONLY <1>1, <2>3, i \in DOMAIN r
  <2> QED
    BY <2>1, <2>2, <2>4
<1>3. Range(r) = Range(s) \cup {m}
    BY <1>1 DEF Range
<1> QED
    BY <1>2, <1>3 DEF Ordered

(* What is in a sequence is its head or in its tail. *)
LEMMA RangeTail ==
    ASSUME NEW S, NEW s \in Seq(S), s # <<>>
    PROVE  Range(s) \subseteq {Head(s)} \cup Range(Tail(s))
<1>1. /\ Len(s) \in Nat /\ DOMAIN s = 1 .. Len(s) /\ DOMAIN Tail(s) = 1 .. Len(s) - 1
      /\ \A i \in 1 .. Len(s) - 1 : Tail(s)[i] = s[i + 1]
      /\ s[1] = Head(s)
    OBVIOUS
<1> SUFFICES ASSUME NEW i \in DOMAIN s, i # 1 PROVE s[i] \in Range(Tail(s))
    BY <1>1 DEF Range
<1>2. i - 1 \in DOMAIN Tail(s) /\ Tail(s)[i - 1] = s[i]
    BY <1>1
<1> QED
    BY <1>2 DEF Range

(* The first of a line may leave it once it is in D. *)
LEMMA OrderedTail ==
    ASSUME NEW s \in Seq(Messages), s # <<>>, NEW D, Ordered(s, D), Head(s) \in D
    PROVE  Ordered(Tail(s), D) /\ Range(s) \subseteq {Head(s)} \cup Range(Tail(s))
<1>1. /\ Len(s) \in Nat /\ DOMAIN s = 1 .. Len(s) /\ DOMAIN Tail(s) = 1 .. Len(s) - 1
      /\ \A i \in 1 .. Len(s) - 1 : Tail(s)[i] = s[i + 1]
      /\ s[1] = Head(s)
    OBVIOUS
<1> PICK r : r = Tail(s)
    OBVIOUS
<1>2. ASSUME NEW i \in DOMAIN r, NEW x \in Messages, Precedes(x, r[i])
      PROVE  x \in D \/ \E j \in 1 .. i - 1 : r[j] = x
  <2>1. i + 1 \in DOMAIN s /\ r[i] = s[i + 1] /\ i \in Nat
    BY <1>1
  <2>2. x \in D \/ \E j \in 1 .. i : s[j] = x
    BY <1>2, <2>1 DEF Ordered
  <2>3. ASSUME NEW j \in 1 .. i, s[j] = x PROVE x \in D \/ \E k \in 1 .. i - 1 : r[k] = x
    <3>1. CASE j = 1
      BY <1>1, <2>3, <3>1
    <3>2. CASE j # 1
      <4>1. j - 1 \in 1 .. i - 1 /\ r[j - 1] = s[j]
        BY <1>1, <2>1, <3>2
      <4> QED
        BY <2>3, <4>1
    <3> QED
      BY <3>1, <3>2
  <2> QED
    BY <2>2, <2>3
<1> QED
    BY <1>2, RangeTail DEF Ordered

=============================================================================
