---------------------------- MODULE OutputLemmas ----------------------------
(***************************************************************************)
(* The invariant behind the ids of a durable worker's outputs, and the     *)
(* steps that change its log or its snapshot.                              *)
(*                                                                         *)
(* The argument is about the memory that a recovery from the present files *)
(* ends with: every entry that is out, or may still go out, has a number   *)
(* below its next one and an input it does not call NEW.  An invariant     *)
(* about a replay would need induction over the log; instead the memories  *)
(* it goes through are quantified, and each step says how they change.     *)
(***************************************************************************)
EXTENDS DurableProofs

(* Entries that are out, on their way, or in the outbox of memory mm. *)
Known(mm) ==
    published \cup pending \cup AllPending(mm) \cup UNION {Range(todo[t]) : t \in Threads}

Stable(S) ==
    \A e, f \in S : (e.seq = f.seq \/ (e.input = f.input /\ e.index = f.index)) => e = f

(* Memory mm has what the record says: replaying it would change nothing. *)
Reflects(mm, r) ==
    IF r.type = "INPUT_APPLIED" THEN Classify(mm, r.input) # "NEW"
    ELSE Classify(mm, r.input) = "DONE"

Consistent(mm) ==
    /\ mm.next \in Nat /\ Known(mm) \subseteq Entries
    /\ \A i \in DOMAIN wal : Reflects(mm, wal[i])
    /\ \A e \in Known(mm) : e.seq < mm.next /\ Classify(mm, e.input) # "NEW"
    /\ Stable(Known(mm))

(* h[i] is the memory after i records, and the worker is on its way.       *)
IsReplay(h) ==
    /\ h[0] = Loaded(files)
    /\ \A i \in 1 .. Len(wal) : h[i] = ApplyRecord(h[i - 1], wal[i])

Recovers(h, last) ==
    /\ mode = "replay" => mem = h[pos - 1]
    /\ mode \in {"republish", "up"} => mem = last

Recoverable ==
    \E h, last : /\ last = h[Len(wal)]
                 /\ IsReplay(h) /\ Recovers(h, last) /\ Consistent(last)

(* A thread gets messages of its own kind only; what it publishes belongs  *)
(* to an input that is APPLIED; a snapshot equals the memory until the log *)
(* is rotated.                                                             *)
OwnKind(t) == {m \in Messages : m.kind = t}
Streams == \A t \in Threads : queue[t] \in Seq(OwnKind(t)) /\ held[t] \in Seq(OwnKind(t))
Holding == \A t \in Threads : at[t] = "publish" => Head(held[t]) \in mem.applied
Saved ==
    \A t \in Threads : /\ at[t] \in {"shift", "install"} => files["tmp"] = mem
                       /\ at[t] = "rotate" => files["current"] = mem

OInv == IInv /\ Streams /\ Holding /\ Saved /\ Recoverable

-----------------------------------------------------------------------------
(* Applying a NEW input turns no other input NEW, nor a DONE one into      *)
(* anything else.                                                          *)
LEMMA ApplyInputKeeps ==
    ASSUME NEW mm, NEW m \in Messages, Classify(mm, m) = "NEW", NEW outs
    PROVE  LET u == ApplyInput(mm, m, outs)
           IN  /\ Classify(u, m) # "NEW"
               /\ \A r : Reflects(mm, r) => Reflects(u, r)
               /\ \A x : Classify(mm, x) # "NEW" => Classify(u, x) # "NEW"
<1> DEFINE u == ApplyInput(mm, m, outs)
<1>1. u.applied = mm.applied \cup {m} /\ u.done = mm.done
    BY DEF ApplyInput
<1>2. \A x : IsDone(u, x) <=> IsDone(mm, x)
    BY <1>1 DEF IsDone
<1> HIDE DEF u
<1>3. \A x : Classify(mm, x) # "NEW" => Classify(u, x) # "NEW"
    BY <1>1, <1>2 DEF Classify
<1>4. \A x : Classify(mm, x) = "DONE" => Classify(u, x) = "DONE"
    BY <1>1, <1>2 DEF Classify
<1>5. Classify(u, m) # "NEW"
    BY <1>1 DEF Classify
<1>6. \A r : Reflects(mm, r) => Reflects(u, r)
    BY <1>3, <1>4 DEF Reflects
<1> QED
    BY <1>3, <1>5, <1>6 DEF u

(* Marking an input done turns no input NEW, and the input is DONE. *)
LEMMA MarkDoneKeeps ==
    ASSUME NEW mm, GoodMem(mm), NEW m \in Messages
    PROVE  LET u == MarkDone(mm, m)
           IN  /\ Classify(u, m) = "DONE"
               /\ \A r \in Records : Reflects(mm, r) => Reflects(u, r)
               /\ \A x \in Messages : Classify(mm, x) # "NEW" => Classify(u, x) # "NEW"
<1> DEFINE u == MarkDone(mm, m)
<1>1. u.applied = mm.applied \ {m}
    BY DEF MarkDone
<1>2. IsDone(u, m) /\ \A x \in Messages : IsDone(mm, x) => IsDone(u, x)
    BY MarkDoneGood
<1> HIDE DEF u
<1>3. \A x \in Messages : Classify(mm, x) # "NEW" => Classify(u, x) # "NEW"
    BY <1>1, <1>2 DEF Classify
<1>4. \A x \in Messages : Classify(mm, x) = "DONE" => Classify(u, x) = "DONE"
    BY <1>1, <1>2 DEF Classify
<1>5. Classify(u, m) = "DONE"
    BY <1>1, <1>2 DEF Classify
<1>6. \A r \in Records : Reflects(mm, r) => Reflects(u, r)
    BY <1>3, <1>4 DEF Reflects, Records
<1> QED
    BY <1>3, <1>5, <1>6 DEF u

(* Replay of a record that the memory reflects does nothing. *)
LEMMA ReflectsSkips ==
    ASSUME NEW mm, NEW r \in Records, Reflects(mm, r)
    PROVE  ApplyRecord(mm, r) = mm
<1>1. ~Reapplies(mm, r) /\ ~(r.type = "INPUT_DONE" /\ Classify(mm, r.input) # "DONE")
    BY DEF Reflects, Reapplies, Records
<1> QED
    BY <1>1 DEF ApplyRecord

(* The log says what the live memory did. *)
LEMMA LoggedApplies ==
    ASSUME NEW mm, NEW m \in Messages
    PROVE  /\ \A outs : Classify(mm, m) = "NEW" =>
                 ApplyRecord(mm, Applied(m, outs)) = ApplyInput(mm, m, outs)
           /\ m \in mm.applied => ApplyRecord(mm, Done(m)) = MarkDone(mm, m)
<1>1. ASSUME NEW outs, Classify(mm, m) = "NEW"
      PROVE  ApplyRecord(mm, Applied(m, outs)) = ApplyInput(mm, m, outs)
  <2>1. Reapplies(mm, Applied(m, outs))
    BY <1>1 DEF Reapplies, Applied
  <2> QED
    BY <2>1 DEF ApplyRecord, Applied
<1>2. ASSUME m \in mm.applied PROVE ApplyRecord(mm, Done(m)) = MarkDone(mm, m)
  <2>1. ~Reapplies(mm, Done(m)) /\ Done(m).type = "INPUT_DONE" /\ Done(m).input = m
    BY DEF Reapplies, Done
  <2>2. Classify(mm, m) # "DONE"
    BY <1>2 DEF Classify
  <2> QED
    BY <2>1, <2>2 DEF ApplyRecord
<1> QED
    BY <1>1, <1>2

(* The outputs stamped on an input are numbered from next on, below the    *)
(* next that observe() leaves, and no two share a number or an index.      *)
LEMMA StampFresh ==
    ASSUME NEW mm, IsMemory(mm), NEW m \in Messages
    PROVE  LET outs == Stamp(mm, m)
               next == ObserveSeqs(mm.next, outs)
           IN  /\ next \in Nat /\ mm.next <= next
               /\ \A e \in Range(outs) : e.input = m /\ mm.next <= e.seq /\ e.seq < next
               /\ Range(outs) \subseteq Entries
               /\ Stable(Range(outs))
<1> DEFINE outs == Stamp(mm, m)
           n == Fanout[m.kind]
           next == ObserveSeqs(mm.next, outs)
<1>1. n \in Nat /\ mm.next \in Nat
    BY MessageFacts, ConstantsAssumption DEF IsMemory
<1>2. outs \in Seq(Entries)
    BY StampType
<1>3. DOMAIN outs = 1 .. n
    BY DEF Stamp
<1>4. \A i \in 1 .. n : outs[i].seq = mm.next + i - 1 /\ outs[i].input = m /\ outs[i].index = i
    BY DEF Stamp
<1>5. Range(outs) \subseteq Entries
    BY <1>2, <1>3, ElementOfSeq, LenProperties, ZenonT(30) DEF Range
<1> HIDE DEF outs, n
<1>6. Len(outs) = n
    BY <1>1, <1>2, <1>3, LenProperties
<1>7. next \in Nat /\ mm.next + n <= next
  <2>1. CASE n = 0
    <3>1. outs = <<>>
      BY <1>2, <1>6, <2>1, EmptySeq
    <3> QED
      BY <1>1, <2>1, <3>1 DEF ObserveSeqs
  <2>2. CASE n # 0
    <3>1. outs # <<>> /\ outs[Len(outs)].seq = mm.next + n - 1
      BY <1>1, <1>4, <1>6, <2>2, EmptySeq
    <3> QED
      BY <1>1, <2>2, <3>1 DEF ObserveSeqs
  <2> QED
    BY <2>1, <2>2
<1> HIDE DEF next
<1>8. \A e \in Range(outs) : \E i \in 1 .. n : e = outs[i]
    BY <1>3 DEF Range
<1>9. \A e \in Range(outs) : e.input = m /\ mm.next <= e.seq /\ e.seq < next
  <2> SUFFICES ASSUME NEW e \in Range(outs)
               PROVE  e.input = m /\ mm.next <= e.seq /\ e.seq < next
    OBVIOUS
  <2>1. PICK i \in 1 .. n : e = outs[i]
    BY <1>8
  <2> QED
    BY <1>1, <1>4, <1>7, <2>1
<1>10. Stable(Range(outs))
  <2> SUFFICES ASSUME NEW e \in Range(outs), NEW f \in Range(outs),
                      e.seq = f.seq \/ (e.input = f.input /\ e.index = f.index)
               PROVE  e = f
    BY DEF Stable
  <2>1. PICK i \in 1 .. n : e = outs[i]
    BY <1>8
  <2>2. PICK j \in 1 .. n : f = outs[j]
    BY <1>8
  <2>3. i = j
    BY <1>1, <1>4, <2>1, <2>2
  <2> QED
    BY <2>1, <2>2, <2>3
<1>11. mm.next <= next
    BY <1>1, <1>7
<1> QED
    BY <1>5, <1>7, <1>9, <1>10, <1>11 DEF next, outs

(* Fresh outputs clash with nothing known. *)
LEMMA StableUnion ==
    ASSUME NEW S \in SUBSET Entries, NEW T \in SUBSET Entries, Stable(S), Stable(T),
           NEW n \in Nat, NEW m,
           \A e \in S : e.seq < n /\ e.input # m,
           \A e \in T : n <= e.seq /\ e.input = m
    PROVE  Stable(S \cup T)
<1>1. \A e \in S, f \in T : e.seq # f.seq /\ e.input # f.input
    BY DEF Entries
<1> QED
    BY <1>1 DEF Stable

-----------------------------------------------------------------------------
(* A step that adds no entry and leaves log and snapshot as they are. *)
LEMMA KeepsRecoverable ==
    ASSUME NEW h, NEW last, last = h[Len(wal)], IsReplay(h), Consistent(last),
           wal' = wal, Loaded(files') = Loaded(files),
           Recovers(h, last)', Known(last)' \subseteq Known(last)
    PROVE  Recoverable'
<1>1. last = h[Len(wal')] /\ IsReplay(h)'
    BY DEF IsReplay
<1>2. Consistent(last)'
  <2>1. \A i \in DOMAIN wal' : Reflects(last, wal'[i])
    BY DEF Consistent
  <2> QED
    BY <2>1 DEF Consistent, Stable
<1> QED
    BY <1>1, <1>2 DEF Recoverable

(* An append adds one memory to the replay. *)
LEMMA AppendReplay ==
    ASSUME IInv, NEW h, NEW last, last = h[Len(wal)], IsReplay(h),
           NEW r \in Records, wal' = Append(wal, r), files' = files,
           NEW new, new = ApplyRecord(last, r)
    PROVE  \E g : new = g[Len(wal')] /\ IsReplay(g)'
<1> DEFINE n == Len(wal)
           g == [i \in 0 .. n + 1 |-> IF i = n + 1 THEN new ELSE h[i]]
<1>1. n \in Nat /\ Len(wal') = n + 1 /\ DOMAIN wal = 1 .. n
      /\ (\A i \in 1 .. n : wal'[i] = wal[i]) /\ wal'[n + 1] = r
    BY AppendCovers
<1>2. \A i \in 0 .. n : g[i] = h[i]
    BY <1>1
<1>3. g[n + 1] = new /\ g[0] = h[0] /\ g[n] = last
  <2>1. n + 1 \in 0 .. n + 1 /\ 0 \in 0 .. n /\ n \in 0 .. n
    BY <1>1
  <2>2. g[n + 1] = new
    BY <2>1
  <2> HIDE DEF g
  <2> QED
    BY <1>2, <2>1, <2>2
<1> PICK k : k = g
    BY ZenonT(20)
<1> HIDE DEF g
<1>4. k[0] = Loaded(files')
    BY <1>3 DEF IsReplay
<1>5. ASSUME NEW i \in 1 .. n + 1 PROVE k[i] = ApplyRecord(k[i - 1], wal'[i])
  <2>1. CASE i = n + 1
    BY <1>1, <1>3, <2>1
  <2>2. CASE i \in 1 .. n
    <3>1. i \in 0 .. n /\ i - 1 \in 0 .. n
      BY <1>1, <2>2
    <3> QED
      BY <1>1, <1>2, <2>2, <3>1 DEF IsReplay
  <2> QED
    BY <1>1, <2>1, <2>2
<1>6. IsReplay(k)'
    BY <1>1, <1>4, <1>5 DEF IsReplay
<1> QED
    BY <1>1, <1>3, <1>6

(* handle() of a NEW input: the record replays to the memory it leaves,    *)
(* and its outputs get numbers and an input that nothing known has.        *)
LEMMA HandleNewRecoverable ==
    ASSUME OInv, NEW t \in Threads, HandleNew(t)
    PROVE  Recoverable'
<1> DEFINE m == Head(queue[t])
           outs == Stamp(mem, m)
           r == Applied(m, outs)
<1>1. IInv /\ TypeOK /\ GoodMem(mem) /\ IsMemory(mem) /\ m \in Messages
    BY DeliverType DEF OInv, IInv, GoodMemories, GoodMem, HandleNew
<1>2. /\ Classify(mem, m) = "NEW" /\ wal' = Append(wal, r) /\ files' = files
      /\ mem' = ApplyInput(mem, m, outs) /\ mode = "up" /\ mode' = "up"
      /\ todo' = [todo EXCEPT ![t] = EntriesFor(mem', m)]
      /\ published' = published /\ pending' = pending
    BY DEF HandleNew, Deliver
<1>3. outs \in Seq(Entries) /\ r \in Records
    BY <1>1, StampType DEF Applied, Records
<1>4. PICK h, last : /\ last = h[Len(wal)] /\ IsReplay(h)
                     /\ Recovers(h, last) /\ Consistent(last)
    BY DEF OInv, Recoverable
<1>5. last = mem
    BY <1>2, <1>4 DEF Recovers
<1>6. PICK new : new = ApplyInput(mem, m, outs)
    OBVIOUS
<1>7. new = ApplyRecord(last, r)
    BY <1>1, <1>2, <1>5, <1>6, LoggedApplies
<1> HIDE DEF r
<1>8. PICK g : new = g[Len(wal')] /\ IsReplay(g)'
    BY <1>1, <1>2, <1>3, <1>4, <1>7, AppendReplay
<1>9. Recovers(g, new)'
    BY <1>2, <1>6 DEF Recovers
<1> HIDE DEF m, outs
<1>10. /\ new.next = ObserveSeqs(mem.next, outs)
       /\ new.outbox = [x \in DOMAIN mem.outbox \cup {m} |->
                           IF x = m THEN outs ELSE mem.outbox[x]]
    BY <1>6 DEF ApplyInput
<1>11. /\ new.next \in Nat /\ mem.next <= new.next /\ mem.next \in Nat
       /\ \A e \in Range(outs) : e.input = m /\ mem.next <= e.seq /\ e.seq < new.next
       /\ Range(outs) \subseteq Entries /\ Stable(Range(outs))
    BY <1>1, <1>10, StampFresh DEF outs, IsMemory
<1>12. AllPending(new) \subseteq AllPending(mem) \cup Range(outs)
    BY <1>10 DEF AllPending
<1>13. EntriesFor(new, m) = outs
    BY <1>10 DEF EntriesFor
<1>14. \A u \in Threads : todo'[u] = IF u = t THEN outs ELSE todo[u]
    BY <1>1, <1>2, <1>6, <1>13 DEF TypeOK
<1>15. Known(new)' \subseteq Known(mem) \cup Range(outs)
    BY <1>2, <1>12, <1>14 DEF Known
<1>16. /\ Known(mem) \subseteq Entries /\ Stable(Known(mem))
       /\ \A e \in Known(mem) : e.seq < mem.next /\ Classify(mem, e.input) # "NEW"
       /\ \A i \in DOMAIN wal : Reflects(mem, wal[i])
    BY <1>4, <1>5 DEF Consistent
<1>17. /\ Classify(new, m) # "NEW"
       /\ \A x : Reflects(mem, x) => Reflects(new, x)
       /\ \A x : Classify(mem, x) # "NEW" => Classify(new, x) # "NEW"
    BY <1>1, <1>2, <1>6, ApplyInputKeeps DEF m, outs
<1>18. Stable(Known(mem) \cup Range(outs))
  <2>1. \A e \in Known(mem) : e.seq < mem.next /\ e.input # m
    BY <1>2, <1>16 DEF m
  <2> QED
    BY <1>11, <1>16, <2>1, StableUnion, ZenonT(20)
<1>19. Stable(Known(new))'
    BY <1>15, <1>18 DEF Stable
<1>20. \A e \in Known(new)' : e \in Entries /\ e.seq < new.next /\ Classify(new, e.input) # "NEW"
  <2>1. \A e \in Known(mem) : e.seq < new.next
    BY <1>11, <1>16 DEF Entries
  <2> QED
    BY <1>11, <1>15, <1>16, <1>17, <2>1
<1>21. \A i \in DOMAIN wal' : Reflects(new, wal'[i])
  <2>1. Reflects(new, r)
    BY <1>17 DEF Reflects, r, Applied
  <2>2. \A i \in DOMAIN wal' : i \in DOMAIN wal \/ i = Len(wal) + 1
    <3>1. DOMAIN wal' = 1 .. Len(wal) + 1 /\ DOMAIN wal = 1 .. Len(wal) /\ Len(wal) \in Nat
      BY <1>1, <1>2, <1>3, AppendCovers
    <3> QED
      BY <3>1
  <2> QED
    BY <1>1, <1>2, <1>3, <1>16, <1>17, <2>1, <2>2, AppendCovers
<1>22. Consistent(new)'
    BY <1>11, <1>19, <1>20, <1>21, SMTT(20) DEF Consistent
<1> QED
    BY <1>8, <1>9, <1>22 DEF Recoverable

(* commit_done() of an APPLIED input: the record replays to the memory it  *)
(* leaves, and outputs only leave the outbox.                              *)
LEMMA CommitDoneRecoverable ==
    ASSUME OInv, NEW t \in Threads, CommitDone(t)
    PROVE  Recoverable'
<1> DEFINE m == Head(held[t])
           r == Done(m)
<1>1. IInv /\ TypeOK /\ GoodMem(mem) /\ m \in mem.applied /\ m \in Messages
  <2>1. IInv /\ TypeOK /\ GoodMem(mem)
    BY DEF OInv, IInv, GoodMemories
  <2>2. m \in mem.applied
    BY DEF OInv, Holding, CommitDone
  <2>3. mem.applied \subseteq Messages
    BY <2>1 DEF GoodMem, IsMemory
  <2> QED
    BY <2>1, <2>2, <2>3
<1>2. /\ wal' = Append(wal, r) /\ files' = files /\ mem' = MarkDone(mem, m)
      /\ mode = "up" /\ mode' = "up"
      /\ UNCHANGED <<published, pending, todo>>
    BY DEF CommitDone
<1>3. r \in Records
    BY <1>1, DoneIsRecord
<1>4. PICK h, last : /\ last = h[Len(wal)] /\ IsReplay(h)
                     /\ Recovers(h, last) /\ Consistent(last)
    BY DEF OInv, Recoverable
<1>5. last = mem
    BY <1>2, <1>4 DEF Recovers
<1>6. PICK new : new = MarkDone(mem, m)
    OBVIOUS
<1>7. new = ApplyRecord(last, r)
    BY <1>1, <1>5, <1>6, LoggedApplies
<1> HIDE DEF r
<1>8. PICK g : new = g[Len(wal')] /\ IsReplay(g)'
    BY <1>1, <1>2, <1>3, <1>4, <1>7, AppendReplay
<1>9. Recovers(g, new)'
    BY <1>2, <1>6 DEF Recovers
<1> HIDE DEF m
<1>10. new.next = mem.next /\ new.outbox = [x \in DOMAIN mem.outbox \ {m} |-> mem.outbox[x]]
    BY <1>6 DEF MarkDone
<1>11. Known(new)' \subseteq Known(mem)
  <2>1. AllPending(new) \subseteq AllPending(mem)
    BY <1>10 DEF AllPending
  <2> QED
    BY <1>2, <2>1 DEF Known
<1>12. /\ Classify(new, m) = "DONE"
       /\ \A x \in Records : Reflects(mem, x) => Reflects(new, x)
       /\ \A x \in Messages : Classify(mem, x) # "NEW" => Classify(new, x) # "NEW"
    BY <1>1, <1>6, MarkDoneKeeps
<1>13. \A i \in DOMAIN wal' : Reflects(new, wal'[i])
  <2>1. Reflects(new, r)
    BY <1>12 DEF Reflects, r, Done
  <2>2. \A i \in DOMAIN wal : wal[i] \in Records /\ Reflects(mem, wal[i])
    BY <1>1, <1>4, <1>5, ElementOfSeq, LenProperties DEF Consistent, TypeOK
  <2>3. \A i \in DOMAIN wal' : i \in DOMAIN wal \/ i = Len(wal) + 1
    <3>1. DOMAIN wal' = 1 .. Len(wal) + 1 /\ DOMAIN wal = 1 .. Len(wal) /\ Len(wal) \in Nat
      BY <1>1, <1>2, <1>3, AppendCovers
    <3> QED
      BY <3>1
  <2> QED
    BY <1>1, <1>2, <1>3, <1>12, <2>1, <2>2, <2>3, AppendCovers
<1>14. Consistent(new)'
  <2>1. \A e \in Entries : e.input \in Messages
    BY DEF Entries
  <2> QED
    BY <1>4, <1>5, <1>10, <1>11, <1>12, <1>13, <2>1 DEF Consistent, Stable
<1> QED
    BY <1>8, <1>9, <1>14 DEF Recoverable

(* Once the snapshot of the memory is current, the log replays to nothing  *)
(* new, so that it makes no difference whether it was rotated.             *)
LEMMA SnapshotRecoverable ==
    ASSUME OInv, NEW t \in Threads, InstallTmp(t) \/ Rotate(t)
    PROVE  Recoverable'
<1>1. /\ mode = "up" /\ mode' = "up" /\ mem' = mem
      /\ UNCHANGED <<published, pending, todo>>
    BY DEF InstallTmp, Rotate, SnapshotStep
<1>2. wal \in Seq(Records) /\ Len(wal) \in Nat /\ DOMAIN wal = 1 .. Len(wal)
    BY LenProperties DEF OInv, IInv, TypeOK
<1>3. wal' = wal \/ wal' = <<>>
    BY DEF InstallTmp, Rotate
<1>4. Loaded(files') = mem
  <2>1. CASE InstallTmp(t)
    BY <2>1 DEF InstallTmp, SnapshotStep, Replace, Loaded, OInv, IInv, SnapshotLocked, Saved
  <2>2. CASE Rotate(t)
    BY <2>2 DEF Rotate, SnapshotStep, Loaded, OInv, IInv, SnapshotLocked, Saved
  <2> QED
    BY <2>1, <2>2
<1>5. PICK h, last : /\ last = h[Len(wal)] /\ IsReplay(h)
                     /\ Recovers(h, last) /\ Consistent(last)
    BY DEF OInv, Recoverable
<1>6. last = mem
    BY <1>1, <1>5 DEF Recovers
<1>7. \A i \in DOMAIN wal : ApplyRecord(last, wal[i]) = last
  <2>1. \A i \in DOMAIN wal : wal[i] \in Records /\ Reflects(last, wal[i])
    BY <1>2, <1>5, ElementOfSeq DEF Consistent
  <2> QED
    BY <2>1, ReflectsSkips
<1>8. PICK g : g = [i \in 0 .. Len(wal) |-> last]
    BY ZenonT(20)
<1>9. /\ Len(wal') \in 0 .. Len(wal) /\ DOMAIN wal' = 1 .. Len(wal')
      /\ \A i \in DOMAIN wal' : i \in DOMAIN wal /\ wal'[i] = wal[i]
    BY <1>2, <1>3
<1>10. \A i \in 0 .. Len(wal) : g[i] = last
    BY <1>8
<1>11. IsReplay(g)'
  <2>1. g[0] = Loaded(files')
    BY <1>2, <1>4, <1>6, <1>10
  <2>2. ASSUME NEW i \in 1 .. Len(wal') PROVE g[i] = ApplyRecord(g[i - 1], wal'[i])
    <3>1. i \in DOMAIN wal /\ i \in 0 .. Len(wal) /\ i - 1 \in 0 .. Len(wal)
      BY <1>2, <1>9
    <3> QED
      BY <1>7, <1>9, <1>10, <3>1
  <2> QED
    BY <2>1, <2>2 DEF IsReplay
<1>12. Known(last)' = Known(last)
    BY <1>1 DEF Known
<1>13. Consistent(last)'
    BY <1>5, <1>9, <1>12 DEF Consistent
<1>14. last = g[Len(wal')] /\ Recovers(g, last)'
    BY <1>1, <1>6, <1>9, <1>10 DEF Recovers
<1> QED
    BY <1>11, <1>13, <1>14 DEF Recoverable

-----------------------------------------------------------------------------
(* Messages of one bucket differ in their seq. *)
LEMMA SameMessage ==
    ASSUME NEW x \in Messages, NEW m \in Messages, Bucket(x) = Bucket(m), x.seq = m.seq
    PROVE  x = m
BY DEF Messages, Bucket

(* mark_done of an input whose predecessors are DONE makes that input DONE *)
(* and no other, and leaves the tracker without a gap.                     *)
LEMMA MarkDoneExact ==
    ASSUME NEW mm, GoodMem(mm), \A b \in DOMAIN mm.done : mm.done[b].pending = {},
           NEW m \in Messages, \A x \in Messages : Precedes(x, m) => IsDone(mm, x)
    PROVE  LET u == MarkDone(mm, m)
           IN  /\ \A b \in DOMAIN u.done : u.done[b].pending = {}
               /\ \A x \in Messages : IsDone(u, x) => x = m \/ IsDone(mm, x)
<1> DEFINE u == MarkDone(mm, m)
           b == Bucket(m)
           tracker == TrackerOf(mm, b)
<1>1. mm.done \in [DOMAIN mm.done -> Tracker] /\ m.seq \in Nat
    BY MessageFacts DEF GoodMem, IsMemory
<1>2. tracker \in Tracker /\ tracker.pending = {} /\ tracker.biggest \in Nat
    BY <1>1 DEF TrackerOf, FreshTracker, Tracker
<1>3. m.seq # 0 => b \in DOMAIN mm.done /\ m.seq - 1 <= tracker.biggest
  <2> SUFFICES ASSUME m.seq # 0
               PROVE  b \in DOMAIN mm.done /\ m.seq - 1 <= tracker.biggest
    OBVIOUS
  <2>1. PICK x \in Messages : Bucket(x) = b /\ x.seq = m.seq - 1
    <3> DEFINE y == [kind |-> m.kind, sender |-> m.sender, seq |-> m.seq - 1]
    <3>1. y \in Messages
      BY <1>1, ConstantsAssumption DEF Messages
    <3>2. Bucket(y) = b /\ y.seq = m.seq - 1
      BY DEF Bucket
    <3> QED
      BY <3>1, <3>2
  <2>2. IsDone(mm, x)
    BY <1>1, <2>1 DEF Precedes
  <2> QED
    BY <2>1, <2>2 DEF IsDone, IsDuplicate, TrackerOf
<1> DEFINE v == Observe(tracker, m.seq)
<1>4. /\ v.pending = {}
      /\ v.biggest = IF m.seq > tracker.biggest THEN m.seq ELSE tracker.biggest
    BY <1>1, <1>2, <1>3, MaxGapAssumption DEF Observe, Tracker
<1>5. /\ DOMAIN u.done = DOMAIN mm.done \cup {b} /\ u.done[b] = v
      /\ \A c \in DOMAIN mm.done \ {b} : u.done[c] = mm.done[c]
    BY DEF MarkDone
<1> HIDE DEF u, v
<1>6. \A c \in DOMAIN u.done : u.done[c].pending = {}
    BY <1>4, <1>5
<1>7. ASSUME NEW x \in Messages, IsDone(u, x) PROVE x = m \/ IsDone(mm, x)
  <2>1. x.seq \in Nat
    BY MessageFacts
  <2>2. CASE Bucket(x) # b
    BY <1>5, <1>7, <2>2 DEF IsDone
  <2>3. CASE Bucket(x) = b
    <3>1. x.seq <= v.biggest
      BY <1>5, <1>7, <2>3 DEF IsDone, IsDuplicate
    <3>2. CASE x.seq = m.seq
      BY <2>3, <3>2, SameMessage
    <3>3. CASE x.seq # m.seq
      <4>1. b \in DOMAIN mm.done /\ x.seq <= tracker.biggest
        <5>1. CASE b \in DOMAIN mm.done
          BY <1>1, <1>2, <1>3, <1>4, <2>1, <3>1, <3>3, <5>1
        <5>2. CASE b \notin DOMAIN mm.done
          BY <1>1, <1>3, <1>4, <2>1, <3>1, <3>3, <5>2 DEF TrackerOf, FreshTracker
        <5> QED
          BY <5>1, <5>2
      <4> QED
        BY <1>2, <2>3, <4>1 DEF IsDone, IsDuplicate, TrackerOf
    <3> QED
      BY <3>2, <3>3
  <2> QED
    BY <2>2, <2>3
<1> QED
    BY <1>6, <1>7 DEF u

(* An input's outputs, as stamped, are all there. *)
LEMMA StampWhole ==
    ASSUME NEW mm, NEW m \in Messages
    PROVE  Whole(m, Range(Stamp(mm, m)))
<1> SUFFICES ASSUME NEW i \in 1 .. Fanout[m.kind]
             PROVE  \E e \in Range(Stamp(mm, m)) : e.input = m /\ e.index = i
    BY DEF Whole
<1>1. i \in DOMAIN Stamp(mm, m) /\ Stamp(mm, m)[i].input = m /\ Stamp(mm, m)[i].index = i
    BY DEF Stamp
<1> QED
    BY <1>1 DEF Range

(* More entries make an input no less whole. *)
LEMMA WholeGrows ==
    ASSUME NEW m, NEW S, NEW T, S \subseteq T, Whole(m, S)
    PROVE  Whole(m, T)
BY DEF Whole

=============================================================================
