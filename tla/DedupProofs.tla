----------------------------- MODULE DedupProofs -----------------------------
(***************************************************************************)
(* What the tracker remembers of a stream that is reordered and repeated   *)
(* at will, for every gap cap and every bound on the sequence numbers.     *)
(***************************************************************************)
EXTENDS DedupStream, TLAPS

(* A bucket without a tracker satisfies the invariant. *)
LEMMA InitIInv == Init => IInv
<1> SUFFICES ASSUME Init PROVE IInv
    OBVIOUS
<1> USE DEF Init
<1>1. TypeOK
  <2>1. known \in BOOLEAN
    OBVIOUS
  <2>2. /\ tracker \in Tracker
        /\ tracker.biggest \in Seqs
        /\ \A p \in tracker.pending : 0 < p /\ p < tracker.biggest
    BY MaxSeqAssumption DEF Tracker, FreshTracker, Seqs
  <2> QED
    BY <2>1, <2>2 DEF TypeOK
<1>2. NeverForgets
    BY DEF NeverForgets
<1>3. ExactAboveZero
    BY MaxSeqAssumption DEF ExactAboveZero, IsDuplicate, FreshTracker, Seqs
<1> QED
    BY <1>1, <1>2, <1>3 DEF IInv

(* No delivery, fresh or duplicate, breaks it. *)
LEMMA NextIInv == IInv /\ [Next]_vars => IInv'
<1> SUFFICES ASSUME IInv, [Next]_vars PROVE IInv'
    OBVIOUS
<1> USE DEF IInv
<1>1. CASE UNCHANGED vars
    BY <1>1 DEF vars, TypeOK, NeverForgets, ClassifiedDone, ExactAboveZero, IsDuplicate
<1>2. ASSUME NEW seq \in Seqs, Drop(seq) PROVE IInv'
    BY <1>2 DEF Drop, TypeOK, NeverForgets, ClassifiedDone, ExactAboveZero, IsDuplicate
<1>3. ASSUME NEW seq \in Seqs, MarkDone(seq) PROVE IInv'
  <2>0. seq \in Nat /\ tracker \in Tracker /\ \A x \in Seqs : x \in Nat
    BY MaxSeqAssumption DEF Seqs, TypeOK
  <2>1. TypeOK'
    <3>1. tracker'.biggest \in Seqs
      BY <1>3, <2>0 DEF MarkDone, TypeOK, Observe, Tracker
    <3>2. tracker' \in Tracker
      BY <1>3, <2>0, MaxGapAssumption DEF MarkDone, Observe, Tracker
    <3>3. \A p \in tracker'.pending : 0 < p /\ p < tracker'.biggest
      BY <1>3, <2>0, MaxGapAssumption DEF MarkDone, TypeOK, Observe, Tracker
    <3>4. known' \in BOOLEAN /\ processed' \subseteq Seqs /\ dropped' \subseteq Seqs
      BY <1>3 DEF MarkDone, TypeOK
    <3>5. skipped' \subseteq Seqs
      <4>1. tracker.biggest \in Nat /\ skipped \subseteq Seqs
        BY <2>0 DEF Tracker, TypeOK
      <4>2. (tracker.biggest + 1) .. (seq - 1) \subseteq Seqs
        BY <2>0, <4>1, MaxSeqAssumption DEF Seqs
      <4> QED
        BY <1>3, <4>1, <4>2 DEF MarkDone
    <3> QED
      BY <3>1, <3>2, <3>3, <3>4, <3>5 DEF TypeOK
  <2>2. NeverForgets'
    <3> SUFFICES ASSUME NEW x \in processed' PROVE ClassifiedDone(x)'
      BY DEF NeverForgets
    <3>1. CASE x = seq
      BY <1>3, <2>0, <3>1, MaxGapAssumption
      DEF MarkDone, TypeOK, ClassifiedDone, Observe, Tracker, IsDuplicate
    <3>2. CASE x # seq
      <4>1. x \in processed /\ x \in Nat /\ IsDuplicate(tracker, x)
        BY <1>3, <2>0, <3>2 DEF MarkDone, NeverForgets, ClassifiedDone, TypeOK
      <4> QED
        BY <1>3, <2>0, <4>1, MaxGapAssumption
        DEF MarkDone, ClassifiedDone, Observe, Tracker, IsDuplicate
    <3> QED
      BY <3>1, <3>2
  <2>3. ExactAboveZero'
    <3> SUFFICES ASSUME NEW x \in Seqs \ {0}, x \notin skipped'
                 PROVE  IsDuplicate(tracker', x) <=> x \in processed'
      BY DEF ExactAboveZero, Seqs
    <3>1. CASE x = seq
      BY <1>3, <2>0, <3>1, MaxGapAssumption DEF MarkDone, TypeOK, Observe, Tracker, IsDuplicate
    <3>2. CASE x # seq
      <4>1. /\ x \notin skipped
            /\ seq - tracker.biggest - 1 > MaxGap => x \notin (tracker.biggest + 1) .. (seq - 1)
        BY <1>3 DEF MarkDone
      <4>2. IsDuplicate(tracker', x) <=> IsDuplicate(tracker, x)
        BY <1>3, <2>0, <3>2, <4>1, MaxGapAssumption DEF MarkDone, Observe, Tracker, IsDuplicate
      <4> QED
        BY <1>3, <3>2, <4>1, <4>2 DEF MarkDone, ExactAboveZero
    <3> QED
      BY <3>1, <3>2
  <2> QED
    BY <2>1, <2>2, <2>3
<1> QED
    BY <1>1, <1>2, <1>3 DEF Next

(* Type correctness of the tracker and of the history of its stream. *)
THEOREM TrackerTypeCorrect == Spec => []TypeOK
<1>1. IInv => TypeOK
    BY DEF IInv
<1> QED
    BY InitIInv, NextIInv, <1>1, PTL DEF Spec

(* A number once processed is recognised ever after, whatever the order,   *)
(* the duplicates and the gaps of the stream.                              *)
THEOREM TrackerNeverForgets == Spec => []NeverForgets
<1>1. IInv => NeverForgets
    BY DEF IInv
<1> QED
    BY InitIInv, NextIInv, <1>1, PTL DEF Spec

(* Above number 0 the tracker is exact but for the numbers jumped over by  *)
(* a gap beyond the cap.                                                   *)
THEOREM TrackerExactAboveZero == Spec => []ExactAboveZero
<1>1. IInv => ExactAboveZero
    BY DEF IInv
<1> QED
    BY InitIInv, NextIInv, <1>1, PTL DEF Spec

=============================================================================
