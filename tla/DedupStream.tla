----------------------------- MODULE DedupStream -----------------------------
(***************************************************************************)
(* One bucket of the Inbox fed by an unreliable stream: the sequence       *)
(* numbers 0 .. MaxSeq of one sender arrive in any order and any number of *)
(* times.  A number the bucket classifies DONE is acknowledged and         *)
(* dropped; any other is processed and marked done.                        *)
(***************************************************************************)
EXTENDS DedupTracker, Integers

CONSTANT MaxSeq    \* bound: the largest sequence number the sender stamps

ASSUME MaxSeqAssumption == MaxSeq \in Nat

VARIABLES
    known,      \* whether the bucket has a tracker yet (the dict entry exists)
    tracker,    \* its DeduplicationTracker
    processed,  \* history: numbers that were processed
    dropped,    \* history: numbers acknowledged as duplicates
    skipped     \* history: numbers jumped over by a gap beyond the cap

vars == <<known, tracker, processed, dropped, skipped>>

Seqs == 0 .. MaxSeq

Init == /\ known = FALSE
        /\ tracker = FreshTracker
        /\ processed = {}
        /\ dropped = {}
        /\ skipped = {}

(* Inbox.classify: a bucket without a tracker knows no duplicate. *)
ClassifiedDone(seq) == known /\ IsDuplicate(tracker, seq)

Drop(seq) == /\ ClassifiedDone(seq)
             /\ dropped' = dropped \cup {seq}
             /\ UNCHANGED <<known, tracker, processed, skipped>>

(* Inbox.mark_done, reached only by a number that was not DONE. *)
MarkDone(seq) == /\ ~ClassifiedDone(seq)
                 /\ known' = TRUE
                 /\ tracker' = Observe(tracker, seq)
                 /\ processed' = processed \cup {seq}
                 /\ skipped' = IF seq - tracker.biggest - 1 > MaxGap
                               THEN skipped \cup ((tracker.biggest + 1) .. (seq - 1))
                               ELSE skipped
                 /\ UNCHANGED dropped

Next == \E seq \in Seqs : Drop(seq) \/ MarkDone(seq)

Spec == Init /\ [][Next]_vars

-----------------------------------------------------------------------------
(* The fields have their types and pending numbers lie below biggest.      *)
TypeOK == /\ known \in BOOLEAN
          /\ tracker \in Tracker
          /\ processed \subseteq Seqs
          /\ dropped \subseteq Seqs /\ skipped \subseteq Seqs
          /\ tracker.biggest \in Seqs
          /\ \A p \in tracker.pending : 0 < p /\ p < tracker.biggest

(* Whatever the order, the repetitions and the gaps, a number that was     *)
(* processed is a duplicate ever after: the bounded tracker that replaces  *)
(* the set of finished ids never lets an input be processed again.         *)
NeverForgets == \A seq \in processed : ClassifiedDone(seq)

(* Above 0 the tracker is exact but for the numbers a gap beyond the cap   *)
(* jumped over: it takes a number for a duplicate iff it was processed, so *)
(* a redelivery is dropped and a late first delivery is not.  Number 0 is  *)
(* the exception: biggest starts at 0, so a first observation above 0      *)
(* never makes 0 pending and 0 is then taken for a duplicate (TwoStage).   *)
ExactAboveZero ==
    \A seq \in Seqs \ {0} :
        seq \notin skipped => (IsDuplicate(tracker, seq) <=> seq \in processed)

(* The inductive invariant behind the two properties.                      *)
IInv == /\ TypeOK
        /\ NeverForgets
        /\ ExactAboveZero

=============================================================================
