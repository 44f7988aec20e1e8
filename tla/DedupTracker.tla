---------------------------- MODULE DedupTracker ----------------------------
(***************************************************************************)
(* DeduplicationTracker (common/fault_tolerance/inbox): the bounded memory *)
(* of which sequence numbers of one (client, kind, sender) bucket were     *)
(* finished.  A tracker is the pair the class keeps: the highest seq       *)
(* observed and the set of the gaps below it still expected.               *)
(***************************************************************************)
EXTENDS Naturals

CONSTANT MaxGap    \* _MAX_SEQUENTIAL_GAP: the largest gap observe() fills

ASSUME MaxGapAssumption == MaxGap \in Nat

Tracker == [biggest : Nat, pending : SUBSET Nat]

FreshTracker == [biggest |-> 0, pending |-> {}]

IsDuplicate(tracker, seq) ==
    seq <= tracker.biggest /\ seq \notin tracker.pending

(* Mutant: range(biggest + 1, seq + 1). *)
ObserveSelfPending(tracker, seq) ==
    IF seq > tracker.biggest
    THEN [biggest |-> seq,
          pending |-> IF seq - tracker.biggest - 1 <= MaxGap
                      THEN tracker.pending \cup ((tracker.biggest + 1) .. seq)
                      ELSE tracker.pending]
    ELSE [tracker EXCEPT !.pending = @ \ {seq}]

(* Mutant: only the highest seq, no pending gaps. *)
ObserveHighest(tracker, seq) ==
    IF seq > tracker.biggest THEN [tracker EXCEPT !.biggest = seq] ELSE tracker

(* seq > biggest: the numbers skipped become pending, unless they are more *)
(* than MaxGap, in which case they are forgotten.  Otherwise a pending     *)
(* number has arrived.                                                     *)
Observe(tracker, seq) ==
    IF seq > tracker.biggest
    THEN [biggest |-> seq,
          pending |-> IF seq - tracker.biggest - 1 <= MaxGap
                      THEN tracker.pending \cup ((tracker.biggest + 1) .. (seq - 1))
                      ELSE tracker.pending]
    ELSE [tracker EXCEPT !.pending = @ \ {seq}]

=============================================================================
