---------------------------- MODULE ResultDelivery --------------------------
(***************************************************************************)
(* What the system promises a client: each line of the answer to its files *)
(* once, in any order, and no end of the session before the last; or the   *)
(* client leaves.                                                          *)
(***************************************************************************)
EXTENDS Naturals, Sequences

VARIABLES answer, got, status

Init == got = <<>> /\ status = "open"

Delivers ==
    /\ status = "open"
    /\ \E line \in answer : (\A i \in DOMAIN got : got[i] # line) /\ got' = Append(got, line)
    /\ UNCHANGED <<answer, status>>

Ends ==
    /\ status = "open" /\ status' = "complete"
    /\ \A line \in answer : \E i \in DOMAIN got : got[i] = line
    /\ UNCHANGED <<answer, got>>

Leaves == status = "open" /\ status' = "left" /\ UNCHANGED <<answer, got>>

Spec == Init /\ [][Delivers \/ Ends \/ Leaves]_<<answer, got, status>>

=============================================================================
