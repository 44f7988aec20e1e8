----------------------------- MODULE ExactlyOnce -----------------------------
(***************************************************************************)
(* What a durable worker promises its neighbours: an input is committed    *)
(* once and for all; only a committed input has outputs, each with one id  *)
(* and one body for ever; an input is acknowledged once it is committed    *)
(* and all its outputs are delivered.                                      *)
(***************************************************************************)
EXTENDS Naturals

CONSTANTS Messages, Outputs, Fanout

VARIABLES committed, delivered, acked

vars == <<committed, delivered, acked>>

Init == committed = {} /\ delivered = {} /\ acked = {}

Commit(m) == /\ m \notin committed
             /\ committed' = committed \cup {m}
             /\ UNCHANGED <<delivered, acked>>

SameOutput(e, f) == e.seq = f.seq \/ (e.input = f.input /\ e.index = f.index)

Deliver(e) == /\ e \in Outputs /\ e.input \in committed
              /\ \A f \in delivered : SameOutput(e, f) => e = f
              /\ delivered' = delivered \cup {e}
              /\ UNCHANGED <<committed, acked>>

AllDelivered(m) ==
    \A i \in 1 .. Fanout[m.kind] : \E e \in delivered : e.input = m /\ e.index = i

Ack(m) == /\ m \in committed /\ AllDelivered(m)
          /\ acked' = acked \cup {m}
          /\ UNCHANGED <<committed, delivered>>

Next == \/ \E m \in Messages : Commit(m) \/ Ack(m)
        \/ \E e \in (delivered' \ delivered) : Deliver(e)

Spec == Init /\ [][Next]_vars

=============================================================================
