------------------------------ MODULE TwoStage ------------------------------
(***************************************************************************)
(* A durable worker and the inbox of the worker it feeds.  The broker      *)
(* keeps the order in which the entries were published; the consumer sees  *)
(* the producer as one bucket (client, kind, sender) of its Inbox.         *)
(***************************************************************************)
EXTENDS DurableWorker

VARIABLES
    channel,    \* entries published and not yet consumed, oldest first
    known,      \* whether the consumer's bucket has a tracker
    tracker,    \* the consumer's DeduplicationTracker of the bucket
    accepted,   \* entries the consumer applied, in order
    discarded   \* history: entries acknowledged as duplicates

consumer == <<known, tracker, accepted, discarded>>
allVars == <<vars, channel, consumer>>

StageInit == /\ Init
             /\ channel = <<>>
             /\ known = FALSE /\ tracker = FreshTracker
             /\ accepted = <<>> /\ discarded = {}

Send(e) == channel' = Append(channel, e) /\ UNCHANGED consumer

Produces == \/ \E t \in Threads : Publish(t) /\ Send(Head(todo[t]))
            \/ \E e \in pending : RepublishEntry(e) /\ Send(e)

Works == /\ \/ \E m \in Messages : Produce(m) \/ ProduceAgain(m)
            \/ \E t \in Threads : \/ Handle(t) \/ PublishFails(t)
                                  \/ CommitDone(t) \/ Snapshot(t) \/ Ack(t)
            \/ Crash \/ Restart \/ Replay \/ ReplayEnds \/ RecoveryEnds
         /\ UNCHANGED <<channel, consumer>>

(* The consumer's handle() and commit_done(), which never crash here. *)
Discard ==
    /\ channel # <<>> /\ known /\ IsDuplicate(tracker, Head(channel).seq)
    /\ discarded' = discarded \cup {Head(channel)}
    /\ channel' = Tail(channel)
    /\ UNCHANGED <<vars, known, tracker, accepted>>

(* Mutant: the inbox is not told that the entry is done. *)
AcceptUnmarked ==
    /\ channel # <<>> /\ ~(known /\ IsDuplicate(tracker, Head(channel).seq))
    /\ accepted' = Append(accepted, Head(channel))
    /\ channel' = Tail(channel)
    /\ UNCHANGED <<vars, known, tracker, discarded>>

Accept ==
    /\ channel # <<>> /\ ~(known /\ IsDuplicate(tracker, Head(channel).seq))
    /\ known' = TRUE
    /\ tracker' = Observe(tracker, Head(channel).seq)
    /\ accepted' = Append(accepted, Head(channel))
    /\ channel' = Tail(channel)
    /\ UNCHANGED <<vars, discarded>>

StageNext == Produces \/ Works \/ Discard \/ Accept

StageSpec == StageInit /\ [][StageNext]_allVars

-----------------------------------------------------------------------------
(* "No message is lost": the consumer drops an output as a duplicate only  *)
(* if it accepted that very output before.                                 *)
DropsOnlySeen ==
    \A e \in discarded : \E i \in DOMAIN accepted : accepted[i] = e

(* End to end over a crashing producer, each output of each input reaches  *)
(* the consumer's state at most once, and in the order of the producer's   *)
(* state changes.                                                          *)
ConsumedOnceInOrder ==
    \A i, j \in DOMAIN accepted : i < j => accepted[i].seq < accepted[j].seq

=============================================================================
