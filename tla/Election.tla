------------------------------ MODULE Election ------------------------------
(***************************************************************************)
(* monitor/election and the main loop of monitor.py: the monitors elect a  *)
(* leader (Bully), the leader revives dead monitors.                       *)
(*                                                                         *)
(* A monitor has a main loop, a listener that serves one connection at a   *)
(* time in the order of arrival, and threads that run elections, of which  *)
(* the election lock lets one work.  Sending to a dead monitor fails at    *)
(* once; a live one may be too slow to answer (a timeout).                 *)
(***************************************************************************)
EXTENDS Integers, Sequences, FiniteSetsExt

CONSTANTS
    N,            \* monitor_count
    MaxEpoch,     \* MAX_EPOCH
    MaxCrashes,   \* bound: crashes
    MaxTimeouts   \* bound: timeouts while the others are alive and at work

ASSUME CountAssumption == N \in 1 .. 255
ASSUME EpochAssumption == MaxEpoch \in Nat

Monitors == 1 .. N

VARIABLES
    up,           \* monitors that run
    epoch,        \* _epoch, which the EpochStore keeps
    leader, running,  \* _leader, _leader_running
    gen,          \* whether _election_generation moved since the last election began
    elect,        \* the election in progress
    wanted,       \* election threads the listener started and and that have not begun
    inbox,        \* connections to each listener
    answer,       \* the OK a candidate can read
    crashes, timeouts

memory == <<leader, running, gen>>
vars == <<up, epoch, memory, elect, wanted, inbox, answer, crashes, timeouts>>

Idle == [at |-> "idle"]
None == [from |-> 0, epoch |-> 0]

-----------------------------------------------------------------------------
Init ==
    /\ up = Monitors
    /\ epoch = [m \in Monitors |-> 0]
    /\ leader = [m \in Monitors |-> N]
    /\ running = [m \in Monitors |-> FALSE]
    /\ gen = [m \in Monitors |-> 0]
    /\ elect = [m \in Monitors |-> Idle]
    /\ wanted = [m \in Monitors |-> 0]
    /\ inbox = [m \in Monitors |-> <<>>]
    /\ answer = [m \in Monitors |-> None]
    /\ crashes = 0 /\ timeouts = 0

(* Nothing is on its way: a timeout means what it is meant to mean. *)
Settled ==
    \A m \in up : elect[m] = Idle /\ wanted[m] = 0 /\ inbox[m] = <<>>

TimesOut == Settled \/ timeouts < MaxTimeouts
CountTimeout == timeouts' = IF Settled THEN timeouts ELSE timeouts + 1

(* Mutant of PeerAfter: the candidate asks itself. *)
PeerAfterAny(m, p) == p + 1

(* The peers in the order an election asks them. *)
PeerAfter(m, p) == IF p + 1 = m THEN p + 2 ELSE p + 1

(* start_election, which returns at once if another thread has the lock. *)
StartElection(m) ==
    IF elect[m] # Idle THEN UNCHANGED <<gen, running, elect>>
    ELSE /\ gen' = [gen EXCEPT ![m] = 0]
         /\ running' = [running EXCEPT ![m] = FALSE]
         /\ elect' = [elect EXCEPT ![m] = [at |-> "asking", peer |-> PeerAfter(m, 0),
                                           epoch |-> epoch[m], higher |-> FALSE]]

-----------------------------------------------------------------------------
(* The main loop: wait for a leader, or find the leader dead.  A permit of *)
(* _leader_semaphore makes wait_for_new_leader return and run_once call it *)
(* again if there is still no leader; so the permits that were left over   *)
(* only put the timeout off, and are not part of the state.                *)

WaitTimesOut(m) ==
    /\ m \in up /\ ~running[m] /\ elect[m] = Idle /\ TimesOut
    /\ CountTimeout
    /\ StartElection(m)
    /\ UNCHANGED <<up, epoch, leader, wanted, inbox, answer, crashes>>

LeaderFound(m) == leader[m] \in up

Suspects(m) ==
    /\ m \in up /\ running[m] /\ leader[m] # m /\ elect[m] = Idle
    /\ IF LeaderFound(m) THEN timeouts < MaxTimeouts /\ timeouts' = timeouts + 1
       ELSE UNCHANGED timeouts
    /\ StartElection(m)
    /\ UNCHANGED <<up, epoch, leader, wanted, inbox, answer, crashes>>

(* _recover_failed_nodes: docker start. *)
Revives(m, dead) ==
    /\ m \in up /\ running[m] /\ leader[m] = m /\ dead \notin up
    /\ up' = up \cup {dead}
    /\ UNCHANGED <<epoch, memory, elect, wanted, inbox, answer, crashes, timeouts>>

(* An election thread the listener started. *)
ThreadStarts(m) ==
    /\ m \in up /\ wanted[m] > 0
    /\ wanted' = [wanted EXCEPT ![m] = @ - 1]
    /\ StartElection(m)
    /\ UNCHANGED <<up, epoch, leader, inbox, answer, crashes, timeouts>>

-----------------------------------------------------------------------------
(* An election: ask every other monitor, then lead or leave it. *)

Connect(m, peer, msg) == inbox' = [inbox EXCEPT ![peer] = Append(@, msg)]

Asks(m) ==
    LET e == elect[m]
    IN  /\ m \in up /\ e.at = "asking" /\ e.peer <= N
        /\ IF e.peer \notin up
           THEN elect' = [elect EXCEPT ![m].peer = PeerAfter(m, @)] /\ UNCHANGED inbox
           ELSE /\ Connect(m, e.peer, [type |-> "ELECTION", from |-> m, epoch |-> e.epoch, open |-> TRUE])
                /\ elect' = [elect EXCEPT ![m].at = "waiting"]
        /\ UNCHANGED <<up, epoch, memory, wanted, answer, crashes, timeouts>>

(* Mutant of Learned: the epoch of an OK is not taken over. *)
LearnedNothing(m, e) == epoch[m]

Learned(m, e) == Max({epoch[m], e})

HearsOk(m) ==
    LET e == elect[m]
    IN  /\ m \in up /\ e.at = "waiting" /\ answer[m] # None
        /\ epoch' = [epoch EXCEPT ![m] = Learned(m, answer[m].epoch)]
        /\ elect' = [elect EXCEPT ![m] = [e EXCEPT !.at = "asking", !.peer = PeerAfter(m, @),
                                                   !.higher = @ \/ answer[m].from > m]]
        /\ answer' = [answer EXCEPT ![m] = None]
        /\ UNCHANGED <<up, memory, wanted, inbox, crashes, timeouts>>

(* The connection of m's request is closed; the peer may still read it. *)
Closed(q, m) ==
    [i \in DOMAIN q |-> IF q[i].type = "ELECTION" /\ q[i].from = m THEN [q[i] EXCEPT !.open = FALSE]
                        ELSE q[i]]

GivesUp(m) ==
    LET e == elect[m]
    IN  /\ m \in up /\ e.at = "waiting"
        /\ IF e.peer \in up /\ \E i \in DOMAIN inbox[e.peer] : inbox[e.peer][i].from = m
           THEN timeouts < MaxTimeouts /\ timeouts' = timeouts + 1
           ELSE answer[m] = None /\ UNCHANGED timeouts
        /\ inbox' = [inbox EXCEPT ![e.peer] = Closed(@, m)]
        /\ elect' = [elect EXCEPT ![m] = [e EXCEPT !.at = "asking", !.peer = PeerAfter(m, @)]]
        /\ answer' = [answer EXCEPT ![m] = None]
        /\ UNCHANGED <<up, epoch, memory, wanted, crashes>>

(* A coordinator was accepted since the election began, or a later         *)
(* election began.                                                         *)
Overruled(m) == gen[m] # 0 \/ running[m]

(* _become_leader; an exhausted epoch raises, which ends the election. *)
Decides(m) ==
    LET e == elect[m]
        wins == ~e.higher /\ ~Overruled(m) /\ epoch[m] < MaxEpoch
    IN  /\ m \in up /\ e.at = "asking" /\ e.peer > N
        /\ IF wins
           THEN /\ epoch' = [epoch EXCEPT ![m] = @ + 1]
                /\ leader' = [leader EXCEPT ![m] = m]
                /\ running' = [running EXCEPT ![m] = TRUE]
                /\ elect' = [elect EXCEPT ![m].at = "won"]
           ELSE /\ elect' = [elect EXCEPT ![m] = Idle]
                /\ UNCHANGED <<epoch, leader, running>>
        /\ UNCHANGED <<up, gen, wanted, inbox, answer, crashes, timeouts>>

(* send_coordinator reads the epoch again, then tells the lower monitors,  *)
(* after which the election lock is free.                                  *)
ReadsEpoch(m) ==
    /\ m \in up /\ elect[m].at = "won"
    /\ elect' = [elect EXCEPT ![m] = IF m = 1 THEN Idle
                                     ELSE [@ EXCEPT !.at = "announcing", !.peer = 1, !.epoch = epoch[m]]]
    /\ UNCHANGED <<up, epoch, memory, wanted, inbox, answer, crashes, timeouts>>

Announces(m) ==
    LET e == elect[m]
    IN  /\ m \in up /\ e.at = "announcing"
        /\ elect' = [elect EXCEPT ![m] = IF e.peer + 1 < m THEN [e EXCEPT !.peer = @ + 1] ELSE Idle]
        /\ IF e.peer \in up
           THEN Connect(m, e.peer, [type |-> "COORDINATOR", from |-> m, epoch |-> e.epoch])
           ELSE UNCHANGED inbox
        /\ UNCHANGED <<up, epoch, memory, wanted, answer, crashes, timeouts>>

-----------------------------------------------------------------------------
(* The listener. *)

Serves(m, type) ==
    /\ m \in up /\ inbox[m] # <<>> /\ Head(inbox[m]).type = type
    /\ inbox' = [inbox EXCEPT ![m] = Tail(@)]

(* The requester may have left: then writing the OK may fail, and the      *)
(* handler starts no election.                                             *)
ServesElection(m) ==
    LET msg == Head(inbox[m])
        known == Max({epoch[m], msg.epoch})
    IN  /\ Serves(m, "ELECTION")
        /\ epoch' = [epoch EXCEPT ![m] = known]
        /\ answer' = IF msg.open THEN [answer EXCEPT ![msg.from] = [from |-> m, epoch |-> known]]
                     ELSE answer
        /\ \/ wanted' = [wanted EXCEPT ![m] = @ + (IF msg.from < m THEN 1 ELSE 0)]
           \/ ~msg.open /\ UNCHANGED wanted
        /\ UNCHANGED <<up, memory, elect, crashes, timeouts>>

(* Mutant of Refuses: an older announcement is taken. *)
RefusesNone(m, msg) == FALSE

Refuses(m, msg) ==
    \/ msg.epoch < epoch[m]
    \/ msg.epoch = epoch[m] /\ running[m] /\ msg.from < leader[m]

ServesCoordinator(m) ==
    LET msg == Head(inbox[m])
    IN  /\ Serves(m, "COORDINATOR")
        /\ IF Refuses(m, msg) THEN UNCHANGED <<epoch, memory>>
           ELSE /\ gen' = [gen EXCEPT ![m] = IF elect[m] = Idle THEN 0 ELSE 1]
                /\ epoch' = [epoch EXCEPT ![m] = Max({@, msg.epoch})]
                /\ leader' = [leader EXCEPT ![m] = msg.from]
                /\ running' = [running EXCEPT ![m] = TRUE]
        /\ UNCHANGED <<up, elect, wanted, answer, crashes, timeouts>>

-----------------------------------------------------------------------------
(* A crash leaves the stored epoch.  A revived monitor starts as a new     *)
(* process: its memory is set here already.                                *)

(* Mutant of Stored: the epoch was not saved. *)
StoredNever(m) == 0

Stored(m) == epoch[m]

Crashes(m) ==
    /\ m \in up /\ crashes < MaxCrashes /\ up # {m}
    /\ crashes' = crashes + 1
    /\ up' = up \ {m}
    /\ epoch' = [epoch EXCEPT ![m] = Stored(m)]
    /\ leader' = [leader EXCEPT ![m] = N]
    /\ running' = [running EXCEPT ![m] = FALSE]
    /\ gen' = [gen EXCEPT ![m] = 0]
    /\ elect' = [elect EXCEPT ![m] = Idle]
    /\ wanted' = [wanted EXCEPT ![m] = 0]
    /\ answer' = [answer EXCEPT ![m] = None]
    /\ inbox' = [q \in Monitors |-> IF q = m THEN <<>> ELSE Closed(inbox[q], m)]
    /\ UNCHANGED timeouts

MainLoop(m) == WaitTimesOut(m) \/ Suspects(m) \/ \E d \in Monitors : Revives(m, d)
Electing(m) == Asks(m) \/ HearsOk(m) \/ GivesUp(m) \/ Decides(m) \/ ReadsEpoch(m) \/ Announces(m)
Listening(m) == ServesElection(m) \/ ServesCoordinator(m)

Next == \E m \in Monitors : MainLoop(m) \/ ThreadStarts(m) \/ Electing(m) \/ Listening(m) \/ Crashes(m)

Spec == Init /\ [][Next]_vars

(* Every thread of a running monitor is scheduled, timeouts expire. *)
FairSpec ==
    /\ Spec
    /\ \A m \in Monitors : /\ WF_vars(MainLoop(m)) /\ WF_vars(ThreadStarts(m))
                           /\ WF_vars(Electing(m)) /\ WF_vars(Listening(m))

-----------------------------------------------------------------------------
TypeOK ==
    /\ up \subseteq Monitors
    /\ \A m \in Monitors :
        /\ epoch[m] \in 0 .. MaxEpoch /\ leader[m] \in Monitors /\ running[m] \in BOOLEAN
        /\ elect[m].at \in {"idle", "asking", "waiting", "won", "announcing"}
        /\ elect[m] # Idle => elect[m].peer # m
        /\ m \notin up => elect[m] = Idle /\ inbox[m] = <<>>

(* "el epoch nunca disminuya después de reiniciar una réplica": not even   *)
(* over a crash does a monitor go back to an epoch it has left.            *)
EpochNeverDecreases == [][\A m \in Monitors : epoch'[m] >= epoch[m]]_vars

(* "un anuncio retrasado con epoch viejo no reemplace al líder vigente":   *)
(* a monitor that has a leader changes to another one only in a later      *)
(* epoch, or in the same epoch for a higher monitor.                       *)
NeverFollowsOlder ==
    [][\A m \in up \cap up' :
          running[m] /\ running'[m] /\ leader'[m] # leader[m] =>
              epoch'[m] > epoch[m] \/ leader'[m] > leader[m]]_vars

Agreed ==
    /\ up = Monitors
    /\ \A m \in Monitors : running[m] /\ leader[m] = N /\ epoch[m] = epoch[N]

(* "todas las réplicas converjan al mismo par (leader_id, epoch)": after   *)
(* the last crash every monitor is revived and all follow the highest one  *)
(* in the same epoch, for good.                                            *)
Converges == <>[]Agreed

=============================================================================
