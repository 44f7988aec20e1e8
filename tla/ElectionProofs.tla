--------------------------- MODULE ElectionProofs ---------------------------
(***************************************************************************)
(* The election for any number of monitors, crashes and timeouts: what a   *)
(* timeout or a crash does to an election may cost a leader, and never     *)
(* takes a monitor back to an older one.                                   *)
(***************************************************************************)
EXTENDS Election, SequenceTheorems, TLAPS

Epochs == 0 .. MaxEpoch
Elections ==
    {Idle} \cup [at : {"asking", "waiting", "won", "announcing"}, peer : Nat, epoch : Epochs, higher : BOOLEAN]
Requests == [type : {"ELECTION"}, from : Monitors, epoch : Epochs, open : BOOLEAN]
Announcements == [type : {"COORDINATOR"}, from : Monitors, epoch : Epochs]
Answers == [from : Nat, epoch : Epochs]

(* Epochs lie within the field of a message wherever they are kept or on  *)
(* their way.                                                              *)
EpochsTyped ==
    /\ up \subseteq Monitors
    /\ epoch \in [Monitors -> Epochs]
    /\ leader \in [Monitors -> Monitors]
    /\ running \in [Monitors -> BOOLEAN]
    /\ elect \in [Monitors -> Elections]
    /\ inbox \in [Monitors -> Seq(Requests \cup Announcements)]
    /\ answer \in [Monitors -> Answers]

(* Max of two numbers is one of them and no less than either. *)
LEMMA MaxOfTwo ==
    ASSUME NEW a \in Epochs, NEW b \in Epochs
    PROVE  /\ a \in Nat /\ b \in Nat
           /\ Max({a, b}) \in Epochs \cap Nat /\ Max({a, b}) >= a /\ Max({a, b}) >= b
<1>1. \E x \in {a, b} : \A y \in {a, b} : x >= y
    BY EpochAssumption DEF Epochs
<1>2. Max({a, b}) \in {a, b} /\ \A y \in {a, b} : Max({a, b}) >= y
    BY <1>1 DEF Max
<1> QED
    BY <1>2, EpochAssumption DEF Epochs

(* Closing a connection leaves a queue of messages. *)
LEMMA ClosedType ==
    ASSUME NEW q \in Seq(Requests \cup Announcements), NEW m
    PROVE  Closed(q, m) \in Seq(Requests \cup Announcements)
<1>1. Len(q) \in Nat /\ DOMAIN q = 1 .. Len(q)
    BY LenProperties
<1>2. ASSUME NEW i \in 1 .. Len(q)
      PROVE  (IF q[i].type = "ELECTION" /\ q[i].from = m THEN [q[i] EXCEPT !.open = FALSE] ELSE q[i])
                 \in Requests \cup Announcements
  <2>1. q[i] \in Requests \cup Announcements
      BY <1>1, <1>2, ElementOfSeq
  <2> QED
      BY <2>1, ZenonT(20) DEF Requests, Announcements
<1> QED
    BY <1>1, <1>2, IsASeq DEF Closed

(* The next peer to ask, or past the last one, is a number. *)
LEMMA PeerAfterType ==
    ASSUME NEW m \in Monitors, NEW p \in Nat
    PROVE  PeerAfter(m, p) \in Nat
BY CountAssumption DEF PeerAfter, Monitors

(* Monitors are numbered from 1. *)
LEMMA MonitorsAreNumbers == Monitors \subseteq Nat /\ N \in Monitors /\ 0 \in Nat /\ 0 \in Epochs
BY CountAssumption, EpochAssumption DEF Monitors, Epochs

(* Epochs are numbers. *)
LEMMA EpochsAreNumbers ==
    ASSUME EpochsTyped
    PROVE  \A p \in Monitors : epoch[p] \in Nat
BY EpochAssumption DEF EpochsTyped, Epochs

(* Every monitor starts in epoch 0, with no election. *)
LEMMA InitTyped == Init => EpochsTyped
<1> SUFFICES ASSUME Init PROVE EpochsTyped
    OBVIOUS
<1>1. <<>> \in Seq(Requests \cup Announcements)
    BY EmptySeq
<1> QED
    BY <1>1, MonitorsAreNumbers DEF Init, EpochsTyped, Elections, Answers, None

(* An election in progress is a full record. *)
LEMMA BusyElection ==
    ASSUME EpochsTyped, NEW m \in Monitors, elect[m] # Idle
    PROVE  elect[m] \in [at : {"asking", "waiting", "won", "announcing"}, peer : Nat, epoch : Epochs, higher : BOOLEAN]
BY DEF EpochsTyped, Elections

(* What start_election leaves. *)
LEMMA StartElectionTyped ==
    ASSUME EpochsTyped, NEW m \in Monitors, StartElection(m)
    PROVE  /\ elect' \in [Monitors -> Elections]
           /\ running' \in [Monitors -> BOOLEAN]
           /\ \A p \in Monitors : running'[p] => running[p]
<1>1. CASE elect[m] # Idle
    BY <1>1 DEF StartElection, EpochsTyped
<1>2. CASE elect[m] = Idle
  <2>1. PeerAfter(m, 0) \in Nat /\ epoch[m] \in Epochs
      BY PeerAfterType DEF EpochsTyped
  <2>2. [at |-> "asking", peer |-> PeerAfter(m, 0), epoch |-> epoch[m], higher |-> FALSE] \in Elections
      BY <2>1 DEF Elections
  <2> QED
      BY <1>2, <2>2, ZenonT(30) DEF StartElection, EpochsTyped
<1> QED
    BY <1>1, <1>2

(* The head of a queue is a message, and the rest a queue. *)
LEMMA ServesTyped ==
    ASSUME EpochsTyped, NEW m \in Monitors, NEW type, Serves(m, type)
    PROVE  /\ Head(inbox[m]) \in Requests \cup Announcements
           /\ inbox' \in [Monitors -> Seq(Requests \cup Announcements)]
<1>1. inbox[m] \in Seq(Requests \cup Announcements) /\ inbox[m] # <<>>
    BY DEF EpochsTyped, Serves
<1>2. Head(inbox[m]) \in Requests \cup Announcements /\ Tail(inbox[m]) \in Seq(Requests \cup Announcements)
    BY <1>1, HeadTailProperties
<1> QED
    BY <1>2 DEF EpochsTyped, Serves

(* A message put into a queue. *)
LEMMA ConnectTyped ==
    ASSUME EpochsTyped, NEW m, NEW peer \in Monitors, NEW msg \in Requests \cup Announcements,
           Connect(m, peer, msg)
    PROVE  inbox' \in [Monitors -> Seq(Requests \cup Announcements)]
<1>1. Append(inbox[peer], msg) \in Seq(Requests \cup Announcements)
    BY AppendProperties DEF EpochsTyped
<1> QED
    BY <1>1 DEF EpochsTyped, Connect

(* Of one monitor's step: types are kept, no epoch decreases, and a leader *)
(* is replaced only in a later epoch or by a higher monitor.               *)
Advances ==
    /\ EpochsTyped'
    /\ \A p \in Monitors : epoch'[p] >= epoch[p]
    /\ \A p \in up \cap up' :
          running[p] /\ running'[p] /\ leader'[p] # leader[p] =>
              epoch'[p] > epoch[p] \/ leader'[p] > leader[p]

(* Starting an election or reviving a peer changes no epoch and no leader. *)
LEMMA MainLoopAdvances ==
    ASSUME EpochsTyped, NEW m \in Monitors, MainLoop(m) \/ ThreadStarts(m)
    PROVE  Advances
<1>1. CASE WaitTimesOut(m) \/ Suspects(m) \/ ThreadStarts(m)
  <2>1. StartElection(m) /\ UNCHANGED <<up, epoch, leader, inbox, answer>>
      BY <1>1 DEF WaitTimesOut, Suspects, ThreadStarts
  <2> QED
      BY <2>1, StartElectionTyped, EpochsAreNumbers DEF Advances, EpochsTyped
<1>2. ASSUME NEW d \in Monitors, Revives(m, d)
      PROVE  Advances
    BY <1>2, EpochsAreNumbers DEF Revives, memory, Advances, EpochsTyped
<1> QED
    BY <1>1, <1>2 DEF MainLoop

(* Asking a peer, or giving up on it, only changes the candidate's election. *)
LEMMA AsksAdvances ==
    ASSUME EpochsTyped, NEW m \in Monitors, Asks(m) \/ GivesUp(m)
    PROVE  Advances
<1>1. /\ elect[m] \in [at : {"asking", "waiting", "won", "announcing"}, peer : Nat, epoch : Epochs, higher : BOOLEAN]
      /\ PeerAfter(m, elect[m].peer) \in Nat
  <2>1. elect[m] # Idle
      BY DEF Asks, GivesUp, Idle
  <2> QED
      BY <2>1, BusyElection, PeerAfterType
<1>2. UNCHANGED <<up, epoch, leader, running>> /\ \A p \in Monitors : epoch[p] \in Nat
    BY EpochsAreNumbers DEF EpochsTyped, Asks, GivesUp, memory
<1>3. elect' \in [Monitors -> Elections]
  <2>1. CASE Asks(m)
    <3>1. /\ [elect[m] EXCEPT !.peer = PeerAfter(m, elect[m].peer)] \in Elections
          /\ [elect[m] EXCEPT !.at = "waiting"] \in Elections
        BY <1>1 DEF Elections
    <3>2. \/ elect' = [elect EXCEPT ![m] = [elect[m] EXCEPT !.peer = PeerAfter(m, elect[m].peer)]]
          \/ elect' = [elect EXCEPT ![m] = [elect[m] EXCEPT !.at = "waiting"]]
        BY <2>1 DEF Asks
    <3> QED
        BY <3>1, <3>2, ZenonT(20) DEF EpochsTyped
  <2>2. CASE GivesUp(m)
      BY <1>1, <2>2, ZenonT(20) DEF EpochsTyped, Elections, GivesUp
  <2> QED
      BY <2>1, <2>2
<1>4. answer' \in [Monitors -> Answers]
  <2>1. None \in Answers
      BY MonitorsAreNumbers DEF Answers, None
  <2>2. answer' = answer \/ answer' = [answer EXCEPT ![m] = None]
      BY DEF Asks, GivesUp
  <2> QED
      BY <2>1, <2>2, ZenonT(20) DEF EpochsTyped
<1>5. inbox' \in [Monitors -> Seq(Requests \cup Announcements)]
  <2>1. CASE Asks(m)
    <3>1. CASE elect[m].peer \notin up
        BY <2>1, <3>1 DEF Asks, EpochsTyped
    <3>2. CASE elect[m].peer \in up
      <4>1. [type |-> "ELECTION", from |-> m, epoch |-> elect[m].epoch, open |-> TRUE] \in Requests \cup Announcements
          BY <1>1 DEF Requests
      <4>2. elect[m].peer \in Monitors
          BY <3>2 DEF EpochsTyped
      <4>3. Connect(m, elect[m].peer, [type |-> "ELECTION", from |-> m, epoch |-> elect[m].epoch, open |-> TRUE])
          BY <2>1, <3>2 DEF Asks
      <4> QED
          BY <4>1, <4>2, <4>3, ConnectTyped
    <3> QED
        BY <3>1, <3>2
  <2>2. CASE GivesUp(m)
    <3>1. \A p \in Monitors : Closed(inbox[p], m) \in Seq(Requests \cup Announcements)
        BY ClosedType, ZenonT(20) DEF EpochsTyped
    <3>2. inbox' = [inbox EXCEPT ![elect[m].peer] = Closed(@, m)]
        BY <2>2 DEF GivesUp
    <3> QED
        BY <3>1, <3>2, ZenonT(20) DEF EpochsTyped
  <2> QED
      BY <2>1, <2>2
<1> QED
    BY <1>2, <1>3, <1>4, <1>5 DEF Advances, EpochsTyped

(* An OK may bring a later epoch. *)
LEMMA HearsOkAdvances ==
    ASSUME EpochsTyped, NEW m \in Monitors, HearsOk(m)
    PROVE  Advances
<1>1. /\ elect[m] \in [at : {"asking", "waiting", "won", "announcing"}, peer : Nat, epoch : Epochs, higher : BOOLEAN]
      /\ PeerAfter(m, elect[m].peer) \in Nat
  <2>1. elect[m] # Idle
      BY DEF HearsOk, Idle
  <2> QED
      BY <2>1, BusyElection, PeerAfterType
<1>2. answer[m].epoch \in Epochs /\ answer[m].from \in Nat /\ epoch[m] \in Epochs
    BY DEF EpochsTyped, Answers
<1>3. Learned(m, answer[m].epoch) \in Epochs \cap Nat /\ Learned(m, answer[m].epoch) >= epoch[m]
    BY <1>2, MaxOfTwo DEF Learned
<1>4. UNCHANGED <<up, leader, running, inbox>>
    BY DEF HearsOk, memory
<1>5. elect' \in [Monitors -> Elections]
    BY <1>1, ZenonT(20) DEF EpochsTyped, Elections, HearsOk
<1>6. answer' \in [Monitors -> Answers]
    BY MonitorsAreNumbers DEF EpochsTyped, HearsOk, Answers, None
<1>7. epoch' \in [Monitors -> Epochs] /\ \A p \in Monitors : epoch'[p] >= epoch[p]
    BY <1>3, EpochsAreNumbers DEF EpochsTyped, HearsOk
<1> QED
    BY <1>4, <1>5, <1>6, <1>7 DEF Advances, EpochsTyped

(* A candidate that leads had no leader when it decided. *)
LEMMA DecidesAdvances ==
    ASSUME EpochsTyped, NEW m \in Monitors, Decides(m)
    PROVE  Advances
<1>1. elect[m] \in [at : {"asking", "waiting", "won", "announcing"}, peer : Nat, epoch : Epochs, higher : BOOLEAN]
  <2>1. elect[m] # Idle
      BY DEF Decides, Idle
  <2> QED
      BY <2>1, BusyElection
<1>2. elect' \in [Monitors -> Elections]
  <2>1. [elect[m] EXCEPT !.at = "won"] \in Elections /\ Idle \in Elections
      BY <1>1 DEF Elections
  <2>2. \/ elect' = [elect EXCEPT ![m] = [elect[m] EXCEPT !.at = "won"]]
        \/ elect' = [elect EXCEPT ![m] = Idle]
      BY DEF Decides
  <2> QED
      BY <2>1, <2>2, ZenonT(20) DEF EpochsTyped
<1>3. UNCHANGED <<up, inbox, answer>>
    BY DEF Decides
<1>4. CASE ~elect[m].higher /\ ~Overruled(m) /\ epoch[m] < MaxEpoch
  <2>1. /\ epoch' = [epoch EXCEPT ![m] = @ + 1]
        /\ leader' = [leader EXCEPT ![m] = m]
        /\ running' = [running EXCEPT ![m] = TRUE]
      BY <1>4 DEF Decides
  <2>2. ~running[m]
      BY <1>4 DEF Overruled
  <2>3. epoch' \in [Monitors -> Epochs] /\ \A p \in Monitors : epoch'[p] >= epoch[p]
    <3>1. epoch[m] + 1 \in Epochs \cap Nat /\ epoch[m] + 1 >= epoch[m]
        BY <1>4, EpochAssumption DEF EpochsTyped, Epochs
    <3> QED
        BY <2>1, <3>1, EpochsAreNumbers DEF EpochsTyped
  <2> QED
      BY <1>2, <1>3, <2>1, <2>2, <2>3 DEF Advances, EpochsTyped
<1>5. CASE ~(~elect[m].higher /\ ~Overruled(m) /\ epoch[m] < MaxEpoch)
  <2>1. UNCHANGED <<epoch, leader, running>>
      BY <1>5 DEF Decides
  <2> QED
      BY <1>2, <1>3, <2>1, EpochsAreNumbers DEF Advances, EpochsTyped
<1> QED
    BY <1>4, <1>5

(* Announcing a won election changes no monitor's memory. *)
LEMMA AnnouncesAdvances ==
    ASSUME EpochsTyped, NEW m \in Monitors, ReadsEpoch(m) \/ Announces(m)
    PROVE  Advances
<1>1. elect[m] \in [at : {"asking", "waiting", "won", "announcing"}, peer : Nat, epoch : Epochs, higher : BOOLEAN]
  <2>1. elect[m] # Idle
      BY DEF ReadsEpoch, Announces, Idle
  <2> QED
      BY <2>1, BusyElection
<1>2. UNCHANGED <<up, epoch, leader, running, answer>>
    BY DEF ReadsEpoch, Announces, memory
<1>3. elect' \in [Monitors -> Elections]
  <2>1. /\ [elect[m] EXCEPT !.at = "announcing", !.peer = 1, !.epoch = epoch[m]] \in Elections
        /\ [elect[m] EXCEPT !.peer = elect[m].peer + 1] \in Elections
        /\ Idle \in Elections
    <3>1. epoch[m] \in Epochs
        BY DEF EpochsTyped
    <3>2. [elect[m] EXCEPT !.at = "announcing", !.peer = 1, !.epoch = epoch[m]] \in Elections
        BY <1>1, <3>1, ZenonT(20) DEF Elections
    <3>3. elect[m].peer + 1 \in Nat
        BY <1>1
    <3>4. [elect[m] EXCEPT !.peer = elect[m].peer + 1] \in Elections
        BY <1>1, <3>3 DEF Elections
    <3> QED
        BY <3>2, <3>4 DEF Elections
  <2>2. \/ elect' = [elect EXCEPT ![m] = [elect[m] EXCEPT !.at = "announcing", !.peer = 1, !.epoch = epoch[m]]]
        \/ elect' = [elect EXCEPT ![m] = [elect[m] EXCEPT !.peer = elect[m].peer + 1]]
        \/ elect' = [elect EXCEPT ![m] = Idle]
      BY DEF ReadsEpoch, Announces
  <2> QED
      BY <2>1, <2>2, ZenonT(30) DEF EpochsTyped
<1>4. inbox' \in [Monitors -> Seq(Requests \cup Announcements)]
  <2>1. CASE elect[m].peer \in up /\ Announces(m)
    <3>1. [type |-> "COORDINATOR", from |-> m, epoch |-> elect[m].epoch] \in Requests \cup Announcements
        BY <1>1 DEF Announcements
    <3>2. elect[m].peer \in Monitors
        BY <2>1 DEF EpochsTyped
    <3>3. Connect(m, elect[m].peer, [type |-> "COORDINATOR", from |-> m, epoch |-> elect[m].epoch])
        BY <2>1 DEF Announces
    <3> QED
        BY <3>1, <3>2, <3>3, ConnectTyped
  <2>2. CASE elect[m].peer \notin up \/ ReadsEpoch(m)
      BY <2>2 DEF Announces, ReadsEpoch, EpochsTyped
  <2> QED
      BY <2>1, <2>2
<1> QED
    BY <1>2, <1>3, <1>4, EpochsAreNumbers DEF Advances, EpochsTyped

(* An ELECTION may bring a later epoch, and is answered with the later one. *)
LEMMA ServesElectionAdvances ==
    ASSUME EpochsTyped, NEW m \in Monitors, ServesElection(m)
    PROVE  Advances
<1> DEFINE msg == Head(inbox[m])
           known == Max({epoch[m], msg.epoch})
<1>1. Serves(m, "ELECTION")
    BY DEF ServesElection
<1>2. msg \in Requests \cup Announcements /\ inbox' \in [Monitors -> Seq(Requests \cup Announcements)]
    BY <1>1, ServesTyped
<1>3. msg.epoch \in Epochs /\ msg.from \in Monitors /\ epoch[m] \in Epochs
    BY <1>2 DEF Requests, Announcements, EpochsTyped
<1>4. known \in Epochs \cap Nat /\ known >= epoch[m]
    BY <1>3, MaxOfTwo
<1>5. epoch' = [epoch EXCEPT ![m] = known] /\ UNCHANGED <<up, leader, running, elect>>
    BY DEF ServesElection, memory
<1>6. answer' \in [Monitors -> Answers]
  <2>1. [from |-> m, epoch |-> known] \in Answers
      BY <1>4, MonitorsAreNumbers DEF Answers
  <2>2. answer' = answer \/ answer' = [answer EXCEPT ![msg.from] = [from |-> m, epoch |-> known]]
      BY DEF ServesElection
  <2> HIDE DEF known, msg
  <2> QED
      BY <1>3, <2>1, <2>2, ZenonT(20) DEF EpochsTyped
<1> HIDE DEF known
<1>7. epoch' \in [Monitors -> Epochs] /\ \A p \in Monitors : epoch'[p] >= epoch[p]
    BY <1>4, <1>5, EpochsAreNumbers DEF EpochsTyped
<1> QED
    BY <1>2, <1>5, <1>6, <1>7 DEF Advances, EpochsTyped

(* Refuses is what keeps a monitor from going back. *)
LEMMA ServesCoordinatorAdvances ==
    ASSUME EpochsTyped, NEW m \in Monitors, ServesCoordinator(m)
    PROVE  Advances
<1> DEFINE msg == Head(inbox[m])
           known == Max({epoch[m], msg.epoch})
<1>1. Serves(m, "COORDINATOR")
    BY DEF ServesCoordinator
<1>2. msg \in Requests \cup Announcements /\ inbox' \in [Monitors -> Seq(Requests \cup Announcements)]
    BY <1>1, ServesTyped
<1>3. /\ msg.epoch \in Epochs /\ msg.from \in Monitors /\ msg.from \in Nat
      /\ epoch[m] \in Epochs /\ leader[m] \in Nat
    BY <1>2, MonitorsAreNumbers, ZenonT(20) DEF Requests, Announcements, EpochsTyped
<1>4. /\ known \in Epochs \cap Nat /\ known >= epoch[m] /\ known >= msg.epoch
      /\ epoch[m] \in Nat /\ msg.epoch \in Nat
    BY <1>3, MaxOfTwo
<1>5. UNCHANGED <<up, elect, answer>>
    BY DEF ServesCoordinator
<1>6. CASE Refuses(m, msg)
  <2>1. UNCHANGED <<epoch, leader, running>>
      BY <1>6 DEF ServesCoordinator, memory
  <2> QED
      BY <1>2, <1>5, <2>1, EpochsAreNumbers DEF Advances, EpochsTyped
<1>7. CASE ~Refuses(m, msg)
  <2>1. /\ epoch' = [epoch EXCEPT ![m] = known]
        /\ leader' = [leader EXCEPT ![m] = msg.from]
        /\ running' = [running EXCEPT ![m] = TRUE]
      BY <1>7 DEF ServesCoordinator
  <2>2. msg.epoch > epoch[m] \/ ~running[m] \/ msg.from >= leader[m]
      BY <1>3, <1>4, <1>7 DEF Refuses
  <2> HIDE DEF known, msg
  <2>3. running[m] /\ msg.from # leader[m] => known > epoch[m] \/ msg.from > leader[m]
      BY <1>3, <1>4, <2>2, EpochsAreNumbers
  <2>4. epoch' \in [Monitors -> Epochs] /\ \A p \in Monitors : epoch'[p] >= epoch[p]
      BY <1>4, <2>1, EpochsAreNumbers DEF EpochsTyped
  <2>5. leader' \in [Monitors -> Monitors] /\ running' \in [Monitors -> BOOLEAN]
      BY <1>3, <2>1 DEF EpochsTyped
  <2>6. EpochsTyped'
      BY <1>2, <1>5, <2>4, <2>5 DEF EpochsTyped
  <2> QED
      BY <2>1, <2>3, <2>4, <2>6 DEF Advances, EpochsTyped
<1> QED
    BY <1>6, <1>7

(* A restarted monitor reads back the epoch it kept. *)
LEMMA CrashesAdvances ==
    ASSUME EpochsTyped, NEW m \in Monitors, Crashes(m)
    PROVE  Advances
<1>1. Stored(m) = epoch[m]
    BY DEF Stored
<1>2. None \in Answers /\ Idle \in Elections /\ N \in Monitors
    BY MonitorsAreNumbers DEF Answers, None, Elections
<1>3. inbox' \in [Monitors -> Seq(Requests \cup Announcements)]
  <2>1. <<>> \in Seq(Requests \cup Announcements)
      BY EmptySeq
  <2>2. \A q \in Monitors : Closed(inbox[q], m) \in Seq(Requests \cup Announcements)
      BY ClosedType, ZenonT(20) DEF EpochsTyped
  <2>3. inbox' = [q \in Monitors |-> IF q = m THEN <<>> ELSE Closed(inbox[q], m)]
      BY DEF Crashes
  <2> QED
      BY <2>1, <2>2, <2>3
<1>4. /\ up' = up \ {m}
      /\ epoch' = [epoch EXCEPT ![m] = Stored(m)]
      /\ leader' = [leader EXCEPT ![m] = N]
      /\ running' = [running EXCEPT ![m] = FALSE]
      /\ elect' = [elect EXCEPT ![m] = Idle]
      /\ answer' = [answer EXCEPT ![m] = None]
    BY DEF Crashes
<1> QED
    BY <1>1, <1>2, <1>3, <1>4, EpochsAreNumbers, SMTT(30) DEF Advances, EpochsTyped

(* Every step advances. *)
LEMMA NextAdvances == EpochsTyped /\ [Next]_vars => Advances
<1> SUFFICES ASSUME EpochsTyped, [Next]_vars
             PROVE  Advances
    OBVIOUS
<1>1. ASSUME NEW m \in Monitors,
             MainLoop(m) \/ ThreadStarts(m) \/ Electing(m) \/ Listening(m) \/ Crashes(m)
      PROVE  Advances
    BY <1>1, MainLoopAdvances, AsksAdvances, HearsOkAdvances, DecidesAdvances, AnnouncesAdvances,
       ServesElectionAdvances, ServesCoordinatorAdvances, CrashesAdvances DEF Electing, Listening
<1>2. CASE UNCHANGED vars
    BY <1>2, EpochsAreNumbers DEF vars, memory, Advances, EpochsTyped
<1> QED
    BY <1>1, <1>2 DEF Next

-----------------------------------------------------------------------------
(* No candidate asks itself or sends itself its announcement, and a dead   *)
(* monitor has neither an election nor connections.                        *)
Apart ==
    \A m \in Monitors : /\ elect[m] # Idle => elect[m].peer # m
                        /\ m \notin up => elect[m] = Idle /\ inbox[m] = <<>>

(* The peers in the order of an election leave the candidate out. *)
LEMMA PeerAfterOther ==
    ASSUME NEW m \in Monitors, NEW p \in Nat PROVE PeerAfter(m, p) # m
BY CountAssumption DEF PeerAfter, Monitors

(* What is left when the election of a running monitor moves on. *)
LEMMA ElectionMoves ==
    ASSUME EpochsTyped, Apart, NEW m \in up, up' = up, NEW e,
           elect' = [elect EXCEPT ![m] = e], e # Idle => e.peer # m,
           \A p \in Monitors \ up : inbox'[p] = <<>>
    PROVE  Apart'
<1>1. m \in Monitors /\ elect \in [Monitors -> Elections]
    BY DEF EpochsTyped
<1>2. elect'[m] = e /\ \A p \in Monitors \ {m} : elect'[p] = elect[p]
    BY <1>1
<1>3. ASSUME NEW p \in Monitors
      PROVE  /\ elect'[p] # Idle => elect'[p].peer # p
             /\ p \notin up' => elect'[p] = Idle /\ inbox'[p] = <<>>
  <2>1. CASE p = m
    BY <1>2, <2>1
  <2>2. CASE p # m
    BY <1>2, <2>2 DEF Apart
  <2> QED
    BY <2>1, <2>2
<1> QED
    BY <1>3, Zenon DEF Apart, Idle

(* What is left when no election moves and only connections are served. *)
LEMMA InboxMoves ==
    ASSUME EpochsTyped, Apart, up \subseteq up', elect' = elect,
           \A p \in Monitors \ up : inbox'[p] = <<>>
    PROVE  Apart'
BY DEF Apart, Idle

(* start_election begins with another monitor. *)
LEMMA StartsApart ==
    ASSUME EpochsTyped, Apart, NEW m \in up, StartElection(m), UNCHANGED <<up, inbox>>
    PROVE  Apart'
<1>1. m \in Monitors /\ \A p \in Monitors \ up : inbox'[p] = <<>>
    BY DEF EpochsTyped, Apart
<1>2. CASE elect[m] # Idle
  <2>1. elect' = elect
    BY <1>2 DEF StartElection
  <2> QED
    BY <1>1, <2>1, InboxMoves
<1>3. CASE elect[m] = Idle
  <2> DEFINE e == [at |-> "asking", peer |-> PeerAfter(m, 0), epoch |-> epoch[m], higher |-> FALSE]
  <2>1. elect' = [elect EXCEPT ![m] = e]
    BY <1>3 DEF StartElection
  <2>2. e.peer # m
    BY <1>1, PeerAfterOther
  <2> HIDE DEF e
  <2> QED
    BY <1>1, <2>1, <2>2, ElectionMoves
<1> QED
    BY <1>2, <1>3

(* Nobody connects to a dead monitor. *)
LEMMA ConnectsApart ==
    ASSUME EpochsTyped, Apart, NEW m, NEW peer \in up, NEW msg, Connect(m, peer, msg)
    PROVE  \A p \in Monitors \ up : inbox'[p] = <<>>
<1>1. inbox' = [inbox EXCEPT ![peer] = Append(inbox[peer], msg)]
    BY DEF Connect
<1>2. \A p \in Monitors \ up : inbox'[p] = inbox[p]
    BY <1>1 DEF EpochsTyped
<1> QED
    BY <1>2 DEF Apart

(* There is nothing to close at a monitor that nobody is connected to. *)
LEMMA ClosedEmpty == ASSUME NEW m PROVE Closed(<<>>, m) = <<>>
BY DEF Closed

(* The steps of an election. *)
LEMMA ElectingApart ==
    ASSUME EpochsTyped, Apart, NEW m \in Monitors, Electing(m)
    PROVE  Apart'
<1>1. m \in up /\ up' = up
    BY DEF Electing, Asks, HearsOk, GivesUp, Decides, ReadsEpoch, Announces
<1>2. elect[m] # Idle
    BY DEF Electing, Asks, HearsOk, GivesUp, Decides, ReadsEpoch, Announces, Idle
<1>3. elect[m] \in [at : {"asking", "waiting", "won", "announcing"}, peer : Nat, epoch : Epochs, higher : BOOLEAN]
    BY <1>2, BusyElection
<1>4. /\ elect[m].peer \in Nat /\ elect[m].peer # m
      /\ PeerAfter(m, elect[m].peer) # m
    BY <1>2, <1>3, PeerAfterOther DEF Apart
<1>5. \A p \in Monitors \ up : inbox[p] = <<>>
    BY DEF Apart
<1>6. CASE Asks(m)
  <2>1. CASE elect[m].peer \notin up
    <3> DEFINE e == [elect[m] EXCEPT !.peer = PeerAfter(m, elect[m].peer)]
    <3>1. elect' = [elect EXCEPT ![m] = e] /\ inbox' = inbox
      BY <1>6, <2>1 DEF Asks
    <3>2. e.peer # m
      BY <1>3, <1>4
    <3> HIDE DEF e
    <3> QED
      BY <1>1, <1>5, <3>1, <3>2, ElectionMoves
  <2>2. CASE elect[m].peer \in up
    <3> DEFINE e == [elect[m] EXCEPT !.at = "waiting"]
    <3>1. /\ elect' = [elect EXCEPT ![m] = e]
          /\ Connect(m, elect[m].peer, [type |-> "ELECTION", from |-> m, epoch |-> elect[m].epoch, open |-> TRUE])
      BY <1>6, <2>2 DEF Asks
    <3>2. e.peer # m
      BY <1>3, <1>4
    <3>3. \A p \in Monitors \ up : inbox'[p] = <<>>
      BY <2>2, <3>1, ConnectsApart
    <3> HIDE DEF e
    <3> QED
      BY <1>1, <3>1, <3>2, <3>3, ElectionMoves
  <2> QED
    BY <2>1, <2>2
<1>7. CASE HearsOk(m)
  <2> DEFINE e == [elect[m] EXCEPT !.at = "asking", !.peer = PeerAfter(m, elect[m].peer),
                                   !.higher = elect[m].higher \/ answer[m].from > m]
  <2>1. elect' = [elect EXCEPT ![m] = e] /\ inbox' = inbox
    BY <1>7 DEF HearsOk
  <2>2. e.peer # m
    BY <1>3, <1>4
  <2> HIDE DEF e
  <2> QED
    BY <1>1, <1>5, <2>1, <2>2, ElectionMoves
<1>8. CASE GivesUp(m)
  <2> DEFINE e == [elect[m] EXCEPT !.at = "asking", !.peer = PeerAfter(m, elect[m].peer)]
  <2>1. elect' = [elect EXCEPT ![m] = e] /\ inbox' = [inbox EXCEPT ![elect[m].peer] = Closed(@, m)]
    BY <1>8 DEF GivesUp
  <2>2. e.peer # m
    BY <1>3, <1>4
  <2>3. \A p \in Monitors \ up : inbox'[p] = inbox[p] \/ inbox'[p] = Closed(inbox[p], m)
    BY <2>1 DEF EpochsTyped
  <2>4. \A p \in Monitors \ up : inbox'[p] = <<>>
    BY <1>5, <2>3, ClosedEmpty
  <2> HIDE DEF e
  <2> QED
    BY <1>1, <2>1, <2>2, <2>4, ElectionMoves
<1>9. CASE Decides(m)
  <2> DEFINE e == [elect[m] EXCEPT !.at = "won"]
  <2>1. (elect' = [elect EXCEPT ![m] = e] \/ elect' = [elect EXCEPT ![m] = Idle]) /\ inbox' = inbox
    BY <1>9 DEF Decides
  <2>2. e.peer # m
    BY <1>3, <1>4
  <2> HIDE DEF e
  <2> QED
    BY <1>1, <1>5, <2>1, <2>2, ElectionMoves
<1>10. CASE ReadsEpoch(m)
  <2> DEFINE e == [elect[m] EXCEPT !.at = "announcing", !.peer = 1, !.epoch = epoch[m]]
  <2>1. /\ \/ elect' = [elect EXCEPT ![m] = Idle]
           \/ elect' = [elect EXCEPT ![m] = e] /\ m # 1
        /\ inbox' = inbox
    BY <1>10 DEF ReadsEpoch
  <2>2. e.peer = 1
    BY <1>3
  <2> HIDE DEF e
  <2> QED
    BY <1>1, <1>5, <2>1, <2>2, ElectionMoves
<1>11. CASE Announces(m)
  <2> DEFINE e == [elect[m] EXCEPT !.peer = elect[m].peer + 1]
  <2>1. \/ elect' = [elect EXCEPT ![m] = Idle]
        \/ elect' = [elect EXCEPT ![m] = e] /\ elect[m].peer + 1 < m
    BY <1>11 DEF Announces
  <2>2. e.peer = elect[m].peer + 1
    BY <1>3
  <2>3. elect[m].peer + 1 < m => e.peer # m
    BY <1>4, <2>2, CountAssumption DEF Monitors
  <2>4. \A p \in Monitors \ up : inbox'[p] = <<>>
    <3>1. \/ inbox' = inbox
          \/ /\ elect[m].peer \in up
             /\ Connect(m, elect[m].peer, [type |-> "COORDINATOR", from |-> m, epoch |-> elect[m].epoch])
      BY <1>11 DEF Announces
    <3> QED
      BY <1>5, <3>1, ConnectsApart
  <2> HIDE DEF e
  <2> QED
    BY <1>1, <2>1, <2>3, <2>4, ElectionMoves
<1> QED
    BY <1>6, <1>7, <1>8, <1>9, <1>10, <1>11 DEF Electing

(* Every step keeps it. *)
LEMMA NextApart ==
    ASSUME EpochsTyped, Apart, [Next]_vars PROVE Apart'
<1>1. ASSUME NEW m \in Monitors, MainLoop(m) \/ ThreadStarts(m) PROVE Apart'
  <2>1. CASE WaitTimesOut(m) \/ Suspects(m) \/ ThreadStarts(m)
    <3>1. m \in up /\ StartElection(m) /\ UNCHANGED <<up, inbox>>
      BY <2>1 DEF WaitTimesOut, Suspects, ThreadStarts
    <3> QED
      BY <3>1, StartsApart
  <2>2. ASSUME NEW d \in Monitors, Revives(m, d) PROVE Apart'
    <3>1. up \subseteq up' /\ elect' = elect /\ inbox' = inbox
      BY <2>2 DEF Revives
    <3> QED
      BY <3>1, InboxMoves DEF Apart
  <2> QED
    BY <1>1, <2>1, <2>2 DEF MainLoop
<1>2. ASSUME NEW m \in Monitors, Listening(m) PROVE Apart'
  <2>1. /\ m \in up /\ up' = up /\ elect' = elect
        /\ inbox' = [inbox EXCEPT ![m] = Tail(inbox[m])]
    BY <1>2 DEF Listening, ServesElection, ServesCoordinator, Serves
  <2>2. \A p \in Monitors \ up : inbox'[p] = inbox[p]
    BY <2>1 DEF EpochsTyped
  <2> QED
    BY <2>1, <2>2, InboxMoves DEF Apart
<1>3. ASSUME NEW m \in Monitors, Crashes(m) PROVE Apart'
  <2>1. /\ up' = up \ {m} /\ elect' = [elect EXCEPT ![m] = Idle]
        /\ inbox' = [q \in Monitors |-> IF q = m THEN <<>> ELSE Closed(inbox[q], m)]
    BY <1>3 DEF Crashes
  <2>2. elect'[m] = Idle /\ inbox'[m] = <<>>
    BY <2>1 DEF EpochsTyped
  <2>3. ASSUME NEW p \in Monitors, p # m
        PROVE  elect'[p] = elect[p] /\ inbox'[p] = Closed(inbox[p], m) /\ (p \in up' <=> p \in up)
    BY <2>1, <2>3 DEF EpochsTyped
  <2>4. ASSUME NEW p \in Monitors
        PROVE  /\ elect'[p] # Idle => elect'[p].peer # p
               /\ p \notin up' => elect'[p] = Idle /\ inbox'[p] = <<>>
    <3>1. CASE p = m
      BY <2>2, <3>1
    <3>2. CASE p # m
      BY <2>3, <3>2, ClosedEmpty DEF Apart
    <3> QED
      BY <3>1, <3>2
  <2> QED
    BY <2>4, Zenon DEF Apart, Idle
<1>4. CASE UNCHANGED vars
    BY <1>4 DEF vars, Apart, Idle
<1> QED
    BY <1>1, <1>2, <1>3, <1>4, ElectingApart DEF Next

-----------------------------------------------------------------------------
(* No epoch leaves the range a message can carry, no candidate asks itself *)
(* or announces to itself, and a dead monitor has no election and no       *)
(* connection.                                                             *)
THEOREM ElectionTypeCorrect == Spec => []TypeOK
<1>1. Init => Apart
    BY DEF Init, Apart, Idle
<1>2. EpochsTyped /\ Apart /\ [Next]_vars => EpochsTyped' /\ Apart'
    BY NextAdvances, NextApart DEF Advances
<1>3. EpochsTyped /\ Apart => TypeOK
  <2> SUFFICES ASSUME EpochsTyped, Apart, NEW m \in Monitors
               PROVE  /\ up \subseteq Monitors /\ epoch[m] \in 0 .. MaxEpoch
                      /\ leader[m] \in Monitors /\ running[m] \in BOOLEAN
                      /\ elect[m].at \in {"idle", "asking", "waiting", "won", "announcing"}
                      /\ elect[m] # Idle => elect[m].peer # m
                      /\ m \notin up => elect[m] = Idle /\ inbox[m] = <<>>
    BY DEF TypeOK, EpochsTyped
  <2>1. up \subseteq Monitors /\ leader[m] \in Monitors /\ epoch[m] \in 0 .. MaxEpoch
    BY DEF EpochsTyped, Epochs
  <2>2. running[m] \in BOOLEAN
    BY Zenon DEF EpochsTyped
  <2>3. elect[m].at \in {"idle", "asking", "waiting", "won", "announcing"}
    <3>1. elect[m] = Idle \/ elect[m].at \in {"asking", "waiting", "won", "announcing"}
      BY BusyElection
    <3> QED
      BY <3>1 DEF Idle
  <2> QED
    BY <2>1, <2>2, <2>3 DEF Apart
<1> QED
    BY InitTyped, <1>1, <1>2, <1>3, PTL DEF Spec

(* No monitor's epoch ever decreases, whatever crashes, restarts and lost  *)
(* answers happen: EpochStore.save comes before a greater epoch is used,   *)
(* and a restarted monitor loads what was saved.                           *)
THEOREM EpochsOnlyGrow == Spec => EpochNeverDecreases
<1>1. EpochsTyped /\ [Next]_vars => EpochsTyped' /\ [\A m \in Monitors : epoch'[m] >= epoch[m]]_vars
    BY NextAdvances DEF Advances
<1> QED
    BY InitTyped, <1>1, PTL DEF Spec, EpochNeverDecreases

(* A monitor that follows a running leader changes it only in a later      *)
(* epoch or, in the same epoch, for a higher monitor.                      *)
THEOREM NoOlderLeader == Spec => NeverFollowsOlder
<1>1. EpochsTyped /\ [Next]_vars =>
          /\ EpochsTyped'
          /\ [\A m \in up \cap up' :
                running[m] /\ running'[m] /\ leader'[m] # leader[m] =>
                    epoch'[m] > epoch[m] \/ leader'[m] > leader[m]]_vars
    BY NextAdvances DEF Advances
<1> QED
    BY InitTyped, <1>1, PTL DEF Spec, NeverFollowsOlder

=============================================================================
