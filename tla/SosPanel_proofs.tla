--------------------------- MODULE SosPanel_proofs ---------------------------
(***************************************************************************)
(* Proofs about SosPanel, for any levels, clicks, drops and switches: an   *)
(* acknowledgement shown is real, or one the dashboard owns up to having   *)
(* made up.                                                                *)
(*                                                                         *)
(* AckShownIsReal speaks of the state shown only; it is inductive with the *)
(* same fact about every event on its way to the dashboard.                *)
(***************************************************************************)
EXTENDS SosPanel, TLAPS

EventsAreReal ==
  \A i \in 1 .. Len(events) :
    /\ events[i].origin = "backend"
    /\ events[i].acked => events[i].command \in acked

IInv == TypeOK /\ AckShownIsReal /\ EventsAreReal

\* What the header says, in terms of the state.
LEMMA HeaderSaysAck ==
  ASSUME actuator \in Actuator
  PROVE  Header = "ACK" <=> actuator.acked
  BY DEF Header, Actuator, NoState

\* The types of what is shown and sent.
LEMMA CommandType ==
  ASSUME NEW origin \in {"local", "backend"}, NEW c \in Nat \ {0}, NEW isAcked \in BOOLEAN
  PROVE  /\ Command(origin, c, isAcked) \in Actuator
         /\ Command(origin, c, isAcked).origin = origin
         /\ Command(origin, c, isAcked).command = c
         /\ Command(origin, c, isAcked).acked = isAcked
  BY DEF Command, Actuator

\* AckShownIsReal without the wording of the header.
LEMMA AckShown ==
  ASSUME actuator \in Actuator
  PROVE  AckShownIsReal <=>
           (actuator.acked => actuator.command \in IF actuator.origin = "local" THEN pretended ELSE acked)
  BY HeaderSaysAck DEF AckShownIsReal

LEMMA AckShownNext ==
  ASSUME actuator' \in Actuator
  PROVE  AckShownIsReal' <=>
           (actuator'.acked => actuator'.command \in IF actuator'.origin = "local" THEN pretended' ELSE acked')
  BY DEF AckShownIsReal, Header, Actuator, NoState

\* Events that are told are real if the acknowledgement is.
LEMMA TellKeeps ==
  ASSUME IInv, NEW c \in Nat \ {0}, NEW isAcked \in BOOLEAN, Tell(c, isAcked),
         acked \subseteq acked', isAcked => c \in acked'
  PROVE  events' \in Seq(Actuator) /\ EventsAreReal'
  <1>1. CASE ~ connected
    BY <1>1 DEF Tell, IInv, TypeOK, QueuesOK, EventsAreReal
  <1>2. CASE connected
    <2>. DEFINE e == Command("backend", c, isAcked)
    <2>1. e \in Actuator /\ e.origin = "backend" /\ (e.acked => e.command \in acked')
      BY CommandType
    <2>2. events' = Append(events, e)
      BY <1>2 DEF Tell
    <2>. HIDE DEF e
    <2>3. events \in Seq(Actuator)
      BY DEF IInv, TypeOK, QueuesOK
    <2>4. /\ events' \in Seq(Actuator)
          /\ Len(events') = Len(events) + 1
          /\ events'[Len(events) + 1] = e
          /\ \A i \in 1 .. Len(events) : events'[i] = events[i]
      BY <2>1, <2>2, <2>3
    <2>5. \A i \in 1 .. Len(events') : i \in 1 .. Len(events) \/ i = Len(events) + 1
      BY <2>3, <2>4
    <2>6. EventsAreReal'
      BY <2>1, <2>4, <2>5 DEF IInv, EventsAreReal
    <2>. QED BY <2>4, <2>6
  <1>. QED BY <1>1, <1>2

\* A step that leaves what is shown and what is on its way alone.
LEMMA SameView ==
  ASSUME IInv, UNCHANGED <<actuator, pretended, events>>, acked \subseteq acked'
  PROVE  AckShownIsReal' /\ EventsAreReal'
  <1>1. AckShownIsReal'
    BY AckShown, AckShownNext DEF IInv, TypeOK
  <1>2. EventsAreReal'
    BY DEF IInv, EventsAreReal
  <1>. QED BY <1>1, <1>2

LEMMA InitIInv == Init => IInv
  <1>. SUFFICES ASSUME Init PROVE IInv
    OBVIOUS
  <1>q. QueuesOK
    BY DEF Init, QueuesOK
  <1>f. FlagsOK
    BY DEF Init, FlagsOK
  <1>1. TypeOK
    BY <1>q, <1>f DEF Init, TypeOK, Actuator
  <1>2. AckShownIsReal
    BY DEF Init, AckShownIsReal, Header, NoState
  <1>3. EventsAreReal
    BY DEF Init, EventsAreReal
  <1>. QED BY <1>1, <1>2, <1>3 DEF IInv

LEMMA ClickIInv ==
  ASSUME IInv, NEW level \in Level, HandleClick(level)
  PROVE  IInv'
  <1>1. /\ clicked \in Nat /\ clicked' = clicked + 1
        /\ DispatchEdgeAlert(clicked')
        /\ dispatching' = level
        /\ sendingTimers' = sendingTimers + 1
        /\ UNCHANGED <<connected, simulating, toggles, others, recorded, waiting, overtaken, acked, events, drops,
                       broker, losses>>
    BY DEF HandleClick, IInv, TypeOK, commands, link
  <1>2. /\ actuator' \in Actuator /\ ~ actuator'.acked
    <2>1. clicked' \in Nat \ {0} /\ actuator' = Command("local", clicked', FALSE)
      BY <1>1 DEF DispatchEdgeAlert
    <2>. QED BY <2>1, CommandType
  <1>3. onTheirWay' \in Seq(1 .. clicked')
    <2>1. onTheirWay \in Seq(1 .. clicked')
      BY <1>1 DEF IInv, TypeOK, QueuesOK
    <2>2. clicked' \in 1 .. clicked'
      BY <1>1
    <2>3. onTheirWay' = Append(onTheirWay, clicked') \/ onTheirWay' = onTheirWay
      BY <1>1 DEF DispatchEdgeAlert
    <2>. QED BY <2>1, <2>2, <2>3
  <1>4. ackTimers' \subseteq pretended' /\ pretended' \subseteq 1 .. clicked'
    <2>1. \/ ackTimers' = ackTimers \cup {clicked'} /\ pretended' = pretended \cup {clicked'}
          \/ ackTimers' = ackTimers /\ pretended' = pretended
      BY <1>1 DEF DispatchEdgeAlert
    <2>2. ackTimers \subseteq pretended /\ pretended \subseteq 1 .. clicked
      BY DEF IInv, TypeOK
    <2>3. clicked \in Nat /\ clicked' = clicked + 1
      BY <1>1
    <2>4. 1 .. clicked \subseteq 1 .. clicked' /\ clicked' \in 1 .. clicked'
      BY <2>3
    <2>5. pretended' \subseteq 1 .. clicked'
      BY <2>1, <2>2, <2>4
    <2>. QED BY <2>1, <2>2, <2>5
  <1>q. QueuesOK'
    BY <1>1, <1>3 DEF IInv, TypeOK, QueuesOK
  <1>f. FlagsOK'
    BY <1>1 DEF IInv, TypeOK, FlagsOK
  <1>5. TypeOK'
    BY <1>1, <1>2, <1>4, <1>q, <1>f DEF IInv, TypeOK
  <1>6. AckShownIsReal'
    BY <1>2, AckShownNext
  <1>7. EventsAreReal'
    BY <1>1 DEF IInv, EventsAreReal
  <1>. QED BY <1>5, <1>6, <1>7 DEF IInv

LEMMA TimersIInv ==
  ASSUME IInv, SendingEnds \/ ToggleSimulation
  PROVE  IInv'
  <1>q. QueuesOK'
    BY DEF SendingEnds, ToggleSimulation, IInv, TypeOK, QueuesOK, panel, service, commands
  <1>f. FlagsOK'
    BY DEF IInv, TypeOK, FlagsOK, SendingEnds, ToggleSimulation, service, commands, link
  <1>t. sendingTimers' \in Nat /\ toggles' \in Nat /\ dispatching' \in Level \cup {None}
    BY DEF SendingEnds, ToggleSimulation, IInv, TypeOK, panel
  <1>u. UNCHANGED <<drops, losses, clicked, recorded, ackTimers, pretended, actuator, waiting, acked>>
    BY DEF SendingEnds, ToggleSimulation, panel, service, commands, link
  <1>1. TypeOK'
    BY <1>q, <1>f, <1>t, <1>u DEF IInv, TypeOK
  <1>2. UNCHANGED <<actuator, pretended, events, acked>>
    BY DEF SendingEnds, ToggleSimulation, panel, service, commands
  <1>. QED BY <1>1, <1>2, SameView DEF IInv

\* Only a command of the list of timers is acknowledged, and it is pretended.
LEMMA SimulateIInv ==
  ASSUME IInv, NEW c \in ackTimers, SimulateAck(c)
  PROVE  IInv'
  <1>1. /\ actuator' = Acknowledged(c)
        /\ ackTimers' \subseteq ackTimers
        /\ UNCHANGED <<connected, simulating, toggles, dispatching, sendingTimers, clicked, pretended,
                       onTheirWay, others, recorded, waiting, overtaken, acked, events, drops, broker, losses>>
    BY DEF SimulateAck, service, commands, link
  <1>2. actuator' = actuator \/
          (/\ actuator.origin = "local" /\ actuator.command = c
           /\ actuator' = [actuator EXCEPT !.acked = TRUE])
    BY <1>1 DEF Acknowledged
  <1>3. actuator \in Actuator /\ c \in pretended
    BY DEF IInv, TypeOK
  <1>4. actuator' \in Actuator
    <2>1. CASE actuator' = actuator
      BY <1>3, <2>1
    <2>2. CASE actuator.origin = "local" /\ actuator' = [actuator EXCEPT !.acked = TRUE]
      <3>1. actuator \in [origin : {"local", "backend"}, command : Nat \ {0}, acked : BOOLEAN]
        BY <1>3, <2>2 DEF Actuator, NoState
      <3>. QED BY <2>2, <3>1 DEF Actuator
    <2>. QED BY <1>2, <2>1, <2>2
  <1>q. QueuesOK'
    BY <1>1 DEF IInv, TypeOK, QueuesOK
  <1>f. FlagsOK'
    BY <1>1 DEF IInv, TypeOK, FlagsOK
  <1>5. TypeOK'
    BY <1>1, <1>4, <1>q, <1>f DEF IInv, TypeOK
  <1>6. AckShownIsReal'
    <2>1. CASE actuator' = actuator
      BY <1>1, <1>3, <2>1, AckShown, AckShownNext DEF IInv
    <2>2. CASE /\ actuator.origin = "local" /\ actuator.command = c
               /\ actuator' = [actuator EXCEPT !.acked = TRUE]
      <3>1. actuator'.origin = "local" /\ actuator'.command = c
        BY <1>3, <2>2 DEF Actuator, NoState
      <3>. QED BY <1>1, <1>3, <1>4, <3>1, AckShownNext
    <2>. QED BY <1>2, <2>1, <2>2
  <1>7. EventsAreReal'
    BY <1>1 DEF IInv, EventsAreReal
  <1>. QED BY <1>5, <1>6, <1>7 DEF IInv

LEMMA RecordIInv ==
  ASSUME IInv, OtherDispatch \/ HandleDispatch
  PROVE  IInv'
  <1>1. /\ RecordDispatch
        /\ onTheirWay' = onTheirWay \/ (onTheirWay # <<>> /\ onTheirWay' = Tail(onTheirWay))
        /\ UNCHANGED <<connected, simulating, toggles, panel, acked, drops, broker, losses>>
    BY DEF OtherDispatch, HandleDispatch, link
  <1>r. recorded \in Nat
    BY DEF IInv, TypeOK
  <1>d. /\ recorded' = recorded + 1
        /\ IF broker
           THEN waiting' = waiting \cup {recorded'} /\ UNCHANGED events
           ELSE Tell(recorded', FALSE) /\ UNCHANGED waiting
    BY <1>1, Zenon DEF RecordDispatch
  <1>2. recorded' \in Nat \ {0} /\ recorded' = recorded + 1 /\ recorded \in Nat
    BY <1>r, <1>d
  <1>3. 1 .. recorded \subseteq 1 .. recorded' /\ recorded' \in 1 .. recorded'
    BY <1>2
  <1>4. waiting' \subseteq 1 .. recorded' /\ acked' \subseteq 1 .. recorded'
    BY <1>1, <1>d, <1>3 DEF IInv, TypeOK
  <1>5. onTheirWay' \in Seq(1 .. clicked)
    <2>1. onTheirWay \in Seq(1 .. clicked)
      BY DEF IInv, TypeOK, QueuesOK
    <2>2. CASE onTheirWay' = onTheirWay
      BY <2>1, <2>2
    <2>3. CASE onTheirWay # <<>> /\ onTheirWay' = Tail(onTheirWay)
      BY <2>1, <2>3
    <2>. QED BY <1>1, <2>2, <2>3
  <1>6. events' \in Seq(Actuator) /\ EventsAreReal'
    <2>1. CASE broker
      BY <1>1, <1>d, <2>1 DEF IInv, TypeOK, QueuesOK, EventsAreReal
    <2>2. CASE ~ broker
      BY <1>1, <1>2, <1>d, <2>2, TellKeeps
    <2>. QED BY <2>1, <2>2
  <1>7. QueuesOK'
    BY <1>1, <1>5, <1>6 DEF QueuesOK, panel
  <1>8. FlagsOK'
    <2>1. overtaken' \in BOOLEAN
      BY <1>1, Zenon DEF RecordDispatch
    <2>. QED BY <1>1, <2>1 DEF IInv, TypeOK, FlagsOK
  <1>9. TypeOK'
    BY <1>1, <1>2, <1>4, <1>7, <1>8 DEF IInv, TypeOK, panel
  <1>10. AckShownIsReal'
    BY <1>1, AckShown, AckShownNext DEF IInv, TypeOK, panel
  <1>. QED BY <1>6, <1>9, <1>10 DEF IInv

LEMMA AnnounceIInv ==
  ASSUME IInv, AnnounceDispatch
  PROVE  IInv'
  <1>1. PICK c \in waiting : waiting' = waiting \ {c} /\ Tell(c, c \in acked)
    BY DEF AnnounceDispatch
  <1>2. UNCHANGED <<connected, simulating, toggles, panel, onTheirWay, recorded, overtaken, acked, drops, broker, losses>>
    BY DEF AnnounceDispatch, link
  <1>3. c \in Nat \ {0} /\ waiting' \subseteq 1 .. recorded
    BY <1>1 DEF IInv, TypeOK
  <1>4. events' \in Seq(Actuator) /\ EventsAreReal'
    <2>. DEFINE isAcked == c \in acked
    <2>1. isAcked \in BOOLEAN /\ (isAcked => c \in acked')
      BY <1>2
    <2>2. Tell(c, isAcked) /\ acked \subseteq acked'
      BY <1>1, <1>2
    <2>. HIDE DEF isAcked
    <2>. QED BY <1>3, <2>1, <2>2, TellKeeps
  <1>q. QueuesOK'
    BY <1>2, <1>4 DEF IInv, TypeOK, QueuesOK, panel
  <1>f. FlagsOK'
    BY <1>2 DEF IInv, TypeOK, FlagsOK
  <1>5. TypeOK'
    BY <1>2, <1>3, <1>q, <1>f DEF IInv, TypeOK, panel
  <1>6. AckShownIsReal'
    BY <1>2, AckShown, AckShownNext DEF IInv, TypeOK, panel
  <1>. QED BY <1>4, <1>5, <1>6 DEF IInv

LEMMA BrokerIInv ==
  ASSUME IInv, BrokerConnect \/ BrokerLost
  PROVE  IInv'
  <1>l. losses' \in Nat
    BY DEF BrokerConnect, BrokerLost, IInv, TypeOK
  <1>b. broker' = TRUE \/ broker' = FALSE
    BY Zenon DEF BrokerConnect, BrokerLost
  <1>u. UNCHANGED <<connected, simulating, toggles, panel, onTheirWay, recorded, waiting, overtaken, acked, events, drops>>
    BY DEF BrokerConnect, BrokerLost, service, commands
  <1>1. /\ broker' \in BOOLEAN /\ losses' \in Nat
        /\ UNCHANGED <<connected, simulating, toggles, panel, onTheirWay, recorded, waiting, overtaken, acked, events, drops>>
    BY <1>l, <1>b, <1>u
  <1>q. QueuesOK'
    BY <1>1 DEF IInv, TypeOK, QueuesOK, panel
  <1>f. FlagsOK'
    BY <1>1 DEF IInv, TypeOK, FlagsOK
  <1>2. TypeOK'
    BY <1>1, <1>q, <1>f DEF IInv, TypeOK, panel
  <1>. QED BY <1>1, <1>2, SameView DEF IInv, panel

LEMMA AckIInv ==
  ASSUME IInv, HandleAlertAck
  PROVE  IInv'
  <1>1. /\ recorded > 0
        /\ acked' = acked \cup {recorded}
        /\ Tell(recorded, TRUE)
        /\ UNCHANGED <<connected, simulating, toggles, panel, onTheirWay, recorded, waiting, overtaken, drops, broker, losses>>
    BY DEF HandleAlertAck, link
  <1>2. recorded \in Nat \ {0}
    BY <1>1 DEF IInv, TypeOK
  <1>3. events' \in Seq(Actuator) /\ EventsAreReal'
    BY <1>1, <1>2, TellKeeps
  <1>q. QueuesOK'
    BY <1>1, <1>3 DEF IInv, TypeOK, QueuesOK, panel
  <1>f. FlagsOK'
    BY <1>1 DEF IInv, TypeOK, FlagsOK
  <1>4. TypeOK'
    BY <1>1, <1>2, <1>q, <1>f DEF IInv, TypeOK, panel
  <1>5. AckShownIsReal'
    BY <1>1, AckShown, AckShownNext DEF IInv, TypeOK, panel
  <1>. QED BY <1>3, <1>4, <1>5 DEF IInv

LEMMA ReceiveIInv ==
  ASSUME IInv, ReceiveEvent
  PROVE  IInv'
  <1>1. /\ events # <<>>
        /\ events' = Tail(events)
        /\ actuator' = Head(events)
        /\ UNCHANGED <<connected, simulating, toggles, dispatching, sendingTimers, ackTimers, clicked, pretended,
                       onTheirWay, recorded, waiting, overtaken, acked, drops, broker, losses>>
    BY DEF ReceiveEvent, commands, link
  <1>2. events \in Seq(Actuator)
    BY DEF IInv, TypeOK, QueuesOK
  <1>3. /\ Len(events) \in Nat /\ Len(events) >= 1
        /\ actuator' = events[1] /\ actuator' \in Actuator
        /\ events' \in Seq(Actuator)
        /\ Len(events') = Len(events) - 1
        /\ \A i \in 1 .. Len(events') : events'[i] = events[i + 1]
    BY <1>1, <1>2
  <1>q. QueuesOK'
    BY <1>1, <1>3 DEF IInv, TypeOK, QueuesOK
  <1>f. FlagsOK'
    BY <1>1 DEF IInv, TypeOK, FlagsOK
  <1>4. TypeOK'
    BY <1>1, <1>3, <1>q, <1>f DEF IInv, TypeOK
  <1>5. actuator'.origin = "backend" /\ (actuator'.acked => actuator'.command \in acked)
    BY <1>3 DEF IInv, EventsAreReal
  <1>6. AckShownIsReal'
    BY <1>1, <1>3, <1>5, AckShownNext
  <1>7. EventsAreReal'
    BY <1>1, <1>3 DEF IInv, EventsAreReal
  <1>. QED BY <1>4, <1>6, <1>7 DEF IInv

LEMMA ConnectionIInv ==
  ASSUME IInv, HandleConnection \/ HandleDisconnect
  PROVE  IInv'
  <1>1. /\ events' = <<>> \/ (recorded # 0 /\ events' = <<Command("backend", recorded, recorded \in acked)>>)
        /\ onTheirWay' = onTheirWay \/ onTheirWay' = <<>>
        /\ UNCHANGED <<simulating, toggles, panel, recorded, waiting, overtaken, acked, broker, losses>>
    BY DEF HandleConnection, HandleDisconnect, StateBatch, commands, link
  <1>d. drops' \in Nat
    BY DEF HandleConnection, HandleDisconnect, IInv, TypeOK
  <1>2. events' \in Seq(Actuator) /\ EventsAreReal'
    <2>1. CASE events' = <<>>
      BY <2>1 DEF EventsAreReal
    <2>2. CASE recorded # 0 /\ events' = <<Command("backend", recorded, recorded \in acked)>>
      <3>. DEFINE e == Command("backend", recorded, recorded \in acked)
      <3>. DEFINE isAcked == recorded \in acked
      <3>0. recorded \in Nat \ {0} /\ isAcked \in BOOLEAN /\ (isAcked => recorded \in acked')
        BY <1>1, <2>2 DEF IInv, TypeOK
      <3>. HIDE DEF isAcked
      <3>a. Command("backend", recorded, isAcked) \in Actuator
        BY <3>0, CommandType
      <3>b. /\ Command("backend", recorded, isAcked).origin = "backend"
            /\ Command("backend", recorded, isAcked).command = recorded
            /\ Command("backend", recorded, isAcked).acked = isAcked
        BY <3>0, CommandType
      <3>1. e \in Actuator /\ e.origin = "backend" /\ (e.acked => e.command \in acked')
        BY <3>0, <3>a, <3>b DEF isAcked
      <3>. HIDE DEF e
      <3>2. events' = <<e>>
        BY <2>2 DEF e
      <3>. QED BY <3>1, <3>2 DEF EventsAreReal
    <2>. QED BY <1>1, <2>1, <2>2
  <1>q. QueuesOK'
    <2>0. onTheirWay \in Seq(1 .. clicked) /\ clicked' = clicked
      BY <1>1 DEF IInv, TypeOK, QueuesOK, panel
    <2>1. CASE onTheirWay' = onTheirWay
      BY <1>2, <2>0, <2>1 DEF QueuesOK
    <2>2. CASE onTheirWay' = <<>>
      <3>1. <<>> \in Seq(1 .. clicked')
        OBVIOUS
      <3>. QED BY <1>2, <2>2, <3>1 DEF QueuesOK
    <2>. QED BY <1>1, <2>1, <2>2
  <1>f. FlagsOK'
    BY <1>1 DEF HandleConnection, HandleDisconnect, IInv, TypeOK, FlagsOK
  <1>3. TypeOK'
    BY <1>1, <1>d, <1>q, <1>f DEF IInv, TypeOK, panel
  <1>4. AckShownIsReal'
    BY <1>1, AckShown, AckShownNext DEF IInv, TypeOK, panel
  <1>. QED BY <1>2, <1>3, <1>4 DEF IInv

LEMMA NextIInv ==
  ASSUME IInv, [Next]_vars
  PROVE  IInv'
  <1>1. CASE UNCHANGED vars
    <2>1. TypeOK' /\ UNCHANGED <<actuator, pretended, events, acked>>
      BY <1>1 DEF vars, panel, service, commands, link, IInv, TypeOK, QueuesOK, FlagsOK
    <2>. QED BY <2>1, SameView DEF IInv
  <1>2. CASE Next
    BY <1>2, ClickIInv, TimersIInv, SimulateIInv, RecordIInv, AnnounceIInv, BrokerIInv, AckIInv,
       ReceiveIInv, ConnectionIInv DEF Next
  <1>. QED BY <1>1, <1>2

(***************************************************************************)
(* The types of the panel: what waits for a simulated acknowledgement is a *)
(* command of this dashboard, and no dispatch is announced that was not    *)
(* recorded (dispatchEdgeAlert 1492-1560; edge-alert.service.ts 60-139).   *)
(***************************************************************************)
THEOREM TypeCorrect == Spec => []TypeOK
  <1>1. IInv => TypeOK
    BY DEF IInv
  <1>. QED BY <1>1, InitIInv, NextIInv, PTL DEF Spec

(***************************************************************************)
(* A command shown as acknowledged was acknowledged by the node, unless    *)
(* the dashboard pretends, for any number of clicks, broken connections    *)
(* and switches of the simulation (1492-1560, 1308-1324).                  *)
(***************************************************************************)
THEOREM ShownAckIsReal == Spec => []AckShownIsReal
  <1>1. IInv => AckShownIsReal
    BY DEF IInv
  <1>. QED BY <1>1, InitIInv, NextIInv, PTL DEF Spec

=============================================================================
