-------------------------- MODULE Dashboard_proofs --------------------------
(***************************************************************************)
(* Proofs about Dashboard and the pages over it, for any nodes, zones,     *)
(* drops, restarts, purges, simulations and filters: a zone the dashboard  *)
(* thinks it joined is served, a reading on the screen is never replaced   *)
(* by an older one, and the pages and the frame agree on every figure.     *)
(*                                                                         *)
(* None is inductive.  What is known of a closed connection (Rooms) gives  *)
(* the first.  For the second, the readings of a node are in order from    *)
(* the screen through the messages to the snapshot (InOrder): what is sent *)
(* is always the snapshot's value, from the buffer as on joining.  The     *)
(* pages agree in every state of these types; of what happened before,     *)
(* only the joined zones matter (JoinedAreKnown).  That zone by zone       *)
(* counts add up to the fleet's is shown by numbering each zone's nodes.   *)
(***************************************************************************)
EXTENDS Console, FiniteSetTheorems, FunctionTheorems, TLAPS

-----------------------------------------------------------------------------
(***************************************************************************)
(* Maps.                                                                   *)
(***************************************************************************)
LEMMA MapIn ==
  ASSUME NEW V, NEW D \in SUBSET Node, NEW f \in [D -> V]
  PROVE  f \in MapOf(V)
  BY DEF MapOf

LEMMA MapOut ==
  ASSUME NEW V, NEW f \in MapOf(V)
  PROVE  /\ DOMAIN f \subseteq Node
         /\ f \in [DOMAIN f -> V]
         /\ \A n \in DOMAIN f : f[n] \in V
  <1>1. PICK D \in SUBSET Node : f \in [D -> V]
    BY DEF MapOf
  <1>. QED BY <1>1

LEMMA MapWider ==
  ASSUME NEW V, NEW W, NEW f \in MapOf(V), \A n \in DOMAIN f : f[n] \in W
  PROVE  f \in MapOf(W)
  <1>1. f \in [DOMAIN f -> W] /\ DOMAIN f \in SUBSET Node
    BY MapOut
  <1>. QED BY <1>1, MapIn

LEMMA EmptyMap ==
  ASSUME NEW V
  PROVE  Empty \in MapOf(V) /\ DOMAIN Empty = {}
  <1>1. Empty \in [{} -> V]
    BY DEF Empty
  <1>. QED BY <1>1, MapIn

LEMMA SingleMap ==
  ASSUME NEW V, NEW n \in Node, NEW v \in V
  PROVE  Single(n, v) \in MapOf(V)
  <1>1. Single(n, v) \in [{n} -> V] /\ {n} \in SUBSET Node
    BY DEF Single
  <1>. QED BY <1>1, MapIn DEF Single

LEMMA OnlyMap ==
  ASSUME NEW V, NEW f \in MapOf(V), NEW S
  PROVE  Only(f, S) \in MapOf(V)
  <1>1. Only(f, S) \in [DOMAIN f \cap S -> V] /\ DOMAIN f \cap S \in SUBSET Node
    BY MapOut DEF Only
  <1>. QED BY <1>1, MapIn DEF Only

LEMMA MergedMap ==
  ASSUME NEW V, NEW f \in MapOf(V), NEW g \in MapOf(V)
  PROVE  Merged(f, g) \in MapOf(V)
  <1>1. Merged(f, g) \in [DOMAIN f \cup DOMAIN g -> V] /\ DOMAIN f \cup DOMAIN g \in SUBSET Node
    BY MapOut DEF Merged
  <1>. QED BY <1>1, MapIn DEF Merged

LEMMA MapWithOne ==
  ASSUME NEW V, NEW f \in MapOf(V), NEW n \in Node, NEW v \in V
  PROVE  Merged(Single(n, v), f) \in MapOf(V)
  BY SingleMap, MergedMap

\* The zones of a map's nodes are zones.
LEMMA ZonesOfMap ==
  ASSUME NEW V, NEW f \in MapOf(V)
  PROVE  ZonesOf(f) \subseteq Zone
  BY MapOut, DashboardAssumption DEF ZonesOf

-----------------------------------------------------------------------------
(***************************************************************************)
(* The invariant.                                                          *)
(***************************************************************************)
Rooms ==
  /\ ~ connected => rooms = {} /\ requests = {} /\ messages = <<>> /\ joined = {}
  /\ JoinedIsServed

\* A batch carries what a snapshot would.
UpdatesAreCurrent ==
  \A n \in DOMAIN updates : n \in DOMAIN snapshot /\ updates[n] = snapshot[n]

ScreenNotAhead ==
  \A n \in DOMAIN readings \cap DOMAIN snapshot : readings[n] <= snapshot[n]

Carries(i, n) == i \in 1 .. Len(messages) /\ n \in DOMAIN messages[i].readings

MessagesInOrder ==
  \A i \in 1 .. Len(messages) : \A n \in DOMAIN messages[i].readings :
    /\ n \in DOMAIN snapshot /\ messages[i].readings[n] <= snapshot[n]
    /\ n \in DOMAIN readings => readings[n] <= messages[i].readings[n]
    /\ \A j \in 1 .. Len(messages) :
         j < i /\ n \in DOMAIN messages[j].readings => messages[j].readings[n] <= messages[i].readings[n]

InOrder == UpdatesAreCurrent /\ ScreenNotAhead /\ MessagesInOrder

IInv == TypeOK /\ Rooms /\ InOrder

\* What NeverOlder says of a step.
KeepsOrder ==
  \A n \in DOMAIN readings \cap DOMAIN readings' :
    readings'[n] # Simulated => readings'[n] >= readings[n]

\* What the types say of the numbers.
LEMMA Numbers ==
  ASSUME TypeOK
  PROVE  /\ made \in Nat
         /\ DOMAIN snapshot \subseteq Node /\ \A n \in DOMAIN snapshot : snapshot[n] \in 1 .. made
         /\ DOMAIN updates \subseteq Node /\ \A n \in DOMAIN updates : updates[n] \in 1 .. made
         /\ DOMAIN readings \subseteq Node /\ \A n \in DOMAIN readings : readings[n] \in 0 .. made
         /\ messages \in Seq(MessageType)
         /\ \A i \in 1 .. Len(messages) :
              /\ messages[i] \in MessageType
              /\ messages[i].readings \in MapOf(Nat)
              /\ \A n \in DOMAIN messages[i].readings : messages[i].readings[n] \in Nat
  <1>1. made \in Nat /\ snapshot \in MapOf(1 .. made) /\ updates \in MapOf(1 .. made)
    BY DEF TypeOK, ServiceOK
  <1>2. readings \in MapOf(0 .. made)
    BY DEF TypeOK, ScreenOK
  <1>3. messages \in Seq(MessageType)
    BY DEF TypeOK, SocketOK
  <1>4. \A i \in 1 .. Len(messages) : messages[i] \in MessageType
    BY <1>3
  <1>5. \A i \in 1 .. Len(messages) : messages[i].readings \in MapOf(Nat)
    BY <1>4 DEF MessageType
  <1>6. \A i \in 1 .. Len(messages) : \A n \in DOMAIN messages[i].readings : messages[i].readings[n] \in Nat
    BY <1>5, MapOut
  <1>. QED BY <1>1, <1>2, <1>3, <1>4, <1>5, <1>6, MapOut

-----------------------------------------------------------------------------
(***************************************************************************)
(* Messages sent: what they carry is what the snapshot holds.              *)
(***************************************************************************)
LEMMA SendInOrder ==
  ASSUME IInv, NEW m \in MessageType,
         \A n \in DOMAIN m.readings : n \in DOMAIN snapshot /\ m.readings[n] = snapshot[n],
         messages' = Append(messages, m),
         UNCHANGED <<snapshot, readings>>
  PROVE  messages' \in Seq(MessageType) /\ MessagesInOrder'
  <1>1. messages \in Seq(MessageType) /\ Len(messages) \in Nat
    BY Numbers DEF IInv
  <1>2. /\ messages' \in Seq(MessageType)
        /\ Len(messages') = Len(messages) + 1
        /\ messages'[Len(messages) + 1] = m
        /\ \A i \in 1 .. Len(messages) : messages'[i] = messages[i]
    BY <1>1
  <1>3. \A n \in DOMAIN snapshot : snapshot[n] \in Nat
    BY Numbers DEF IInv
  <1>4. MessagesInOrder
    BY DEF IInv, InOrder
  <1>5. ScreenNotAhead
    BY DEF IInv, InOrder
  <1>6. ASSUME NEW i \in 1 .. Len(messages'), NEW n \in DOMAIN messages'[i].readings
        PROVE  /\ n \in DOMAIN snapshot /\ messages'[i].readings[n] <= snapshot[n]
               /\ n \in DOMAIN readings => readings[n] <= messages'[i].readings[n]
               /\ \A j \in 1 .. Len(messages') :
                    j < i /\ n \in DOMAIN messages'[j].readings =>
                      messages'[j].readings[n] <= messages'[i].readings[n]
    <2>1. CASE i \in 1 .. Len(messages)
      <3>1. messages'[i] = messages[i]
        BY <1>2, <2>1
      <3>2. \A j \in 1 .. Len(messages') : j < i => j \in 1 .. Len(messages) /\ messages'[j] = messages[j]
        BY <1>1, <1>2, <2>1
      <3>. QED BY <1>4, <2>1, <3>1, <3>2 DEF MessagesInOrder
    <2>2. CASE i = Len(messages) + 1
      <3>1. messages'[i] = m /\ n \in DOMAIN snapshot /\ m.readings[n] = snapshot[n] /\ snapshot[n] \in Nat
        BY <1>2, <1>3, <2>2
      <3>2. n \in DOMAIN readings => readings[n] <= snapshot[n]
        BY <1>5, <3>1 DEF ScreenNotAhead
      <3>3. \A j \in 1 .. Len(messages') : j < i => j \in 1 .. Len(messages) /\ messages'[j] = messages[j]
        BY <1>1, <1>2, <2>2
      <3>4. \A j \in 1 .. Len(messages) : n \in DOMAIN messages[j].readings => messages[j].readings[n] <= snapshot[n]
        BY <1>4 DEF MessagesInOrder
      <3>. QED BY <3>1, <3>2, <3>3, <3>4
    <2>. QED BY <1>1, <1>2, <2>1, <2>2
  <1>. QED BY <1>2, <1>6 DEF MessagesInOrder

\* A message made of parts of the two snapshots, or of batches.
LEMMA MessageOf ==
  ASSUME IInv, NEW zones \in SUBSET Zone, NEW r \in MapOf(Nat), NEW s \in MapOf(Status),
         NEW p \in SUBSET Node,
         \A n \in DOMAIN r : n \in DOMAIN snapshot /\ r[n] = snapshot[n]
  PROVE  /\ Message(zones, r, s, p) \in MessageType
         /\ \A n \in DOMAIN Message(zones, r, s, p).readings :
              n \in DOMAIN snapshot /\ Message(zones, r, s, p).readings[n] = snapshot[n]
  BY DEF Message, MessageType

\* To nobody when the connection is closed, for the client is in no room then.
LEMMA BroadcastKeeps ==
  ASSUME IInv, NEW r \in MapOf(Nat), NEW s \in MapOf(Status), Broadcast(r, s),
         \A n \in DOMAIN r : n \in DOMAIN snapshot /\ r[n] = snapshot[n],
         UNCHANGED <<snapshot, readings>>
  PROVE  /\ messages' \in Seq(MessageType)
         /\ MessagesInOrder'
         /\ rooms = {} => messages' = messages
  <1>. DEFINE mine == InZones(rooms)
              zones == ZonesOf(Only(r, mine)) \cup ZonesOf(Only(s, mine))
              m == Message(zones, Only(r, mine), Only(s, mine), {})
  <1>1. Only(r, mine) \in MapOf(Nat) /\ Only(s, mine) \in MapOf(Status)
    BY OnlyMap
  <1>2. zones \in SUBSET Zone
    BY <1>1, ZonesOfMap
  <1>a. /\ DOMAIN Only(r, mine) = DOMAIN r \cap mine
        /\ DOMAIN Only(s, mine) = DOMAIN s \cap mine
    BY DEF Only
  <1>3. \A n \in DOMAIN Only(r, mine) : n \in DOMAIN snapshot /\ Only(r, mine)[n] = snapshot[n]
    BY DEF Only
  <1>4. /\ m \in MessageType
        /\ \A n \in DOMAIN m.readings : n \in DOMAIN snapshot /\ m.readings[n] = snapshot[n]
    <2>1. {} \in SUBSET Node
      OBVIOUS
    <2>. QED BY <1>1, <1>2, <1>3, <2>1, MessageOf
  <1>5. m.zones = zones
    BY DEF Message
  <1>6. messages' = IF m.zones = {} THEN messages ELSE Append(messages, m)
    BY DEF Broadcast
  <1>7. rooms = {} => messages' = messages
    <2>. SUFFICES ASSUME rooms = {} PROVE zones = {}
      BY <1>5, <1>6
    <2>1. mine = {}
      BY DEF InZones
    <2>2. DOMAIN Only(r, mine) = {} /\ DOMAIN Only(s, mine) = {}
      BY <1>a, <2>1
    <2>. QED BY <2>2 DEF ZonesOf
  <1>8. CASE messages' = messages
    BY <1>8, Numbers DEF IInv, InOrder, MessagesInOrder
  <1>9. CASE messages' = Append(messages, m)
    <2>. HIDE DEF m
    <2>. QED BY <1>4, <1>7, <1>9, SendInOrder
  <1>. QED BY <1>6, <1>7, <1>8, <1>9

-----------------------------------------------------------------------------
(***************************************************************************)
(* What a step leaves alone.                                               *)
(***************************************************************************)
LEMMA SameService ==
  ASSUME TypeOK, UNCHANGED <<backend, made>>
  PROVE  ServiceOK'
  BY DEF TypeOK, ServiceOK, backend

LEMMA SameScreen ==
  ASSUME TypeOK, UNCHANGED <<client, touched, made>>
  PROVE  ScreenOK' /\ KeepsOrder
  <1>1. ScreenOK'
    BY DEF TypeOK, ScreenOK, client
  <1>2. readings' = readings /\ \A n \in DOMAIN readings : readings[n] \in Nat
    BY Numbers DEF client
  <1>. QED BY <1>1, <1>2 DEF KeepsOrder

LEMMA SameSocket ==
  ASSUME IInv, UNCHANGED <<socket, joined>>
  PROVE  SocketOK' /\ Rooms'
  <1>1. SocketOK'
    BY DEF IInv, TypeOK, SocketOK, socket
  <1>2. Rooms'
    BY DEF IInv, Rooms, JoinedIsServed, socket
  <1>. QED BY <1>1, <1>2

\* Messages only, and only if there is a connection.
LEMMA RoomsAfterSending ==
  ASSUME IInv, messages' \in Seq(MessageType), ~ connected => messages' = messages,
         UNCHANGED <<rooms, requests, connected, joined>>
  PROVE  SocketOK' /\ Rooms'
  <1>1. SocketOK'
    BY DEF IInv, TypeOK, SocketOK
  <1>2. Rooms'
    BY DEF IInv, Rooms, JoinedIsServed
  <1>. QED BY <1>1, <1>2

LEMMA Counted ==
  ASSUME TypeOK, UNCHANGED counts
  PROVE  made' = made /\ made' \in Nat /\ predicted' \in Nat /\ outages' \in Nat /\ drops' \in Nat /\ clicks' \in Nat
  BY DEF TypeOK, counts

-----------------------------------------------------------------------------
LEMMA InitIInv == Init => IInv
  <1>. SUFFICES ASSUME Init PROVE IInv
    OBVIOUS
  <1>0. /\ made = 0 /\ predicted = 0 /\ outages = 0 /\ drops = 0 /\ clicks = 0
        /\ snapshot = Empty /\ updates = Empty /\ statusSnapshot = Empty /\ statusUpdates = {}
        /\ rooms = {} /\ requests = {} /\ messages = <<>> /\ joined = {} /\ activeZones = {}
        /\ readings = Empty /\ nodeStatuses = Empty /\ touched = {}
        /\ shadowPredictions = {} /\ mlPredictions = {}
    BY DEF Init
  <1>1. ServiceOK
    BY <1>0, EmptyMap DEF ServiceOK
  <1>2. SocketOK
    <2>1. connected \in BOOLEAN
      BY DEF Init
    <2>2. messages \in Seq(MessageType)
      BY <1>0
    <2>. QED BY <1>0, <2>1, <2>2 DEF SocketOK
  <1>3. ScreenOK
    <2>1. simulating \in BOOLEAN
      BY DEF Init
    <2>. QED BY <1>0, <2>1, EmptyMap DEF ScreenOK
  <1>4. Rooms
    BY <1>0 DEF Rooms, JoinedIsServed
  <1>5. InOrder
    <2>1. DOMAIN updates = {} /\ DOMAIN readings = {}
      BY <1>0, EmptyMap
    <2>2. MessagesInOrder
      BY <1>0 DEF MessagesInOrder
    <2>. QED BY <2>1, <2>2 DEF InOrder, UpdatesAreCurrent, ScreenNotAhead
  <1>. QED BY <1>0, <1>1, <1>2, <1>3, <1>4, <1>5 DEF IInv, TypeOK

\* A new reading is newer than all that is on its way or on the screen.
LEMMA ReadingIInv ==
  ASSUME IInv, NEW n \in Node, HandleDedupedReading(n)
  PROVE  IInv' /\ KeepsOrder
  <1>1. /\ made' = made + 1
        /\ snapshot' = Merged(Single(n, made'), snapshot)
        /\ updates' = Merged(Single(n, made'), updates)
        /\ UNCHANGED <<shadowPredictions, socket, client, predicted, outages, drops, clicks, touched>>
    BY DEF HandleDedupedReading, Buffered
  <1>2. \/ UNCHANGED <<statusSnapshot, statusUpdates>>
        \/ /\ n \in DOMAIN statusSnapshot
           /\ statusSnapshot' = [statusSnapshot EXCEPT ![n] = "online"]
           /\ statusUpdates' = statusUpdates \cup {n}
    BY DEF HandleDedupedReading
  <1>3. made \in Nat /\ made' \in Nat /\ made' \in 1 .. made' /\ 1 .. made \subseteq 1 .. made' /\ 0 .. made \subseteq 0 .. made'
    BY <1>1, Numbers DEF IInv
  <1>4. /\ snapshot \in MapOf(1 .. made') /\ updates \in MapOf(1 .. made')
        /\ readings \in MapOf(0 .. made')
    <2>1. snapshot \in MapOf(1 .. made) /\ updates \in MapOf(1 .. made) /\ readings \in MapOf(0 .. made)
      BY DEF IInv, TypeOK, ServiceOK, ScreenOK
    <2>2. /\ \A m \in DOMAIN snapshot : snapshot[m] \in 1 .. made'
          /\ \A m \in DOMAIN updates : updates[m] \in 1 .. made'
          /\ \A m \in DOMAIN readings : readings[m] \in 0 .. made'
      BY <1>3, Numbers DEF IInv
    <2>. QED BY <2>1, <2>2, MapWider
  <1>6. /\ snapshot' \in MapOf(1 .. made') /\ DOMAIN snapshot' = {n} \cup DOMAIN snapshot
        /\ snapshot'[n] = made' /\ \A m \in DOMAIN snapshot \ {n} : snapshot'[m] = snapshot[m]
        /\ updates' \in MapOf(1 .. made') /\ DOMAIN updates' = {n} \cup DOMAIN updates
        /\ updates'[n] = made' /\ \A m \in DOMAIN updates \ {n} : updates'[m] = updates[m]
    <2>1. snapshot' \in MapOf(1 .. made') /\ updates' \in MapOf(1 .. made')
      BY <1>1, <1>3, <1>4, MapWithOne
    <2>2. /\ DOMAIN snapshot' = {n} \cup DOMAIN snapshot
          /\ snapshot'[n] = made' /\ \A m \in DOMAIN snapshot \ {n} : snapshot'[m] = snapshot[m]
      BY <1>1 DEF Merged, Single
    <2>3. /\ DOMAIN updates' = {n} \cup DOMAIN updates
          /\ updates'[n] = made' /\ \A m \in DOMAIN updates \ {n} : updates'[m] = updates[m]
      BY <1>1 DEF Merged, Single
    <2>. QED BY <2>1, <2>2, <2>3
  <1>7. statusSnapshot' \in MapOf(Status) /\ statusUpdates' \subseteq DOMAIN statusSnapshot'
    <2>1. statusSnapshot \in MapOf(Status) /\ statusUpdates \subseteq DOMAIN statusSnapshot
      BY DEF IInv, TypeOK, ServiceOK
    <2>2. statusSnapshot \in [DOMAIN statusSnapshot -> Status] /\ DOMAIN statusSnapshot \in SUBSET Node
      BY <2>1, MapOut
    <2>3. CASE UNCHANGED <<statusSnapshot, statusUpdates>>
      BY <2>1, <2>3
    <2>4. CASE /\ n \in DOMAIN statusSnapshot
               /\ statusSnapshot' = [statusSnapshot EXCEPT ![n] = "online"]
               /\ statusUpdates' = statusUpdates \cup {n}
      <3>1. statusSnapshot' \in [DOMAIN statusSnapshot -> Status]
        BY <2>2, <2>4 DEF Status
      <3>. QED BY <2>1, <2>2, <2>4, <3>1, MapIn
    <2>. QED BY <1>2, <2>3, <2>4
  <1>8. ServiceOK'
    <2>1. shadowPredictions' \subseteq DOMAIN snapshot'
      BY <1>1, <1>6 DEF IInv, TypeOK, ServiceOK
    <2>. QED BY <1>6, <1>7, <2>1 DEF ServiceOK
  <1>9. readings' = readings /\ messages' = messages
    BY <1>1 DEF client, socket
  <1>10. ScreenOK'
    BY <1>1, <1>4 DEF IInv, TypeOK, ScreenOK, client
  <1>11. SocketOK' /\ Rooms'
    BY <1>1, SameSocket DEF client
  <1>12. UpdatesAreCurrent'
    BY <1>6 DEF UpdatesAreCurrent, IInv, InOrder
  <1>13. \A m \in DOMAIN snapshot : snapshot[m] \in 1 .. made /\ snapshot[m] <= snapshot'[m]
    BY <1>1, <1>3, <1>6, Numbers DEF IInv
  <1>14. ScreenNotAhead'
    <2>. SUFFICES ASSUME NEW m \in DOMAIN readings, m \in DOMAIN snapshot'
                  PROVE  readings[m] <= snapshot'[m]
      BY <1>9 DEF ScreenNotAhead
    <2>1. readings[m] \in 0 .. made
      BY Numbers DEF IInv
    <2>2. CASE m = n
      BY <1>1, <1>3, <1>6, <2>1, <2>2
    <2>3. CASE m # n
      BY <1>6, <2>3 DEF IInv, InOrder, ScreenNotAhead
    <2>. QED BY <2>2, <2>3
  <1>15. MessagesInOrder'
    <2>1. \A i \in 1 .. Len(messages) : \A m \in DOMAIN messages[i].readings :
            m \in DOMAIN snapshot' /\ messages[i].readings[m] <= snapshot'[m]
      <3>. TAKE i \in 1 .. Len(messages)
      <3>. TAKE m \in DOMAIN messages[i].readings
      <3>1. m \in DOMAIN snapshot /\ messages[i].readings[m] <= snapshot[m]
        BY DEF IInv, InOrder, MessagesInOrder
      <3>2. messages[i].readings[m] \in Nat /\ snapshot[m] \in Nat /\ snapshot'[m] \in Nat /\ snapshot[m] <= snapshot'[m]
        BY <1>1, <1>3, <1>6, <1>13, <3>1, Numbers DEF IInv
      <3>. QED BY <1>6, <3>1, <3>2
    <2>. QED BY <1>9, <2>1 DEF IInv, InOrder, MessagesInOrder
  <1>16. KeepsOrder
    BY <1>9, Numbers DEF IInv, KeepsOrder
  <1>17. made' \in Nat /\ predicted' \in Nat /\ outages' \in Nat /\ drops' \in Nat /\ clicks' \in Nat
    BY <1>1, <1>3 DEF IInv, TypeOK
  <1>. QED BY <1>8, <1>10, <1>11, <1>12, <1>14, <1>15, <1>16, <1>17 DEF IInv, TypeOK, InOrder

LEMMA StatusIInv ==
  ASSUME IInv, NEW n \in Node, NEW status \in Status, HandleNodeStatusChanged(n, status)
  PROVE  IInv' /\ KeepsOrder
  <1>1. /\ outages' = outages + 1
        /\ statusSnapshot' = Merged(Single(n, status), statusSnapshot)
        /\ statusUpdates' = statusUpdates \cup {n}
        /\ UNCHANGED <<snapshot, shadowPredictions, updates, socket, client, made, predicted, drops, clicks, touched>>
    BY DEF HandleNodeStatusChanged
  <1>2. statusSnapshot \in MapOf(Status) /\ statusUpdates \subseteq DOMAIN statusSnapshot
    BY DEF IInv, TypeOK, ServiceOK
  <1>4. statusSnapshot' \in MapOf(Status) /\ statusUpdates' \subseteq DOMAIN statusSnapshot'
    <2>1. statusSnapshot' \in MapOf(Status)
      BY <1>1, <1>2, MapWithOne
    <2>2. DOMAIN statusSnapshot' = {n} \cup DOMAIN statusSnapshot
      BY <1>1 DEF Merged, Single
    <2>. QED BY <1>1, <1>2, <2>1, <2>2
  <1>5. ServiceOK'
    BY <1>1, <1>4 DEF IInv, TypeOK, ServiceOK
  <1>6. ScreenOK' /\ KeepsOrder
    BY <1>1, SameScreen DEF IInv
  <1>7. SocketOK' /\ Rooms'
    BY <1>1, SameSocket DEF client
  <1>8. InOrder'
    BY <1>1 DEF IInv, InOrder, UpdatesAreCurrent, ScreenNotAhead, MessagesInOrder, client, socket
  <1>9. made' \in Nat /\ predicted' \in Nat /\ outages' \in Nat /\ drops' \in Nat /\ clicks' \in Nat
    BY <1>1 DEF IInv, TypeOK
  <1>. QED BY <1>5, <1>6, <1>7, <1>8, <1>9 DEF IInv, TypeOK

-----------------------------------------------------------------------------
(***************************************************************************)
(* The steps that send.                                                    *)
(***************************************************************************)
LEMMA SentInOrder ==
  ASSUME IInv, MessagesInOrder', UNCHANGED <<snapshot, readings>>, UpdatesAreCurrent'
  PROVE  InOrder'
  BY DEF IInv, InOrder, ScreenNotAhead

\* A prediction's message has no readings.
LEMMA PredictionIInv ==
  ASSUME IInv, NEW n \in Node, HandleMlPrediction(n)
  PROVE  IInv' /\ KeepsOrder
  <1>. DEFINE m == Message({}, Empty, Empty, {n})
  <1>1. /\ n \in DOMAIN snapshot
        /\ predicted' = predicted + 1
        /\ shadowPredictions' = shadowPredictions \cup {n}
        /\ messages' = IF connected THEN Append(messages, m) ELSE messages
        /\ UNCHANGED <<snapshot, statusSnapshot, updates, statusUpdates, rooms, requests, connected, client,
                       made, outages, drops, clicks, touched>>
    BY DEF HandleMlPrediction
  <1>2. readings' = readings /\ joined' = joined
    BY <1>1 DEF client
  <1>3. made' = made /\ made' \in Nat /\ predicted' \in Nat /\ outages' \in Nat /\ drops' \in Nat /\ clicks' \in Nat
    BY <1>1 DEF IInv, TypeOK
  <1>4. /\ m \in MessageType
        /\ \A k \in DOMAIN m.readings : k \in DOMAIN snapshot /\ m.readings[k] = snapshot[k]
    <2>1. Empty \in MapOf(Nat) /\ Empty \in MapOf(Status) /\ DOMAIN Empty = {}
      BY EmptyMap
    <2>2. m \in MessageType /\ m.readings = Empty
      BY <2>1 DEF Message, MessageType
    <2>. QED BY <2>1, <2>2
  <1>. HIDE DEF m
  <1>5. messages' \in Seq(MessageType) /\ MessagesInOrder'
    <2>1. CASE connected
      BY <1>1, <1>2, <1>4, <2>1, SendInOrder
    <2>2. CASE ~ connected
      BY <1>1, <1>2, <2>2, Numbers DEF IInv, InOrder, MessagesInOrder
    <2>. QED BY <2>1, <2>2
  <1>6. SocketOK' /\ Rooms'
    BY <1>1, <1>2, <1>5, RoomsAfterSending
  <1>7. ServiceOK'
    BY <1>1, <1>3 DEF IInv, TypeOK, ServiceOK
  <1>8. ScreenOK' /\ KeepsOrder
    BY <1>1, <1>3, SameScreen DEF IInv
  <1>9. UpdatesAreCurrent'
    BY <1>1 DEF IInv, InOrder, UpdatesAreCurrent
  <1>10. InOrder'
    BY <1>1, <1>2, <1>5, <1>9, SentInOrder
  <1>. QED BY <1>3, <1>6, <1>7, <1>8, <1>10 DEF IInv, TypeOK

LEMMA FlushIInv ==
  ASSUME IInv, FlushUpdates
  PROVE  IInv' /\ KeepsOrder
  <1>1. /\ updates' = Empty
        /\ Broadcast(updates, Empty)
        /\ UNCHANGED <<snapshot, statusSnapshot, shadowPredictions, statusUpdates, rooms, requests, connected, client, counts, touched>>
    BY DEF FlushUpdates
  <1>2. readings' = readings /\ joined' = joined
    BY <1>1 DEF client
  <1>3. made' = made /\ made' \in Nat /\ predicted' \in Nat /\ outages' \in Nat /\ drops' \in Nat /\ clicks' \in Nat
    BY <1>1, Counted DEF IInv
  <1>4. updates \in MapOf(Nat)
    <2>1. updates \in MapOf(1 .. made) /\ \A n \in DOMAIN updates : updates[n] \in Nat
      BY Numbers DEF IInv, TypeOK, ServiceOK
    <2>. QED BY <2>1, MapWider
  <1>5. \A n \in DOMAIN updates : n \in DOMAIN snapshot /\ updates[n] = snapshot[n]
    BY DEF IInv, InOrder, UpdatesAreCurrent
  <1>6. /\ messages' \in Seq(MessageType) /\ MessagesInOrder'
        /\ rooms = {} => messages' = messages
    BY <1>1, <1>2, <1>4, <1>5, EmptyMap, BroadcastKeeps
  <1>7. SocketOK' /\ Rooms'
    BY <1>1, <1>2, <1>6, RoomsAfterSending DEF IInv, Rooms
  <1>8. ServiceOK'
    BY <1>1, <1>3, EmptyMap DEF IInv, TypeOK, ServiceOK
  <1>9. ScreenOK' /\ KeepsOrder
    BY <1>1, <1>3, SameScreen DEF IInv
  <1>10. UpdatesAreCurrent'
    BY <1>1, EmptyMap DEF UpdatesAreCurrent
  <1>11. InOrder'
    BY <1>1, <1>2, <1>6, <1>10, SentInOrder
  <1>. QED BY <1>3, <1>7, <1>8, <1>9, <1>11 DEF IInv, TypeOK

LEMMA FlushStatusIInv ==
  ASSUME IInv, FlushStatusUpdates
  PROVE  IInv' /\ KeepsOrder
  <1>1. /\ statusUpdates' = {}
        /\ Broadcast(Empty, Only(statusSnapshot, statusUpdates))
        /\ UNCHANGED <<snapshot, statusSnapshot, shadowPredictions, updates, rooms, requests, connected, client, counts, touched>>
    BY DEF FlushStatusUpdates
  <1>2. readings' = readings /\ joined' = joined
    BY <1>1 DEF client
  <1>3. made' = made /\ made' \in Nat /\ predicted' \in Nat /\ outages' \in Nat /\ drops' \in Nat /\ clicks' \in Nat
    BY <1>1, Counted DEF IInv
  <1>4. Only(statusSnapshot, statusUpdates) \in MapOf(Status)
    BY OnlyMap DEF IInv, TypeOK, ServiceOK
  <1>5. Empty \in MapOf(Nat) /\ \A n \in DOMAIN Empty : n \in DOMAIN snapshot /\ Empty[n] = snapshot[n]
    BY EmptyMap
  <1>6. /\ messages' \in Seq(MessageType) /\ MessagesInOrder'
        /\ rooms = {} => messages' = messages
    BY <1>1, <1>2, <1>4, <1>5, BroadcastKeeps
  <1>7. SocketOK' /\ Rooms'
    BY <1>1, <1>2, <1>6, RoomsAfterSending DEF IInv, Rooms
  <1>8. ServiceOK'
    BY <1>1, <1>3 DEF IInv, TypeOK, ServiceOK
  <1>9. ScreenOK' /\ KeepsOrder
    BY <1>1, <1>3, SameScreen DEF IInv
  <1>10. UpdatesAreCurrent'
    BY <1>1 DEF IInv, InOrder, UpdatesAreCurrent
  <1>11. InOrder'
    BY <1>1, <1>2, <1>6, <1>10, SentInOrder
  <1>. QED BY <1>3, <1>7, <1>8, <1>9, <1>11 DEF IInv, TypeOK

\* The answers to the client's requests, of which there are none when the
\* connection is closed.
LEMMA AnswerIInv ==
  ASSUME IInv, NEW m \in MessageType, NEW request \in requests,
         \A n \in DOMAIN m.readings : n \in DOMAIN snapshot /\ m.readings[n] = snapshot[n],
         messages' = Append(messages, m),
         requests' = requests \ {request},
         rooms' = IF request \in Zone THEN rooms \cup {request} ELSE rooms,
         UNCHANGED <<backend, connected, client, counts, touched>>
  PROVE  IInv' /\ KeepsOrder
  <1>1. readings' = readings /\ joined' = joined /\ snapshot' = snapshot /\ updates' = updates
    BY DEF client, backend
  <1>2. made' = made /\ made' \in Nat /\ predicted' \in Nat /\ outages' \in Nat /\ drops' \in Nat /\ clicks' \in Nat
    BY Counted DEF IInv
  <1>3. messages' \in Seq(MessageType) /\ MessagesInOrder'
    BY <1>1, SendInOrder
  <1>4. SocketOK'
    <2>1. connected' \in BOOLEAN
      BY DEF IInv, TypeOK, SocketOK
    <2>2. rooms' \subseteq Zone /\ requests' \subseteq Zone \cup {"get_zones"}
      BY DEF IInv, TypeOK, SocketOK
    <2>. QED BY <1>3, <2>1, <2>2 DEF SocketOK
  <1>5. Rooms'
    <2>1. connected
      BY DEF IInv, Rooms
    <2>2. joined \subseteq rooms \cup requests /\ joined \subseteq Zone
      BY <2>1 DEF IInv, Rooms, JoinedIsServed, TypeOK, ScreenOK
    <2>3. joined \subseteq rooms' \cup requests'
      BY <2>2
    <2>. QED BY <1>1, <2>1, <2>3 DEF Rooms, JoinedIsServed
  <1>6. ServiceOK'
    BY <1>2, SameService DEF IInv
  <1>7. ScreenOK' /\ KeepsOrder
    BY <1>2, SameScreen DEF IInv
  <1>8. InOrder'
    BY <1>1, <1>3, SentInOrder DEF IInv, InOrder, UpdatesAreCurrent
  <1>. QED BY <1>2, <1>4, <1>5, <1>6, <1>7, <1>8 DEF IInv, TypeOK

LEMMA GetZonesIInv ==
  ASSUME IInv, HandleGetZones
  PROVE  IInv' /\ KeepsOrder
  <1>. DEFINE m == Message(KnownZones, Empty, Empty, {})
  <1>1. KnownZones \in SUBSET Zone
    <2>1. ZonesOf(snapshot) \subseteq Zone /\ ZonesOf(statusSnapshot) \subseteq Zone
      BY ZonesOfMap DEF IInv, TypeOK, ServiceOK
    <2>2. {ZoneOf[n] : n \in shadowPredictions} \subseteq ZonesOf(snapshot)
      BY DEF ZonesOf, IInv, TypeOK, ServiceOK
    <2>. QED BY <2>1, <2>2 DEF KnownZones
  <1>3. /\ m \in MessageType
        /\ \A n \in DOMAIN m.readings : n \in DOMAIN snapshot /\ m.readings[n] = snapshot[n]
    <2>1. Empty \in MapOf(Nat) /\ Empty \in MapOf(Status) /\ DOMAIN Empty = {}
      BY EmptyMap
    <2>2. m \in MessageType /\ m.readings = Empty
      BY <1>1, <2>1 DEF Message, MessageType
    <2>. QED BY <2>1, <2>2
  <1>4. /\ "get_zones" \in requests /\ requests' = requests \ {"get_zones"}
        /\ messages' = Append(messages, m)
        /\ UNCHANGED <<backend, rooms, connected, client, counts, touched>>
    BY DEF HandleGetZones
  <1>5. "get_zones" \notin Zone
    BY DashboardAssumption
  <1>. HIDE DEF m
  <1>. QED BY <1>3, <1>4, <1>5, AnswerIInv

LEMMA JoinIInv ==
  ASSUME IInv, NEW z \in Zone, HandleJoinZone(z)
  PROVE  IInv' /\ KeepsOrder
  <1>. DEFINE r == Only(snapshot, InZones({z}))
              s == Only(statusSnapshot, InZones({z}))
              p == shadowPredictions \cap InZones({z})
              m == Message({z}, r, s, p)
  <1>1. r \in MapOf(Nat) /\ s \in MapOf(Status)
    <2>1. snapshot \in MapOf(1 .. made) /\ \A n \in DOMAIN snapshot : snapshot[n] \in Nat
      BY Numbers DEF IInv, TypeOK, ServiceOK
    <2>2. snapshot \in MapOf(Nat) /\ statusSnapshot \in MapOf(Status)
      BY <2>1, MapWider DEF IInv, TypeOK, ServiceOK
    <2>. QED BY <2>2, OnlyMap
  <1>2. \A n \in DOMAIN r : n \in DOMAIN snapshot /\ r[n] = snapshot[n]
    BY DEF Only
  <1>p. p \in SUBSET Node
    BY DEF InZones
  <1>. HIDE DEF r, s, p
  <1>3. /\ m \in MessageType
        /\ \A n \in DOMAIN m.readings : n \in DOMAIN snapshot /\ m.readings[n] = snapshot[n]
    BY <1>1, <1>2, <1>p, MessageOf
  <1>4. /\ z \in requests /\ requests' = requests \ {z} /\ rooms' = rooms \cup {z}
        /\ messages' = Append(messages, m)
        /\ UNCHANGED <<backend, connected, client, counts, touched>>
    BY DEF HandleJoinZone, SnapshotForZone, r, s, p
  <1>. HIDE DEF m
  <1>. QED BY <1>3, <1>4, AnswerIInv

-----------------------------------------------------------------------------
(***************************************************************************)
(* The connection.                                                         *)
(***************************************************************************)
\* The client asks for the list of zones, on a connection.
LEMMA AskIInv ==
  ASSUME IInv, HandleConnect \/ Poll
  PROVE  IInv' /\ KeepsOrder
  <1>1. /\ UNCHANGED <<backend, rooms, messages, client, counts, touched>>
        /\ requests' = {"get_zones"}
    BY DEF HandleConnect, Poll
  <1>2. readings' = readings /\ joined' = joined /\ snapshot' = snapshot /\ updates' = updates
    BY <1>1 DEF client, backend
  <1>3. made' = made /\ made' \in Nat /\ predicted' \in Nat /\ outages' \in Nat /\ drops' \in Nat /\ clicks' \in Nat
    BY <1>1, Counted DEF IInv
  <1>4. SocketOK'
    <2>1. connected' \in BOOLEAN
      BY DEF HandleConnect, Poll, IInv, TypeOK, SocketOK
    <2>. QED BY <1>1, <2>1 DEF IInv, TypeOK, SocketOK
  <1>5. Rooms'
    <2>1. connected'
      BY DEF HandleConnect, Poll
    <2>2. joined \subseteq rooms
      BY DEF HandleConnect, Poll, IInv, Rooms, JoinedIsServed
    <2>. QED BY <1>1, <1>2, <2>1, <2>2 DEF Rooms, JoinedIsServed
  <1>6. ServiceOK'
    BY <1>1, <1>3, SameService DEF IInv
  <1>7. ScreenOK' /\ KeepsOrder
    BY <1>1, <1>3, SameScreen DEF IInv
  <1>8. InOrder'
    BY <1>1, <1>2 DEF IInv, InOrder, UpdatesAreCurrent, ScreenNotAhead, MessagesInOrder
  <1>. QED BY <1>3, <1>4, <1>5, <1>6, <1>7, <1>8 DEF IInv, TypeOK

\* What a broken connection leaves of the socket and the screen.
LEMMA DisconnectedKeeps ==
  ASSUME IInv, Disconnected
  PROVE  /\ made' = made /\ made' \in Nat /\ predicted' \in Nat /\ outages' \in Nat /\ drops' \in Nat /\ clicks' \in Nat
         /\ SocketOK' /\ Rooms' /\ ScreenOK' /\ MessagesInOrder'
         /\ readings' = readings /\ KeepsOrder
  <1>1. /\ drops' = drops + 1
        /\ rooms' = {} /\ requests' = {} /\ messages' = <<>> /\ joined' = {}
        /\ UNCHANGED <<activeZones, readings, nodeStatuses, mlPredictions, simulating, made, predicted, outages,
                       clicks, touched>>
    BY DEF Disconnected, JoinedAfterDrop
  <1>2. made' \in Nat /\ predicted' \in Nat /\ outages' \in Nat /\ drops' \in Nat /\ clicks' \in Nat
    BY <1>1 DEF IInv, TypeOK
  <1>3. SocketOK'
    <2>1. connected' \in BOOLEAN
      BY DEF Disconnected
    <2>2. messages' \in Seq(MessageType)
      BY <1>1
    <2>. QED BY <1>1, <2>1, <2>2 DEF SocketOK
  <1>4. Rooms'
    BY <1>1 DEF Rooms, JoinedIsServed
  <1>5. ScreenOK'
    BY <1>1 DEF IInv, TypeOK, ScreenOK
  <1>6. MessagesInOrder'
    BY <1>1 DEF MessagesInOrder
  <1>7. KeepsOrder
    BY <1>1, Numbers DEF IInv, KeepsOrder
  <1>. QED BY <1>1, <1>2, <1>3, <1>4, <1>5, <1>6, <1>7

LEMMA DisconnectIInv ==
  ASSUME IInv, HandleDisconnect
  PROVE  IInv' /\ KeepsOrder
  <1>1. Disconnected /\ UNCHANGED backend
    BY DEF HandleDisconnect
  <1>2. ServiceOK'
    BY <1>1, DisconnectedKeeps, SameService DEF IInv
  <1>3. UpdatesAreCurrent' /\ ScreenNotAhead'
    BY <1>1, DisconnectedKeeps DEF IInv, InOrder, UpdatesAreCurrent, ScreenNotAhead, backend
  <1>. QED BY <1>1, <1>2, <1>3, DisconnectedKeeps DEF IInv, TypeOK, InOrder

LEMMA RestartIInv ==
  ASSUME IInv, BackendRestarts
  PROVE  IInv' /\ KeepsOrder
  <1>1. /\ Disconnected
        /\ snapshot' = Empty /\ statusSnapshot' = Empty /\ shadowPredictions' = {}
        /\ updates' = Empty /\ statusUpdates' = {}
    BY DEF BackendRestarts
  <1>2. ServiceOK'
    BY <1>1, EmptyMap DEF ServiceOK
  <1>3. UpdatesAreCurrent' /\ ScreenNotAhead'
    BY <1>1, EmptyMap DEF UpdatesAreCurrent, ScreenNotAhead
  <1>. QED BY <1>1, <1>2, <1>3, DisconnectedKeeps DEF IInv, TypeOK, InOrder

-----------------------------------------------------------------------------
(***************************************************************************)
(* A message arrives: the screen moves up to where the first message was.  *)
(***************************************************************************)
LEMMA ReceiveIInv ==
  ASSUME IInv, Receive
  PROVE  IInv' /\ KeepsOrder
  <1>. DEFINE m == messages[1]
  <1>1. messages # <<>> /\ messages \in Seq(MessageType)
    BY Numbers DEF Receive, IInv
  <1>2. /\ Len(messages) \in Nat /\ Len(messages) >= 1 /\ Head(messages) = m
        /\ Tail(messages) \in Seq(MessageType)
        /\ Len(Tail(messages)) = Len(messages) - 1
        /\ \A i \in 1 .. Len(Tail(messages)) : Tail(messages)[i] = messages[i + 1]
    BY <1>1
  <1>3. /\ messages' = Tail(messages)
        /\ activeZones' = activeZones \cup m.zones
        /\ requests' = requests \cup (m.zones \ joined)
        /\ joined' = joined \cup m.zones
        /\ readings' = Merged(m.readings, readings)
        /\ nodeStatuses' = Merged(m.statuses, nodeStatuses)
        /\ mlPredictions' = mlPredictions \cup m.predictions
        /\ touched' \subseteq touched
        /\ UNCHANGED <<backend, rooms, connected, simulating, counts>>
    BY <1>2 DEF Receive, HearOf
  <1>4. m \in MessageType /\ 1 \in 1 .. Len(messages)
    BY <1>1, <1>2
  <1>5. m.zones \subseteq Zone /\ m.readings \in MapOf(Nat) /\ m.statuses \in MapOf(Status) /\ m.predictions \subseteq Node
    BY <1>4 DEF MessageType
  <1>. HIDE DEF m
  <1>6. snapshot' = snapshot /\ updates' = updates
    BY <1>3 DEF backend
  <1>7. made' = made /\ made' \in Nat /\ predicted' \in Nat /\ outages' \in Nat /\ drops' \in Nat /\ clicks' \in Nat
    BY <1>3, Counted DEF IInv
  <1>8. \A n \in DOMAIN m.readings :
          /\ n \in DOMAIN snapshot /\ m.readings[n] \in Nat /\ m.readings[n] <= snapshot[n]
          /\ n \in DOMAIN readings => readings[n] <= m.readings[n]
    BY <1>4, Numbers DEF IInv, InOrder, MessagesInOrder, m
  <1>9. /\ DOMAIN readings' = DOMAIN m.readings \cup DOMAIN readings
        /\ \A n \in DOMAIN m.readings : readings'[n] = m.readings[n]
        /\ \A n \in DOMAIN readings \ DOMAIN m.readings : readings'[n] = readings[n]
    BY <1>3 DEF Merged
  <1>10. ScreenOK'
    <2>1. m.readings \in MapOf(0 .. made)
      <3>1. \A n \in DOMAIN m.readings : m.readings[n] \in 0 .. made
        <4>. TAKE n \in DOMAIN m.readings
        <4>1. m.readings[n] \in Nat /\ m.readings[n] <= snapshot[n] /\ snapshot[n] \in 1 .. made
          BY <1>8, Numbers DEF IInv
        <4>. QED BY <1>7, <4>1
      <3>. QED BY <1>5, <3>1, MapWider
    <2>2. readings' \in MapOf(0 .. made')
      BY <1>3, <1>7, <2>1, MergedMap DEF IInv, TypeOK, ScreenOK
    <2>3. nodeStatuses' \in MapOf(Status)
      BY <1>3, <1>5, MergedMap DEF IInv, TypeOK, ScreenOK
    <2>4. simulating' \in BOOLEAN
      BY <1>3 DEF IInv, TypeOK, ScreenOK
    <2>5. joined' \subseteq Zone /\ activeZones' \subseteq Zone /\ touched' \subseteq Entry
      BY <1>3, <1>5 DEF IInv, TypeOK, ScreenOK
    <2>6. mlPredictions' \subseteq Node
      BY <1>3, <1>5 DEF IInv, TypeOK, ScreenOK
    <2>. QED BY <2>2, <2>3, <2>4, <2>5, <2>6 DEF ScreenOK
  <1>11. SocketOK'
    <2>1. connected' \in BOOLEAN
      BY <1>3 DEF IInv, TypeOK, SocketOK
    <2>2. rooms' \subseteq Zone /\ requests' \subseteq Zone \cup {"get_zones"}
      BY <1>3, <1>5 DEF IInv, TypeOK, SocketOK
    <2>. QED BY <1>2, <1>3, <2>1, <2>2 DEF SocketOK
  <1>12. Rooms'
    <2>1. connected /\ connected'
      BY <1>1, <1>3 DEF IInv, Rooms
    <2>2. joined \subseteq rooms \cup requests
      BY <2>1 DEF IInv, Rooms, JoinedIsServed
    <2>3. joined' \subseteq rooms' \cup requests'
      BY <1>3, <2>2
    <2>. QED BY <2>1, <2>3 DEF Rooms, JoinedIsServed
  <1>13. ServiceOK'
    BY <1>3, <1>7, SameService DEF IInv
  <1>14. UpdatesAreCurrent'
    BY <1>6 DEF IInv, InOrder, UpdatesAreCurrent
  <1>15. ScreenNotAhead'
    BY <1>6, <1>8, <1>9 DEF IInv, InOrder, ScreenNotAhead
  <1>16. MessagesInOrder'
    <2>. SUFFICES ASSUME NEW i \in 1 .. Len(messages'), NEW n \in DOMAIN messages'[i].readings
                  PROVE  /\ n \in DOMAIN snapshot' /\ messages'[i].readings[n] <= snapshot'[n]
                         /\ n \in DOMAIN readings' => readings'[n] <= messages'[i].readings[n]
                         /\ \A j \in 1 .. Len(messages') :
                              j < i /\ n \in DOMAIN messages'[j].readings =>
                                messages'[j].readings[n] <= messages'[i].readings[n]
      BY DEF MessagesInOrder
    <2>1. i + 1 \in 1 .. Len(messages) /\ messages'[i] = messages[i + 1] /\ 1 < i + 1
      BY <1>2, <1>3
    <2>2. /\ n \in DOMAIN snapshot /\ messages[i + 1].readings[n] <= snapshot[n]
          /\ n \in DOMAIN readings => readings[n] <= messages[i + 1].readings[n]
          /\ \A j \in 1 .. Len(messages) :
               j < i + 1 /\ n \in DOMAIN messages[j].readings =>
                 messages[j].readings[n] <= messages[i + 1].readings[n]
      BY <2>1 DEF IInv, InOrder, MessagesInOrder
    <2>3. n \in DOMAIN m.readings => m.readings[n] <= messages[i + 1].readings[n]
      BY <1>4, <2>1, <2>2 DEF m
    <2>4. n \in DOMAIN readings' => readings'[n] <= messages'[i].readings[n]
      BY <1>9, <2>1, <2>2, <2>3
    <2>5. \A j \in 1 .. Len(messages') :
            j < i => j + 1 \in 1 .. Len(messages) /\ j + 1 < i + 1 /\ messages'[j] = messages[j + 1]
      BY <1>2, <1>3
    <2>. QED BY <1>6, <2>1, <2>2, <2>4, <2>5
  <1>17. KeepsOrder
    <2>. SUFFICES ASSUME NEW n \in DOMAIN readings
                  PROVE  readings'[n] >= readings[n]
      BY DEF KeepsOrder
    <2>1. readings[n] \in Nat
      BY Numbers DEF IInv
    <2>. QED BY <1>8, <1>9, <2>1
  <1>. QED BY <1>7, <1>10, <1>11, <1>12, <1>13, <1>14, <1>15, <1>16, <1>17 DEF IInv, TypeOK, InOrder

-----------------------------------------------------------------------------
(***************************************************************************)
(* What the dashboard does to its own state: values it makes up are older  *)
(* than all others.                                                        *)
(***************************************************************************)
LEMMA ScreenIInv ==
  ASSUME IInv, UNCHANGED <<backend, rooms, messages, connected, joined, made>>,
         requests' \in {requests, requests \cup {"get_zones"}}, requests' # requests => connected,
         predicted' \in Nat, outages' \in Nat, drops' \in Nat, clicks' \in Nat,
         activeZones' \subseteq Zone, mlPredictions' \subseteq Node, nodeStatuses' \in MapOf(Status),
         simulating' \in BOOLEAN, touched' \subseteq Entry,
         readings' \in MapOf(0 .. made),
         \A n \in DOMAIN readings' :
           readings'[n] = Simulated \/ (n \in DOMAIN readings /\ readings'[n] = readings[n])
  PROVE  IInv' /\ KeepsOrder
  <1>1. snapshot' = snapshot /\ updates' = updates
    BY DEF backend
  <1>2. made' \in Nat /\ ServiceOK'
    BY Numbers, SameService DEF IInv
  <1>3. ScreenOK'
    BY DEF IInv, TypeOK, ScreenOK
  <1>4. SocketOK'
    <2>1. connected' \in BOOLEAN
      BY DEF IInv, TypeOK, SocketOK
    <2>2. requests' \subseteq Zone \cup {"get_zones"}
      BY DEF IInv, TypeOK, SocketOK
    <2>. QED BY <2>1, <2>2 DEF IInv, TypeOK, SocketOK
  <1>5. Rooms'
    <2>1. CASE connected
      BY <2>1 DEF IInv, Rooms, JoinedIsServed
    <2>2. CASE ~ connected
      BY <2>2 DEF IInv, Rooms, JoinedIsServed
    <2>. QED BY <2>1, <2>2
  <1>6. UpdatesAreCurrent'
    BY <1>1 DEF IInv, InOrder, UpdatesAreCurrent
  <1>7. ScreenNotAhead'
    <2>. SUFFICES ASSUME NEW n \in DOMAIN readings', n \in DOMAIN snapshot
                  PROVE  readings'[n] <= snapshot[n]
      BY <1>1 DEF ScreenNotAhead
    <2>1. snapshot[n] \in Nat
      BY Numbers DEF IInv
    <2>. QED BY <2>1 DEF Simulated, IInv, InOrder, ScreenNotAhead
  <1>8. MessagesInOrder'
    <2>1. \A i \in 1 .. Len(messages) : \A n \in DOMAIN messages[i].readings :
            n \in DOMAIN readings' => readings'[n] <= messages[i].readings[n]
      <3>. TAKE i \in 1 .. Len(messages)
      <3>. TAKE n \in DOMAIN messages[i].readings
      <3>1. messages[i].readings[n] \in Nat
        BY Numbers DEF IInv
      <3>. QED BY <3>1 DEF Simulated, IInv, InOrder, MessagesInOrder
    <2>. QED BY <1>1, <2>1 DEF IInv, InOrder, MessagesInOrder
  <1>9. KeepsOrder
    <2>. SUFFICES ASSUME NEW n \in DOMAIN readings, n \in DOMAIN readings', readings'[n] # Simulated
                  PROVE  readings'[n] >= readings[n]
      BY DEF KeepsOrder
    <2>. QED BY Numbers DEF IInv
  <1>. QED BY <1>2, <1>3, <1>4, <1>5, <1>6, <1>7, <1>8, <1>9 DEF IInv, TypeOK, InOrder

LEMMA PurgeIInv ==
  ASSUME IInv, NEW n \in Node, PurgeStale(n)
  PROVE  IInv' /\ KeepsOrder
  <1>1. /\ n \in DOMAIN nodeStatuses
        /\ nodeStatuses' = Only(nodeStatuses, Node \ {n})
        /\ touched' = touched \cup {<<n, "status">>}
        /\ UNCHANGED <<backend, socket, joined, activeZones, readings, mlPredictions, simulating, counts>>
    BY DEF PurgeStale
  <1>2. nodeStatuses' \in MapOf(Status)
    BY <1>1, OnlyMap DEF IInv, TypeOK, ScreenOK
  <1>3. touched' \subseteq Entry
    BY <1>1 DEF IInv, TypeOK, ScreenOK, Entry
  <1>4. predicted' \in Nat /\ outages' \in Nat /\ drops' \in Nat /\ clicks' \in Nat
    BY <1>1, Counted DEF IInv
  <1>5. UNCHANGED <<backend, rooms, messages, connected, joined, made, requests, activeZones, readings>>
    BY <1>1 DEF socket, counts
  <1>6. simulating' \in BOOLEAN
    BY <1>1 DEF IInv, TypeOK, ScreenOK
  <1>7. readings \in MapOf(0 .. made) /\ activeZones \subseteq Zone /\ mlPredictions' \subseteq Node
    BY <1>1 DEF IInv, TypeOK, ScreenOK
  <1>. QED BY <1>2, <1>3, <1>4, <1>5, <1>6, <1>7, ScreenIInv

LEMMA ClearIInv ==
  ASSUME IInv, ClearCache
  PROVE  IInv' /\ KeepsOrder
  <1>1. /\ readings' = Empty /\ nodeStatuses' = Empty /\ touched' = Entry
        /\ UNCHANGED <<backend, rooms, messages, connected, joined, activeZones, mlPredictions, made, predicted,
                       outages, drops>>
    BY DEF ClearCache
  <1>2. simulating' \in BOOLEAN
    BY DEF ClearCache
  <1>3. requests' \in {requests, requests \cup {"get_zones"}} /\ (requests' # requests => connected)
    BY DEF ClearCache
  <1>4. clicks' \in Nat /\ predicted' \in Nat /\ outages' \in Nat /\ drops' \in Nat
    BY <1>1 DEF ClearCache, Click, IInv, TypeOK
  <1>5. activeZones' \subseteq Zone /\ mlPredictions' \subseteq Node
    BY <1>1 DEF IInv, TypeOK, ScreenOK
  <1>6. readings' \in MapOf(0 .. made) /\ nodeStatuses' \in MapOf(Status) /\ DOMAIN readings' = {}
    BY <1>1, EmptyMap
  <1>. QED BY <1>1, <1>2, <1>3, <1>4, <1>5, <1>6, ScreenIInv

LEMMA ToggleIInv ==
  ASSUME IInv, ToggleSimulation
  PROVE  IInv' /\ KeepsOrder
  <1>1. /\ clicks' = clicks + 1
        /\ UNCHANGED <<backend, socket, joined, made, predicted, outages, drops>>
    BY DEF ToggleSimulation, Click
  <1>2. simulating' \in BOOLEAN
    BY DEF ToggleSimulation
  <1>3. clicks' \in Nat /\ predicted' \in Nat /\ outages' \in Nat /\ drops' \in Nat
    BY <1>1 DEF IInv, TypeOK
  <1>4. UNCHANGED <<backend, rooms, messages, connected, joined, made, requests>>
    BY <1>1 DEF socket
  <1>5. \/ UNCHANGED <<readings, nodeStatuses, mlPredictions, activeZones, touched>>
        \/ /\ readings' = Empty /\ nodeStatuses' = Empty /\ touched' = Entry
           /\ mlPredictions' = {} /\ activeZones' = SimZones
    BY DEF ToggleSimulation
  <1>6. CASE UNCHANGED <<readings, nodeStatuses, mlPredictions, activeZones, touched>>
    <2>1. /\ readings' \in MapOf(0 .. made) /\ nodeStatuses' \in MapOf(Status)
          /\ activeZones' \subseteq Zone /\ touched' \subseteq Entry /\ mlPredictions' \subseteq Node
      BY <1>6 DEF IInv, TypeOK, ScreenOK
    <2>. QED BY <1>2, <1>3, <1>4, <1>6, <2>1, ScreenIInv
  <1>7. CASE /\ readings' = Empty /\ nodeStatuses' = Empty /\ touched' = Entry
             /\ mlPredictions' = {} /\ activeZones' = SimZones
    <2>1. readings' \in MapOf(0 .. made) /\ nodeStatuses' \in MapOf(Status) /\ DOMAIN readings' = {}
      BY <1>7, EmptyMap
    <2>2. activeZones' \subseteq Zone /\ touched' \subseteq Entry /\ mlPredictions' \subseteq Node
      BY <1>7, DashboardAssumption DEF SimZones
    <2>. QED BY <1>2, <1>3, <1>4, <2>1, <2>2, ScreenIInv
  <1>. QED BY <1>5, <1>6, <1>7

LEMMA SimulateIInv ==
  ASSUME IInv, GenerateSimBatch
  PROVE  IInv' /\ KeepsOrder
  <1>1. /\ readings' = Merged(SimReadings, readings)
        /\ nodeStatuses' = Merged([n \in SimNode |-> "online"], nodeStatuses)
        /\ mlPredictions' = (mlPredictions \ InZones(SimZones)) \cup SimNode
        /\ touched' = touched \cup (SimNode \X {"reading", "status"})
        /\ UNCHANGED <<backend, socket, joined, activeZones, simulating, counts>>
    BY DEF GenerateSimBatch
  <1>2. SimNode \in SUBSET Node
    BY DashboardAssumption
  <1>3. readings' \in MapOf(0 .. made)
    <2>1. SimReadings \in [SimNode -> 0 .. made]
      BY Numbers DEF IInv, SimReadings, Simulated
    <2>2. SimReadings \in MapOf(0 .. made)
      BY <1>2, <2>1, MapIn
    <2>. QED BY <1>1, <2>2, MergedMap DEF IInv, TypeOK, ScreenOK
  <1>4. nodeStatuses' \in MapOf(Status)
    <2>1. [n \in SimNode |-> "online"] \in [SimNode -> Status]
      BY DEF Status
    <2>2. [n \in SimNode |-> "online"] \in MapOf(Status)
      BY <1>2, <2>1, MapIn
    <2>. QED BY <1>1, <2>2, MergedMap DEF IInv, TypeOK, ScreenOK
  <1>5. touched' \subseteq Entry
    BY <1>1, <1>2 DEF IInv, TypeOK, ScreenOK, Entry
  <1>6. predicted' \in Nat /\ outages' \in Nat /\ drops' \in Nat /\ clicks' \in Nat
    BY <1>1, Counted DEF IInv
  <1>7. UNCHANGED <<backend, rooms, messages, connected, joined, made, requests, activeZones>>
    BY <1>1 DEF socket, counts
  <1>8. simulating' \in BOOLEAN
    BY <1>1 DEF IInv, TypeOK, ScreenOK
  <1>9. activeZones \subseteq Zone /\ mlPredictions' \subseteq Node
    BY <1>1, <1>2 DEF IInv, TypeOK, ScreenOK
  <1>10. \A n \in DOMAIN readings' :
           readings'[n] = Simulated \/ (n \in DOMAIN readings /\ readings'[n] = readings[n])
    BY <1>1 DEF Merged, SimReadings
  <1>. QED BY <1>3, <1>4, <1>5, <1>6, <1>7, <1>8, <1>9, <1>10, ScreenIInv

LEMMA DemoIInv ==
  ASSUME IInv, NEW n \in DemoNode, TriggerDemoMlEvent(n)
  PROVE  IInv' /\ KeepsOrder
  <1>1. /\ clicks' = clicks + 1
        /\ mlPredictions' = mlPredictions \cup {n}
        /\ UNCHANGED <<backend, socket, joined, activeZones, readings, nodeStatuses, simulating, made, predicted,
                       outages, drops, touched>>
    BY DEF TriggerDemoMlEvent, Click
  <1>2. n \in Node
    BY DashboardAssumption
  <1>3. clicks' \in Nat /\ predicted' \in Nat /\ outages' \in Nat /\ drops' \in Nat
    BY <1>1 DEF IInv, TypeOK
  <1>4. UNCHANGED <<backend, rooms, messages, connected, joined, made, requests, readings>>
    BY <1>1 DEF socket
  <1>5. simulating' \in BOOLEAN
    BY <1>1 DEF IInv, TypeOK, ScreenOK
  <1>6. /\ readings' \in MapOf(0 .. made) /\ nodeStatuses' \in MapOf(Status)
        /\ activeZones' \subseteq Zone /\ touched' \subseteq Entry /\ mlPredictions' \subseteq Node
    BY <1>1, <1>2 DEF IInv, TypeOK, ScreenOK
  <1>. QED BY <1>3, <1>4, <1>5, <1>6, ScreenIInv

LEMMA StutterIInv ==
  ASSUME IInv, UNCHANGED vars
  PROVE  IInv' /\ KeepsOrder
  <1>1. /\ UNCHANGED <<backend, socket, client, counts, touched>>
    BY DEF vars
  <1>2. made' = made /\ made' \in Nat /\ predicted' \in Nat /\ outages' \in Nat /\ drops' \in Nat /\ clicks' \in Nat
    BY <1>1, Counted DEF IInv
  <1>3. ServiceOK' /\ ScreenOK' /\ KeepsOrder
    BY <1>1, <1>2, SameService, SameScreen DEF IInv
  <1>4. SocketOK' /\ Rooms'
    BY <1>1, SameSocket DEF client
  <1>5. InOrder'
    BY <1>1 DEF IInv, InOrder, UpdatesAreCurrent, ScreenNotAhead, MessagesInOrder, backend, client, socket
  <1>. QED BY <1>2, <1>3, <1>4, <1>5 DEF IInv, TypeOK

LEMMA NextIInv ==
  ASSUME IInv, [Next]_vars
  PROVE  IInv' /\ KeepsOrder
  <1>1. CASE UNCHANGED vars
    BY <1>1, StutterIInv
  <1>2. ASSUME NEW n \in Node, HandleDedupedReading(n) \/ HandleMlPrediction(n) \/ PurgeStale(n)
        PROVE  IInv' /\ KeepsOrder
    BY <1>2, ReadingIInv, PredictionIInv, PurgeIInv
  <1>3. ASSUME NEW n \in Node, NEW status \in {"online", "offline"}, HandleNodeStatusChanged(n, status)
        PROVE  IInv' /\ KeepsOrder
    BY <1>3, StatusIInv DEF Status
  <1>4. ASSUME NEW z \in Zone, HandleJoinZone(z)
        PROVE  IInv' /\ KeepsOrder
    BY <1>4, JoinIInv
  <1>5. ASSUME \/ FlushUpdates \/ FlushStatusUpdates \/ HandleGetZones
               \/ HandleConnect \/ Poll \/ HandleDisconnect \/ BackendRestarts \/ Receive
        PROVE  IInv' /\ KeepsOrder
    BY <1>5, FlushIInv, FlushStatusIInv, GetZonesIInv, AskIInv, DisconnectIInv, RestartIInv, ReceiveIInv
  <1>6. ASSUME ClearCache \/ ToggleSimulation \/ GenerateSimBatch
        PROVE  IInv' /\ KeepsOrder
    BY <1>6, ClearIInv, ToggleIInv, SimulateIInv
  <1>7. ASSUME NEW n \in DemoNode, TriggerDemoMlEvent(n)
        PROVE  IInv' /\ KeepsOrder
    BY <1>7, DemoIInv
  <1>. QED BY <1>1, <1>2, <1>3, <1>4, <1>5, <1>6, <1>7 DEF Next

-----------------------------------------------------------------------------
(***************************************************************************)
(* The types of the backend's snapshots, the socket and the screen: no map *)
(* ever holds a value that was not made (realtime.service.ts,              *)
(* realtime.gateway.ts, RealtimeContext.tsx).                              *)
(***************************************************************************)
THEOREM TypeCorrect == Spec => []TypeOK
  <1>1. IInv => TypeOK
    BY DEF IInv
  <1>2. IInv /\ [Next]_vars => IInv'
    BY NextIInv
  <1>. QED BY <1>1, <1>2, InitIInv, PTL DEF Spec

(***************************************************************************)
(* A zone the dashboard thinks it joined sends it updates, or will when    *)
(* the request arrives, for any zones, drops and restarts: it asks for a   *)
(* zone once on each connection (joinedZonesRef 1002-1017; handleJoinZone  *)
(* 69-86).                                                                 *)
(***************************************************************************)
THEOREM JoinedZonesAreServed == Spec => []JoinedIsServed
  <1>1. IInv => JoinedIsServed
    BY DEF IInv, Rooms
  <1>2. IInv /\ [Next]_vars => IInv'
    BY NextIInv
  <1>. QED BY <1>1, <1>2, InitIInv, PTL DEF Spec

(***************************************************************************)
(* A reading on the screen is never replaced by an older one, for any      *)
(* number of nodes, readings, broken connections, restarts and purges      *)
(* (handleJoinZone 69-86, flushUpdates 190-213, handleSnapshot 1019-1079). *)
(***************************************************************************)
THEOREM NeverReplacedByOlder == Spec => NeverOlder
  <1>1. IInv /\ [Next]_vars => IInv' /\ [KeepsOrder]_vars
    BY NextIInv
  <1>2. [KeepsOrder]_vars <=>
          [\A n \in DOMAIN readings \cap DOMAIN readings' :
             readings'[n] # Simulated => readings'[n] >= readings[n]]_vars
    BY DEF KeepsOrder
  <1>. QED BY <1>1, <1>2, InitIInv, PTL DEF Spec, NeverOlder

-----------------------------------------------------------------------------
(***************************************************************************)
(* Counting.                                                               *)
(***************************************************************************)
LEMMA CountedApart ==
  ASSUME NEW S, NEW T, IsFiniteSet(S), IsFiniteSet(T), S \cap T = {}
  PROVE  IsFiniteSet(S \cup T) /\ Cardinality(S \cup T) = Cardinality(S) + Cardinality(T)
<1>1. IsFiniteSet(S \cup T) /\ Cardinality(S \cup T) = Cardinality(S) + Cardinality(T) - Cardinality(S \cap T)
  BY FS_Union
<1>2. Cardinality(S \cap T) = 0
  BY FS_EmptySet
<1>3. Cardinality(S) \in Nat /\ Cardinality(T) \in Nat
  BY FS_CardinalityType
<1>. QED BY <1>1, <1>2, <1>3

LEMMA CountedRest ==
  ASSUME NEW S, IsFiniteSet(S), NEW T \in SUBSET S
  PROVE  /\ IsFiniteSet(T) /\ IsFiniteSet(S \ T)
         /\ Cardinality(S) \in Nat /\ Cardinality(T) \in Nat /\ Cardinality(S \ T) \in Nat
         /\ Cardinality(S) = Cardinality(T) + Cardinality(S \ T)
<1>1. IsFiniteSet(T) /\ IsFiniteSet(S \ T)
  BY FS_Subset
<1>2. T \cup (S \ T) = S /\ T \cap (S \ T) = {}
  OBVIOUS
<1>. QED BY <1>1, <1>2, CountedApart, FS_CardinalityType

LEMMA CountedImage ==
  ASSUME NEW S, IsFiniteSet(S), NEW g, DOMAIN g = S, \A x, y \in S : g[x] = g[y] => x = y
  PROVE  IsFiniteSet({g[x] : x \in S}) /\ Cardinality({g[x] : x \in S}) = Cardinality(S)
<1>. DEFINE T == {g[x] : x \in S}
            h == [x \in S |-> g[x]]
<1>1. h \in Injection(S, T) /\ h \in Surjection(S, T)
  BY DEF Injection, Surjection, IsInjective
<1>2. h \in Bijection(S, T)
  BY <1>1 DEF Bijection
<1>. HIDE DEF h, T
<1>3. ExistsBijection(S, T)
  BY <1>2 DEF ExistsBijection
<1>4. IsFiniteSet(T) /\ Cardinality(T) = Cardinality(S)
  BY <1>3, FS_Bijection
<1>. QED BY <1>4 DEF T

\* The sum of what disjoint sets count is what they count together: every
\* element has its place in a numbering of its set.
LEMMA SumOfParts ==
  ASSUME NEW Z, NEW parts, DOMAIN parts = Z, NEW U, IsFiniteSet(U),
         U = UNION {parts[z] : z \in Z},
         \A y, z \in Z : parts[y] \cap parts[z] # {} => y = z
  PROVE  SumOf([z \in Z |-> Cardinality(parts[z])]) = Cardinality(U)
<1>. DEFINE count(z) == Cardinality(parts[z])
            D == UNION {{z} \X (1 .. count(z)) : z \in Z}
<1>1. SumOf([z \in Z |-> Cardinality(parts[z])]) = Cardinality(D)
  BY DEF SumOf
<1>2. \A z \in Z : IsFiniteSet(parts[z]) /\ count(z) \in Nat
  <2>1. \A z \in Z : parts[z] \in SUBSET U
    OBVIOUS
  <2>2. \A z \in Z : IsFiniteSet(parts[z])
    BY <2>1, FS_Subset
  <2>. QED BY <2>2, FS_CardinalityType
<1>3. \A z \in Z : Bijection(1 .. count(z), parts[z]) # {}
  <2>1. \A z \in Z : ExistsBijection(1 .. count(z), parts[z])
    BY <1>2, FS_CardinalityType
  <2>. QED BY <2>1 DEF ExistsBijection
<1>. DEFINE number == [z \in Z |-> CHOOSE b : b \in Bijection(1 .. count(z), parts[z])]
<1>4. \A z \in Z : number[z] \in Bijection(1 .. count(z), parts[z])
  BY <1>3
<1>. HIDE DEF number, count
<1>5. \A z \in Z : /\ number[z] \in [1 .. count(z) -> parts[z]]
                   /\ \A j, k \in 1 .. count(z) : number[z][j] = number[z][k] => j = k
                   /\ \A x \in parts[z] : \E k \in 1 .. count(z) : number[z][k] = x
  <2>. SUFFICES ASSUME NEW z \in Z
                PROVE  /\ number[z] \in [1 .. count(z) -> parts[z]]
                       /\ \A j, k \in 1 .. count(z) : number[z][j] = number[z][k] => j = k
                       /\ \A x \in parts[z] : \E k \in 1 .. count(z) : number[z][k] = x
    OBVIOUS
  <2>. DEFINE f == number[z]
              I == 1 .. count(z)
              P == parts[z]
  <2>1. f \in Bijection(I, P)
    BY <1>4
  <2>. HIDE DEF f, I, P
  <2>2. f \in [I -> P] /\ (\A j, k \in I : f[j] = f[k] => j = k) /\ (\A x \in P : \E k \in I : f[k] = x)
    BY <2>1 DEF Bijection, Injection, Surjection, IsInjective
  <2>. QED BY <2>2 DEF f, I, P
<1>. DEFINE h == [d \in D |-> number[d[1]][d[2]]]
<1>6. \A d \in D : d = <<d[1], d[2]>> /\ d[1] \in Z /\ d[2] \in 1 .. count(d[1])
  OBVIOUS
<1>7. \A z \in Z : \A k \in 1 .. count(z) : <<z, k>> \in D
  OBVIOUS
<1>. HIDE DEF D
<1>8. ASSUME NEW d \in D PROVE h[d] \in parts[d[1]]
  <2>1. h[d] = number[d[1]][d[2]]
    OBVIOUS
  <2>2. number[d[1]] \in [1 .. count(d[1]) -> parts[d[1]]]
    BY <1>5, <1>6
  <2>3. d[2] \in 1 .. count(d[1])
    BY <1>6
  <2>. QED BY <2>1, <2>2, <2>3
<1>9. h \in [D -> U]
  BY <1>6, <1>8
<1>10. ASSUME NEW d \in D, NEW e \in D, h[d] = h[e] PROVE d = e
  <2>1. d[1] = e[1]
    BY <1>6, <1>8, <1>10
  <2>2. d[2] = e[2]
    BY <1>5, <1>6, <1>10, <2>1
  <2>. QED BY <1>6, <2>1, <2>2
<1>11. ASSUME NEW x \in U PROVE \E d \in D : h[d] = x
  <2>1. PICK z \in Z : x \in parts[z]
    OBVIOUS
  <2>2. PICK k \in 1 .. count(z) : number[z][k] = x
    BY <1>5, <2>1
  <2>3. <<z, k>> \in D /\ h[<<z, k>>] = x
    BY <1>7, <2>2
  <2>. QED BY <2>3
<1>12. h \in Bijection(D, U)
  BY <1>9, <1>10, <1>11 DEF Bijection, Injection, Surjection, IsInjective
<1>. HIDE DEF h
<1>13. ExistsBijection(U, D)
  BY <1>12, Fun_ExistsBijSymmetric DEF ExistsBijection
<1>14. Cardinality(D) = Cardinality(U)
  BY <1>13, FS_Bijection
<1>. QED BY <1>1, <1>14 DEF D, count

\* A sum of counts is a number.
LEMMA SumIsNumber ==
  ASSUME NEW Z, IsFiniteSet(Z), NEW K \in Nat, NEW g \in [Z -> 0 .. K]
  PROVE  SumOf(g) \in Nat
<1>. DEFINE D == UNION {{x} \X (1 .. g[x]) : x \in DOMAIN g}
<1>1. IsFiniteSet(1 .. K)
  <2>1. 1 \in Int /\ K \in Int
    OBVIOUS
  <2>. QED BY <2>1, FS_Interval
<1>2. IsFiniteSet(Z \X (1 .. K))
  BY <1>1, FS_Product
<1>3. D \in SUBSET (Z \X (1 .. K))
  OBVIOUS
<1>. HIDE DEF D
<1>4. IsFiniteSet(D)
  BY <1>2, <1>3, FS_Subset
<1>5. Cardinality(D) \in Nat
  BY <1>4, FS_CardinalityType
<1>. QED BY <1>5 DEF SumOf, D

-----------------------------------------------------------------------------
(***************************************************************************)
(* The monitoring page.                                                    *)
(***************************************************************************)
\* The nodes the page for monitoring shows.
Listed == Known \cup OnlyPredicted

LEMMA KnownFacts ==
  ASSUME TypeOK
  PROVE  /\ Known \subseteq Node /\ IsFiniteSet(Known) /\ Cardinality(Known) \in Nat
         /\ DOMAIN readings \subseteq Known /\ DOMAIN nodeStatuses \subseteq Known
         /\ \A n \in DOMAIN nodeStatuses : nodeStatuses[n] \in {"online", "offline"}
         /\ \A n \in DOMAIN readings : readings[n] \in Nat
         /\ \A n \in Known : ZoneOf[n] \in ContextZones
         /\ \A n \in Listed : ZoneOf[n] \in AllKnownZones /\ ZoneOf[n] \in Zone
         /\ ContextZones \subseteq AllKnownZones /\ AllKnownZones \subseteq Zone
<1>1. /\ readings \in MapOf(0 .. made) /\ nodeStatuses \in MapOf(Status) /\ activeZones \subseteq Zone /\ made \in Nat
      /\ mlPredictions \subseteq Node
  BY DEF TypeOK, ScreenOK
<1>2. /\ DOMAIN readings \subseteq Node /\ \A n \in DOMAIN readings : readings[n] \in 0 .. made
      /\ DOMAIN nodeStatuses \subseteq Node /\ \A n \in DOMAIN nodeStatuses : nodeStatuses[n] \in Status
  BY <1>1, MapOut
<1>3. Known \subseteq Node
  BY <1>2 DEF Known
<1>4. IsFiniteSet(Known)
  BY <1>3, MonitoringAssumption, FS_Subset
<1>5. Cardinality(Known) \in Nat
  BY <1>4, FS_CardinalityType
<1>6. \A n \in Known : ZoneOf[n] \in ContextZones
  BY DEF Known, ContextZones, ZonesOf
<1>7. ContextZones \subseteq AllKnownZones /\ AllKnownZones \subseteq Zone
  <2>1. ContextZones \subseteq Zone
    BY <1>1, ZonesOfMap DEF ContextZones
  <2>2. {ZoneOf[n] : n \in mlPredictions} \subseteq Zone
    BY <1>1, DashboardAssumption
  <2>. QED BY <2>1, <2>2 DEF AllKnownZones
<1>8. \A n \in Listed : ZoneOf[n] \in AllKnownZones
  BY <1>6, <1>7 DEF Listed, OnlyPredicted, AllKnownZones
<1>. QED BY <1>1, <1>2, <1>3, <1>4, <1>5, <1>6, <1>7, <1>8 DEF Known, Status

\* Those known by predictions only are none of the others, and no more than
\* there are nodes.
LEMMA ListedFacts ==
  ASSUME TypeOK
  PROVE  /\ Listed = Known \cup mlPredictions /\ Listed \ OnlyPredicted = Known
         /\ Listed \subseteq Node /\ IsFiniteSet(Listed) /\ Cardinality(Listed) \in Nat
         /\ \A n \in OnlyPredicted : ~ Online(n) /\ n \notin DOMAIN readings /\ n \notin Known
<1>1. Listed \subseteq Node
  BY KnownFacts DEF Listed, OnlyPredicted, TypeOK, ScreenOK
<1>2. IsFiniteSet(Listed)
  BY <1>1, MonitoringAssumption, FS_Subset
<1>3. Cardinality(Listed) \in Nat
  BY <1>2, FS_CardinalityType
<1>. QED BY <1>1, <1>2, <1>3 DEF Listed, OnlyPredicted, Known, Online

LEMMA FilteredNodesAre ==
  ASSUME TypeOK, NEW f \in Filter
  PROVE  FilteredNodes(f) =
           {n \in HardwareOnly(Listed, f.onlyOpPp) \cap f.search.matches :
              f.zone \in {"all", ZoneOf[n]} /\ Passes(n, f.status)}
<1>. DEFINE S == {n \in HardwareOnly(Listed, f.onlyOpPp) \cap f.search.matches :
                    f.zone \in {"all", ZoneOf[n]} /\ Passes(n, f.status)}
<1>1. ASSUME NEW n \in FilteredNodes(f) PROVE n \in S
  BY ListedFacts DEF FilteredNodes, FilteredZones, MatchingNodes, NodesInZone, HardwareOnly
<1>2. ASSUME NEW n \in S PROVE n \in FilteredNodes(f)
  <2>1. n \in Listed /\ ZoneOf[n] \in AllKnownZones
    BY KnownFacts DEF HardwareOnly
  <2>2. n \in MatchingNodes(ZoneOf[n], f)
    BY <2>1, ListedFacts DEF MatchingNodes, NodesInZone, HardwareOnly
  <2>3. ZoneOf[n] \in FilteredZones(f)
    BY <2>1, <2>2 DEF FilteredZones
  <2>. QED BY <2>2, <2>3 DEF FilteredNodes
<1>. QED BY <1>1, <1>2

LEMMA EverythingIs ==
  ASSUME TypeOK, NEW onlyOpPp \in BOOLEAN
  PROVE  /\ Everything(onlyOpPp) \in Filter
         /\ Everything(onlyOpPp).zone = "all" /\ Everything(onlyOpPp).onlyOpPp = onlyOpPp
         /\ FilteredNodes(Everything(onlyOpPp)) = HardwareOnly(Listed, onlyOpPp)
         /\ \A z \in Zone : MatchingNodes(z, Everything(onlyOpPp)) = HardwareOnly(NodesInZone(z), onlyOpPp)
<1>. DEFINE f == Everything(onlyOpPp)
<1>1. /\ f \in Filter /\ f.zone = "all" /\ f.search = AnySearch
      /\ f.status = "all" /\ f.onlyOpPp = onlyOpPp
  BY DEF Everything, Filter
<1>. HIDE DEF f
<1>2. AnySearch.matches = Node
  BY DEF AnySearch
<1>3. Listed \subseteq Node /\ Listed = Known \cup mlPredictions
  BY ListedFacts
<1>4. FilteredNodes(f) = HardwareOnly(Listed, onlyOpPp)
  BY <1>1, <1>2, <1>3, FilteredNodesAre DEF HardwareOnly, Passes
<1>5. \A z \in Zone : MatchingNodes(z, f) = HardwareOnly(NodesInZone(z), onlyOpPp)
  BY <1>1, <1>2, <1>3 DEF MatchingNodes, NodesInZone, HardwareOnly, Passes
<1>. QED BY <1>1, <1>4, <1>5 DEF f

\* The nodes shown, zone by zone.
LEMMA ZonesTogether ==
  ASSUME TypeOK, NEW f \in Filter, NEW S \in SUBSET Listed
  PROVE  /\ IsFiniteSet(FilteredNodes(f) \cap S)
         /\ SumOf([z \in FilteredZones(f) |-> Cardinality(MatchingNodes(z, f) \cap S)])
              = Cardinality(FilteredNodes(f) \cap S)
<1>. DEFINE Z == FilteredZones(f)
            parts == [z \in Z |-> MatchingNodes(z, f) \cap S]
            U == FilteredNodes(f) \cap S
<1>1. IsFiniteSet(U)
  BY ListedFacts, FS_Subset
<1>2. U = UNION {parts[z] : z \in Z}
  BY DEF FilteredNodes
<1>3. \A y, z \in Z : parts[y] \cap parts[z] # {} => y = z
  BY DEF MatchingNodes, NodesInZone, HardwareOnly
<1>4. DOMAIN parts = Z /\ \A z \in Z : parts[z] = MatchingNodes(z, f) \cap S
  OBVIOUS
<1>. HIDE DEF parts, U, Z
<1>5. SumOf([z \in Z |-> Cardinality(parts[z])]) = Cardinality(U)
  BY <1>1, <1>2, <1>3, <1>4, SumOfParts
<1>6. [z \in Z |-> Cardinality(parts[z])] = [z \in Z |-> Cardinality(MatchingNodes(z, f) \cap S)]
  BY <1>4
<1>. QED BY <1>1, <1>5, <1>6 DEF Z, U

LEMMA TotalsAddUp ==
  ASSUME TypeOK, NEW f \in Filter
  PROVE  LET totals == [z \in FilteredZones(f) |-> ZoneTotals(MatchingNodes(z, f))]
         IN /\ FilteredStats(f).online = SumOf([z \in DOMAIN totals |-> totals[z].online])
            /\ FilteredStats(f).nodes = SumOf([z \in DOMAIN totals |-> totals[z].nodes])
<1>. DEFINE Z == FilteredZones(f)
            totals == [z \in Z |-> ZoneTotals(MatchingNodes(z, f))]
            nodes == FilteredNodes(f)
            on == {n \in Listed : Online(n)}
<1>1. \A z : MatchingNodes(z, f) \subseteq Listed
  BY ListedFacts DEF MatchingNodes, NodesInZone, HardwareOnly
<1>2. nodes \subseteq Listed
  BY <1>1 DEF FilteredNodes
<1>3. /\ FilteredStats(f).nodes = Cardinality(nodes)
      /\ FilteredStats(f).online = Cardinality(nodes \ {n \in nodes : ~ Online(n)})
  BY DEF FilteredStats, Counts
<1>4. nodes \ {n \in nodes : ~ Online(n)} = nodes \cap on /\ nodes = nodes \cap Listed
  BY <1>2
<1>5. [z \in DOMAIN totals |-> totals[z].online] = [z \in Z |-> Cardinality(MatchingNodes(z, f) \cap on)]
  <2>1. \A z \in Z : {n \in MatchingNodes(z, f) : Online(n)} = MatchingNodes(z, f) \cap on
    BY <1>1
  <2>2. \A z \in Z : totals[z].online = Cardinality(MatchingNodes(z, f) \cap on)
    BY <2>1 DEF ZoneTotals
  <2>3. DOMAIN totals = Z
    OBVIOUS
  <2>. HIDE DEF totals, on, Z
  <2>. QED BY <2>2, <2>3
<1>6. [z \in DOMAIN totals |-> totals[z].nodes] = [z \in Z |-> Cardinality(MatchingNodes(z, f) \cap Listed)]
  <2>1. \A z \in Z : MatchingNodes(z, f) = MatchingNodes(z, f) \cap Listed
    BY <1>1
  <2>2. \A z \in Z : totals[z].nodes = Cardinality(MatchingNodes(z, f) \cap Listed)
    BY <2>1 DEF ZoneTotals
  <2>3. DOMAIN totals = Z
    OBVIOUS
  <2>. HIDE DEF totals, Z
  <2>. QED BY <2>2, <2>3
<1>. HIDE DEF totals
<1>7. SumOf([z \in Z |-> Cardinality(MatchingNodes(z, f) \cap on)]) = Cardinality(nodes \cap on)
  BY ZonesTogether
<1>8. SumOf([z \in Z |-> Cardinality(MatchingNodes(z, f) \cap Listed)]) = Cardinality(nodes \cap Listed)
  BY ZonesTogether
<1>9. /\ FilteredStats(f).online = SumOf([z \in DOMAIN totals |-> totals[z].online])
      /\ FilteredStats(f).nodes = SumOf([z \in DOMAIN totals |-> totals[z].nodes])
  BY <1>3, <1>4, <1>5, <1>6, <1>7, <1>8
<1>. QED BY <1>9 DEF totals

LEMMA FiltersInv ==
  ASSUME TypeOK
  PROVE  FiltersAgree
<1>1. ASSUME NEW f \in Filters
      PROVE  LET passing(status) == FilteredNodes([f EXCEPT !.status = status])
             IN passing("offline") = passing("all") \ passing("online")
  <2>. DEFINE g(status) == [f EXCEPT !.status = status]
              S == {n \in HardwareOnly(Listed, f.onlyOpPp) \cap f.search.matches : f.zone \in {"all", ZoneOf[n]}}
  <2>1. ASSUME NEW status \in {"all", "online", "offline"}
        PROVE  FilteredNodes(g(status)) = {n \in S : Passes(n, status)}
    <3>1. f \in Filter
      BY MonitoringAssumption
    <3>2. /\ g(status) \in Filter /\ g(status).zone = f.zone /\ g(status).search = f.search
          /\ g(status).onlyOpPp = f.onlyOpPp /\ g(status).status = status
      BY <3>1 DEF Filter
    <3>. HIDE DEF g
    <3>3. FilteredNodes(g(status)) =
            {n \in HardwareOnly(Listed, f.onlyOpPp) \cap f.search.matches :
               f.zone \in {"all", ZoneOf[n]} /\ Passes(n, status)}
      BY <3>2, FilteredNodesAre
    <3>. QED BY <3>3
  <2>. HIDE DEF S
  <2>2. {n \in S : Passes(n, "offline")} = {n \in S : Passes(n, "all")} \ {n \in S : Passes(n, "online")}
    BY DEF Passes
  <2>3. FilteredNodes(g("offline")) = FilteredNodes(g("all")) \ FilteredNodes(g("online"))
    <3>. HIDE DEF g
    <3>. QED BY <2>1, <2>2
  <2>. QED BY <2>3
<1>2. ASSUME NEW f \in Filters
      PROVE  /\ TitleStats(f).nodes = 0 => Body(f) = "awaiting"
             /\ Body(f) = "awaiting" =>
                  TitleStats(f).nodes = 0 \/ TitleStats(f).nodes = Cardinality(FilteredNodes(f) \cap OnlyPredicted)
  <2>1. f \in Filter
    BY MonitoringAssumption
  <2>2. Stats.nodes = Cardinality(Known) /\ FilteredStats(f).nodes = Cardinality(FilteredNodes(f))
    BY DEF Stats, Counts, FilteredStats
  <2>3. Cardinality(Known) = 0 <=> Known = {}
    BY KnownFacts, FS_EmptySet
  <2>4. FilteredNodes(f) \subseteq Listed
    BY <2>1, FilteredNodesAre DEF HardwareOnly
  <2>5. Known = {} => FilteredNodes(f) \cap OnlyPredicted = FilteredNodes(f)
    BY <2>4 DEF Listed
  <2>6. Body(f) = "awaiting" <=> Known = {}
    BY DEF Body
  <2>7. \/ TitleStats(f).nodes = Stats.nodes
        \/ TitleStats(f).nodes = FilteredStats(f).nodes /\ FilteredStats(f).nodes > 0
    BY DEF TitleStats
  <2>8. Cardinality(FilteredNodes(f)) \in Nat
    BY <2>4, ListedFacts, FS_Subset, FS_CardinalityType
  <2>9. TitleStats(f).nodes = 0 => Known = {}
    BY <2>2, <2>3, <2>7, <2>8
  <2>10. Known = {} =>
           TitleStats(f).nodes = 0 \/ TitleStats(f).nodes = Cardinality(FilteredNodes(f) \cap OnlyPredicted)
    BY <2>2, <2>3, <2>5, <2>7
  <2>. QED BY <2>6, <2>9, <2>10
<1>3. FilteredNodes(Everything(FALSE)) = Known \cup OnlyPredicted
  BY EverythingIs DEF HardwareOnly, Listed
<1>4. ASSUME NEW n \in Known \cup OnlyPredicted
      PROVE  JustThis(n) \in FilterChoices /\ FilteredNodes(JustThis(n)) = {n}
  <2>. DEFINE f == JustThis(n)
  <2>1. n \in Listed /\ n \in Node /\ ZoneOf[n] \in AllKnownZones /\ ZoneOf[n] \in Zone
    BY KnownFacts, ListedFacts DEF Listed
  <2>2. f.zone = ZoneOf[n] /\ f.search = [given |-> TRUE, matches |-> {n}] /\ (f.onlyOpPp <=> n \in OpPp)
        /\ f.status = (IF Online(n) THEN "online" ELSE "offline")
    BY DEF JustThis
  <2>3. f \in Filter
    <3>1. [given |-> TRUE, matches |-> {n}] \in [given : {TRUE}, matches : SUBSET Node]
      BY <2>1
    <3>2. (n \in OpPp) \in BOOLEAN
      OBVIOUS
    <3>. QED BY <2>1, <3>1, <3>2 DEF JustThis, Filter
  <2>. HIDE DEF f
  <2>4. f \in FilterChoices
    BY <2>1, <2>2, <2>3 DEF FilterChoices
  <2>5. f.search.matches = {n}
    BY <2>2
  <2>6. Passes(n, f.status)
    BY <2>2 DEF Passes
  <2>7. n \in HardwareOnly(Listed, f.onlyOpPp)
    BY <2>1, <2>2 DEF HardwareOnly
  <2>8. FilteredNodes(f) = {n}
    BY <2>2, <2>3, <2>5, <2>6, <2>7, FilteredNodesAre
  <2>. QED BY <2>4, <2>8 DEF f
<1>5. \A f \in Filters : f \in Filter
  BY MonitoringAssumption
<1>. QED BY <1>1, <1>2, <1>3, <1>4, <1>5, TotalsAddUp DEF FiltersAgree

-----------------------------------------------------------------------------
(***************************************************************************)
(* The directory.                                                          *)
(***************************************************************************)
Offline == {n \in DOMAIN nodeStatuses : ~ Online(n)}
Unannounced == Known \ DOMAIN nodeStatuses

RowOf(n) ==
  [node |-> n, status |-> IF n \in DOMAIN nodeStatuses THEN {nodeStatuses[n]} ELSE {}]

LEMMA RowsAre ==
  ASSUME TypeOK
  PROVE  /\ AllNodes = {RowOf(n) : n \in Known}
         /\ \A n : RowOf(n).node = n
         /\ \A n \in Known : TableStatus(RowOf(n)) = "online" <=> Online(n)
<1>1. DOMAIN nodeStatuses \subseteq Known /\ DOMAIN readings \subseteq Known
  BY KnownFacts
<1>2. \A n \in DOMAIN nodeStatuses : RowOf(n) = [node |-> n, status |-> {nodeStatuses[n]}]
  BY DEF RowOf
<1>3. \A n \in DOMAIN readings \ DOMAIN nodeStatuses : RowOf(n) = [node |-> n, status |-> {}]
  BY DEF RowOf
<1>4. AllNodes = {RowOf(n) : n \in Known}
  <2>1. AllNodes \subseteq {RowOf(n) : n \in Known}
    BY <1>1, <1>2, <1>3 DEF AllNodes
  <2>2. ASSUME NEW n \in Known PROVE RowOf(n) \in AllNodes
    BY <1>2, <1>3 DEF Known, AllNodes
  <2>. QED BY <2>1, <2>2
<1>5. \A n : RowOf(n).node = n
  BY DEF RowOf
<1>6. ASSUME NEW n \in Known PROVE TableStatus(RowOf(n)) = "online" <=> Online(n)
  <2>1. CASE n \in DOMAIN nodeStatuses
    <3>1. RowOf(n).status = {nodeStatuses[n]}
      BY <2>1 DEF RowOf
    <3>2. TableStatus(RowOf(n)) = nodeStatuses[n]
      BY <3>1 DEF TableStatus
    <3>. QED BY <2>1, <3>2 DEF Online
  <2>2. CASE n \notin DOMAIN nodeStatuses
    <3>1. RowOf(n).status = {}
      BY <2>2 DEF RowOf
    <3>2. TableStatus(RowOf(n)) = "offline"
      BY <3>1 DEF TableStatus
    <3>. QED BY <2>2, <3>2 DEF Online
  <2>. QED BY <2>1, <2>2
<1>. QED BY <1>4, <1>5, <1>6

\* As many rows as nodes.
LEMMA RowsCounted ==
  ASSUME TypeOK, NEW S \in SUBSET Known
  PROVE  IsFiniteSet(S) /\ Cardinality({RowOf(n) : n \in S}) = Cardinality(S)
<1>. DEFINE g == [n \in S |-> RowOf(n)]
<1>1. IsFiniteSet(S)
  BY KnownFacts, FS_Subset
<1>2. DOMAIN g = S /\ \A n \in S : g[n] = RowOf(n)
  OBVIOUS
<1>3. \A x, y \in S : g[x] = g[y] => x = y
  BY RowsAre
<1>4. {RowOf(n) : n \in S} = {g[n] : n \in S}
  OBVIOUS
<1>. HIDE DEF g
<1>. QED BY <1>1, <1>2, <1>3, <1>4, CountedImage

\* The context counts those offline whose status says so.
LEMMA StatsAre ==
  ASSUME TypeOK
  PROVE  /\ Stats.nodes = Cardinality(Known) /\ Stats.nodes \in Nat
         /\ Stats.offline = Cardinality(Offline) /\ Stats.offline \in Nat
         /\ Stats.zones = Cardinality(ContextZones)
         /\ Stats.online = Cardinality(OnlineCards) + Cardinality(Unannounced) /\ Stats.online \in Nat
         /\ Cardinality(OnlineCards) \in Nat /\ Cardinality(Unannounced) \in Nat
         /\ OnlineCards = {n \in Known : Online(n)}
         /\ IsFiniteSet(OnlineCards) /\ IsFiniteSet(Unannounced) /\ IsFiniteSet(Offline)
<1>1. OnlineCards = {n \in Known : Online(n)}
  BY DEF OnlineCards, Card
<1>2. /\ Stats.nodes = Cardinality(Known) /\ Stats.zones = Cardinality(ContextZones)
      /\ Stats.offline = Cardinality(Offline) /\ Stats.online = Cardinality(Known \ Offline)
  BY DEF Stats, Counts, Offline
<1>3. Offline \subseteq Known /\ Unannounced \subseteq Known /\ OnlineCards \subseteq Known
  BY KnownFacts, <1>1 DEF Offline, Unannounced
<1>4. IsFiniteSet(OnlineCards) /\ IsFiniteSet(Unannounced) /\ IsFiniteSet(Offline)
  BY <1>3, KnownFacts, FS_Subset
<1>5. Cardinality(OnlineCards) \in Nat /\ Cardinality(Unannounced) \in Nat /\ Cardinality(Offline) \in Nat
  BY <1>4, FS_CardinalityType
<1>6. Known \ Offline = OnlineCards \cup Unannounced /\ OnlineCards \cap Unannounced = {}
  BY <1>1, <1>3 DEF Offline, Unannounced, Online
<1>7. Cardinality(Known \ Offline) = Cardinality(OnlineCards) + Cardinality(Unannounced)
  BY <1>4, <1>6, CountedApart
<1>. QED BY <1>1, <1>2, <1>4, <1>5, <1>7, KnownFacts

LEMMA DirectoryInv ==
  ASSUME TypeOK
  PROVE  DirectoryAgrees
<1>. DEFINE rows == AllNodes
            offline == {row \in rows : TableStatus(row) # "online"}
<1>1. rows = {RowOf(n) : n \in Known} /\ \A n : RowOf(n).node = n
  BY RowsAre
<1>2. ASSUME NEW n \in Known
      PROVE  \E row \in rows :
               /\ {other \in rows : other.node = n} = {row}
               /\ TableStatus(row) = "online" <=> Card(n).status = "Online"
  <2>1. RowOf(n) \in rows /\ {other \in rows : other.node = n} = {RowOf(n)}
    BY <1>1
  <2>2. TableStatus(RowOf(n)) = "online" <=> Card(n).status = "Online"
    BY RowsAre DEF Card
  <2>. QED BY <2>1, <2>2
<1>9. \A n \in FilteredNodes(Everything(FALSE)) \ OnlyPredicted : n \in Known
  BY EverythingIs, ListedFacts DEF HardwareOnly
<1>10. \A n \in OnlyPredicted : Card(n).status # "Online" /\ \A row \in rows : row.node # n
  <2>1. \A n \in OnlyPredicted : Card(n).status # "Online"
    BY ListedFacts DEF Card
  <2>2. \A n \in OnlyPredicted : \A row \in rows : row.node # n
    BY <1>1, ListedFacts
  <2>. QED BY <2>1, <2>2
<1>3. FleetCards.cataloged = FleetCards.nodes
  <2>1. FleetCards.cataloged = Cardinality(rows) /\ FleetCards.nodes = Stats.nodes
    BY DEF FleetCards
  <2>2. Cardinality(rows) = Cardinality(Known)
    BY <1>1, RowsCounted
  <2>. QED BY <2>1, <2>2, StatsAre
<1>4. offline = {RowOf(n) : n \in Offline \cup Unannounced}
  <2>1. Offline \cup Unannounced = {n \in Known : ~ Online(n)}
    BY KnownFacts DEF Offline, Unannounced, Online
  <2>. QED BY <1>1, <2>1, RowsAre
<1>5. Cardinality(offline) = Cardinality(Offline) + Cardinality(Unannounced)
  <2>1. Offline \cup Unannounced \subseteq Known /\ Offline \cap Unannounced = {}
    BY KnownFacts DEF Offline, Unannounced
  <2>2. Cardinality(Offline \cup Unannounced) = Cardinality(Offline) + Cardinality(Unannounced)
    BY <2>1, StatsAre, CountedApart
  <2>. QED BY <1>4, <2>1, <2>2, RowsCounted
<1>6. FleetCards.tone = "All Nodes Connected" <=> \A row \in offline : row.node \in Unannounced
  <2>1. FleetCards.tone = "All Nodes Connected" <=> Stats.offline = 0
    BY DEF FleetCards
  <2>2. Stats.offline = 0 <=> Offline = {}
    BY StatsAre, FS_EmptySet
  <2>3. Offline \cap Unannounced = {}
    BY DEF Offline, Unannounced
  <2>4. Offline = {} => \A row \in offline : row.node \in Unannounced
    BY <1>1, <1>4
  <2>5. ASSUME NEW n \in Offline PROVE RowOf(n) \in offline /\ RowOf(n).node \notin Unannounced
    <3>1. RowOf(n) \in offline
      BY <1>4
    <3>. QED BY <1>1, <2>3, <3>1
  <2>. HIDE DEF offline
  <2>. QED BY <2>1, <2>2, <2>4, <2>5
<1>7. FleetCards.offline = Cardinality(Offline)
  BY StatsAre DEF FleetCards
<1>. HIDE DEF offline, rows
<1>8. Known \ DOMAIN nodeStatuses = Unannounced
  BY DEF Unannounced
<1>. QED BY <1>2, <1>3, <1>5, <1>6, <1>7, <1>8, <1>9, <1>10 DEF DirectoryAgrees, rows, offline

-----------------------------------------------------------------------------
(***************************************************************************)
(* The mine and its zones.                                                 *)
(***************************************************************************)
\* The gauges of a zone are the mine's that are in it.
LEMMA PartOfMine ==
  ASSUME NEW nodes, NEW mine, nodes \cap DOMAIN readings \subseteq mine
  PROVE  /\ Tripwires(nodes).reporting = nodes \cap DOMAIN readings
         /\ Tripwires(mine).broken # {} => Tripwires(nodes).broken = nodes \cap Tripwires(mine).broken
<1>1. /\ Tripwires(nodes).reporting = nodes \cap DOMAIN readings
      /\ Tripwires(nodes).broken =
           IF \A n \in nodes \cap DOMAIN readings : readings[n] \notin Raw
           THEN {n \in nodes \cap DOMAIN readings : readings[n] \in Broken} ELSE {}
  BY DEF Tripwires
<1>2. Tripwires(mine).broken =
           IF \A n \in mine \cap DOMAIN readings : readings[n] \notin Raw
           THEN {n \in mine \cap DOMAIN readings : readings[n] \in Broken} ELSE {}
  BY DEF Tripwires
<1>. QED BY <1>1, <1>2

LEMMA MineInv ==
  ASSUME TypeOK
  PROVE  MineAgrees
<1>. SUFFICES ASSUME NEW onlyOpPp \in BOOLEAN
              PROVE  LET f == Everything(onlyOpPp)
                         zones == FilteredZones(f)
                         captions == [z \in zones |-> Caption(Tripwires(MatchingNodes(z, f)))]
                         mine == FleetTripwires(onlyOpPp)
                     IN /\ Caption(mine).reporting = SumOf([z \in zones |-> captions[z].reporting])
                        /\ Caption(mine).broken <= SumOf([z \in zones |-> captions[z].broken])
                        /\ \A z \in mine.zones :
                             /\ z \in zones
                             /\ ZoneSays(MatchingNodes(z, f)) = "RUPTURE"
                             /\ \E n \in DOMAIN Carousel(MatchingNodes(z, f)).cards :
                                  Card(n).status = "Online" /\ Card(n).reading \subseteq Broken
                        /\ \A z \in zones :
                             LET carousel == Carousel(MatchingNodes(z, f))
                             IN carousel.inactive = Cardinality({n \in DOMAIN carousel.cards : carousel.cards[n].status # "Online"})
  BY DEF MineAgrees
<1>. DEFINE f == Everything(onlyOpPp)
            zones == FilteredZones(f)
            fleet == Fleet(onlyOpPp)
            in(z) == MatchingNodes(z, f)
            captions == [z \in zones |-> Caption(Tripwires(in(z)))]
            mine == FleetTripwires(onlyOpPp)
<1>0. f \in Filter /\ zones \subseteq Zone /\ IsFiniteSet(Known) /\ fleet \subseteq Known
  BY EverythingIs, KnownFacts DEF FilteredZones, Fleet, HardwareOnly
<1>1. /\ FilteredNodes(f) = HardwareOnly(Listed, onlyOpPp) /\ fleet \subseteq FilteredNodes(f)
      /\ FilteredNodes(f) \subseteq Listed /\ FilteredNodes(f) \cap Known = fleet
  BY EverythingIs DEF Fleet, HardwareOnly, Listed
<1>a. FilteredNodes(f) \cap DOMAIN readings = fleet \cap DOMAIN readings /\ IsFiniteSet(Listed)
  BY <1>1, KnownFacts, ListedFacts
<1>2. /\ mine.reporting = fleet \cap DOMAIN readings
      /\ mine.broken = Tripwires(fleet).broken
      /\ mine.zones = {ZoneOf[n] : n \in {m \in mine.broken : Online(m)}}
      /\ mine.broken \subseteq fleet \cap DOMAIN readings
      /\ \A n \in mine.broken : readings[n] \in Broken
  BY DEF FleetTripwires, Tripwires
<1>3. \A z : in(z) \subseteq Listed /\ (\A n \in in(z) : ZoneOf[n] = z)
  BY ListedFacts DEF MatchingNodes, NodesInZone, HardwareOnly
<1>4. \A z \in Zone : in(z) = {n \in FilteredNodes(f) : ZoneOf[n] = z}
  BY <1>1, EverythingIs, ListedFacts DEF HardwareOnly, NodesInZone
<1>b. \A z \in Zone : in(z) \cap DOMAIN readings \subseteq fleet
  BY <1>4, <1>a
<1>5. \A z \in zones : /\ captions[z].reporting = Cardinality(in(z) \cap DOMAIN readings)
                       /\ captions[z].broken = Cardinality(Tripwires(in(z)).broken)
  BY DEF Caption, Tripwires
<1>6. Caption(mine).reporting = Cardinality(fleet \cap DOMAIN readings) /\ Caption(mine).broken = Cardinality(mine.broken)
  BY <1>2 DEF Caption
<1>. HIDE DEF f, fleet, mine, captions
<1>7. Caption(mine).reporting = SumOf([z \in zones |-> captions[z].reporting])
  <2>1. [z \in zones |-> captions[z].reporting] = [z \in zones |-> Cardinality(in(z) \cap DOMAIN readings)]
    BY <1>5
  <2>2. DOMAIN readings \in SUBSET Listed
    BY KnownFacts DEF Listed
  <2>3. SumOf([z \in zones |-> Cardinality(in(z) \cap DOMAIN readings)]) = Cardinality(FilteredNodes(f) \cap DOMAIN readings)
    BY <1>0, <2>2, ZonesTogether
  <2>. QED BY <1>a, <1>6, <2>1, <2>3
<1>8. Caption(mine).broken <= SumOf([z \in zones |-> captions[z].broken])
  <2>1. CASE mine.broken = {}
    <3>1. Caption(mine).broken = 0
      BY <1>6, <2>1, FS_EmptySet
    <3>2. SumOf([z \in zones |-> captions[z].broken]) \in Nat
      <4>. DEFINE K == Cardinality(Listed)
                  g == [z \in zones |-> captions[z].broken]
      <4>1. K \in Nat
        BY ListedFacts
      <4>2. ASSUME NEW z \in zones PROVE captions[z].broken \in 0 .. K
        <5>1. Tripwires(in(z)).broken \in SUBSET Listed
          BY <1>3 DEF Tripwires
        <5>. DEFINE B == Tripwires(in(z)).broken
        <5>2. captions[z].broken = Cardinality(B)
          BY <1>5
        <5>. HIDE DEF B
        <5>3. IsFiniteSet(B) /\ Cardinality(B) <= K
          BY <1>a, <5>1, FS_Subset DEF B
        <5>4. Cardinality(B) \in Nat
          BY <5>3, FS_CardinalityType
        <5>. HIDE DEF K
        <5>. QED BY <4>1, <5>2, <5>3, <5>4
      <4>3. g \in [zones -> 0 .. K]
        BY <4>2
      <4>4. IsFiniteSet(zones)
        <5>. DEFINE h == [n \in FilteredNodes(f) |-> ZoneOf[n]]
        <5>1. \A z \in zones : \E n \in FilteredNodes(f) : ZoneOf[n] = z
          <6>. SUFFICES ASSUME NEW z \in zones PROVE \E n \in FilteredNodes(f) : ZoneOf[n] = z
            OBVIOUS
          <6>1. f.zone = "all" /\ z \in Zone /\ "all" \notin Zone
            BY <1>0, EverythingIs, MonitoringAssumption DEF f
          <6>2. in(z) # {}
            BY <6>1 DEF FilteredZones
          <6>. QED BY <1>3, <6>2 DEF FilteredNodes
        <5>2. \A n \in FilteredNodes(f) : ZoneOf[n] \in zones
          BY <1>3 DEF FilteredNodes
        <5>3. h \in Surjection(FilteredNodes(f), zones)
          BY <5>1, <5>2 DEF Surjection
        <5>4. IsFiniteSet(FilteredNodes(f))
          BY <1>a, <1>1, FS_Subset
        <5>. HIDE DEF h, zones
        <5>. QED BY <5>3, <5>4, FS_Surjection
      <4>. HIDE DEF g, K, zones
      <4>5. SumOf(g) \in Nat
        BY <4>1, <4>3, <4>4, SumIsNumber
      <4>. QED BY <4>5 DEF g
    <3>. QED BY <3>1, <3>2
  <2>2. CASE mine.broken # {}
    <3>1. \A z \in zones : Tripwires(in(z)).broken = in(z) \cap mine.broken
      BY <1>0, <1>b, <1>2, <2>2, PartOfMine
    <3>2. [z \in zones |-> captions[z].broken] = [z \in zones |-> Cardinality(in(z) \cap mine.broken)]
      BY <1>5, <3>1
    <3>3. mine.broken \in SUBSET Listed
      BY <1>0, <1>2 DEF Listed
    <3>4. SumOf([z \in zones |-> Cardinality(in(z) \cap mine.broken)]) = Cardinality(FilteredNodes(f) \cap mine.broken)
      BY <1>0, <3>3, ZonesTogether
    <3>5. FilteredNodes(f) \cap mine.broken = mine.broken
      BY <1>1, <1>2
    <3>6. Cardinality(mine.broken) \in Nat
      BY <1>a, <3>3, FS_Subset, FS_CardinalityType
    <3>7. SumOf([z \in zones |-> captions[z].broken]) = Cardinality(mine.broken)
      BY <3>2, <3>4, <3>5
    <3>8. Caption(mine).broken = Cardinality(mine.broken)
      BY <1>6
    <3>. HIDE DEF zones, in
    <3>. QED BY <3>6, <3>7, <3>8
  <2>. QED BY <2>1, <2>2
<1>9. ASSUME NEW z \in mine.zones
      PROVE  /\ z \in zones
             /\ ZoneSays(in(z)) = "RUPTURE"
             /\ \E n \in DOMAIN Carousel(in(z)).cards :
                  Card(n).status = "Online" /\ Card(n).reading \subseteq Broken
  <2>1. PICK n \in mine.broken : Online(n) /\ ZoneOf[n] = z
    BY <1>2
  <2>2. n \in fleet /\ n \in DOMAIN readings /\ readings[n] \in Broken /\ z \in Zone /\ z \in AllKnownZones
    BY <1>0, <1>2, <2>1, KnownFacts
  <2>3. n \in in(z) /\ in(z) \cap DOMAIN readings \subseteq fleet
    BY <1>1, <1>4, <1>b, <2>1, <2>2
  <2>4. z \in zones
    BY <1>0, <2>2, <2>3, EverythingIs DEF FilteredZones, f
  <2>5. n \in Tripwires(in(z)).broken /\ n \in Tripwires(in(z)).reporting
    BY <1>2, <2>1, <2>2, <2>3, PartOfMine
  <2>6. ZoneSays(in(z)) = "RUPTURE"
    BY <2>5 DEF ZoneSays, CardSays
  <2>7. n \in DOMAIN Carousel(in(z)).cards
    BY <2>3 DEF Carousel
  <2>8. Card(n).status = "Online" /\ Card(n).reading = {readings[n]}
    BY <2>1, <2>2 DEF Card
  <2>. QED BY <2>2, <2>4, <2>6, <2>7, <2>8
<1>10. ASSUME NEW z \in zones
       PROVE  Carousel(in(z)).inactive =
                Cardinality({n \in DOMAIN Carousel(in(z)).cards : Carousel(in(z)).cards[n].status # "Online"})
  <2>. DEFINE S == in(z)
              T == {n \in S : Online(n)}
  <2>1. IsFiniteSet(S)
    BY <1>a, <1>3, FS_Subset
  <2>2. Carousel(S).inactive = Cardinality(S) - Cardinality(T) /\ Carousel(S).cards = [n \in S |-> Card(n)]
    BY DEF Carousel, ZoneTotals
  <2>3. {n \in DOMAIN Carousel(S).cards : Carousel(S).cards[n].status # "Online"} = S \ T
    <3>1. \A n : Card(n).status = "Online" <=> Online(n)
      BY DEF Card
    <3>. HIDE DEF S
    <3>2. DOMAIN Carousel(S).cards = S /\ \A n \in S : Carousel(S).cards[n] = Card(n)
      BY <2>2
    <3>. QED BY <3>1, <3>2
  <2>. HIDE DEF S
  <2>4. T \in SUBSET S
    OBVIOUS
  <2>. HIDE DEF T
  <2>5. Cardinality(S) = Cardinality(T) + Cardinality(S \ T) /\ Cardinality(T) \in Nat /\ Cardinality(S \ T) \in Nat
    BY <2>1, <2>4, CountedRest
  <2>6. Carousel(S).inactive = Cardinality(S \ T)
    BY <2>2, <2>5
  <2>. QED BY <2>3, <2>6 DEF S
<1>. QED BY <1>7, <1>8, <1>9, <1>10 DEF f, captions, mine

-----------------------------------------------------------------------------
(***************************************************************************)
(* The frame, the map and the analytics page.                              *)
(***************************************************************************)
JoinedAreKnown == clicks = 0 => joined \subseteq activeZones

LEMMA NobodyOnline ==
  ASSUME TypeOK, ~ (Stats.online > 0)
  PROVE  OnlineCards = {}
<1>1. Cardinality(OnlineCards) = 0
  BY StatsAre
<1>. QED BY <1>1, StatsAre, FS_EmptySet

LEMMA HeadersInv ==
  ASSUME TypeOK, JoinedAreKnown
  PROVE  HeadersAgree
<1>1. Header.online = Cardinality(OnlineCards) + Cardinality(Known \ DOMAIN nodeStatuses)
  BY StatsAre DEF Header, Unannounced
<1>2. Header.nodes = 0 <=> Body(Everything(FALSE)) = "awaiting"
  <2>1. Body(Everything(FALSE)) = "awaiting" <=> Known = {}
    BY DEF Body
  <2>. QED BY <2>1, KnownFacts, StatsAre, FS_EmptySet DEF Header
<1>3. Body(Everything(FALSE)) # "no match"
  <2>. SUFFICES ASSUME Known # {} PROVE FilteredZones(Everything(FALSE)) # {}
    BY DEF Body
  <2>1. FilteredNodes(Everything(FALSE)) # {}
    BY EverythingIs DEF HardwareOnly, Listed
  <2>. QED BY <2>1 DEF FilteredNodes
<1>4. LiveBadge = {} => OnlineCards = {}
  <2>. SUFFICES ASSUME LiveBadge = {} PROVE OnlineCards = {}
    OBVIOUS
  <2>1. ~ (Stats.online > 0)
    BY DEF LiveBadge
  <2>. QED BY <2>1, NobodyOnline
<1>5. StatusBar.rooms = ContextZones
  BY DEF StatusBar, ContextZones
<1>6. Header.zones = Cardinality(StatusBar.rooms)
  BY <1>5, StatsAre DEF Header
<1>7. \A f \in Filters : \A z \in FilteredZones(f) :
        z \in StatusBar.rooms <=> ~ NodesInZone(z) \subseteq OnlyPredicted \/ z \in activeZones
  <2>1. ASSUME NEW z \in ContextZones
        PROVE  ~ NodesInZone(z) \subseteq OnlyPredicted \/ z \in activeZones
    <3>1. CASE \E n \in Known : ZoneOf[n] = z
      BY <3>1 DEF NodesInZone, OnlyPredicted
    <3>2. CASE z \in activeZones
      BY <3>2
    <3>. QED BY <2>1, <3>1, <3>2 DEF ContextZones, ZonesOf, Known
  <2>2. ASSUME NEW z, ~ NodesInZone(z) \subseteq OnlyPredicted PROVE z \in ContextZones
    <3>1. PICK n \in NodesInZone(z) : n \notin OnlyPredicted
      BY <2>2
    <3>2. n \in Known /\ ZoneOf[n] = z
      BY <3>1 DEF NodesInZone, OnlyPredicted
    <3>. QED BY <3>2, KnownFacts
  <2>3. \A z \in activeZones : z \in ContextZones
    BY DEF ContextZones
  <2>. QED BY <1>5, <2>1, <2>2, <2>3
<1>8. clicks = 0 => joined \subseteq StatusBar.rooms
  BY <1>5 DEF JoinedAreKnown, ContextZones
<1>9. Header.link = "LIVE WS" <=> StatusBar.broker = "BROKER ONLINE"
  BY DEF Header, StatusBar
<1>. QED BY <1>1, <1>2, <1>3, <1>4, <1>6, <1>7, <1>8, <1>9 DEF HeadersAgree

LEMMA TwinInv ==
  ASSUME TypeOK
  PROVE  TwinAgrees
<1>1. ASSUME NEW n \in Registered, NEW zone, zone = NodesInZone(ZoneOf[n])
      PROVE  LET raw == {m \in zone \cap DOMAIN readings : readings[m] \in Raw}
             IN Marker(n, 0).colour = "red" /\ raw = {} => ZoneSays(zone) = "RUPTURE"
  <2>. SUFFICES ASSUME Marker(n, 0).colour = "red",
                       {m \in zone \cap DOMAIN readings : readings[m] \in Raw} = {}
                PROVE  ZoneSays(zone) = "RUPTURE"
    OBVIOUS
  <2>1. Online(n) /\ n \in DOMAIN readings /\ readings[n] \in Broken \cup Raw
    BY DEF Marker, IsCritical
  <2>2. n \in zone
    BY <1>1, <2>1, KnownFacts DEF NodesInZone
  <2>3. readings[n] \in Broken
    BY <2>1, <2>2
  <2>4. n \in Tripwires(zone).broken /\ n \in Tripwires(zone).reporting
    BY <2>1, <2>2, <2>3 DEF Tripwires
  <2>. QED BY <2>4 DEF ZoneSays, CardSays
<1>2. ASSUME NEW n \in Registered, NEW zone, ZoneSays(zone) = "RUPTURE",
             zone \ OnlyPredicted \subseteq Registered
      PROVE  \E m \in zone : Marker(m, 0).pings
  <2>1. PICK m \in Tripwires(zone).broken : TRUE
    BY <1>2 DEF ZoneSays, CardSays
  <2>2. m \in zone /\ m \in DOMAIN readings /\ readings[m] \in Broken
    BY DEF Tripwires
  <2>. QED BY <2>2 DEF Marker, IsCritical
<1>3. ASSUME NEW n \in Registered, Popup(n, 0).status = "Active"
      PROVE  /\ Marker(n, 0).colour = "slate"
             /\ \A row \in AllNodes : row.node = n => TableStatus(row) = "offline"
  <2>1. n \notin DOMAIN nodeStatuses
    <3>1. n \in DOMAIN nodeStatuses => nodeStatuses[n] # "Active"
      BY KnownFacts
    <3>. QED BY <1>3, <3>1 DEF Popup
  <2>2. Marker(n, 0).colour = "slate"
    BY <2>1 DEF Marker, Online
  <2>3. ASSUME NEW row \in AllNodes, row.node = n PROVE TableStatus(row) = "offline"
    <3>1. row = [node |-> n, status |-> {}]
      BY <2>1, <2>3 DEF AllNodes
    <3>. QED BY <3>1 DEF TableStatus
  <2>. QED BY <2>2, <2>3
<1>4. ASSUME NEW hours \in TimeOffsets
      PROVE  /\ DOMAIN MeshLinks(hours) = OnlineCards \cap Registered
             /\ \A n \in DOMAIN MeshLinks(hours) :
                  MeshLinks(hours)[n] = "red" <=> Marker(n, hours).colour = "red"
  <2>1. \A n : Online(n) => n \in Known
    BY DEF Online, Known
  <2>2. DOMAIN MeshLinks(hours) = {m \in Registered : Online(m)}
    BY DEF MeshLinks
  <2>3. DOMAIN MeshLinks(hours) = OnlineCards \cap Registered
    BY <2>1, <2>2, StatsAre
  <2>4. ASSUME NEW n \in DOMAIN MeshLinks(hours)
        PROVE  MeshLinks(hours)[n] = "red" <=> Marker(n, hours).colour = "red"
    BY <2>2, <2>4 DEF MeshLinks, Marker
  <2>. QED BY <2>3, <2>4
<1>. QED BY <1>1, <1>2, <1>3, <1>4 DEF TwinAgrees

LEMMA AnalyticsInv ==
  ASSUME TypeOK
  PROVE  AnalyticsAgrees
<1>1. ASSUME NEW onlyOpPp \in BOOLEAN
      PROVE  /\ FilteredNodes(Everything(onlyOpPp)) \ OnlyPredicted # {} =>
                  DynamicNodes(onlyOpPp) = FilteredNodes(Everything(onlyOpPp)) \ OnlyPredicted
             /\ \A n \in DOMAIN ChartData(onlyOpPp) :
                  LET bar == Bar(ChartData(onlyOpPp)[n])
                      reading == Card(n).reading
                  IN bar.tooltip = reading /\ (bar.slate <=> reading = {})
             /\ \A n \in UNION {SelectedNodes(m, onlyOpPp) : m \in Node} :
                  n \in DOMAIN ChartData(onlyOpPp)
                    /\ \A frame \in Frame(n) : frame.value = ChartData(onlyOpPp)[n].value
  <2>. DEFINE shown == FilteredNodes(Everything(onlyOpPp)) \ OnlyPredicted
              chart == ChartData(onlyOpPp)
  <2>1. shown # {} => DynamicNodes(onlyOpPp) = shown
    <3>1. shown = HardwareOnly(Known, onlyOpPp)
      BY EverythingIs DEF HardwareOnly, Listed, OnlyPredicted
    <3>. HIDE DEF shown
    <3>. QED BY <3>1 DEF HardwareOnly, DynamicNodes, AllDiscoveredNodes
  <2>2. DOMAIN chart = DOMAIN readings \cup DynamicNodes(onlyOpPp)
    BY DEF ChartData
  <2>3. \A n \in DOMAIN chart :
          chart[n] = IF n \in DOMAIN readings THEN [value |-> readings[n], isReal |-> TRUE]
                     ELSE [value |-> 0, isReal |-> FALSE]
    BY DEF ChartData
  <2>. HIDE DEF chart
  <2>4. ASSUME NEW n \in DOMAIN chart
        PROVE  Bar(chart[n]).tooltip = Card(n).reading /\ (Bar(chart[n]).slate <=> Card(n).reading = {})
    <3>1. CASE n \in DOMAIN readings
      <4>1. chart[n].value = readings[n] /\ chart[n].isReal = TRUE
        BY <2>3, <2>4, <3>1
      <4>2. Card(n).reading = {readings[n]}
        BY <3>1 DEF Card
      <4>. QED BY <4>1, <4>2 DEF Bar
    <3>2. CASE n \notin DOMAIN readings
      <4>1. chart[n].isReal = FALSE
        BY <2>3, <2>4, <3>2
      <4>2. Card(n).reading = {}
        BY <3>2 DEF Card
      <4>. QED BY <4>1, <4>2 DEF Bar
    <3>. QED BY <3>1, <3>2
  <2>5. ASSUME NEW m \in Node, NEW n \in SelectedNodes(m, onlyOpPp)
        PROVE  n \in DOMAIN chart /\ \A frame \in Frame(n) : frame.value = chart[n].value
    <3>1. n \in DynamicNodes(onlyOpPp)
      BY <2>5 DEF SelectedNodes
    <3>2. n \in DOMAIN chart
      BY <2>2, <3>1
    <3>3. \A frame \in Frame(n) : frame.value = IF n \in DOMAIN readings THEN readings[n] ELSE 0
      BY DEF Frame
    <3>4. chart[n].value = IF n \in DOMAIN readings THEN readings[n] ELSE 0
      BY <2>3, <3>2
    <3>. QED BY <3>2, <3>3, <3>4
  <2>. QED BY <2>1, <2>4, <2>5 DEF chart
<1>2. Beacon = "Awaiting Hardware Packets" => OnlineCards = {}
  <2>. SUFFICES ASSUME Beacon = "Awaiting Hardware Packets" PROVE OnlineCards = {}
    OBVIOUS
  <2>1. ~ (Stats.online > 0)
    BY DEF Beacon
  <2>. QED BY <2>1, NobodyOnline
<1>3. FleetKpi.online = Header.online /\ FleetKpi.nodes = FleetCards.nodes
  BY DEF FleetKpi, Header, FleetCards
<1>. QED BY <1>1, <1>2, <1>3 DEF AnalyticsAgrees

\* Zones are joined when a message names them, and then they are known; only
\* the operator's clicks forget zones that are joined.
LEMMA JoinedStepKnown ==
  ASSUME TypeOK, JoinedAreKnown, [Next]_vars
  PROVE  JoinedAreKnown'
<1>0. clicks \in Nat
  BY DEF TypeOK
<1>1. CASE UNCHANGED <<clicks, joined, activeZones>>
  BY <1>1 DEF JoinedAreKnown
<1>2. CASE clicks' = clicks + 1
  BY <1>0, <1>2 DEF JoinedAreKnown
<1>3. CASE joined' = {}
  BY <1>3 DEF JoinedAreKnown
<1>4. CASE Receive
  BY <1>4 DEF Receive, HearOf, JoinedAreKnown, counts
<1>5. CASE \E n \in Node : HandleDedupedReading(n) \/ HandleMlPrediction(n) \/ PurgeStale(n)
  BY <1>1, <1>5 DEF HandleDedupedReading, HandleMlPrediction, PurgeStale, client, counts
<1>6. CASE \E n \in Node, status \in {"online", "offline"} : HandleNodeStatusChanged(n, status)
  BY <1>1, <1>6 DEF HandleNodeStatusChanged, client
<1>7. CASE FlushUpdates \/ FlushStatusUpdates \/ HandleGetZones \/ (\E z \in Zone : HandleJoinZone(z)) \/ HandleConnect \/ Poll
  BY <1>1, <1>7 DEF FlushUpdates, FlushStatusUpdates, HandleGetZones, HandleJoinZone, HandleConnect, Poll, client, counts
<1>8. CASE HandleDisconnect \/ BackendRestarts
  BY <1>3, <1>8 DEF HandleDisconnect, BackendRestarts, Disconnected, JoinedAfterDrop
<1>9. CASE ClearCache \/ ToggleSimulation \/ (\E n \in DemoNode : TriggerDemoMlEvent(n))
  BY <1>2, <1>9 DEF ClearCache, ToggleSimulation, TriggerDemoMlEvent, Click
<1>10. CASE GenerateSimBatch
  BY <1>1, <1>10 DEF GenerateSimBatch, counts
<1>11. CASE UNCHANGED vars
  BY <1>1, <1>11 DEF vars, client, counts
<1>. QED BY <1>4, <1>5, <1>6, <1>7, <1>8, <1>9, <1>10, <1>11 DEF Next

(***************************************************************************)
(* The monitoring page, the directory, the header, menu and status bar,    *)
(* the map and the analytics page agree, for any nodes and zones and any   *)
(* setting of the filter: zones make up the fleet, its totals are those of *)
(* the cards, and what each says of a node, the others say (useZoneFilter  *)
(* 78-174, ZoneContainer 120-257, GlobalZoneAverages 107-200, nodes/page   *)
(* 14-49, AppHeader 119-182, LiveStatusBar 8-106, DigitalTwinMap 348-505,  *)
(* analytics/page 85-256, NodeFleetComparisonChart 43-83).                 *)
(***************************************************************************)
THEOREM ScreensAgree == Spec => []PagesAgree
<1>1. Init => JoinedAreKnown
  BY DEF Init, JoinedAreKnown
<1>2. IInv => TypeOK
  BY DEF IInv
<1>3. IInv /\ JoinedAreKnown => PagesAgree
  BY <1>2, FiltersInv, DirectoryInv, MineInv, HeadersInv, TwinInv, AnalyticsInv DEF PagesAgree
<1>4. IInv /\ JoinedAreKnown /\ [Next]_vars => IInv' /\ JoinedAreKnown'
  BY <1>2, NextIInv, JoinedStepKnown
<1>. QED BY <1>1, <1>3, <1>4, InitIInv, PTL DEF Spec

=============================================================================
