--------------------------- MODULE EdgeAlert_proofs ---------------------------
(***************************************************************************)
(* Proofs about the two kinds of alerts, for any nodes, levels and bounds. *)
(*                                                                         *)
(* Those sent down to the nodes (EdgeAlert): acknowledgements are honest,  *)
(* dashboards never lose one, the abstract register is implemented and,    *)
(* undisturbed, commands keep their order on dashboards and on nodes.      *)
(* The inductive invariant adds two facts to the types: every number in    *)
(* the state is that of an issued command, and a command on record or in   *)
(* view was issued for that very node (so no two nodes share one).  For    *)
(* the order of commands it takes OrderInv besides, which speaks of the    *)
(* time before the first disturbance only.                                 *)
(*                                                                         *)
(* Those a dashboard lists (AlertFeed, AlertPages): a prediction has one   *)
(* entry, danger is listed at once and seen on every page.  The inductive  *)
(* invariant FeedInv adds to the types that live alerts are numbered, that *)
(* what was not sent is of one and the same simulated batch, and that the  *)
(* alert of a prediction's first copy keeps the second from being listed.  *)
(***************************************************************************)
EXTENDS EdgeAlert, AlertPages, FiniteSetTheorems, WellFoundedInduction, TLAPS

Issued == 1 .. Len(issued)

InRange ==
  /\ acked \subseteq Issued
  /\ \A n \in Node : recorded[n] \in Issued \cup {0}
  /\ \A n \in Node : view[n] \in Issued \cup {0}
  /\ \A n \in Node : radio[n] \in Issued \cup {0}
  /\ \A i \in 1 .. Len(outgoing) : outgoing[i].cmd \in Issued

OwnCommands ==
  \A n \in Node :
    /\ recorded[n] # 0 => issued[recorded[n]].node = n
    /\ view[n] # 0 => issued[view[n]].node = n

AcksApplied == \A n \in Node, c \in Nat : <<n, c>> \in acks => c \in applied[n]

IInv ==
  /\ TypeOK
  /\ InRange
  /\ OwnCommands
  /\ AcksApplied
  /\ AckMeansApplied
  /\ ViewKeepsAck

-----------------------------------------------------------------------------
(***************************************************************************)
(* The queue of publishes.                                                 *)
(***************************************************************************)
LEMMA PublishKeeps ==
  ASSUME NEW q \in Seq(Publication), NEW c \in Nat, NEW t \in {"alert", "downlink"},
         NEW S, \A i \in 1 .. Len(q) : q[i].cmd \in S, c \in S
  PROVE  /\ Publish(q, c, t) \in Seq(Publication)
         /\ Len(Publish(q, c, t)) = Len(q) + 1
         /\ \A i \in 1 .. Len(Publish(q, c, t)) : Publish(q, c, t)[i].cmd \in S
  <1>. DEFINE e == [cmd |-> c, topic |-> t]
  <1>1. e \in Publication /\ e.cmd \in S
    BY DEF Publication
  <1>2. Publish(q, c, t) = Append(q, e)
    BY DEF Publish
  <1>. HIDE DEF e
  <1>. QED BY <1>1, <1>2

LEMMA TailKeeps ==
  ASSUME NEW q \in Seq(Publication), Len(q) > 0,
         NEW S, \A i \in 1 .. Len(q) : q[i].cmd \in S
  PROVE  /\ Tail(q) \in Seq(Publication)
         /\ Len(Tail(q)) = Len(q) - 1
         /\ \A i \in 1 .. Len(Tail(q)) : Tail(q)[i].cmd \in S
         /\ Head(q) \in Publication
         /\ Head(q).cmd \in S
  <1>1. Head(q) = q[1] /\ q # <<>> /\ Len(q) \in Nat
    OBVIOUS
  <1>2. /\ Tail(q) \in Seq(Publication)
        /\ Len(Tail(q)) = Len(q) - 1
        /\ \A i \in 1 .. Len(Tail(q)) : Tail(q)[i] = q[i + 1]
    BY <1>1
  <1>. QED BY <1>1, <1>2

-----------------------------------------------------------------------------
LEMMA InitIInv == Init => IInv
  <1>. SUFFICES ASSUME Init PROVE IInv
    OBVIOUS
  <1>1. issued \in Seq(Order) /\ outgoing \in Seq(Publication) /\ Len(issued) = 0 /\ Len(outgoing) = 0
    BY DEF Init
  <1>2. TypeOK
    <2>1. received \in 0 .. Len(outgoing)
      BY <1>1 DEF Init
    <2>2. /\ recorded \in [Node -> Nat] /\ view \in [Node -> Nat]
          /\ radio \in [Node -> Nat] /\ physical \in [Node -> Nat]
          /\ applied \in [Node -> SUBSET Nat]
      BY DEF Init
    <2>3. /\ acked \subseteq Nat /\ shownAcked \subseteq Node /\ acks \subseteq Node \X Nat
          /\ connected \in BOOLEAN /\ gatewayUp \in BOOLEAN
          /\ losses \in Nat /\ restarts \in Nat
      BY DEF Init
    <2>. QED BY <1>1, <2>1, <2>2, <2>3 DEF TypeOK
  <1>3. InRange
    BY <1>1 DEF Init, InRange, Issued
  <1>4. OwnCommands
    BY DEF Init, OwnCommands
  <1>5. AcksApplied
    BY DEF Init, AcksApplied
  <1>6. AckMeansApplied
    BY DEF Init, AckMeansApplied
  <1>7. ViewKeepsAck
    BY DEF Init, ViewKeepsAck
  <1>. QED BY <1>2, <1>3, <1>4, <1>5, <1>6, <1>7 DEF IInv

\* What an event changes, node by node.
LEMMA ShowChanges ==
  ASSUME TypeOK, NEW n \in Node, NEW c \in Nat, NEW isAcked \in BOOLEAN,
         Show(n, c, isAcked)
  PROVE  /\ view' \in [Node -> Nat]
         /\ shownAcked' \subseteq Node
         /\ view'[n] = c
         /\ n \in shownAcked' <=> isAcked
         /\ \A m \in Node : m # n =>
              /\ view'[m] = view[m]
              /\ m \in shownAcked' <=> m \in shownAcked
  BY DEF Show, TypeOK

LEMMA DispatchIInv ==
  ASSUME IInv, NEW n \in Node, NEW level \in Level, Dispatch(n, level)
  PROVE  IInv'
  <1>. DEFINE c == Len(issued) + 1
              e == [node |-> n, level |-> level]
  <1>1. /\ issued \in Seq(Order)
        /\ issued' = Append(issued, e)
        /\ e \in Order
        /\ e.node = n
    BY DEF Dispatch, IInv, TypeOK, Order
  <1>. HIDE DEF e
  <1>2. /\ issued' \in Seq(Order)
        /\ Len(issued') = c
        /\ c \in Nat /\ c # 0
        /\ issued'[c].node = n
        /\ \A k \in Issued : issued'[k] = issued[k]
    BY <1>1 DEF Issued
  <1>3. /\ c \notin Issued
        /\ Issued' = Issued \cup {c}
        /\ 0 \notin Issued
    BY <1>1, <1>2 DEF Issued
  <1>4. /\ recorded' = [recorded EXCEPT ![n] = c]
        /\ UNCHANGED <<acked, connected, received, losses, gatewayUp, radio,
                       physical, applied, acks, restarts>>
    BY DEF Dispatch, field
  <1>5. c \notin acked
    BY <1>3 DEF IInv, InRange
  <1>6. \/ /\ outgoing' = Publish(outgoing, c, "alert")
           /\ UNCHANGED <<view, shownAcked>>
        \/ /\ Show(n, c, FALSE)
           /\ outgoing' = outgoing
    <2>1. (c \in acked) = FALSE
      BY <1>5
    <2>. QED BY <1>2, <2>1 DEF Dispatch, EmitDispatched, shown
  <1>. HIDE DEF c
  <1>7. /\ outgoing' \in Seq(Publication)
        /\ Len(outgoing') \in Nat
        /\ Len(outgoing') >= Len(outgoing)
        /\ \A i \in 1 .. Len(outgoing') : outgoing'[i].cmd \in Issued'
    <2>1. /\ outgoing \in Seq(Publication)
          /\ \A i \in 1 .. Len(outgoing) : outgoing[i].cmd \in Issued'
          /\ c \in Issued'
      BY <1>3 DEF IInv, TypeOK, InRange
    <2>2. CASE outgoing' = outgoing
      <3>1. \A i \in 1 .. Len(outgoing') : outgoing'[i].cmd \in Issued'
        BY <2>1, <2>2
      <3>2. outgoing' \in Seq(Publication) /\ Len(outgoing) \in Nat
        BY <2>1, <2>2
      <3>. QED BY <3>1, <3>2, <2>2
    <2>3. CASE outgoing' = Publish(outgoing, c, "alert")
      <3>. DEFINE q == Publish(outgoing, c, "alert")
      <3>1. /\ q \in Seq(Publication)
            /\ Len(q) = Len(outgoing) + 1
            /\ \A i \in 1 .. Len(q) : q[i].cmd \in Issued'
        BY <2>1, <1>2, PublishKeeps
      <3>. HIDE DEF q
      <3>2. Len(outgoing) \in Nat
        BY <2>1
      <3>. QED BY <3>1, <3>2, <2>3 DEF q
    <2>. QED BY <2>2, <2>3, <1>6
  <1>8. view' \in [Node -> Nat] /\ shownAcked' \subseteq Node
    BY <1>2, <1>6, ShowChanges DEF IInv, TypeOK
  <1>9. ASSUME NEW m \in Node
        PROVE  \/ /\ view'[m] = view[m]
                  /\ m \in shownAcked' <=> m \in shownAcked
               \/ m = n /\ view'[m] = c /\ m \notin shownAcked'
    BY <1>2, <1>6, ShowChanges DEF IInv
  <1>10. ASSUME NEW m \in Node
         PROVE  recorded'[m] = IF m = n THEN c ELSE recorded[m]
    BY <1>4 DEF IInv, TypeOK
  <1>11. TypeOK'
    <2>1. received' \in 0 .. Len(outgoing')
      BY <1>4, <1>7 DEF IInv, TypeOK
    <2>2. recorded' \in [Node -> Nat]
      BY <1>2, <1>4 DEF IInv, TypeOK
    <2>. QED BY <1>2, <1>4, <1>7, <1>8, <2>1, <2>2 DEF IInv, TypeOK
  <1>12. InRange'
    <2>1. \A m \in Node : recorded'[m] \in Issued' \cup {0}
      BY <1>3, <1>10 DEF IInv, InRange
    <2>2. \A m \in Node : view'[m] \in Issued' \cup {0}
      BY <1>3, <1>9 DEF IInv, InRange
    <2>. QED BY <1>3, <1>4, <1>7, <2>1, <2>2 DEF IInv, InRange
  <1>13. OwnCommands'
    <2>1. ASSUME NEW m \in Node, recorded'[m] # 0
          PROVE  issued'[recorded'[m]].node = m
      BY <1>2, <1>10, <2>1 DEF IInv, InRange, OwnCommands
    <2>2. ASSUME NEW m \in Node, view'[m] # 0
          PROVE  issued'[view'[m]].node = m
      BY <1>2, <1>9, <2>2 DEF IInv, InRange, OwnCommands
    <2>. QED BY <2>1, <2>2 DEF OwnCommands
  <1>14. AcksApplied'
    BY <1>4 DEF IInv, AcksApplied
  <1>15. AckMeansApplied'
    BY <1>4, <1>5, <1>10 DEF IInv, AckMeansApplied
  <1>16. ViewKeepsAck'
    BY <1>4, <1>5, <1>9 DEF IInv, ViewKeepsAck
  <1>. QED BY <1>11, <1>12, <1>13, <1>14, <1>15, <1>16 DEF IInv

LEMMA PubackIInv ==
  ASSUME IInv, Puback
  PROVE  IInv'
  <1>. DEFINE m == Head(outgoing)
  <1>1. /\ outgoing \in Seq(Publication)
        /\ received \in 1 .. Len(outgoing)
        /\ received' = received - 1
        /\ Len(outgoing) \in Nat
    BY DEF Puback, IInv, TypeOK
  <1>2. \A i \in 1 .. Len(outgoing) : outgoing[i].cmd \in Issued
    BY DEF IInv, InRange
  <1>3. /\ Tail(outgoing) \in Seq(Publication)
        /\ Len(Tail(outgoing)) = Len(outgoing) - 1
        /\ \A i \in 1 .. Len(Tail(outgoing)) : Tail(outgoing)[i].cmd \in Issued
        /\ m.cmd \in Issued
    BY <1>1, <1>2, TailKeeps
  <1>4. UNCHANGED <<issued, recorded, acked, connected, losses, gatewayUp, radio,
                    physical, applied, acks, restarts>>
    BY DEF Puback, field
  <1>5. \/ /\ outgoing' = Publish(Tail(outgoing), m.cmd, "downlink")
           /\ UNCHANGED <<view, shownAcked>>
        \/ /\ outgoing' = Tail(outgoing)
           /\ Show(issued[m.cmd].node, m.cmd, m.cmd \in acked)
    BY <1>4 DEF Puback, EmitDispatched, shown
  <1>. HIDE DEF m
  <1>6. /\ m.cmd \in Nat /\ m.cmd # 0
        /\ issued[m.cmd].node \in Node
        /\ 0 \notin Issued
    <2>1. issued \in Seq(Order) /\ Len(issued) \in Nat
      BY DEF IInv, TypeOK
    <2>2. issued[m.cmd] \in Order
      BY <1>3, <2>1 DEF Issued
    <2>. QED BY <1>3, <2>1, <2>2 DEF Issued, Order
  <1>7. /\ outgoing' \in Seq(Publication)
        /\ Len(outgoing') \in {Len(outgoing), Len(outgoing) - 1}
        /\ \A i \in 1 .. Len(outgoing') : outgoing'[i].cmd \in Issued
    <2>1. CASE outgoing' = Tail(outgoing)
      BY <1>3, <2>1
    <2>2. CASE outgoing' = Publish(Tail(outgoing), m.cmd, "downlink")
      <3>. DEFINE q == Publish(Tail(outgoing), m.cmd, "downlink")
      <3>1. /\ q \in Seq(Publication)
            /\ Len(q) = Len(Tail(outgoing)) + 1
            /\ \A i \in 1 .. Len(q) : q[i].cmd \in Issued
        BY <1>3, <1>6, PublishKeeps
      <3>. HIDE DEF q
      <3>2. outgoing' = q
        BY <2>2 DEF q
      <3>3. Len(q) = Len(outgoing)
        BY <1>1, <1>3, <3>1
      <3>. QED BY <3>1, <3>2, <3>3
    <2>. QED BY <2>1, <2>2, <1>5
  <1>8. Issued' = Issued
    BY <1>4 DEF Issued
  <1>. DEFINE target == issued[m.cmd].node
  <1>9. \/ UNCHANGED <<view, shownAcked>>
        \/ /\ view' \in [Node -> Nat]
           /\ shownAcked' \subseteq Node
           /\ view'[target] = m.cmd
           /\ target \in shownAcked' <=> m.cmd \in acked
           /\ \A n \in Node : n # target =>
                /\ view'[n] = view[n]
                /\ n \in shownAcked' <=> n \in shownAcked
    <2>1. CASE Show(target, m.cmd, m.cmd \in acked)
      <3>1. TypeOK /\ (m.cmd \in acked) \in BOOLEAN
        BY DEF IInv
      <3>. HIDE DEF target
      <3>2. target \in Node
        BY <1>6 DEF target
      <3>. QED BY <1>6, <2>1, <3>1, <3>2, ShowChanges
    <2>. QED BY <1>5, <2>1
  <1>10. ASSUME NEW n \in Node
         PROVE  \/ /\ view'[n] = view[n]
                   /\ n \in shownAcked' <=> n \in shownAcked
                \/ /\ n = issued[m.cmd].node
                   /\ view'[n] = m.cmd
                   /\ n \in shownAcked' <=> m.cmd \in acked
    BY <1>9
  <1>11. TypeOK'
    <2>1. received' \in 0 .. Len(outgoing')
      BY <1>1, <1>7
    <2>. QED BY <1>4, <1>7, <1>9, <2>1 DEF IInv, TypeOK
  <1>12. InRange'
    <2>1. \A n \in Node : view'[n] \in Issued' \cup {0}
      BY <1>3, <1>8, <1>10 DEF IInv, InRange
    <2>. QED BY <1>4, <1>7, <1>8, <2>1 DEF IInv, InRange
  <1>13. OwnCommands'
    BY <1>4, <1>10 DEF IInv, OwnCommands
  <1>14. AcksApplied' /\ AckMeansApplied'
    BY <1>4 DEF IInv, AcksApplied, AckMeansApplied
  <1>15. ViewKeepsAck'
    BY <1>4, <1>10 DEF IInv, ViewKeepsAck
  <1>. QED BY <1>11, <1>12, <1>13, <1>14, <1>15 DEF IInv

\* Why an acknowledgement is only taken for what it says.
LEMMA ConfirmedIsApplied ==
  ASSUME IInv, NEW n \in Node, NEW c \in Command, HandleAlertAck(n, c), Confirms(n, c)
  PROVE  recorded[n] # 0 /\ recorded[n] \in applied[n]
  BY EdgeAlertAssumption DEF IInv, AcksApplied, HandleAlertAck, Confirms, Command

LEMMA HandleAlertAckIInv ==
  ASSUME IInv, NEW n \in Node, NEW c \in Command, HandleAlertAck(n, c)
  PROVE  IInv'
  <1>1. /\ UNCHANGED <<issued, recorded, connected, outgoing, received, losses,
                       gatewayUp, radio, physical, applied, restarts>>
        /\ acks' \subseteq acks
    BY DEF HandleAlertAck, link, field
  <1>2. Issued' = Issued
    BY <1>1 DEF Issued
  <1>3. AcksApplied'
    BY <1>1 DEF IInv, AcksApplied
  <1>4. CASE UNCHANGED <<acked, view, shownAcked>>
    <2>1. TypeOK'
      BY <1>1, <1>4 DEF IInv, TypeOK
    <2>2. InRange'
      BY <1>1, <1>2, <1>4 DEF IInv, InRange
    <2>3. OwnCommands' /\ AckMeansApplied' /\ ViewKeepsAck'
      BY <1>1, <1>4 DEF IInv, OwnCommands, AckMeansApplied, ViewKeepsAck
    <2>. QED BY <1>3, <2>1, <2>2, <2>3 DEF IInv
  <1>5. CASE Confirms(n, c)
    <2>1. recorded[n] # 0 /\ recorded[n] \in applied[n]
      BY <1>5, ConfirmedIsApplied
    <2>2. acked' = acked \cup {recorded[n]} /\ Show(n, recorded[n], TRUE)
      BY <1>5 DEF HandleAlertAck
    <2>3. /\ recorded[n] \in Issued
          /\ recorded[n] \in Nat
          /\ issued[recorded[n]].node = n
      BY <2>1 DEF IInv, TypeOK, InRange, OwnCommands
    <2>4. view' \in [Node -> Nat] /\ shownAcked' \subseteq Node
      BY <2>2, <2>3, ShowChanges DEF IInv
    <2>5. view'[n] = recorded[n] /\ n \in shownAcked'
      BY <2>2, <2>3, ShowChanges DEF IInv
    <2>6. \A m \in Node : m # n =>
            /\ view'[m] = view[m]
            /\ m \in shownAcked' <=> m \in shownAcked
      BY <2>2, <2>3, ShowChanges DEF IInv
    <2>7. TypeOK'
      BY <1>1, <2>2, <2>3, <2>4 DEF IInv, TypeOK
    <2>8. InRange'
      <3>1. \A m \in Node : view'[m] \in Issued' \cup {0}
        BY <1>2, <2>3, <2>5, <2>6 DEF IInv, InRange
      <3>. QED BY <1>1, <1>2, <2>2, <2>3, <3>1 DEF IInv, InRange
    <2>9. OwnCommands'
      BY <1>1, <2>3, <2>5, <2>6 DEF IInv, OwnCommands
    <2>10. AckMeansApplied'
      <3>1. \A m \in Node : recorded[m] = recorded[n] => m = n
        BY <2>1, <2>3 DEF IInv, OwnCommands
      <3>. QED BY <1>1, <2>1, <2>2, <3>1 DEF IInv, AckMeansApplied
    <2>11. ViewKeepsAck'
      <3>1. \A m \in Node : m # n => view[m] # recorded[n]
        BY <2>1, <2>3 DEF IInv, OwnCommands
      <3>. QED BY <2>2, <2>5, <2>6, <3>1 DEF IInv, ViewKeepsAck
    <2>. QED BY <1>3, <2>7, <2>8, <2>9, <2>10, <2>11 DEF IInv
  <1>. QED BY <1>4, <1>5 DEF HandleAlertAck, shown

LEMMA BackendRestartIInv ==
  ASSUME IInv, BackendRestart
  PROVE  IInv'
  <1>1. /\ recorded' = [n \in Node |-> 0]
        /\ connected' = FALSE
        /\ outgoing' = <<>>
        /\ received' = 0
        /\ restarts' = restarts + 1
        /\ UNCHANGED <<issued, acked, view, shownAcked, losses, gatewayUp, radio,
                       physical, applied, acks>>
    BY DEF BackendRestart, SessionLost, shown, field
  <1>2. outgoing' \in Seq(Publication) /\ Len(outgoing') = 0 /\ Issued' = Issued
    BY <1>1 DEF Issued
  <1>3. 0 \notin acked
    BY DEF IInv, InRange, Issued
  <1>4. TypeOK'
    <2>1. received' \in 0 .. Len(outgoing') /\ restarts' \in Nat
      BY <1>1, <1>2 DEF IInv, TypeOK
    <2>2. recorded' \in [Node -> Nat] /\ connected' \in BOOLEAN
      BY <1>1
    <2>. QED BY <1>1, <1>2, <2>1, <2>2 DEF IInv, TypeOK
  <1>5. InRange'
    BY <1>1, <1>2 DEF IInv, InRange
  <1>6. OwnCommands'
    BY <1>1 DEF IInv, OwnCommands
  <1>7. AcksApplied' /\ ViewKeepsAck'
    BY <1>1 DEF IInv, AcksApplied, ViewKeepsAck
  <1>8. AckMeansApplied'
    BY <1>1, <1>3 DEF AckMeansApplied
  <1>. QED BY <1>4, <1>5, <1>6, <1>7, <1>8 DEF IInv

\* Steps of the broker, the gateway and the nodes leave the backend's record
\* alone.
LEMMA FieldIInv ==
  ASSUME IInv,
         UNCHANGED <<issued, recorded, acked, view, shownAcked, outgoing>>,
         connected' \in BOOLEAN, received' \in 0 .. Len(outgoing),
         gatewayUp' \in BOOLEAN, losses' \in Nat, restarts' \in Nat,
         radio' \in [Node -> Issued \cup {0}],
         physical' \in [Node -> Nat],
         applied' \in [Node -> SUBSET Nat],
         \A n \in Node : applied[n] \subseteq applied'[n],
         acks' \subseteq Node \X Nat,
         AcksApplied'
  PROVE  IInv'
  <1>1. Issued' = Issued /\ Issued \subseteq Nat
    BY DEF Issued
  <1>2. TypeOK'
    <2>1. Issued \cup {0} \subseteq Nat
      BY <1>1
    <2>2. radio' \in [Node -> Nat]
      <3>. DEFINE R == Issued \cup {0}
      <3>1. R \subseteq Nat /\ radio' \in [Node -> R]
        BY <2>1
      <3>. HIDE DEF R
      <3>. QED BY <3>1
    <2>. QED BY <2>2 DEF IInv, TypeOK
  <1>3. InRange'
    BY <1>1 DEF IInv, InRange
  <1>4. OwnCommands' /\ ViewKeepsAck'
    BY DEF IInv, OwnCommands, ViewKeepsAck
  <1>5. AckMeansApplied'
    BY DEF IInv, AckMeansApplied
  <1>. QED BY <1>2, <1>3, <1>4, <1>5 DEF IInv

LEMMA BrokerIInv ==
  ASSUME IInv, BrokerConnect \/ BrokerLost \/ BrokerReceive \/ GatewayChange
  PROVE  IInv'
  <1>1. UNCHANGED <<issued, recorded, acked, view, shownAcked, outgoing, physical,
                    applied, acks, restarts>>
    BY DEF BrokerConnect, BrokerLost, BrokerReceive, GatewayChange, backend,
           shown, link, field
  <1>2. /\ connected' \in BOOLEAN /\ gatewayUp' \in BOOLEAN
        /\ losses' \in Nat
        /\ received' \in 0 .. Len(outgoing)
    <2>1. /\ connected \in BOOLEAN /\ gatewayUp \in BOOLEAN
          /\ losses \in Nat
          /\ received \in 0 .. Len(outgoing)
          /\ Len(outgoing) \in Nat
      BY DEF IInv, TypeOK
    <2>2. connected' \in BOOLEAN /\ gatewayUp' \in BOOLEAN
      BY <2>1, ZenonT(30) DEF BrokerConnect, BrokerLost, BrokerReceive,
                              GatewayChange, link, field
    <2>3. losses' \in Nat
      BY <2>1 DEF BrokerConnect, BrokerLost, BrokerReceive, GatewayChange, link
    <2>4. received' \in 0 .. Len(outgoing)
      BY <2>1 DEF BrokerConnect, BrokerLost, BrokerReceive, GatewayChange,
                  SessionLost, link
    <2>. QED BY <2>2, <2>3, <2>4
  <1>3. radio' \in [Node -> Issued \cup {0}]
    <2>1. radio \in [Node -> Issued \cup {0}]
      BY DEF IInv, TypeOK, InRange
    <2>2. CASE UNCHANGED radio
      BY <2>1, <2>2
    <2>3. CASE BrokerReceive
      <3>1. outgoing \in Seq(Publication) /\ received \in Nat /\ Len(outgoing) \in Nat
        BY DEF IInv, TypeOK
      <3>2. received < Len(outgoing) => received + 1 \in 1 .. Len(outgoing)
        BY <3>1
      <3>3. received < Len(outgoing) => outgoing[received + 1].cmd \in Issued
        BY <3>2 DEF IInv, InRange
      <3>. QED BY <2>1, <2>3, <3>3 DEF BrokerReceive, Broadcast
    <2>. QED BY <2>2, <2>3 DEF BrokerConnect, BrokerLost, GatewayChange, field
  <1>4. AcksApplied'
    BY <1>1 DEF IInv, AcksApplied
  <1>5. /\ physical' \in [Node -> Nat] /\ applied' \in [Node -> SUBSET Nat]
        /\ acks' \subseteq Node \X Nat /\ restarts' \in Nat
        /\ \A n \in Node : applied[n] \subseteq applied'[n]
    BY <1>1 DEF IInv, TypeOK
  <1>. QED BY <1>1, <1>2, <1>3, <1>4, <1>5, FieldIInv

LEMMA NodeIInv ==
  ASSUME IInv, NEW n \in Node, NodeApply(n) \/ NodeReboot(n)
  PROVE  IInv'
  <1>1. UNCHANGED <<issued, recorded, acked, view, shownAcked, outgoing, connected,
                    received, losses, gatewayUp>>
    BY DEF NodeApply, NodeReboot, backend, shown, link
  <1>2. radio' = [radio EXCEPT ![n] = 0] /\ radio \in [Node -> Issued \cup {0}]
    BY DEF NodeApply, NodeReboot, IInv, TypeOK, InRange
  <1>3. radio' \in [Node -> Issued \cup {0}]
    BY <1>2
  <1>4. radio[n] \in Nat
    BY DEF IInv, TypeOK
  <1>5. /\ connected' \in BOOLEAN /\ gatewayUp' \in BOOLEAN /\ losses' \in Nat
        /\ received' \in 0 .. Len(outgoing)
    BY <1>1 DEF IInv, TypeOK
  <1>6. physical' \in [Node -> Nat] /\ restarts' \in Nat
    BY <1>4 DEF NodeApply, NodeReboot, IInv, TypeOK
  <1>7. \/ applied' = [applied EXCEPT ![n] = @ \cup {radio[n]}]
           /\ acks' \subseteq acks \cup {<<n, radio[n]>>}
        \/ UNCHANGED <<applied, acks>>
    BY DEF NodeApply, NodeReboot
  <1>8. /\ applied' \in [Node -> SUBSET Nat]
        /\ \A m \in Node : applied[m] \subseteq applied'[m]
        /\ acks' \subseteq Node \X Nat
    <2>1. applied \in [Node -> SUBSET Nat] /\ acks \subseteq Node \X Nat
      BY DEF IInv, TypeOK
    <2>2. CASE UNCHANGED <<applied, acks>>
      BY <2>1, <2>2
    <2>3. CASE /\ applied' = [applied EXCEPT ![n] = @ \cup {radio[n]}]
               /\ acks' \subseteq acks \cup {<<n, radio[n]>>}
      <3>1. applied[n] \cup {radio[n]} \in SUBSET Nat
        BY <2>1, <1>4
      <3>2. applied' \in [Node -> SUBSET Nat]
        BY <2>1, <2>3, <3>1
      <3>3. \A m \in Node : applied[m] \subseteq applied'[m]
        BY <2>1, <2>3
      <3>4. acks' \subseteq Node \X Nat
        BY <2>1, <2>3, <1>4
      <3>. QED BY <3>2, <3>3, <3>4
    <2>. QED BY <1>7, <2>2, <2>3
  <1>9. AcksApplied'
    BY <1>4, <1>7 DEF IInv, TypeOK, AcksApplied
  <1>. QED BY <1>1, <1>3, <1>5, <1>6, <1>8, <1>9, FieldIInv

LEMMA NextIInv == IInv /\ [Next]_vars => IInv'
  <1>. SUFFICES ASSUME IInv, [Next]_vars PROVE IInv'
    OBVIOUS
  <1>1. ASSUME NEW n \in Node, NEW level \in Level, Dispatch(n, level) PROVE IInv'
    BY <1>1, DispatchIInv
  <1>2. CASE Puback
    BY <1>2, PubackIInv
  <1>3. ASSUME NEW n \in Node, NEW c \in Command, HandleAlertAck(n, c) PROVE IInv'
    BY <1>3, HandleAlertAckIInv
  <1>4. CASE BackendRestart
    BY <1>4, BackendRestartIInv
  <1>5. CASE BrokerConnect \/ BrokerLost \/ BrokerReceive \/ GatewayChange
    BY <1>5, BrokerIInv
  <1>6. ASSUME NEW n \in Node, NodeApply(n) \/ NodeReboot(n) PROVE IInv'
    BY <1>6, NodeIInv
  <1>7. CASE UNCHANGED vars
    <2>1. UNCHANGED <<issued, recorded, acked, view, shownAcked, connected, outgoing,
                      received, losses, gatewayUp, radio, physical, applied, acks,
                      restarts>>
      BY <1>7 DEF vars, backend, shown, link, field
    <2>2. TypeOK'
      BY <2>1 DEF IInv, TypeOK
    <2>3. InRange' /\ OwnCommands'
      BY <2>1 DEF IInv, InRange, OwnCommands, Issued
    <2>4. AcksApplied' /\ AckMeansApplied' /\ ViewKeepsAck'
      BY <2>1 DEF IInv, AcksApplied, AckMeansApplied, ViewKeepsAck
    <2>. QED BY <2>2, <2>3, <2>4 DEF IInv
  <1>. QED BY <1>1, <1>2, <1>3, <1>4, <1>5, <1>6, <1>7 DEF Next

-----------------------------------------------------------------------------
(***************************************************************************)
(* Type correctness of the whole command path.                             *)
(***************************************************************************)
THEOREM TypeCorrect == Spec => []TypeOK
  <1>1. IInv => TypeOK
    BY DEF IInv
  <1>. QED BY <1>1, InitIInv, NextIInv, PTL DEF Spec

(***************************************************************************)
(* A state the backend shows as acknowledged belongs to a command the node *)
(* has carried out (handleAlertAck, 123-139), with any number of nodes,    *)
(* commands, lost connections and restarts.                                *)
(***************************************************************************)
THEOREM AcksHonest == Spec => []AckMeansApplied
  <1>1. IInv => AckMeansApplied
    BY DEF IInv
  <1>. QED BY <1>1, InitIInv, NextIInv, PTL DEF Spec

(***************************************************************************)
(* Dashboards show a command as acknowledged exactly when its state object *)
(* is: a late 'edge.alert.dispatched' takes nothing back (61-73, 115).     *)
(***************************************************************************)
THEOREM ViewKeeps == Spec => []ViewKeepsAck
  <1>1. IInv => ViewKeepsAck
    BY DEF IInv
  <1>. QED BY <1>1, InitIInv, NextIInv, PTL DEF Spec

-----------------------------------------------------------------------------
\* Each step of the detailed specification is a step of the register or
\* leaves it alone.
LEMMA StepRefines == IInv /\ [Next]_vars => [Register!Next]_(Register!vars)
  <1>. SUFFICES ASSUME IInv, [Next]_vars PROVE [Register!Next]_(Register!vars)
    OBVIOUS
  <1>. DEFINE same == UNCHANGED <<issued, recorded, applied, acked>>
  <1>1. same => [Register!Next]_(Register!vars)
    BY DEF Register!vars
  <1>2. ASSUME NEW n \in Node, NEW level \in Level, Dispatch(n, level)
        PROVE  Register!Next
    <2>1. issued \in Seq(Order)
      BY DEF IInv, TypeOK
    <2>. DEFINE e == [node |-> n, level |-> level]
    <2>2. issued' = Append(issued, e)
      BY <1>2 DEF Dispatch
    <2>. HIDE DEF e
    <2>3. Len(issued') = Len(issued) + 1
      BY <2>1, <2>2
    <2>4. recorded' = [recorded EXCEPT ![n] = Len(issued')]
      BY <1>2, <2>3 DEF Dispatch
    <2>5. UNCHANGED <<applied, acked>>
      BY <1>2 DEF Dispatch, field
    <2>. QED BY <2>3, <2>4, <2>5 DEF Register!Next, Register!Order
  <1>3. CASE Puback
    BY <1>1, <1>3 DEF Puback, field
  <1>4. ASSUME NEW n \in Node, NEW c \in Command, HandleAlertAck(n, c)
        PROVE  [Register!Next]_(Register!vars)
    <2>1. UNCHANGED <<issued, recorded, applied>>
      BY <1>4 DEF HandleAlertAck, field
    <2>2. CASE ~ Confirms(n, c)
      BY <1>1, <1>4, <2>1, <2>2 DEF HandleAlertAck
    <2>3. CASE Confirms(n, c)
      <3>1. acked' = acked \cup {recorded[n]}
        BY <1>4, <2>3 DEF HandleAlertAck
      <3>2. recorded[n] \in applied[n]
        BY <1>4, <2>3, ConfirmedIsApplied
      <3>. QED BY <2>1, <3>1, <3>2 DEF Register!Next, Register!Confirm
    <2>. QED BY <2>2, <2>3
  <1>5. CASE BackendRestart
    BY <1>5 DEF BackendRestart, field, Register!Next, Register!Forget
  <1>6. CASE BrokerConnect \/ BrokerLost \/ BrokerReceive \/ GatewayChange
    BY <1>1, <1>6 DEF BrokerConnect, BrokerLost, BrokerReceive, GatewayChange,
                      backend, field
  <1>7. ASSUME NEW n \in Node, NodeApply(n)
        PROVE  Register!Next
    <2>1. radio[n] \in 1 .. Len(issued)
      BY <1>7 DEF NodeApply, IInv, InRange, Issued
    <2>2. applied' = [applied EXCEPT ![n] = @ \cup {radio[n]}]
      BY <1>7 DEF NodeApply
    <2>3. UNCHANGED <<issued, recorded, acked>>
      BY <1>7 DEF NodeApply, backend
    <2>. QED BY <2>1, <2>2, <2>3 DEF Register!Next, Register!CarryOut
  <1>8. ASSUME NEW n \in Node, NodeReboot(n)
        PROVE  [Register!Next]_(Register!vars)
    BY <1>1, <1>8 DEF NodeReboot, backend
  <1>9. CASE UNCHANGED vars
    BY <1>1, <1>9 DEF vars, backend, field
  <1>. HIDE DEF same
  <1>. QED BY <1>2, <1>3, <1>4, <1>5, <1>6, <1>7, <1>8, <1>9 DEF Next

(***************************************************************************)
(* With the network hidden, the command path is the register of            *)
(* SosRegister: losses, repetitions, overtaken acknowledgements and        *)
(* restarts confirm nothing that was not ordered, current and carried out. *)
(***************************************************************************)
THEOREM Implements == Spec => ImplementsRegister
  <1>1. Init => Register!Init
    BY DEF Init, Register!Init
  <1>. QED BY <1>1, InitIInv, NextIInv, StepRefines, PTL
           DEF Spec, ImplementsRegister, Register!Spec

-----------------------------------------------------------------------------
(***************************************************************************)
(* The order of commands, as long as no connection is lost and nothing     *)
(* restarts.  Publishes wait in the order of their commands, downlinks     *)
(* before the commands that have theirs still to come; what is to be       *)
(* broadcast is newer than what any node has heard.                        *)
(***************************************************************************)
QueueInOrder ==
  \A i, j \in 1 .. Len(outgoing) :
    /\ i < j /\ outgoing[i].topic = outgoing[j].topic => outgoing[i].cmd < outgoing[j].cmd
    /\ outgoing[i].topic = "downlink" /\ outgoing[j].topic = "alert" =>
         outgoing[i].cmd < outgoing[j].cmd

RecordIsLatest == \A c \in Issued : c <= recorded[issued[c].node]

InQueue(c) == \E i \in 1 .. Len(outgoing) : outgoing[i].cmd = c

ViewWaits == \A n \in Node : InQueue(recorded[n]) \/ (Idle(n) /\ view[n] = recorded[n])

IsAhead(c) == \A n \in Node : radio[n] < c /\ physical[n] < c

ToComeIsAhead ==
  \A i \in 1 .. Len(outgoing) :
    outgoing[i].topic = "alert" \/ i > received => IsAhead(outgoing[i].cmd)

RadioIsAhead ==
  \A n \in Node : physical[n] <= Len(issued) /\ (radio[n] # 0 => physical[n] <= radio[n])

Ordered ==
  /\ connected \/ outgoing = <<>>
  /\ QueueInOrder
  /\ RecordIsLatest
  /\ ViewWaits
  /\ ToComeIsAhead
  /\ RadioIsAhead

OrderInv == Undisturbed => Ordered

LEMMA UndisturbedBefore == IInv /\ [Next]_vars /\ Undisturbed' => Undisturbed
  <1>. SUFFICES ASSUME IInv, [Next]_vars, losses' = 0, restarts' = 0
                PROVE  losses = 0 /\ restarts = 0
    BY DEF Undisturbed
  <1>1. losses \in Nat /\ restarts \in Nat
    BY DEF IInv, TypeOK
  <1>2. \A n \in Node, level \in Level : Dispatch(n, level) => UNCHANGED <<losses, restarts>>
    BY DEF Dispatch
  <1>3. \A n \in Node, c \in Command : HandleAlertAck(n, c) => UNCHANGED <<losses, restarts>>
    BY DEF HandleAlertAck, link
  <1>4. Puback \/ BrokerConnect \/ BrokerReceive \/ GatewayChange => UNCHANGED <<losses, restarts>>
    BY DEF Puback, BrokerConnect, BrokerReceive, GatewayChange, link
  <1>5. ~ BackendRestart /\ ~ BrokerLost
    BY <1>1 DEF BackendRestart, BrokerLost
  <1>6. \A n \in Node : NodeApply(n) => UNCHANGED <<losses, restarts>>
    BY DEF NodeApply, link
  <1>7. \A n \in Node : ~ NodeReboot(n)
    BY <1>1 DEF NodeReboot
  <1>8. UNCHANGED vars => UNCHANGED <<losses, restarts>>
    BY DEF vars, link
  <1>. QED BY <1>2, <1>3, <1>4, <1>5, <1>6, <1>7, <1>8 DEF Next

LEMMA InitOrder == Init => OrderInv
  <1>. SUFFICES ASSUME Init PROVE Ordered
    BY DEF OrderInv
  <1>1. /\ issued = <<>> /\ outgoing = <<>> /\ Len(issued) = 0 /\ Len(outgoing) = 0
        /\ \A n \in Node : recorded[n] = 0 /\ view[n] = 0 /\ radio[n] = 0 /\ physical[n] = 0
    BY DEF Init
  <1>. QED BY <1>1 DEF Ordered, QueueInOrder, RecordIsLatest, Issued, ViewWaits, Idle,
                       ToComeIsAhead, RadioIsAhead

\* The places of the queue after a publish, and after its head is gone.
LEMMA PublishPlaces ==
  ASSUME NEW q \in Seq(Publication), NEW c \in Nat, NEW t \in {"alert", "downlink"}
  PROVE  /\ Len(q) \in Nat /\ Len(Publish(q, c, t)) = Len(q) + 1
         /\ \A i \in 1 .. Len(q) : Publish(q, c, t)[i] = q[i]
         /\ Publish(q, c, t)[Len(q) + 1].cmd = c
         /\ Publish(q, c, t)[Len(q) + 1].topic = t
         /\ \A i \in 1 .. Len(Publish(q, c, t)) : i \in 1 .. Len(q) \/ i = Len(q) + 1
  <1>. DEFINE e == [cmd |-> c, topic |-> t]
  <1>1. e \in Publication /\ e.cmd = c /\ e.topic = t
    BY DEF Publication
  <1>2. Publish(q, c, t) = Append(q, e)
    BY DEF Publish
  <1>. HIDE DEF e
  <1>3. /\ Len(q) \in Nat /\ Len(Append(q, e)) = Len(q) + 1
        /\ \A i \in 1 .. Len(q) : Append(q, e)[i] = q[i]
        /\ Append(q, e)[Len(q) + 1] = e
    BY <1>1
  <1>. QED BY <1>1, <1>2, <1>3

LEMMA TailPlaces ==
  ASSUME NEW q \in Seq(Publication), Len(q) > 0
  PROVE  /\ Tail(q) \in Seq(Publication)
         /\ Len(q) \in Nat /\ Len(Tail(q)) = Len(q) - 1
         /\ \A i \in 1 .. Len(Tail(q)) : Tail(q)[i] = q[i + 1] /\ i + 1 \in 1 .. Len(q)
         /\ \A i \in 1 .. Len(q) : i = 1 \/ (i - 1 \in 1 .. Len(Tail(q)) /\ q[i] = Tail(q)[i - 1])
         /\ Head(q) = q[1] /\ 1 \in 1 .. Len(q)
         /\ Head(q).cmd \in Nat /\ Head(q).topic \in {"alert", "downlink"}
  <1>1. /\ Head(q) = q[1] /\ q # <<>> /\ Len(q) \in Nat /\ 1 \in 1 .. Len(q) /\ q[1] \in Publication
    OBVIOUS
  <1>2. /\ Tail(q) \in Seq(Publication) /\ Len(Tail(q)) = Len(q) - 1
        /\ \A i \in 1 .. Len(Tail(q)) : Tail(q)[i] = q[i + 1]
    BY <1>1
  <1>3. \A i \in 1 .. Len(Tail(q)) : i + 1 \in 1 .. Len(q)
    BY <1>1, <1>2
  <1>4. \A i \in 1 .. Len(q) : i = 1 \/ (i - 1 \in 1 .. Len(Tail(q)) /\ (i - 1) + 1 = i)
    BY <1>1, <1>2
  <1>5. \A i \in 1 .. Len(q) : i = 1 \/ (i - 1 \in 1 .. Len(Tail(q)) /\ q[i] = Tail(q)[i - 1])
    BY <1>2, <1>4
  <1>6. Head(q).cmd \in Nat /\ Head(q).topic \in {"alert", "downlink"}
    BY <1>1 DEF Publication
  <1>. QED BY <1>1, <1>2, <1>3, <1>5, <1>6

LEMMA QueueTypes ==
  ASSUME IInv, NEW i \in 1 .. Len(outgoing)
  PROVE  /\ outgoing[i].cmd \in Issued /\ outgoing[i].cmd \in Nat
         /\ outgoing[i].topic \in {"alert", "downlink"}
         /\ issued[outgoing[i].cmd].node \in Node
  <1>1. outgoing[i] \in Publication /\ outgoing[i].cmd \in Issued
    BY DEF IInv, TypeOK, InRange
  <1>2. issued[outgoing[i].cmd] \in Order
    BY <1>1 DEF IInv, TypeOK, Issued
  <1>. QED BY <1>1, <1>2 DEF Publication, Order

LEMMA DispatchKeepsOrder ==
  ASSUME IInv, Ordered, NEW n \in Node, NEW level \in Level, Dispatch(n, level)
  PROVE  Ordered'
  <1>. DEFINE c == Len(issued) + 1
  <1>1. /\ issued' = Append(issued, [node |-> n, level |-> level])
        /\ recorded' = [recorded EXCEPT ![n] = c]
        /\ UNCHANGED <<connected, received, radio, physical>>
    BY DEF Dispatch, field
  <1>2. /\ Len(issued) \in Nat /\ Len(issued') = c /\ issued'[c].node = n
        /\ \A k \in Issued : issued'[k] = issued[k]
        /\ recorded \in [Node -> Nat] /\ outgoing \in Seq(Publication)
        /\ radio \in [Node -> Nat] /\ physical \in [Node -> Nat] /\ view \in [Node -> Nat]
    <2>1. issued \in Seq(Order) /\ [node |-> n, level |-> level] \in Order
      BY DEF IInv, TypeOK, Order
    <2>2. Len(issued') = c /\ issued'[c].node = n /\ \A k \in Issued : issued'[k] = issued[k]
      BY <1>1, <2>1 DEF Issued
    <2>. QED BY <2>1, <2>2 DEF IInv, TypeOK
  <1>3. Issued' = Issued \cup {c} /\ (\A k \in Issued : k < c) /\ c \in Nat
    BY <1>2 DEF Issued
  <1>4. IsAhead(c)
    <2>1. \A m \in Node : radio[m] \in Issued \cup {0} /\ physical[m] <= Len(issued)
      BY DEF IInv, InRange, Ordered, RadioIsAhead
    <2>. QED BY <1>2, <1>3, <2>1 DEF IsAhead
  <1>. HIDE DEF c
  <1>5. RecordIsLatest'
    <2>. SUFFICES ASSUME NEW k \in Issued' PROVE k <= recorded'[issued'[k].node]
      BY DEF RecordIsLatest
    <2>1. CASE k = c
      BY <1>1, <1>2, <1>3, <2>1
    <2>2. CASE k \in Issued
      <3>1. k \in 1 .. Len(issued) /\ k < c /\ k <= recorded[issued[k].node]
        BY <1>3, <2>2 DEF Ordered, RecordIsLatest, Issued
      <3>2. issued[k].node \in Node
        <4>1. issued[k] \in Order
          BY <3>1 DEF IInv, TypeOK
        <4>. QED BY <4>1 DEF Order
      <3>. DEFINE m == issued[k].node
      <3>3. issued'[k].node = m
        BY <1>2, <2>2
      <3>4. m \in Node /\ k <= recorded[m] /\ k \in Nat
        BY <3>1, <3>2
      <3>. HIDE DEF m
      <3>5. CASE m = n
        BY <1>1, <1>2, <1>3, <3>1, <3>3, <3>4, <3>5
      <3>6. CASE m # n
        BY <1>1, <1>2, <3>3, <3>4, <3>6
      <3>. QED BY <3>5, <3>6
    <2>. QED BY <1>3, <2>1, <2>2
  <1>6. RadioIsAhead'
    BY <1>1, <1>2, <1>3, <1>4 DEF Ordered, RadioIsAhead, IsAhead
  <1>7. \A k \in 1 .. Len(outgoing) : outgoing[k].cmd < c /\ issued'[outgoing[k].cmd] = issued[outgoing[k].cmd]
    BY <1>2, <1>3, QueueTypes
  <1>8. ASSUME connected, outgoing' = Publish(outgoing, c, "alert"), UNCHANGED view
        PROVE  Ordered'
    <2>1. /\ Len(outgoing) \in Nat /\ Len(outgoing') = Len(outgoing) + 1
          /\ \A i \in 1 .. Len(outgoing) : outgoing'[i] = outgoing[i]
          /\ outgoing'[Len(outgoing) + 1].cmd = c
          /\ outgoing'[Len(outgoing) + 1].topic = "alert"
          /\ \A i \in 1 .. Len(outgoing') : i \in 1 .. Len(outgoing) \/ i = Len(outgoing) + 1
      BY <1>2, <1>3, <1>8, PublishPlaces
    <2>2. QueueInOrder'
      <3>. SUFFICES ASSUME NEW i \in 1 .. Len(outgoing'), NEW j \in 1 .. Len(outgoing')
                    PROVE  /\ i < j /\ outgoing'[i].topic = outgoing'[j].topic =>
                                outgoing'[i].cmd < outgoing'[j].cmd
                           /\ outgoing'[i].topic = "downlink" /\ outgoing'[j].topic = "alert" =>
                                outgoing'[i].cmd < outgoing'[j].cmd
        BY DEF QueueInOrder
      <3>1. CASE i \in 1 .. Len(outgoing) /\ j \in 1 .. Len(outgoing)
        BY <2>1, <3>1 DEF Ordered, QueueInOrder
      <3>2. CASE i \in 1 .. Len(outgoing) /\ j = Len(outgoing) + 1
        BY <1>7, <2>1, <3>2
      <3>3. CASE i = Len(outgoing) + 1
        <4>1. ~ (i < j) /\ outgoing'[i].topic = "alert"
          BY <2>1, <3>3
        <4>. QED BY <4>1
      <3>. QED BY <2>1, <3>1, <3>2, <3>3
    <2>3. ViewWaits'
      <3>. SUFFICES ASSUME NEW k \in Node
                    PROVE  InQueue(recorded[k])' \/ (Idle(k)' /\ view'[k] = recorded'[k])
        BY DEF ViewWaits
      <3>1. CASE k = n
        <4>1. recorded'[k] = c /\ Len(outgoing) + 1 \in 1 .. Len(outgoing')
          BY <1>1, <1>2, <2>1, <3>1
        <4>. QED BY <2>1, <4>1 DEF InQueue
      <3>2. CASE k # n
        <4>1. recorded'[k] = recorded[k]
          BY <1>1, <1>2, <3>2
        <4>2. ASSUME InQueue(recorded[k]) PROVE InQueue(recorded[k])'
          <5>1. PICK i \in 1 .. Len(outgoing) : outgoing[i].cmd = recorded[k]
            BY <4>2 DEF InQueue
          <5>2. i \in 1 .. Len(outgoing') /\ outgoing'[i].cmd = recorded'[k]
            BY <2>1, <4>1, <5>1
          <5>. QED BY <5>2 DEF InQueue
        <4>3. ASSUME Idle(k) PROVE Idle(k)'
          <5>. SUFFICES ASSUME NEW i \in 1 .. Len(outgoing') PROVE issued'[outgoing'[i].cmd].node # k
            BY DEF Idle
          <5>1. CASE i \in 1 .. Len(outgoing)
            BY <1>7, <2>1, <4>3, <5>1 DEF Idle
          <5>2. CASE i = Len(outgoing) + 1
            BY <1>2, <2>1, <3>2, <5>2
          <5>. QED BY <2>1, <5>1, <5>2
        <4>. QED BY <1>8, <4>1, <4>2, <4>3 DEF Ordered, ViewWaits
      <3>. QED BY <3>1, <3>2
    <2>4. ToComeIsAhead'
      <3>. SUFFICES ASSUME NEW i \in 1 .. Len(outgoing'), NEW m \in Node,
                           outgoing'[i].topic = "alert" \/ i > received'
                    PROVE  radio'[m] < outgoing'[i].cmd /\ physical'[m] < outgoing'[i].cmd
        BY DEF ToComeIsAhead, IsAhead
      <3>1. CASE i \in 1 .. Len(outgoing)
        BY <1>1, <2>1, <3>1 DEF Ordered, ToComeIsAhead, IsAhead
      <3>2. CASE i = Len(outgoing) + 1
        BY <1>1, <1>4, <2>1, <3>2 DEF IsAhead
      <3>. QED BY <2>1, <3>1, <3>2
    <2>. QED BY <1>1, <1>5, <1>6, <1>8, <2>2, <2>3, <2>4 DEF Ordered
  <1>9. ASSUME ~ connected, UNCHANGED outgoing, Show(n, c, c \in acked)
        PROVE  Ordered'
    <2>1. outgoing = <<>> /\ Len(outgoing) = 0
      BY <1>9 DEF Ordered
    <2>2. view' = [view EXCEPT ![n] = c]
      BY <1>9 DEF Show
    <2>3. ViewWaits'
      BY <1>1, <1>2, <1>9, <2>1, <2>2 DEF Ordered, ViewWaits, InQueue, Idle
    <2>. QED BY <1>5, <1>6, <1>9, <2>1, <2>3 DEF Ordered, QueueInOrder, ToComeIsAhead
  <1>. QED
    <2>1. issued'[c].node = n
      BY <1>2
    <2>. QED BY <1>8, <1>9, <2>1 DEF Dispatch, EmitDispatched, shown, c

LEMMA PubackKeepsOrder == IInv /\ Ordered /\ Puback => Ordered'
  <1>. SUFFICES ASSUME IInv, Ordered, Puback PROVE Ordered'
    OBVIOUS
  <1>. DEFINE q == outgoing
              c == Head(q).cmd
              rest == Tail(q)
  <1>1. /\ q \in Seq(Publication) /\ received \in Nat /\ received > 0 /\ received <= Len(q)
        /\ Len(q) \in Nat /\ connected
    BY DEF IInv, TypeOK, Puback
  <1>2. Len(q) > 0
    BY <1>1
  <1>3. /\ rest \in Seq(Publication) /\ Len(rest) = Len(q) - 1
        /\ \A i \in 1 .. Len(rest) : rest[i] = q[i + 1] /\ i + 1 \in 1 .. Len(q)
        /\ \A i \in 1 .. Len(q) : i = 1 \/ (i - 1 \in 1 .. Len(rest) /\ q[i] = rest[i - 1])
        /\ Head(q) = q[1] /\ 1 \in 1 .. Len(q)
        /\ Head(q).topic \in {"alert", "downlink"}
    BY <1>1, <1>2, TailPlaces
  <1>4. c = q[1].cmd /\ c \in Issued /\ c \in Nat
    BY <1>3, QueueTypes
  <1>5. /\ UNCHANGED <<issued, recorded, connected, radio, physical>>
        /\ received' = received - 1
    BY DEF Puback, field
  <1>6. recorded \in [Node -> Nat] /\ radio \in [Node -> Nat] /\ physical \in [Node -> Nat] /\ view \in [Node -> Nat]
    BY DEF IInv, TypeOK
  <1>7. \A i \in 1 .. Len(q) : q[i].cmd \in Nat /\ q[i].topic \in {"alert", "downlink"}
    BY QueueTypes
  <1>8. RecordIsLatest' /\ RadioIsAhead' /\ connected'
    BY <1>1, <1>5 DEF Ordered, RecordIsLatest, RadioIsAhead, Issued
  \* The publishes that stay keep their order, and are ahead as they were.
  <1>9. \A i, j \in 1 .. Len(rest) :
          /\ i < j /\ rest[i].topic = rest[j].topic => rest[i].cmd < rest[j].cmd
          /\ rest[i].topic = "downlink" /\ rest[j].topic = "alert" => rest[i].cmd < rest[j].cmd
    <2>. SUFFICES ASSUME NEW i \in 1 .. Len(rest), NEW j \in 1 .. Len(rest)
                  PROVE  /\ i < j /\ rest[i].topic = rest[j].topic => rest[i].cmd < rest[j].cmd
                         /\ rest[i].topic = "downlink" /\ rest[j].topic = "alert" => rest[i].cmd < rest[j].cmd
      OBVIOUS
    <2>1. rest[i] = q[i + 1] /\ rest[j] = q[j + 1] /\ i + 1 \in 1 .. Len(q) /\ j + 1 \in 1 .. Len(q)
      BY <1>3
    <2>2. i < j => i + 1 < j + 1
      OBVIOUS
    <2>. QED BY <2>1, <2>2 DEF Ordered, QueueInOrder
  <1>10. \A i \in 1 .. Len(rest) : rest[i].topic = "alert" \/ i > received' => IsAhead(rest[i].cmd)
    <2>. SUFFICES ASSUME NEW i \in 1 .. Len(rest), rest[i].topic = "alert" \/ i > received'
                  PROVE  IsAhead(rest[i].cmd)
      OBVIOUS
    <2>1. rest[i] = q[i + 1] /\ i + 1 \in 1 .. Len(q)
      BY <1>3
    <2>2. q[i + 1].topic = "alert" \/ i + 1 > received
      BY <1>1, <1>5, <2>1
    <2>. QED BY <2>1, <2>2 DEF Ordered, ToComeIsAhead
  <1>11. \A i \in 1 .. Len(rest) : rest[i].cmd \in Nat /\ rest[i].topic \in {"alert", "downlink"}
    BY <1>3, <1>7
  <1>12. ASSUME HasNext(Head(q)) PROVE Ordered'
    <2>1. outgoing' = Publish(rest, c, "downlink") /\ UNCHANGED view
      BY <1>12 DEF Puback, shown
    <2>2. /\ Len(rest) \in Nat /\ Len(outgoing') = Len(rest) + 1
          /\ \A i \in 1 .. Len(rest) : outgoing'[i] = rest[i]
          /\ outgoing'[Len(rest) + 1].cmd = c
          /\ outgoing'[Len(rest) + 1].topic = "downlink"
          /\ \A i \in 1 .. Len(outgoing') : i \in 1 .. Len(rest) \/ i = Len(rest) + 1
      <3>. HIDE DEF rest, c
      <3>1. /\ Len(rest) \in Nat /\ Len(Publish(rest, c, "downlink")) = Len(rest) + 1
            /\ \A i \in 1 .. Len(rest) : Publish(rest, c, "downlink")[i] = rest[i]
            /\ Publish(rest, c, "downlink")[Len(rest) + 1].cmd = c
            /\ Publish(rest, c, "downlink")[Len(rest) + 1].topic = "downlink"
            /\ \A i \in 1 .. Len(Publish(rest, c, "downlink")) : i \in 1 .. Len(rest) \/ i = Len(rest) + 1
        <4>1. rest \in Seq(Publication) /\ c \in Nat
          BY <1>3, <1>4
        <4>. QED BY <4>1, PublishPlaces
      <3>. QED BY <2>1, <3>1
    <2>3. q[1].topic = "alert" /\ IsAhead(c)
      BY <1>3, <1>4, <1>12 DEF HasNext, Ordered, ToComeIsAhead
    <2>4. \A i \in 1 .. Len(rest) :
            /\ rest[i].topic = "downlink" => rest[i].cmd < c
            /\ rest[i].topic = "alert" => c < rest[i].cmd
      <3>. SUFFICES ASSUME NEW i \in 1 .. Len(rest)
                    PROVE  /\ rest[i].topic = "downlink" => rest[i].cmd < c
                           /\ rest[i].topic = "alert" => c < rest[i].cmd
        OBVIOUS
      <3>1. rest[i] = q[i + 1] /\ i + 1 \in 1 .. Len(q) /\ 1 < i + 1
        BY <1>3
      <3>. QED BY <1>3, <1>4, <2>3, <3>1 DEF Ordered, QueueInOrder
    <2>5. QueueInOrder'
      <3>. SUFFICES ASSUME NEW i \in 1 .. Len(outgoing'), NEW j \in 1 .. Len(outgoing')
                    PROVE  /\ i < j /\ outgoing'[i].topic = outgoing'[j].topic =>
                                outgoing'[i].cmd < outgoing'[j].cmd
                           /\ outgoing'[i].topic = "downlink" /\ outgoing'[j].topic = "alert" =>
                                outgoing'[i].cmd < outgoing'[j].cmd
        BY DEF QueueInOrder
      <3>1. CASE i \in 1 .. Len(rest) /\ j \in 1 .. Len(rest)
        BY <1>9, <2>2, <3>1
      <3>2. CASE i \in 1 .. Len(rest) /\ j = Len(rest) + 1
        BY <2>2, <2>4, <3>2
      <3>3. CASE i = Len(rest) + 1 /\ j \in 1 .. Len(rest)
        <4>1. ~ (i < j)
          BY <2>2, <3>3
        <4>. QED BY <2>2, <2>4, <3>3, <4>1
      <3>4. CASE i = Len(rest) + 1 /\ j = Len(rest) + 1
        <4>1. ~ (i < j) /\ outgoing'[j].topic = "downlink"
          BY <2>2, <3>4
        <4>. QED BY <4>1
      <3>. QED BY <2>2, <3>1, <3>2, <3>3, <3>4
    <2>6. ToComeIsAhead'
      <3>. SUFFICES ASSUME NEW i \in 1 .. Len(outgoing'), NEW m \in Node,
                           outgoing'[i].topic = "alert" \/ i > received'
                    PROVE  radio'[m] < outgoing'[i].cmd /\ physical'[m] < outgoing'[i].cmd
        BY DEF ToComeIsAhead, IsAhead
      <3>1. CASE i \in 1 .. Len(rest)
        BY <1>5, <1>10, <2>2, <3>1 DEF IsAhead
      <3>2. CASE i = Len(rest) + 1
        BY <1>5, <2>2, <2>3, <3>2 DEF IsAhead
      <3>. QED BY <2>2, <3>1, <3>2
    <2>7. \A x : InQueue(x) => InQueue(x)'
      <3>. SUFFICES ASSUME NEW x, NEW i \in 1 .. Len(q), q[i].cmd = x
                    PROVE  InQueue(x)'
        BY DEF InQueue
      <3>1. CASE i = 1
        <4>1. Len(rest) + 1 \in 1 .. Len(outgoing') /\ outgoing'[Len(rest) + 1].cmd = x
          BY <1>4, <2>2, <3>1
        <4>. QED BY <4>1 DEF InQueue
      <3>2. CASE i # 1
        <4>1. i - 1 \in 1 .. Len(rest) /\ rest[i - 1].cmd = x
          BY <1>3, <3>2
        <4>2. i - 1 \in 1 .. Len(outgoing') /\ outgoing'[i - 1].cmd = x
          BY <2>2, <4>1
        <4>. QED BY <4>2 DEF InQueue
      <3>. QED BY <3>1, <3>2
    <2>8. \A n \in Node : Idle(n) => Idle(n)'
      <3>. SUFFICES ASSUME NEW n \in Node, Idle(n), NEW i \in 1 .. Len(outgoing')
                    PROVE  issued[outgoing'[i].cmd].node # n
        BY <1>5 DEF Idle
      <3>1. CASE i \in 1 .. Len(rest)
        <4>1. outgoing'[i] = q[i + 1] /\ i + 1 \in 1 .. Len(q)
          BY <1>3, <2>2, <3>1
        <4>. QED BY <4>1 DEF Idle
      <3>2. CASE i = Len(rest) + 1
        BY <1>3, <1>4, <2>2, <3>2 DEF Idle
      <3>. QED BY <2>2, <3>1, <3>2
    <2>9. ViewWaits'
      <3>. SUFFICES ASSUME NEW n \in Node
                    PROVE  InQueue(recorded[n])' \/ (Idle(n)' /\ view'[n] = recorded'[n])
        BY DEF ViewWaits
      <3>1. InQueue(recorded[n]) \/ (Idle(n) /\ view[n] = recorded[n])
        BY DEF Ordered, ViewWaits
      <3>2. recorded'[n] = recorded[n] /\ view'[n] = view[n]
        BY <1>5, <2>1
      <3>3. InQueue(recorded[n])' <=> (\E i \in 1 .. Len(outgoing') : outgoing'[i].cmd = recorded'[n])
        BY DEF InQueue
      <3>4. InQueue(recorded[n]) => (\E i \in 1 .. Len(outgoing') : outgoing'[i].cmd = recorded[n])
        BY <2>7 DEF InQueue
      <3>. QED BY <2>8, <3>1, <3>2, <3>3, <3>4
    <2>. QED BY <1>8, <2>5, <2>6, <2>9 DEF Ordered
  <1>13. ASSUME ~ HasNext(Head(q)) PROVE Ordered'
    <2>. DEFINE k == issued[c].node
    <2>1. outgoing' = rest /\ view' = [view EXCEPT ![k] = c]
      BY <1>5, <1>13 DEF Puback, EmitDispatched, Show
    <2>2. q[1].topic = "downlink" /\ k \in Node
      BY <1>3, <1>4, <1>13, QueueTypes DEF HasNext
    <2>3. \A i \in 1 .. Len(rest) : c < rest[i].cmd
      <3>. SUFFICES ASSUME NEW i \in 1 .. Len(rest) PROVE c < rest[i].cmd
        OBVIOUS
      <3>1. rest[i] = q[i + 1] /\ i + 1 \in 1 .. Len(q) /\ 1 < i + 1
        BY <1>3
      <3>. QED BY <1>3, <1>4, <1>11, <2>2, <3>1 DEF Ordered, QueueInOrder
    <2>4. QueueInOrder' /\ ToComeIsAhead'
      <3>1. QueueInOrder'
        BY <1>9, <2>1 DEF QueueInOrder
      <3>2. ToComeIsAhead'
        BY <1>5, <1>10, <2>1 DEF ToComeIsAhead, IsAhead
      <3>. QED BY <3>1, <3>2
    <2>5. \A x : InQueue(x) /\ x # c => (\E i \in 1 .. Len(outgoing') : outgoing'[i].cmd = x)
      <3>. SUFFICES ASSUME NEW x, x # c, NEW i \in 1 .. Len(q), q[i].cmd = x
                    PROVE  \E j \in 1 .. Len(outgoing') : outgoing'[j].cmd = x
        BY DEF InQueue
      <3>1. i # 1
        BY <1>4
      <3>2. i - 1 \in 1 .. Len(rest) /\ rest[i - 1].cmd = x
        BY <1>3, <3>1
      <3>. QED BY <2>1, <3>2
    <2>6. \A n \in Node : Idle(n) => n # k /\ Idle(n)'
      <3>. SUFFICES ASSUME NEW n \in Node, Idle(n)
                    PROVE  n # k /\ \A i \in 1 .. Len(rest) : issued[rest[i].cmd].node # n
        BY <1>5, <2>1 DEF Idle
      <3>1. n # k
        BY <1>3, <1>4 DEF Idle
      <3>. QED BY <1>3, <3>1 DEF Idle
    <2>7. \A n \in Node : n = k /\ recorded[n] = c => Idle(n)'
      <3>. SUFFICES ASSUME NEW n \in Node, recorded[n] = c,
                           NEW i \in 1 .. Len(rest), issued[rest[i].cmd].node = n
                    PROVE  FALSE
        BY <1>5, <2>1 DEF Idle
      <3>1. rest[i].cmd \in Issued
        <4>1. rest[i] = q[i + 1] /\ i + 1 \in 1 .. Len(q)
          BY <1>3
        <4>. QED BY <4>1, QueueTypes
      <3>2. rest[i].cmd <= c
        BY <3>1 DEF Ordered, RecordIsLatest
      <3>3. c < rest[i].cmd /\ rest[i].cmd \in Nat /\ c \in Nat
        BY <1>4, <1>11, <2>3
      <3>. HIDE DEF rest, c
      <3>. QED BY <3>2, <3>3
    <2>. HIDE DEF k
    <2>8. ViewWaits'
      <3>. SUFFICES ASSUME NEW n \in Node
                    PROVE  InQueue(recorded[n])' \/ (Idle(n)' /\ view'[n] = recorded'[n])
        BY DEF ViewWaits
      <3>1. InQueue(recorded[n]) \/ (Idle(n) /\ view[n] = recorded[n])
        BY DEF Ordered, ViewWaits
      <3>2. recorded'[n] = recorded[n]
        BY <1>5
      <3>3. InQueue(recorded[n])' <=> (\E i \in 1 .. Len(outgoing') : outgoing'[i].cmd = recorded'[n])
        BY DEF InQueue
      <3>4. CASE InQueue(recorded[n]) /\ recorded[n] # c
        BY <2>5, <3>2, <3>3, <3>4
      <3>5. CASE recorded[n] = c
        <4>1. n = k
          <5>1. recorded[n] # 0 => issued[recorded[n]].node = n
            BY DEF IInv, OwnCommands
          <5>2. c # 0
            BY <1>4 DEF Issued
          <5>. QED BY <3>5, <5>1, <5>2 DEF k
        <4>. QED BY <1>6, <2>1, <2>7, <3>2, <3>5, <4>1
      <3>6. CASE Idle(n) /\ view[n] = recorded[n]
        <4>1. n # k /\ Idle(n)'
          BY <2>6, <3>6
        <4>. QED BY <1>6, <2>1, <3>2, <3>6, <4>1
      <3>. QED BY <3>1, <3>4, <3>5, <3>6
    <2>. QED BY <1>8, <2>4, <2>8 DEF Ordered
  <1>. QED BY <1>12, <1>13

\* What leaves commands, records, publishes and receivers alone, except that a
\* node's view may become its record, or the connection comes back.
LEMMA ShowKeepsOrder ==
  ASSUME IInv, Ordered,
         UNCHANGED <<issued, recorded, outgoing, received, radio, physical>>,
         connected => connected',
         \A n \in Node : view'[n] \in {view[n], recorded[n]}
  PROVE  Ordered'
  <1>1. QueueInOrder' /\ RecordIsLatest' /\ ToComeIsAhead' /\ RadioIsAhead'
    BY DEF Ordered, QueueInOrder, RecordIsLatest, Issued, ToComeIsAhead, IsAhead, RadioIsAhead
  <1>2. ViewWaits'
    BY DEF Ordered, ViewWaits, InQueue, Idle
  <1>. QED BY <1>1, <1>2 DEF Ordered

LEMMA ReceiveKeepsOrder == IInv /\ Ordered /\ BrokerReceive => Ordered'
  <1>. SUFFICES ASSUME IInv, Ordered, BrokerReceive PROVE Ordered'
    OBVIOUS
  <1>. DEFINE r == received + 1
              m == outgoing[r]
  <1>1. /\ received \in Nat /\ r \in Nat /\ r \in 1 .. Len(outgoing) /\ received < r
        /\ received' = r
        /\ UNCHANGED <<issued, recorded, view, connected, outgoing, physical>>
        /\ radio \in [Node -> Nat] /\ physical \in [Node -> Nat]
    BY DEF BrokerReceive, IInv, TypeOK, backend, shown
  <1>2. \/ UNCHANGED radio
        \/ /\ m.topic = "downlink"
           /\ \A n \in Node : radio'[n] \in {m.cmd, radio[n]}
    <2>1. CASE m.topic = "downlink" /\ gatewayUp
      <3>1. PICK heard \in SUBSET Node : radio' = [n \in Node |-> IF n \in heard THEN m.cmd ELSE radio[n]]
        BY <2>1 DEF BrokerReceive, Broadcast
      <3>. QED BY <2>1, <3>1
    <2>2. CASE ~ (m.topic = "downlink" /\ gatewayUp)
      BY <2>2 DEF BrokerReceive
    <2>. QED BY <2>1, <2>2
  <1>3. m.cmd \in Nat /\ IsAhead(m.cmd)
    BY <1>1, QueueTypes DEF Ordered, ToComeIsAhead
  <1>4. \A i \in 1 .. Len(outgoing) : outgoing[i].cmd \in Nat /\ outgoing[i].topic \in {"alert", "downlink"}
    BY QueueTypes
  <1>5. m.topic = "downlink" =>
          \A i \in 1 .. Len(outgoing) :
            outgoing[i].topic = "alert" \/ i > r => m.cmd < outgoing[i].cmd
    BY <1>1, <1>4 DEF Ordered, QueueInOrder
  <1>6. \A i \in 1 .. Len(outgoing) :
          outgoing[i].topic = "alert" \/ i > r => IsAhead(outgoing[i].cmd)
    BY <1>1 DEF Ordered, ToComeIsAhead
  <1>. HIDE DEF m, r
  <1>7. ToComeIsAhead'
    <2>. SUFFICES ASSUME NEW i \in 1 .. Len(outgoing), NEW n \in Node,
                         outgoing[i].topic = "alert" \/ i > r
                  PROVE  radio'[n] < outgoing[i].cmd /\ physical[n] < outgoing[i].cmd
      BY <1>1 DEF ToComeIsAhead, IsAhead
    <2>1. radio[n] < outgoing[i].cmd /\ physical[n] < outgoing[i].cmd
      BY <1>6 DEF IsAhead
    <2>. QED BY <1>2, <1>5, <2>1
  <1>8. RadioIsAhead'
    <2>. SUFFICES ASSUME NEW n \in Node
                  PROVE  physical[n] <= Len(issued) /\ (radio'[n] # 0 => physical[n] <= radio'[n])
      BY <1>1 DEF RadioIsAhead
    <2>1. physical[n] <= Len(issued) /\ (radio[n] # 0 => physical[n] <= radio[n])
      BY DEF Ordered, RadioIsAhead
    <2>2. physical[n] < m.cmd /\ physical[n] \in Nat
      BY <1>1, <1>3 DEF IsAhead
    <2>3. radio'[n] = radio[n] \/ radio'[n] = m.cmd
      BY <1>2
    <2>. QED BY <1>3, <2>1, <2>2, <2>3
  <1>9. QueueInOrder' /\ RecordIsLatest' /\ ViewWaits' /\ (connected \/ outgoing = <<>>)'
    BY <1>1 DEF Ordered, QueueInOrder, RecordIsLatest, Issued, ViewWaits, InQueue, Idle
  <1>. QED BY <1>7, <1>8, <1>9 DEF Ordered

LEMMA ApplyKeepsOrder ==
  ASSUME IInv, Ordered, NEW n \in Node, NodeApply(n)
  PROVE  Ordered'
  <1>1. /\ UNCHANGED <<issued, recorded, view, connected, outgoing, received>>
        /\ radio' = [radio EXCEPT ![n] = 0]
        /\ physical' = [physical EXCEPT ![n] = radio[n]]
        /\ radio[n] # 0
    BY DEF NodeApply, backend, shown, link
  <1>2. radio \in [Node -> Nat] /\ physical \in [Node -> Nat] /\ Len(issued) \in Nat
    BY DEF IInv, TypeOK
  <1>3. ToComeIsAhead'
    <2>. SUFFICES ASSUME NEW i \in 1 .. Len(outgoing), NEW k \in Node,
                         outgoing[i].topic = "alert" \/ i > received
                  PROVE  radio'[k] < outgoing[i].cmd /\ physical'[k] < outgoing[i].cmd
      BY <1>1 DEF ToComeIsAhead, IsAhead
    <2>1. radio[k] < outgoing[i].cmd /\ physical[k] < outgoing[i].cmd
      BY DEF Ordered, ToComeIsAhead, IsAhead
    <2>2. outgoing[i].cmd \in Nat /\ outgoing[i].cmd # 0
      BY QueueTypes DEF Issued
    <2>3. radio'[k] \in {radio[k], 0} /\ physical'[k] \in {physical[k], radio[k]}
      BY <1>1, <1>2
    <2>. QED BY <1>2, <2>1, <2>2, <2>3
  <1>4. RadioIsAhead'
    <2>. SUFFICES ASSUME NEW k \in Node
                  PROVE  physical'[k] <= Len(issued) /\ (radio'[k] # 0 => physical'[k] <= radio'[k])
      BY <1>1 DEF RadioIsAhead
    <2>1. physical[k] <= Len(issued) /\ (radio[k] # 0 => physical[k] <= radio[k])
      BY DEF Ordered, RadioIsAhead
    <2>2. CASE k = n
      <3>1. radio[n] \in Issued
        BY <1>1 DEF IInv, InRange
      <3>. QED BY <1>1, <1>2, <2>2, <3>1 DEF Issued
    <2>3. CASE k # n
      BY <1>1, <1>2, <2>1, <2>3
    <2>. QED BY <2>2, <2>3
  <1>5. QueueInOrder' /\ RecordIsLatest' /\ ViewWaits' /\ (connected \/ outgoing = <<>>)'
    BY <1>1 DEF Ordered, QueueInOrder, RecordIsLatest, Issued, ViewWaits, InQueue, Idle
  <1>. QED BY <1>3, <1>4, <1>5 DEF Ordered

LEMMA NextOrder == IInv /\ OrderInv /\ [Next]_vars => OrderInv'
  <1>. SUFFICES ASSUME IInv, OrderInv, [Next]_vars, Undisturbed' PROVE Ordered'
    BY DEF OrderInv
  <1>1. Ordered /\ losses = 0 /\ restarts = 0 /\ losses' = 0 /\ restarts' = 0
    BY UndisturbedBefore DEF OrderInv, Undisturbed
  <1>2. \A n \in Node, level \in Level : Dispatch(n, level) => Ordered'
    BY <1>1, DispatchKeepsOrder
  <1>3. Puback => Ordered'
    BY <1>1, PubackKeepsOrder
  <1>4. ASSUME NEW n \in Node, NEW c \in Command, HandleAlertAck(n, c) PROVE Ordered'
    <2>1. /\ UNCHANGED <<issued, recorded, connected, outgoing, received, radio, physical>>
          /\ view \in [Node -> Nat]
      BY <1>4 DEF HandleAlertAck, link, field, IInv, TypeOK
    <2>2. \A k \in Node : view'[k] \in {view[k], recorded[k]}
      BY <1>4, <2>1 DEF HandleAlertAck, Show, shown
    <2>. QED BY <1>1, <2>1, <2>2, ShowKeepsOrder
  <1>5. ~ BackendRestart /\ ~ BrokerLost /\ \A n \in Node : ~ NodeReboot(n)
    BY <1>1 DEF BackendRestart, BrokerLost, NodeReboot
  <1>6. BrokerConnect \/ GatewayChange => Ordered'
    <2>1. BrokerConnect \/ GatewayChange =>
            /\ UNCHANGED <<issued, recorded, view, outgoing, received, radio, physical>>
            /\ connected => connected'
      BY DEF BrokerConnect, GatewayChange, backend, shown, link, field
    <2>. QED BY <1>1, <2>1, ShowKeepsOrder
  <1>7. BrokerReceive => Ordered'
    BY <1>1, ReceiveKeepsOrder
  <1>8. \A n \in Node : NodeApply(n) => Ordered'
    BY <1>1, ApplyKeepsOrder
  <1>9. UNCHANGED vars => Ordered'
    <2>1. UNCHANGED vars =>
            UNCHANGED <<issued, recorded, view, connected, outgoing, received, radio, physical>>
      BY DEF vars, backend, shown, link, field
    <2>. QED BY <1>1, <2>1, ShowKeepsOrder
  <1>. QED BY <1>2, <1>3, <1>4, <1>5, <1>6, <1>7, <1>8, <1>9 DEF Next

(***************************************************************************)
(* While no connection is lost and nothing restarts, dispatches end in the *)
(* order they were made, however many overlap: with none under way for a   *)
(* node, dashboards show its command on record (52-117).                   *)
(***************************************************************************)
THEOREM ViewFollows == Spec => []ViewFollowsRecord
  <1>1. IInv /\ OrderInv => ViewFollowsRecord
    <2>. SUFFICES ASSUME IInv, Ordered, NEW n \in Node, Idle(n)
                  PROVE  view[n] = recorded[n]
      BY DEF OrderInv, ViewFollowsRecord
    <2>1. CASE InQueue(recorded[n])
      <3>1. PICK i \in 1 .. Len(outgoing) : outgoing[i].cmd = recorded[n]
        BY <2>1 DEF InQueue
      <3>2. recorded[n] # 0
        BY <3>1, QueueTypes DEF Issued
      <3>3. issued[outgoing[i].cmd].node = n
        BY <3>1, <3>2 DEF IInv, OwnCommands
      <3>. QED BY <3>3 DEF Idle
    <2>2. CASE ~ InQueue(recorded[n])
      BY <2>2 DEF Ordered, ViewWaits
    <2>. QED BY <2>1, <2>2
  <1>. QED BY <1>1, InitIInv, NextIInv, InitOrder, NextOrder, PTL DEF Spec

\* A node's actuators only ever move on to what its receiver holds.
LEMMA NeverBackStep ==
  IInv /\ OrderInv /\ [Next]_vars =>
    (Undisturbed' => \A n \in Node : physical'[n] >= physical[n])
  <1>. SUFFICES ASSUME IInv, OrderInv, [Next]_vars, Undisturbed', NEW k \in Node
                PROVE  physical'[k] >= physical[k]
    OBVIOUS
  <1>1. Ordered /\ losses = 0 /\ restarts = 0 /\ losses' = 0 /\ restarts' = 0
    BY UndisturbedBefore DEF OrderInv, Undisturbed
  <1>2. radio \in [Node -> Nat] /\ physical \in [Node -> Nat]
    BY DEF IInv, TypeOK
  <1>3. ASSUME NEW n \in Node, NodeApply(n) PROVE physical'[k] >= physical[k]
    <2>1. physical' = [physical EXCEPT ![n] = radio[n]] /\ radio[n] # 0
      BY <1>3 DEF NodeApply
    <2>2. physical[n] <= radio[n]
      BY <1>1, <2>1 DEF Ordered, RadioIsAhead
    <2>. QED BY <1>2, <2>1, <2>2
  <1>4. \A n \in Node : ~ NodeReboot(n)
    BY <1>1 DEF NodeReboot
  <1>5. UNCHANGED physical => physical'[k] >= physical[k]
    BY <1>2
  <1>6. (\E n \in Node, level \in Level : Dispatch(n, level)) => UNCHANGED physical
    BY DEF Dispatch, field
  <1>7. (\E n \in Node, c \in Command : HandleAlertAck(n, c)) => UNCHANGED physical
    BY DEF HandleAlertAck, field
  <1>8. Puback \/ BackendRestart \/ BrokerConnect \/ BrokerLost \/ BrokerReceive
          \/ GatewayChange \/ UNCHANGED vars => UNCHANGED physical
    BY DEF Puback, BackendRestart, BrokerConnect, BrokerLost, BrokerReceive, GatewayChange, vars, field
  <1>. QED BY <1>3, <1>4, <1>5, <1>6, <1>7, <1>8 DEF Next

(***************************************************************************)
(* Nor does a node go back to an older command: downlinks are published in *)
(* the order of their dispatch (98-108), broadcast in that order, and each *)
(* is newer than all that any node has heard by then.                      *)
(***************************************************************************)
THEOREM NodesNeverGoBack == Spec => NodeNeverGoesBack
  <1>1. IInv /\ OrderInv /\ [Next]_vars =>
          [Undisturbed' => \A n \in Node : physical'[n] >= physical[n]]_vars
    BY NeverBackStep
  <1>. QED BY <1>1, InitIInv, NextIInv, InitOrder, NextOrder, PTL DEF Spec, NodeNeverGoesBack

-----------------------------------------------------------------------------
(***************************************************************************)
(* Lists: what is put in order from a set, what is left when some go.      *)
(***************************************************************************)
Lists(list, S) ==
  /\ list \in Seq(S)
  /\ \A i, j \in DOMAIN list : list[i] = list[j] => i = j
  /\ \A x \in S : \E i \in DOMAIN list : list[i] = x

LEMMA SetToSeqLists ==
  ASSUME NEW S, IsFiniteSet(S)
  PROVE  Lists(SetToSeq(S), S)
<1>. DEFINE D == 1 .. Cardinality(S)
            f == SetToSeq(S)
<1>. HIDE DEF f
<1>0. Cardinality(S) \in Nat
  BY FS_CardinalityType
<1>1. PICK g \in Bijection(D, S) : TRUE
  BY FS_CardinalityType DEF ExistsBijection
<1>2. g \in [D -> S] /\ IsInjective(g)
  BY <1>1 DEF Bijection, Injection, IsInjective
<1>3. f \in [D -> S] /\ IsInjective(f)
  BY <1>2 DEF SetToSeq, f
<1>4. f \in Injection(D, S)
  BY <1>3 DEF Injection, IsInjective
<1>5. Cardinality(D) = Cardinality(S)
  BY <1>0, FS_Interval
<1>6. f \in Surjection(D, S)
  BY <1>4, <1>5, FS_Injection
<1>7. f \in Seq(S) /\ DOMAIN f = D
  BY <1>0, <1>3
<1>8. \A x \in S : \E i \in D : f[i] = x
  BY <1>6 DEF Surjection
<1>9. \A i, j \in DOMAIN f : f[i] = f[j] => i = j
  BY <1>3 DEF IsInjective
<1>. HIDE DEF D
<1>10. Lists(f, S)
  BY <1>7, <1>8, <1>9 DEF Lists
<1>. QED BY <1>10 DEF f

LEMMA LeastOf ==
  ASSUME NEW T, T \subseteq Nat, T # {}
  PROVE  \E x \in T : \A y \in T : x <= y
<1>. DEFINE R == {ss \in Nat \X Nat : ss[1] < ss[2]}
<1>1. IsWellFoundedOn(R, Nat)
  BY NatLessThanWellFounded DEF OpToRel
<1>2. \A x, y \in Nat : y < x => <<y, x>> \in R
  OBVIOUS
<1>. HIDE DEF R
<1>3. PICK x \in T : \A y \in T : ~ (<<y, x>> \in R)
  BY <1>1, WFMin
<1>. SUFFICES ASSUME NEW y \in T PROVE x <= y
  OBVIOUS
<1>4. x \in Nat /\ y \in Nat /\ ~ (y < x)
  BY <1>2, <1>3
<1>. QED BY <1>4

LEMMA EveryNumber ==
  ASSUME NEW T, 0 \in T, \A n \in Nat : n \in T => n + 1 \in T
  PROVE  Nat \subseteq T
<1>. SUFFICES ASSUME ~ (Nat \subseteq T) PROVE FALSE
  OBVIOUS
<1>1. PICK x \in Nat \ T : \A y \in Nat \ T : x <= y
  BY LeastOf
<1>2. x - 1 \in Nat /\ x - 1 \notin Nat \ T
  BY <1>1
<1>. QED BY <1>1, <1>2

UpToPlace(S, k) == {j \in S : j <= k}

HasAll(S) == \A n \in 1 .. Cardinality(S) : \E k \in S : Cardinality(UpToPlace(S, k)) = n

LEMMA EachHasPlace ==
  ASSUME NEW N \in Nat, NEW S \in SUBSET (1 .. N)
  PROVE  IsFiniteSet(S) /\ HasAll(S)
<1>. DEFINE T == {m \in Nat : \A U \in SUBSET (1 .. m) : HasAll(U)}
<1>0. ASSUME NEW m \in Nat, NEW U \in SUBSET (1 .. m)
      PROVE  IsFiniteSet(U) /\ Cardinality(U) \in Nat
  <2>1. IsFiniteSet(1 .. m)
    BY FS_Interval
  <2>2. IsFiniteSet(U)
    BY <2>1, FS_Subset
  <2>. QED BY <2>2, FS_CardinalityType
<1>1. 0 \in T
  <2>1. ASSUME NEW U \in SUBSET (1 .. 0) PROVE HasAll(U)
    <3>1. U = {}
      OBVIOUS
    <3>2. Cardinality(U) = 0
      BY <3>1, FS_EmptySet
    <3>. QED BY <3>2 DEF HasAll
  <2>. QED BY <2>1
<1>2. ASSUME NEW m \in Nat, m \in T PROVE m + 1 \in T
  <2>1. ASSUME NEW U \in SUBSET (1 .. (m + 1)) PROVE HasAll(U)
    <3>. DEFINE V == U \ {m + 1}
    <3>1. V \in SUBSET (1 .. m) /\ HasAll(V)
      <4>1. V \in SUBSET (1 .. m)
        OBVIOUS
      <4>. QED BY <1>2, <4>1
    <3>2. IsFiniteSet(U) /\ Cardinality(U) \in Nat /\ IsFiniteSet(V) /\ Cardinality(V) \in Nat
      <4>1. m + 1 \in Nat
        OBVIOUS
      <4>2. IsFiniteSet(U) /\ Cardinality(U) \in Nat
        BY <1>0, <4>1
      <4>. HIDE DEF V
      <4>. QED BY <1>0, <3>1, <4>2
    <3>3. CASE m + 1 \notin U
      <4>1. U = V
        BY <3>3
      <4>. QED BY <3>1, <4>1
    <3>4. CASE m + 1 \in U
      <4>1. Cardinality(U) = Cardinality(V) + 1
        BY <3>2, <3>4, FS_RemoveElement
      <4>2. \A k \in V : UpToPlace(U, k) = UpToPlace(V, k)
        BY <3>1 DEF UpToPlace
      <4>3. UpToPlace(U, m + 1) = U
        <5>1. \A j \in U : j <= m + 1
          OBVIOUS
        <5>. QED BY <5>1 DEF UpToPlace
      <4>. HIDE DEF V
      <4>4. SUFFICES ASSUME NEW n \in 1 .. Cardinality(U)
                     PROVE  \E k \in U : Cardinality(UpToPlace(U, k)) = n
        BY DEF HasAll
      <4>5. CASE n = Cardinality(U)
        BY <3>4, <4>3, <4>5
      <4>6. CASE n # Cardinality(U)
        <5>1. n \in 1 .. Cardinality(V)
          BY <3>2, <4>1, <4>6
        <5>2. PICK k \in V : Cardinality(UpToPlace(V, k)) = n
          BY <3>1, <5>1 DEF HasAll
        <5>. QED BY <4>2, <5>2 DEF V
      <4>. QED BY <4>5, <4>6
    <3>. QED BY <3>3, <3>4
  <2>. QED BY <2>1
<1>3. Nat \subseteq T
  <2>. HIDE DEF T
  <2>. QED BY <1>1, <1>2, EveryNumber
<1>. QED BY <1>0, <1>3

LEMMA NthOf ==
  ASSUME NEW N \in Nat, NEW S \in SUBSET (1 .. N), NEW n \in 1 .. Cardinality(S)
  PROVE  Nth(S, n) \in S /\ Cardinality(UpToPlace(S, Nth(S, n))) = n
<1>1. \E k \in S : Cardinality({j \in S : j <= k}) = n
  BY EachHasPlace DEF HasAll, UpToPlace
<1>. QED BY <1>1 DEF Nth, UpToPlace

\* What is left keeps its ids apart, and is in the list before.
LEMMA WithoutSimulatedType ==
  ASSUME NEW T, NEW list \in Seq(T), \A x \in T : x.id \in AlertId
  PROVE  /\ WithoutSimulated(list) \in Seq(T)
         /\ \A i \in DOMAIN WithoutSimulated(list) : \E j \in DOMAIN list :
              WithoutSimulated(list)[i] = list[j] /\ list[j].id[1] = "live"
         /\ (\A i, j \in DOMAIN list : list[i].id = list[j].id => i = j)
              => \A i, j \in DOMAIN WithoutSimulated(list) :
                   WithoutSimulated(list)[i].id = WithoutSimulated(list)[j].id => i = j
<1>. DEFINE kept == {i \in DOMAIN list : list[i].id[1] = "live"}
            c == Cardinality(kept)
            left == [n \in 1 .. c |-> list[Nth(kept, n)]]
<1>1. WithoutSimulated(list) = left
  BY DEF WithoutSimulated
<1>2. Len(list) \in Nat /\ DOMAIN list = 1 .. Len(list) /\ kept \in SUBSET (1 .. Len(list))
  OBVIOUS
<1>3. \A i \in DOMAIN list : list[i] \in T
  OBVIOUS
<1>4. \A i \in kept : i \in DOMAIN list /\ list[i].id[1] = "live"
  OBVIOUS
<1>. HIDE DEF kept
<1>5. c \in Nat
  BY <1>2, EachHasPlace, FS_CardinalityType
<1>6. \A n \in 1 .. c : Nth(kept, n) \in kept /\ Cardinality(UpToPlace(kept, Nth(kept, n))) = n
  BY <1>2, NthOf
<1>. HIDE DEF c
<1>7. left \in [1 .. c -> T]
  BY <1>3, <1>4, <1>6
<1>8. left \in Seq(T) /\ DOMAIN left = 1 .. c
  BY <1>5, <1>7
<1>9. \A i \in 1 .. c : left[i] = list[Nth(kept, i)]
  OBVIOUS
<1>. HIDE DEF left
<1>10. \A i \in DOMAIN left : \E j \in DOMAIN list : left[i] = list[j] /\ list[j].id[1] = "live"
  BY <1>4, <1>6, <1>8, <1>9
<1>11. ASSUME \A i, j \in DOMAIN list : list[i].id = list[j].id => i = j,
              NEW i \in DOMAIN left, NEW j \in DOMAIN left, left[i].id = left[j].id
       PROVE  i = j
  <2>1. Nth(kept, i) = Nth(kept, j)
    BY <1>4, <1>6, <1>8, <1>9, <1>11
  <2>. QED BY <1>6, <1>8, <2>1
<1>. QED BY <1>1, <1>8, <1>10, <1>11

NoneTwice(list) == \A i, j \in DOMAIN list : list[i].id = list[j].id => i = j

IdsApart(list, other) == \A i \in DOMAIN list, j \in DOMAIN other : list[i].id # other[j].id

LEMMA JoinedLists ==
  ASSUME NEW T, NEW s \in Seq(T), NEW t \in Seq(T)
  PROVE  /\ s \o t \in Seq(T)
         /\ \A i \in DOMAIN s : i \in DOMAIN (s \o t) /\ (s \o t)[i] = s[i]
         /\ \A i \in DOMAIN t : Len(s) + i \in DOMAIN (s \o t) /\ (s \o t)[Len(s) + i] = t[i]
         /\ \A i \in DOMAIN (s \o t) :
              \/ i \in DOMAIN s /\ (s \o t)[i] = s[i]
              \/ i - Len(s) \in DOMAIN t /\ (s \o t)[i] = t[i - Len(s)]
<1>1. Len(s) \in Nat /\ Len(t) \in Nat /\ DOMAIN s = 1 .. Len(s) /\ DOMAIN t = 1 .. Len(t)
  OBVIOUS
<1>2. s \o t \in Seq(T) /\ Len(s \o t) = Len(s) + Len(t) /\ DOMAIN (s \o t) = 1 .. (Len(s) + Len(t))
  BY <1>1
<1>3. \A i \in 1 .. (Len(s) + Len(t)) : (s \o t)[i] = IF i <= Len(s) THEN s[i] ELSE t[i - Len(s)]
  BY <1>1
<1>. DEFINE u == s \o t
<1>. HIDE DEF u
<1>4. DOMAIN u = 1 .. (Len(s) + Len(t))
      /\ \A i \in 1 .. (Len(s) + Len(t)) : u[i] = IF i <= Len(s) THEN s[i] ELSE t[i - Len(s)]
  BY <1>2, <1>3 DEF u
<1>5. \A i \in DOMAIN s : i \in DOMAIN u /\ u[i] = s[i]
  BY <1>1, <1>4
<1>6. ASSUME NEW i \in DOMAIN t
      PROVE  Len(s) + i \in DOMAIN u /\ u[Len(s) + i] = t[i]
  <2>1. i \in Nat /\ i >= 1 /\ i <= Len(t)
    BY <1>1
  <2>2. Len(s) + i \in 1 .. (Len(s) + Len(t)) /\ ~ (Len(s) + i <= Len(s)) /\ (Len(s) + i) - Len(s) = i
    BY <1>1, <2>1
  <2>. QED BY <1>4, <2>2
<1>7. ASSUME NEW i \in DOMAIN u
      PROVE  \/ i \in DOMAIN s /\ u[i] = s[i]
             \/ i - Len(s) \in DOMAIN t /\ u[i] = t[i - Len(s)]
  BY <1>1, <1>4, <1>7
<1>. QED BY <1>2, <1>5, <1>6, <1>7 DEF u

LEMMA JoinedApart ==
  ASSUME NEW T, NEW s \in Seq(T), NEW t \in Seq(T),
         NoneTwice(s), NoneTwice(t), IdsApart(s, t)
  PROVE  NoneTwice(s \o t)
<1>. DEFINE u == s \o t
<1>0. Len(s) \in Nat /\ DOMAIN u \subseteq Int
  BY JoinedLists
<1>1. \A i \in DOMAIN u :
        \/ i \in DOMAIN s /\ u[i] = s[i]
        \/ i - Len(s) \in DOMAIN t /\ u[i] = t[i - Len(s)]
  BY JoinedLists
<1>. HIDE DEF u
<1>2. SUFFICES ASSUME NEW i \in DOMAIN u, NEW j \in DOMAIN u, u[i].id = u[j].id
               PROVE  i = j
  BY DEF NoneTwice, u
<1>3. i \in Int /\ j \in Int
  BY <1>0
<1>4. CASE i \in DOMAIN s /\ u[i] = s[i] /\ j \in DOMAIN s /\ u[j] = s[j]
  BY <1>2, <1>4 DEF NoneTwice
<1>5. CASE i \in DOMAIN s /\ u[i] = s[i] /\ j - Len(s) \in DOMAIN t /\ u[j] = t[j - Len(s)]
  BY <1>2, <1>5 DEF IdsApart
<1>6. CASE i - Len(s) \in DOMAIN t /\ u[i] = t[i - Len(s)] /\ j \in DOMAIN s /\ u[j] = s[j]
  BY <1>2, <1>6 DEF IdsApart
<1>7. CASE i - Len(s) \in DOMAIN t /\ u[i] = t[i - Len(s)] /\ j - Len(s) \in DOMAIN t /\ u[j] = t[j - Len(s)]
  <2>1. i - Len(s) = j - Len(s)
    BY <1>2, <1>7 DEF NoneTwice
  <2>. QED BY <1>0, <1>3, <2>1
<1>. QED BY <1>1, <1>4, <1>5, <1>6, <1>7

-----------------------------------------------------------------------------
(***************************************************************************)
(* The alert list of a dashboard: what is predicted.                       *)
(***************************************************************************)
SimNames == {"NODE_01", "NODE_02", "NODE_03", "NODE_04", "NODE_05", "NODE_06"}

LEMMA SimNodeNames ==
  /\ Range(SimNode) = SimNames
  /\ IsFiniteSet(SimNames)
<1>1. DOMAIN SimNode = 1 .. 6
  BY DEF SimNode
<1>2. \A i \in 1 .. 6 : SimNode[i] \in SimNames
  BY DEF SimNode, SimNames
<1>3. \A n \in SimNames : \E i \in 1 .. 6 : SimNode[i] = n
  <2>1. SimNode[1] = "NODE_01" /\ SimNode[2] = "NODE_02" /\ SimNode[3] = "NODE_03"
        /\ SimNode[4] = "NODE_04" /\ SimNode[5] = "NODE_05" /\ SimNode[6] = "NODE_06"
    BY DEF SimNode
  <2>. QED BY <2>1 DEF SimNames
<1>4. Range(SimNode) = SimNames
  BY <1>1, <1>2, <1>3 DEF Range
<1>. DEFINE f == [i \in 1 .. 6 |-> SimNode[i]]
<1>5. f \in [1 .. 6 -> SimNames] /\ \A i \in 1 .. 6 : f[i] = SimNode[i]
  BY <1>2
<1>. HIDE DEF f
<1>6. f \in Surjection(1 .. 6, SimNames)
  BY <1>3, <1>5 DEF Surjection
<1>7. IsFiniteSet(SimNames)
  <2>1. IsFiniteSet(1 .. 6)
    <3>1. 1 \in Int /\ 6 \in Int
      OBVIOUS
    <3>. QED BY <3>1, FS_Interval
  <2>. QED BY <1>6, <2>1, FS_Surjection
<1>. QED BY <1>4, <1>7

LEMMA RampType ==
  ASSUME NEW r \in 0 .. 19
  PROVE  RampOf(r) \in 0 .. 100
<1>1. r % 10 \in 0 .. 9
  OBVIOUS
<1>2. \A i \in 1 .. 10 : Ramp[i] \in 0 .. 100
  BY DEF Ramp
<1>. QED BY <1>1, <1>2 DEF RampOf, RoundsPerPhase

\* A level says how severe it is at least or at most, rounding included.
LEMMA LevelsAre ==
  ASSUME NEW severity \in 0 .. 100, NEW level \in LevelsOf(severity)
  PROVE  /\ level \in {"GREEN", "YELLOW", "ORANGE", "RED"}
         /\ level = "GREEN" => severity <= 20
         /\ level = "YELLOW" => severity <= 60
         /\ level \in {"RED", "ORANGE"} => severity >= 60
<1>1. \A s \in 0 .. 100 :
        /\ s < 20 => LevelOf(s) = "GREEN"
        /\ s >= 20 /\ s < 60 => LevelOf(s) = "YELLOW"
        /\ s >= 60 /\ s < 80 => LevelOf(s) = "ORANGE"
        /\ s >= 80 => LevelOf(s) = "RED"
  <2>. TAKE s \in 0 .. 100
  <2>1. s < 20 => LevelOf(s) = "GREEN"
    BY DEF LevelOf
  <2>2. s >= 20 /\ s < 60 => LevelOf(s) = "YELLOW"
    BY DEF LevelOf
  <2>3. s >= 60 /\ s < 80 => LevelOf(s) = "ORANGE"
    BY DEF LevelOf
  <2>4. s >= 80 => LevelOf(s) = "RED"
    BY DEF LevelOf
  <2>. QED BY <2>1, <2>2, <2>3, <2>4
<1>2. CASE level = LevelOf(severity)
  BY <1>1, <1>2
<1>3. CASE \E below \in {20, 60, 80} \cap {severity} : level = LevelOf(below - 1)
  <2>1. severity \in {20, 60, 80} /\ level = LevelOf(severity - 1)
    BY <1>3
  <2>. QED BY <1>1, <2>1
<1>. QED BY <1>2, <1>3 DEF LevelsOf

LEMMA LiveIs ==
  ASSUME NEW p \in LivePrediction
  PROVE  /\ p \in PredictionType
         /\ p.level \in LevelsOf(p.severity)
<1>1. PICK severity \in LiveSeverity :
        \E class \in Class, level \in LevelsOf(severity) : p = Prediction(class, level, severity)
  BY DEF LivePrediction
<1>2. PICK class \in Class : \E level \in LevelsOf(severity) : p = Prediction(class, level, severity)
  BY <1>1
<1>3. PICK level \in LevelsOf(severity) : p = Prediction(class, level, severity)
  BY <1>2
<1>4. severity \in 0 .. 100
  BY AlertFeedAssumption
<1>5. level \in {"GREEN", "YELLOW", "ORANGE", "RED"}
  BY <1>4, LevelsAre
<1>. QED BY <1>3, <1>4, <1>5 DEF Prediction, PredictionType

LEMMA LiveType ==
  /\ LivePrediction \subseteq PredictionType
  /\ \A class \in DOMAIN DemoPrediction : DemoPrediction[class] \in PredictionType
<1>1. \A class \in DOMAIN DemoPrediction : DemoPrediction[class] \in PredictionType
  BY DEF DemoPrediction, Prediction, PredictionType, Class
<1>. QED BY <1>1, LiveIs

Bounded(ramp) ==
  /\ Severity(5, 15, ramp) \in 0 .. 20
  /\ Severity(14, 14, ramp) \in 0 .. 28
  /\ Severity(20, 58, ramp) \in 0 .. 100
  /\ Severity(15, 55, ramp) \in 0 .. 100
  /\ \A gain \in {80, 81} :
       /\ Severity(12, gain, ramp) \in 0 .. 100
       /\ ramp < 40 => Severity(12, gain, ramp) < 60
       /\ ramp >= 40 => Severity(12, gain, ramp) >= 44
  /\ ramp < 60 => Severity(20, 58, ramp) < 60 /\ Severity(15, 55, ramp) < 50
  /\ ramp >= 60 => Severity(20, 58, ramp) >= 48 /\ Severity(15, 55, ramp) >= 48
  /\ ramp >= 40 => Severity(15, 55, ramp) < Severity(12, 80, ramp)

LEMMA SeverityBounds ==
  ASSUME NEW ramp \in 0 .. 100
  PROVE  Bounded(ramp)
BY DEF Severity, Bounded

\* No figure is red without danger, none is calm that is greater than one
\* that is dangerous.
LEMMA SimPredictions ==
  ASSUME NEW r \in 0 .. 19, NEW n \in SimNames
  PROVE  /\ SimPrediction(n, r) \in PredictionType
         /\ ~ IsDanger(SimPrediction(n, r)) => SimPrediction(n, r).severity < 60
         /\ IsDanger(SimPrediction(n, r)) => SimPrediction(n, r).severity >= 44
         /\ SimPrediction(n, r).level = "GREEN" => SimPrediction(n, r).severity < 50
<1>. DEFINE ramp == RampOf(r)
<1>1. ramp \in 0 .. 100 /\ Bounded(ramp)
  BY RampType, SeverityBounds
<1>. HIDE DEF ramp
<1>2. SimPrediction(n, r) = IF IsPhaseA(r) THEN PhaseA(n, ramp) ELSE PhaseB(n, ramp)
  BY DEF SimPrediction, ramp
<1>3. n \in {"NODE_01", "NODE_02", "NODE_03", "NODE_04", "NODE_05", "NODE_06"}
  BY DEF SimNames
<1>. DEFINE p == SimPrediction(n, r)
            Good(q) == /\ q \in PredictionType
                       /\ ~ IsDanger(q) => q.severity < 60
                       /\ IsDanger(q) => q.severity >= 44
                       /\ q.level = "GREEN" => q.severity < 50
<1>4. ASSUME NEW class \in {"normal", "equipment_noise", "subsidence_risk"},
             NEW level \in {"GREEN", "YELLOW", "ORANGE", "RED"}, NEW s \in 0 .. 100,
             class = "subsidence_risk" \/ level \in {"RED", "ORANGE"} => s >= 44,
             ~ (class = "subsidence_risk" \/ level \in {"RED", "ORANGE"}) => s < 60,
             level = "GREEN" => s < 50
      PROVE  Good(Prediction(class, level, s))
  <2>. DEFINE q == Prediction(class, level, s)
  <2>1. q.class = class /\ q.level = level /\ q.severity = s /\ q \in PredictionType
    BY DEF Prediction, PredictionType, Class
  <2>. HIDE DEF q
  <2>2. IsDanger(q) <=> class = "subsidence_risk" \/ level \in {"RED", "ORANGE"}
    BY <2>1 DEF IsDanger
  <2>3. Good(q)
    BY <1>4, <2>1, <2>2
  <2>. QED BY <2>3 DEF q
<1>5. Good(Subsiding(ramp, 81)) /\ Good(Subsiding(ramp, 80)) /\ Good(Quiet)
  <2>. HIDE DEF Good
  <2>1. Good(Quiet)
    BY <1>4 DEF Quiet
  <2>2. ASSUME NEW gain \in {80, 81} PROVE Good(Subsiding(ramp, gain))
    <3>1. Severity(12, gain, ramp) \in 0 .. 100
          /\ (ramp < 40 => Severity(12, gain, ramp) < 60) /\ (ramp >= 40 => Severity(12, gain, ramp) >= 44)
      BY <1>1, <2>2 DEF Bounded
    <3>2. CASE ramp >= 65
      BY <1>1, <1>4, <3>1, <3>2 DEF Subsiding
    <3>3. CASE ramp >= 40 /\ ~ ramp >= 65
      BY <1>1, <1>4, <3>1, <3>3 DEF Subsiding
    <3>4. CASE ramp < 40
      BY <1>1, <1>4, <3>1, <3>4 DEF Subsiding
    <3>. QED BY <1>1, <3>2, <3>3, <3>4
  <2>. QED BY <2>1, <2>2
<1>. SUFFICES Good(p)
  OBVIOUS
<1>. HIDE DEF Good
<1>6. CASE IsPhaseA(r)
  <2>1. CASE n = "NODE_01"
    <3>1. p = Prediction("normal", "GREEN", Severity(5, 15, ramp))
      BY <1>2, <1>6, <2>1 DEF PhaseA
    <3>. QED BY <1>1, <1>4, <3>1 DEF Bounded
  <2>2. CASE n = "NODE_02"
    <3>1. p = Prediction("equipment_noise", "YELLOW", Severity(14, 14, ramp))
      BY <1>2, <1>6, <2>2 DEF PhaseA
    <3>. QED BY <1>1, <1>4, <3>1 DEF Bounded
  <2>3. CASE n \notin {"NODE_01", "NODE_02"}
    BY <1>2, <1>5, <1>6, <2>3 DEF PhaseA
  <2>. QED BY <2>1, <2>2, <2>3
<1>7. CASE ~ IsPhaseA(r)
  <2>1. CASE n = "NODE_04"
    <3>1. p = Prediction("equipment_noise", IF ramp >= 60 THEN "ORANGE" ELSE "YELLOW", Severity(20, 58, ramp))
      BY <1>2, <1>7, <2>1 DEF PhaseB
    <3>2. CASE ramp >= 60
      BY <1>1, <1>4, <3>1, <3>2 DEF Bounded
    <3>3. CASE ~ ramp >= 60
      BY <1>1, <1>4, <3>1, <3>3 DEF Bounded
    <3>. QED BY <3>2, <3>3
  <2>2. CASE n = "NODE_05"
    <3>1. p = Prediction("normal", IF ramp >= 60 THEN "ORANGE" ELSE "GREEN", Severity(15, 55, ramp))
      BY <1>2, <1>7, <2>2 DEF PhaseB
    <3>2. CASE ramp >= 60
      BY <1>1, <1>4, <3>1, <3>2 DEF Bounded
    <3>3. CASE ~ ramp >= 60
      BY <1>1, <1>4, <3>1, <3>3 DEF Bounded
    <3>. QED BY <3>2, <3>3
  <2>3. CASE n \notin {"NODE_04", "NODE_05"}
    BY <1>2, <1>5, <1>7, <2>3 DEF PhaseB
  <2>. QED BY <2>1, <2>2, <2>3
<1>. QED BY <1>6, <1>7

LEMMA CalmIsLess ==
  ASSUME NEW r \in 0 .. 19, NEW n \in SimNames, NEW m \in SimNames,
         IsDanger(SimPrediction(n, r)), SimPrediction(m, r).level = "GREEN"
  PROVE  SimPrediction(m, r).severity < SimPrediction(n, r).severity
<1>. DEFINE ramp == RampOf(r)
<1>1. ramp \in 0 .. 100 /\ Bounded(ramp)
  BY RampType, SeverityBounds
<1>. HIDE DEF ramp
<1>2. \A k \in SimNames : SimPrediction(k, r) = IF IsPhaseA(r) THEN PhaseA(k, ramp) ELSE PhaseB(k, ramp)
  BY DEF SimPrediction, ramp
<1>3. CASE IsPhaseA(r)
  <2>1. SimPrediction(m, r).severity <= 20
    <3>1. m = "NODE_01" => SimPrediction(m, r).severity \in 0 .. 20
      BY <1>1, <1>2, <1>3 DEF Bounded, PhaseA, Prediction
    <3>2. m # "NODE_02"
      BY <1>2, <1>3 DEF PhaseA, Prediction
    <3>3. m # "NODE_03"
      BY <1>2, <1>3 DEF PhaseA, Subsiding, Prediction
    <3>4. m \notin {"NODE_01", "NODE_02", "NODE_03"} => SimPrediction(m, r).severity = 2
      BY <1>2, <1>3 DEF PhaseA, Quiet, Prediction
    <3>. QED BY <3>1, <3>2, <3>3, <3>4
  <2>2. SimPrediction(n, r).severity >= 44
    BY SimPredictions
  <2>3. SimPrediction(m, r).severity \in 0 .. 100 /\ SimPrediction(n, r).severity \in 0 .. 100
    BY SimPredictions DEF PredictionType
  <2>. QED BY <2>1, <2>2, <2>3
<1>4. CASE ~ IsPhaseA(r)
  <2>1. n \in {"NODE_04", "NODE_05", "NODE_06"}
    BY <1>2, <1>4 DEF PhaseB, Quiet, Prediction, SimNames, IsDanger
  <2>2. m # "NODE_04" /\ m # "NODE_06"
    BY <1>2, <1>4 DEF PhaseB, Subsiding, Prediction
  <2>3. m # "NODE_05" => SimPrediction(m, r).severity = 2
    BY <1>2, <1>4, <2>2 DEF PhaseB, Quiet, Prediction, SimNames
  <2>4. m = "NODE_05" => ramp < 60 /\ SimPrediction(m, r).severity = Severity(15, 55, ramp)
    BY <1>1, <1>2, <1>4 DEF PhaseB, Prediction, SimNames
  <2>5. m = "NODE_05" => n = "NODE_06"
    BY <1>1, <1>2, <1>4, <2>1, <2>4 DEF PhaseB, Prediction, SimNames, IsDanger
  <2>6. n = "NODE_06" => ramp >= 40 /\ SimPrediction(n, r).severity = Severity(12, 80, ramp)
    BY <1>1, <1>2, <1>4 DEF PhaseB, Subsiding, Prediction, SimNames, IsDanger
  <2>7. SimPrediction(n, r).severity >= 44 /\ SimPrediction(n, r).severity \in 0 .. 100
    BY SimPredictions DEF PredictionType
  <2>. QED BY <1>1, <2>3, <2>4, <2>5, <2>6, <2>7 DEF Bounded
<1>. QED BY <1>3, <1>4

-----------------------------------------------------------------------------
(***************************************************************************)
(* The alert list.                                                         *)
(***************************************************************************)
Sent == LivePrediction \cup {DemoPrediction[class] : class \in DOMAIN DemoPrediction}

\* What was not sent is of one and the same simulated batch.
OneRound ==
  \E r \in 0 .. 19 : \A n \in Predicted : mlPredictions[n] \in Sent \cup {SimPrediction(n, r)}

LiveAreNumbered ==
  \A i \in DOMAIN alerts : alerts[i].id[1] = "live" => alerts[i].id[2] <= predicted

\* The alert of the first copy keeps the second from being raised.
CopyIsCovered ==
  secondCopy # None =>
    /\ secondCopy.fresh
    /\ \A i \in DOMAIN alerts : alerts[i].id = <<"live", predicted>> =>
         alerts[i].node = secondCopy.node /\ alerts[i].ml /\ alerts[i].fresh

FeedInv ==
  /\ FeedTypeOK
  /\ OneRound
  /\ LiveAreNumbered
  /\ ClocksAgree => NoneTwice(alerts) /\ CopyIsCovered

LEMMA ListIn ==
  ASSUME NEW S, NEW T, S \subseteq T, NEW list, Lists(list, S)
  PROVE  list \in Seq(T)
BY DEF Lists

\* An alert of the batch is of a kind of its own.
LEMMA SimMlAlertsAre ==
  ASSUME NEW r \in 0 .. 19
  PROVE  /\ IsFiniteSet(SimMlAlerts(r))
         /\ SimMlAlerts(r) \subseteq AlertType
         /\ \A a \in SimMlAlerts(r) : a.id = <<"ml", a.node>> /\ a.ml
         /\ \A a, b \in SimMlAlerts(r) : a.id = b.id => a = b
         /\ \A n \in SimNames : IsAlarming(SimPrediction(n, r)) => \E a \in SimMlAlerts(r) : a.node = n
<1>. DEFINE alert(n) == Alert(<<"ml", n>>, n, IsCritical(SimPrediction(n, r)), TRUE, TRUE)
            alarming == {n \in SimNames : IsAlarming(SimPrediction(n, r))}
            f == [n \in alarming |-> alert(n)]
<1>1. SimMlAlerts(r) = {alert(n) : n \in alarming}
  BY SimNodeNames DEF SimMlAlerts
<1>2. \A n \in SimNames :
        /\ alert(n).id = <<"ml", n>> /\ alert(n).node = n /\ alert(n).ml
        /\ alert(n) \in AlertType
  <2>. SUFFICES ASSUME NEW n \in SimNames
                PROVE  /\ alert(n).id = <<"ml", n>> /\ alert(n).node = n /\ alert(n).ml
                       /\ alert(n) \in AlertType
    OBVIOUS
  <2>1. <<"ml", n>> \in AlertId
    BY SimNodeNames DEF AlertId
  <2>2. IsCritical(SimPrediction(n, r)) \in BOOLEAN
    BY DEF IsCritical
  <2>. QED BY <2>1, <2>2, SimNodeNames DEF Alert, AlertType
<1>. HIDE DEF alert
<1>3. IsFiniteSet(alarming)
  BY SimNodeNames, FS_Subset
<1>4. f \in Surjection(alarming, {alert(n) : n \in alarming})
  BY DEF Surjection
<1>5. IsFiniteSet(SimMlAlerts(r))
  <2>. HIDE DEF f, alarming
  <2>. QED BY <1>1, <1>3, <1>4, FS_Surjection
<1>. QED BY <1>1, <1>2, <1>5

LEMMA SimHwAlertsAre ==
  ASSUME NEW r \in 0 .. 19
  PROVE  /\ IsFiniteSet(SimHwAlerts(r))
         /\ SimHwAlerts(r) \subseteq AlertType
         /\ \A a \in SimHwAlerts(r) : a.id[1] \in {"tilt", "displacement", "gas", "water"}
         /\ \A a, b \in SimHwAlerts(r) : a.id = b.id => a = b
<1>. DEFINE ramp == RampOf(r)
            breach(sensor, n, critical) == Alert(<<sensor, n>>, n, critical, FALSE, FALSE)
<1>. HIDE DEF ramp
<1>1. ASSUME NEW sensor \in {"tilt", "displacement", "gas", "water"}, NEW n \in SimNames, NEW critical \in BOOLEAN
      PROVE  breach(sensor, n, critical) \in AlertType /\ breach(sensor, n, critical).id = <<sensor, n>>
  <2>1. <<sensor, n>> \in AlertId
    BY SimNodeNames DEF AlertId
  <2>. QED BY <2>1, SimNodeNames DEF Alert, AlertType
<1>2. SimHwAlerts(r) =
        IF IsPhaseA(r)
        THEN {breach("tilt", "NODE_03", ramp >= 65), breach("displacement", "NODE_03", ramp >= 65)}
        ELSE {breach("gas", "NODE_04", ramp >= 60), breach("water", "NODE_05", FALSE), breach("tilt", "NODE_06", ramp >= 65)}
  BY DEF SimHwAlerts, ramp
<1>. HIDE DEF breach
<1>3. \A x, y, z : IsFiniteSet({x, y}) /\ IsFiniteSet({x, y, z})
  <2>. TAKE x, y, z
  <2>1. IsFiniteSet({x})
    BY FS_Singleton
  <2>2. IsFiniteSet({x} \cup {y})
    BY <2>1, FS_AddElement
  <2>3. IsFiniteSet(({x} \cup {y}) \cup {z})
    BY <2>2, FS_AddElement
  <2>4. {x} \cup {y} = {x, y} /\ ({x} \cup {y}) \cup {z} = {x, y, z}
    OBVIOUS
  <2>. QED BY <2>2, <2>3, <2>4
<1>4. (ramp >= 65) \in BOOLEAN /\ (ramp >= 60) \in BOOLEAN
  OBVIOUS
<1>5. CASE IsPhaseA(r)
  <2>. DEFINE a == breach("tilt", "NODE_03", ramp >= 65)
              b == breach("displacement", "NODE_03", ramp >= 65)
  <2>1. /\ a \in AlertType /\ a.id = <<"tilt", "NODE_03">>
        /\ b \in AlertType /\ b.id = <<"displacement", "NODE_03">>
    BY <1>1, <1>4 DEF SimNames
  <2>2. SimHwAlerts(r) = {a, b}
    BY <1>2, <1>5
  <2>. HIDE DEF a, b
  <2>3. IsFiniteSet({a, b})
    BY <1>3
  <2>4. \A x \in {a, b} : x.id[1] \in {"tilt", "displacement", "gas", "water"}
    BY <2>1
  <2>5. \A x, y \in {a, b} : x.id = y.id => x = y
    BY <2>1
  <2>. QED BY <2>1, <2>2, <2>3, <2>4, <2>5
<1>6. CASE ~ IsPhaseA(r)
  <2>. DEFINE a == breach("gas", "NODE_04", ramp >= 60)
              b == breach("water", "NODE_05", FALSE)
              c == breach("tilt", "NODE_06", ramp >= 65)
  <2>1. /\ a \in AlertType /\ a.id = <<"gas", "NODE_04">>
        /\ b \in AlertType /\ b.id = <<"water", "NODE_05">>
        /\ c \in AlertType /\ c.id = <<"tilt", "NODE_06">>
    BY <1>1, <1>4 DEF SimNames
  <2>2. SimHwAlerts(r) = {a, b, c}
    BY <1>2, <1>6
  <2>. HIDE DEF a, b, c
  <2>3. IsFiniteSet({a, b, c})
    BY <1>3
  <2>4. \A x \in {a, b, c} : x.id[1] \in {"tilt", "displacement", "gas", "water"}
    BY <2>1
  <2>5. \A x, y \in {a, b, c} : x.id = y.id => x = y
    BY <2>1
  <2>. QED BY <2>1, <2>2, <2>3, <2>4, <2>5
<1>. QED BY <1>5, <1>6

\* The head of a list that grew, and the rest of it as it was.
Grown(list, old, a) ==
  /\ DOMAIN list = 1 .. Len(list) /\ Len(list) \in Nat /\ Len(list) >= 1
  /\ list[1] = a
  /\ \A i \in DOMAIN list : i = 1 \/ (i - 1 \in DOMAIN old /\ list[i] = old[i - 1])

LEMMA CutGrows ==
  ASSUME NEW T, NEW old \in Seq(T), NEW a \in T
  PROVE  Cut(<<a>> \o old) \in Seq(T) /\ Grown(Cut(<<a>> \o old), old, a)
<1>. DEFINE s == <<a>> \o old
            m == IF Len(s) > MaxAlerts THEN MaxAlerts ELSE Len(s)
            cut == SubSeq(s, 1, m)
<1>1. Len(old) \in Nat /\ s \in Seq(T) /\ Len(s) = Len(old) + 1 /\ s[1] = a
      /\ \A i \in 2 .. (Len(old) + 1) : s[i] = old[i - 1]
  OBVIOUS
<1>. HIDE DEF s
<1>2. m \in Nat /\ m >= 1 /\ m <= Len(s)
  BY <1>1, AlertFeedAssumption
<1>. HIDE DEF m
<1>3. cut \in Seq(T) /\ Len(cut) = m /\ \A i \in 1 .. m : cut[i] = s[i]
  BY <1>1, <1>2
<1>4. Cut(<<a>> \o old) = cut
  BY DEF Cut, s, m
<1>. HIDE DEF cut
<1>5. DOMAIN cut = 1 .. m
  BY <1>2, <1>3
<1>6. ASSUME NEW i \in DOMAIN cut, i # 1 PROVE i - 1 \in DOMAIN old /\ cut[i] = old[i - 1]
  <2>1. i \in 2 .. (Len(old) + 1) /\ i \in 1 .. m
    BY <1>1, <1>2, <1>5, <1>6
  <2>2. cut[i] = old[i - 1]
    BY <1>1, <1>3, <2>1
  <2>. QED BY <1>1, <2>1, <2>2
<1>7. DOMAIN cut = 1 .. Len(cut) /\ Len(cut) \in Nat /\ Len(cut) >= 1 /\ cut[1] = a
  BY <1>1, <1>2, <1>3, <1>5
<1>. QED BY <1>3, <1>4, <1>6, <1>7 DEF Grown

LEMMA GrownApart ==
  ASSUME NEW list, NEW old, NEW a, Grown(list, old, a), NoneTwice(old),
         DOMAIN old \subseteq Nat, \A i \in DOMAIN old : old[i].id # a.id
  PROVE  NoneTwice(list)
<1>. SUFFICES ASSUME NEW i \in DOMAIN list, NEW j \in DOMAIN list, list[i].id = list[j].id
              PROVE  i = j
  BY DEF NoneTwice
<1>1. i \in Nat /\ j \in Nat
  BY DEF Grown
<1>2. i # 1 /\ j # 1 => i - 1 = j - 1
  BY DEF Grown, NoneTwice
<1>3. i = 1 <=> j = 1
  BY DEF Grown
<1>. QED BY <1>1, <1>2, <1>3

LEMMA DispatchKeeps ==
  ASSUME FeedInv, NEW id \in Nat, NEW n \in SimNames, NEW p \in Sent, NEW fresh \in BOOLEAN,
         DispatchMlPrediction(id, n, p, fresh), predicted <= id, predicted' = id
  PROVE  /\ DOMAIN mlPredictions' \subseteq SimNames
         /\ \A m \in DOMAIN mlPredictions' : mlPredictions'[m] \in PredictionType
         /\ OneRound'
         /\ alerts' \in Seq(AlertType)
         /\ LiveAreNumbered'
         /\ \/ alerts' = alerts
            \/ /\ ~ IsRecent(n)
               /\ Grown(alerts', alerts, Alert(<<"live", id>>, n, IsCritical(p), TRUE, fresh))
<1>. DEFINE a == Alert(<<"live", id>>, n, IsCritical(p), TRUE, fresh)
<1>0. p \in PredictionType
  BY LiveType DEF Sent
<1>1. /\ DOMAIN mlPredictions' = {n} \cup DOMAIN mlPredictions
      /\ mlPredictions'[n] = p
      /\ \A m \in DOMAIN mlPredictions : m # n => mlPredictions'[m] = mlPredictions[m]
  BY DEF DispatchMlPrediction, Replaced, Only
<1>2. DOMAIN mlPredictions \subseteq SimNames /\ \A m \in DOMAIN mlPredictions : mlPredictions[m] \in PredictionType
  BY SimNodeNames DEF FeedInv, FeedTypeOK
<1>3. OneRound'
  <2>1. PICK r \in 0 .. 19 : \A m \in Predicted : mlPredictions[m] \in Sent \cup {SimPrediction(m, r)}
    BY DEF FeedInv, OneRound
  <2>2. \A m \in DOMAIN mlPredictions' : mlPredictions'[m] \in Sent \cup {SimPrediction(m, r)}
    BY <1>1, <2>1 DEF Predicted
  <2>. QED BY <2>2 DEF OneRound, Predicted
<1>4. alerts \in Seq(AlertType) /\ predicted \in Nat
  BY DEF FeedInv, FeedTypeOK
<1>5. a \in AlertType /\ a.id = <<"live", id>>
  <2>1. <<"live", id>> \in AlertId
    BY DEF AlertId
  <2>2. IsCritical(p) \in BOOLEAN
    BY DEF IsCritical
  <2>. QED BY <2>1, <2>2, SimNodeNames DEF Alert, AlertType
<1>. HIDE DEF a
<1>6. CASE alerts' = alerts
  <2>1. LiveAreNumbered'
    <3>1. \A i \in DOMAIN alerts : alerts[i].id \in AlertId
      <4>1. \A i \in DOMAIN alerts : alerts[i] \in AlertType
        BY <1>4
      <4>. QED BY <4>1 DEF AlertType
    <3>2. \A x \in AlertId : x[1] = "live" => x[2] \in Nat
      BY DEF AlertId
    <3>. QED BY <1>4, <1>6, <3>1, <3>2 DEF LiveAreNumbered, FeedInv
  <2>. QED BY <1>0, <1>1, <1>2, <1>3, <1>4, <1>6, <2>1
<1>7. CASE alerts' # alerts
  <2>1. ~ IsRecent(n) /\ alerts' = Cut(<<a>> \o alerts)
    BY <1>7 DEF DispatchMlPrediction, a
  <2>2. alerts' \in Seq(AlertType) /\ Grown(alerts', alerts, a)
    BY <1>4, <1>5, <2>1, CutGrows
  <2>3. LiveAreNumbered'
    <3>1. \A i \in DOMAIN alerts : alerts[i].id \in AlertId
      <4>1. \A i \in DOMAIN alerts : alerts[i] \in AlertType
        BY <1>4
      <4>. QED BY <4>1 DEF AlertType
    <3>2. \A x \in AlertId : x[1] = "live" => x[2] \in Nat
      BY DEF AlertId
    <3>3. \A i \in DOMAIN alerts : alerts[i].id[1] = "live" => alerts[i].id[2] <= id
      BY <1>4, <3>1, <3>2 DEF LiveAreNumbered, FeedInv
    <3>4. \A i \in DOMAIN alerts' : alerts'[i].id[1] = "live" => alerts'[i].id[2] <= id
      BY <1>5, <2>2, <3>3 DEF Grown
    <3>. QED BY <3>4 DEF LiveAreNumbered
  <2>. QED BY <1>0, <1>1, <1>2, <1>3, <2>1, <2>2, <2>3 DEF a
<1>. QED BY <1>6, <1>7

LEMMA BatchKeeps ==
  ASSUME FeedInv, GenerateSimBatch, SocketTypeOK'
  PROVE  FeedInv'
<1>. DEFINE r == batchRound
            ml == SetToSeq(SimMlAlerts(r))
            hw == SetToSeq(SimHwAlerts(r))
            kept == WithoutSimulated(alerts)
<1>0. r \in 0 .. 19 /\ alerts \in Seq(AlertType)
  BY DEF FeedInv, FeedTypeOK, RoundsPerPhase
<1>1. /\ ml \in Seq(AlertType) /\ NoneTwice(ml)
      /\ \A i \in DOMAIN ml : ml[i].id[1] = "ml"
  <2>1. Lists(ml, SimMlAlerts(r))
    BY <1>0, SimMlAlertsAre, SetToSeqLists
  <2>. HIDE DEF ml
  <2>2. \A i \in DOMAIN ml : ml[i] \in SimMlAlerts(r)
    BY <2>1 DEF Lists
  <2>3. ml \in Seq(AlertType)
    <3>1. SimMlAlerts(r) \subseteq AlertType
      BY <1>0, SimMlAlertsAre
    <3>. QED BY <2>1, <3>1, ListIn
  <2>. HIDE DEF r
  <2>4. \A x \in SimMlAlerts(r) : x.id = <<"ml", x.node>>
    BY <1>0, SimMlAlertsAre
  <2>5. \A x, y \in SimMlAlerts(r) : x.id = y.id => x = y
    BY <1>0, SimMlAlertsAre
  <2>6. \A i \in DOMAIN ml : ml[i].id[1] = "ml"
    BY <2>2, <2>4
  <2>7. NoneTwice(ml)
    BY <2>1, <2>2, <2>5 DEF Lists, NoneTwice
  <2>. QED BY <2>3, <2>6, <2>7
<1>2. /\ hw \in Seq(AlertType) /\ NoneTwice(hw)
      /\ \A i \in DOMAIN hw : hw[i].id[1] \in {"tilt", "displacement", "gas", "water"}
  <2>1. Lists(hw, SimHwAlerts(r))
    BY <1>0, SimHwAlertsAre, SetToSeqLists
  <2>. HIDE DEF hw
  <2>2. \A i \in DOMAIN hw : hw[i] \in SimHwAlerts(r)
    BY <2>1 DEF Lists
  <2>3. hw \in Seq(AlertType)
    <3>1. SimHwAlerts(r) \subseteq AlertType
      BY <1>0, SimHwAlertsAre
    <3>. QED BY <2>1, <3>1, ListIn
  <2>. HIDE DEF r
  <2>. QED BY <1>0, <2>1, <2>2, <2>3, SimHwAlertsAre DEF Lists, NoneTwice
<1>3. /\ kept \in Seq(AlertType)
      /\ \A i \in DOMAIN kept : \E j \in DOMAIN alerts : kept[i] = alerts[j] /\ alerts[j].id[1] = "live"
      /\ NoneTwice(alerts) => NoneTwice(kept)
  <2>1. \A x \in AlertType : x.id \in AlertId
    BY DEF AlertType
  <2>. QED BY <1>0, <2>1, WithoutSimulatedType DEF NoneTwice
<1>4. alerts' = (ml \o hw) \o kept
  BY <1>1, <1>2, <1>3 DEF GenerateSimBatch
<1>. HIDE DEF ml, hw, kept
<1>5. ml \o hw \in Seq(AlertType)
      /\ \A i \in DOMAIN (ml \o hw) : (ml \o hw)[i].id[1] \in {"ml", "tilt", "displacement", "gas", "water"}
  BY <1>1, <1>2, JoinedLists
<1>6. NoneTwice(ml \o hw)
  <2>1. IdsApart(ml, hw)
    BY <1>1, <1>2 DEF IdsApart
  <2>. QED BY <1>1, <1>2, <2>1, JoinedApart
<1>. DEFINE batch == ml \o hw
<1>. HIDE DEF batch
<1>7. alerts' \in Seq(AlertType)
      /\ \A i \in DOMAIN alerts' : alerts'[i].id[1] = "live" =>
           \E j \in DOMAIN alerts : alerts'[i] = alerts[j]
  <2>1. batch \in Seq(AlertType)
        /\ \A i \in DOMAIN batch : batch[i].id[1] \in {"ml", "tilt", "displacement", "gas", "water"}
    BY <1>5 DEF batch
  <2>2. alerts' = batch \o kept
    BY <1>4 DEF batch
  <2>3. batch \o kept \in Seq(AlertType)
    BY <1>3, <2>1, JoinedLists
  <2>4. ASSUME NEW i \in DOMAIN (batch \o kept), (batch \o kept)[i].id[1] = "live"
        PROVE  \E j \in DOMAIN alerts : (batch \o kept)[i] = alerts[j]
    <3>1. \/ i \in DOMAIN batch /\ (batch \o kept)[i] = batch[i]
          \/ i - Len(batch) \in DOMAIN kept /\ (batch \o kept)[i] = kept[i - Len(batch)]
      BY <1>3, <2>1, JoinedLists
    <3>2. ~ (i \in DOMAIN batch /\ (batch \o kept)[i] = batch[i])
      BY <2>1, <2>4
    <3>. QED BY <1>3, <3>1, <3>2
  <2>. QED BY <2>2, <2>3, <2>4
<1>8. NoneTwice(alerts) => NoneTwice(alerts')
  <2>1. batch \in Seq(AlertType) /\ NoneTwice(batch)
        /\ \A i \in DOMAIN batch : batch[i].id[1] \in {"ml", "tilt", "displacement", "gas", "water"}
    BY <1>5, <1>6 DEF batch
  <2>2. alerts' = batch \o kept
    BY <1>4 DEF batch
  <2>3. IdsApart(batch, kept)
    BY <1>3, <2>1 DEF IdsApart
  <2>. QED BY <1>3, <2>1, <2>2, <2>3, JoinedApart
<1>9. /\ DOMAIN mlPredictions' = SimNames
      /\ \A n \in SimNames : mlPredictions'[n] = SimPrediction(n, r)
  <2>1. DOMAIN mlPredictions \subseteq SimNames
    BY SimNodeNames DEF FeedInv, FeedTypeOK
  <2>2. mlPredictions' = Replaced(mlPredictions, [n \in SimNames |-> SimPrediction(n, r)])
    BY SimNodeNames DEF GenerateSimBatch
  <2>. QED BY <2>1, <2>2 DEF Replaced
<1>10. FeedTypeOK'
  <2>1. \A n \in DOMAIN mlPredictions' : mlPredictions'[n] \in PredictionType
    BY <1>0, <1>9, SimPredictions
  <2>2. batchRound' \in 0 .. (2 * RoundsPerPhase - 1)
    BY <1>0 DEF GenerateSimBatch, RoundsPerPhase
  <2>. QED BY <1>7, <1>9, <2>1, <2>2, SimNodeNames DEF GenerateSimBatch, FeedInv, FeedTypeOK
<1>11. OneRound'
  BY <1>0, <1>9 DEF OneRound, Predicted
<1>12. UNCHANGED <<predicted, secondCopy>>
  BY DEF GenerateSimBatch
<1>13. LiveAreNumbered'
  BY <1>7, <1>12 DEF FeedInv, LiveAreNumbered
<1>14. ClocksAgree => CopyIsCovered'
  <2>1. ASSUME ClocksAgree, secondCopy # None, NEW i \in DOMAIN alerts', alerts'[i].id = <<"live", predicted>>
        PROVE  alerts'[i].node = secondCopy.node /\ alerts'[i].ml /\ alerts'[i].fresh
    <3>1. alerts'[i].id[1] = "live"
      BY <2>1
    <3>2. PICK j \in DOMAIN alerts : alerts'[i] = alerts[j]
      BY <1>7, <3>1
    <3>. QED BY <2>1, <3>2 DEF FeedInv, CopyIsCovered
  <2>. QED BY <1>12, <2>1 DEF FeedInv, CopyIsCovered
<1>. QED BY <1>8, <1>10, <1>11, <1>13, <1>14 DEF FeedInv

\* The number of the next prediction is of no alert.
LEMMA NewNumber ==
  ASSUME FeedInv, NEW i \in DOMAIN alerts
  PROVE  alerts[i].id # <<"live", predicted + 1>>
<1>. SUFFICES ASSUME alerts[i].id = <<"live", predicted + 1>> PROVE FALSE
  OBVIOUS
<1>1. alerts[i].id[1] = "live" /\ alerts[i].id[2] = predicted + 1
  OBVIOUS
<1>2. predicted \in Nat /\ alerts[i].id[2] <= predicted
  BY <1>1 DEF FeedInv, FeedTypeOK, LiveAreNumbered
<1>. QED BY <1>1, <1>2

\* A new prediction, of the backend or made up: its copy, if any, is fresh.
LEMMA NewPredictionKeeps ==
  ASSUME FeedInv, NEW n \in SimNames, NEW p \in Sent, NEW fresh \in BOOLEAN,
         predicted' = predicted + 1, DispatchMlPrediction(predicted', n, p, fresh),
         UNCHANGED <<simulating, toggles, batchRound>>,
         ClocksAgree => fresh, SocketTypeOK',
         secondCopy' = None \/ /\ secondCopy' \in [node : LiveNode, prediction : LivePrediction, fresh : BOOLEAN]
                               /\ secondCopy'.node = n /\ secondCopy'.fresh = fresh
  PROVE  FeedInv'
<1>. DEFINE a == Alert(<<"live", predicted'>>, n, IsCritical(p), TRUE, fresh)
<1>0. predicted \in Nat /\ predicted' \in Nat /\ predicted <= predicted' /\ alerts \in Seq(AlertType)
  BY DEF FeedInv, FeedTypeOK
<1>1. /\ DOMAIN mlPredictions' \subseteq SimNames
      /\ \A m \in DOMAIN mlPredictions' : mlPredictions'[m] \in PredictionType
      /\ OneRound'
      /\ alerts' \in Seq(AlertType)
      /\ LiveAreNumbered'
      /\ alerts' = alerts \/ Grown(alerts', alerts, a)
  BY <1>0, DispatchKeeps
<1>2. FeedTypeOK'
  <2>1. secondCopy' # None => secondCopy' \in [node : LiveNode, prediction : LivePrediction, fresh : BOOLEAN]
    OBVIOUS
  <2>. QED BY <1>0, <1>1, <2>1, SimNodeNames DEF FeedInv, FeedTypeOK
<1>3. a.id = <<"live", predicted + 1>> /\ a.node = n /\ a.ml /\ a.fresh = fresh
  BY DEF Alert
<1>. HIDE DEF a
<1>4. \A i \in DOMAIN alerts : alerts[i].id # <<"live", predicted + 1>>
  BY NewNumber
<1>5. ClocksAgree => NoneTwice(alerts')
  <2>1. DOMAIN alerts \subseteq Nat
    BY <1>0
  <2>. QED BY <1>1, <1>3, <1>4, <2>1, GrownApart DEF FeedInv
<1>6. ASSUME ClocksAgree PROVE CopyIsCovered'
  <2>1. ASSUME NEW i \in DOMAIN alerts', alerts'[i].id = <<"live", predicted + 1>>
        PROVE  alerts'[i] = a
    <3>1. CASE alerts' = alerts
      BY <1>4, <2>1, <3>1
    <3>2. CASE Grown(alerts', alerts, a)
      BY <1>4, <2>1, <3>2 DEF Grown
    <3>. QED BY <1>1, <3>1, <3>2
  <2>2. secondCopy' # None => secondCopy'.fresh /\ secondCopy'.node = n
    BY <1>6
  <2>. QED BY <1>3, <1>6, <2>1, <2>2 DEF CopyIsCovered
<1>. QED BY <1>1, <1>2, <1>5, <1>6 DEF FeedInv

LEMMA SecondCopyKeeps ==
  ASSUME FeedInv, ReceiveSecondCopy, SocketTypeOK'
  PROVE  FeedInv'
<1>. DEFINE n == secondCopy.node
            p == secondCopy.prediction
            a == Alert(<<"live", predicted>>, n, IsCritical(p), TRUE, secondCopy.fresh)
<1>0. /\ predicted \in Nat /\ predicted' = predicted /\ alerts \in Seq(AlertType)
      /\ secondCopy' = None /\ UNCHANGED <<simulating, toggles, batchRound>>
  BY DEF FeedInv, FeedTypeOK, ReceiveSecondCopy
<1>1. n \in SimNames /\ p \in Sent /\ secondCopy.fresh \in BOOLEAN
  <2>1. secondCopy \in [node : LiveNode, prediction : LivePrediction, fresh : BOOLEAN]
    BY DEF FeedInv, FeedTypeOK, ReceiveSecondCopy
  <2>. QED BY <2>1, SimNodeNames, AlertFeedAssumption DEF Sent
<1>2. DispatchMlPrediction(predicted, n, p, secondCopy.fresh)
  BY DEF ReceiveSecondCopy
<1>. HIDE DEF n, p
<1>3. /\ DOMAIN mlPredictions' \subseteq SimNames
      /\ \A m \in DOMAIN mlPredictions' : mlPredictions'[m] \in PredictionType
      /\ OneRound'
      /\ alerts' \in Seq(AlertType)
      /\ LiveAreNumbered'
      /\ alerts' = alerts \/ (~ IsRecent(n) /\ Grown(alerts', alerts, a))
  <2>. DEFINE fresh == secondCopy.fresh
  <2>. HIDE DEF fresh
  <2>1. predicted <= predicted /\ fresh \in BOOLEAN /\ DispatchMlPrediction(predicted, n, p, fresh)
    BY <1>0, <1>1, <1>2 DEF fresh
  <2>2. /\ DOMAIN mlPredictions' \subseteq SimNames
        /\ \A m \in DOMAIN mlPredictions' : mlPredictions'[m] \in PredictionType
        /\ OneRound'
        /\ alerts' \in Seq(AlertType)
        /\ LiveAreNumbered'
        /\ \/ alerts' = alerts
           \/ ~ IsRecent(n) /\ Grown(alerts', alerts, Alert(<<"live", predicted>>, n, IsCritical(p), TRUE, fresh))
    BY <1>0, <1>1, <2>1, DispatchKeeps
  <2>. QED BY <2>2 DEF fresh
<1>4. FeedTypeOK'
  BY <1>0, <1>3, SimNodeNames DEF FeedInv, FeedTypeOK
<1>5. ASSUME ClocksAgree PROVE NoneTwice(alerts')
  <2>1. NoneTwice(alerts) /\ CopyIsCovered /\ DOMAIN alerts \subseteq Nat
    BY <1>0, <1>5 DEF FeedInv
  <2>2. CASE alerts' = alerts
    BY <2>1, <2>2
  <2>3. CASE ~ IsRecent(n) /\ Grown(alerts', alerts, a)
    <3>1. \A i \in DOMAIN alerts : alerts[i].id # <<"live", predicted>>
      BY <2>1, <2>3 DEF CopyIsCovered, IsRecent, ReceiveSecondCopy, n
    <3>2. a.id = <<"live", predicted>>
      BY DEF Alert
    <3>. HIDE DEF a
    <3>. QED BY <2>1, <2>3, <3>1, <3>2, GrownApart
  <2>. QED BY <1>3, <2>2, <2>3
<1>6. CopyIsCovered'
  BY <1>0 DEF CopyIsCovered
<1>. QED BY <1>3, <1>4, <1>5, <1>6 DEF FeedInv

LEMMA AgeKeeps ==
  ASSUME FeedInv, AlertsAge, SocketTypeOK'
  PROVE  FeedInv'
<1>0. /\ alerts \in Seq(AlertType) /\ secondCopy' = None
      /\ alerts' = [i \in DOMAIN alerts |-> [alerts[i] EXCEPT !.fresh = FALSE]]
      /\ UNCHANGED <<simulating, toggles, batchRound, mlPredictions, predicted>>
  BY DEF FeedInv, FeedTypeOK, AlertsAge
<1>1. \A i \in DOMAIN alerts : alerts[i] \in AlertType /\ alerts'[i] \in AlertType /\ alerts'[i].id = alerts[i].id
  <2>1. \A i \in DOMAIN alerts : alerts[i] \in AlertType
    BY <1>0
  <2>. QED BY <1>0, <2>1 DEF AlertType
<1>2. DOMAIN alerts' = DOMAIN alerts /\ alerts' \in Seq(AlertType)
  <2>1. DOMAIN alerts = 1 .. Len(alerts) /\ Len(alerts) \in Nat /\ DOMAIN alerts' = DOMAIN alerts
    BY <1>0
  <2>2. alerts' \in [1 .. Len(alerts) -> AlertType]
    BY <1>0, <1>1, <2>1
  <2>. QED BY <2>1, <2>2
<1>3. FeedTypeOK' /\ OneRound'
  BY <1>0, <1>2 DEF FeedInv, FeedTypeOK, OneRound, Predicted
<1>4. LiveAreNumbered'
  BY <1>0, <1>1, <1>2 DEF FeedInv, LiveAreNumbered
<1>5. ClocksAgree => NoneTwice(alerts')
  BY <1>1, <1>2 DEF FeedInv, NoneTwice
<1>6. CopyIsCovered'
  BY <1>0 DEF CopyIsCovered
<1>. QED BY <1>3, <1>4, <1>5, <1>6 DEF FeedInv

\* An empty list has no two alerts, and no alert of a copy.
LEMMA EmptyKeeps ==
  ASSUME FeedInv, alerts' = <<>>, UNCHANGED <<predicted, secondCopy>>, SocketTypeOK',
         simulating' \in BOOLEAN, toggles' \in Nat, batchRound' \in {0, batchRound},
         mlPredictions' \in {<<>>, mlPredictions}
  PROVE  FeedInv'
<1>1. FeedTypeOK'
  <2>1. batchRound' \in 0 .. (2 * RoundsPerPhase - 1)
    BY DEF FeedInv, FeedTypeOK, RoundsPerPhase
  <2>2. DOMAIN mlPredictions' \subseteq Range(SimNode) /\ \A n \in DOMAIN mlPredictions' : mlPredictions'[n] \in PredictionType
    BY DEF FeedInv, FeedTypeOK
  <2>3. alerts' \in Seq(AlertType)
    OBVIOUS
  <2>. QED BY <2>1, <2>2, <2>3 DEF FeedInv, FeedTypeOK
<1>2. OneRound'
  <2>1. CASE mlPredictions' = mlPredictions
    BY <2>1 DEF FeedInv, OneRound, Predicted
  <2>2. CASE mlPredictions' = <<>>
    <3>1. \A n \in DOMAIN mlPredictions' : mlPredictions'[n] \in Sent \cup {SimPrediction(n, 0)}
      BY <2>2
    <3>. QED BY <3>1 DEF OneRound, Predicted
  <2>. QED BY <2>1, <2>2
<1>3. LiveAreNumbered' /\ NoneTwice(alerts')
  BY DEF LiveAreNumbered, NoneTwice
<1>4. ClocksAgree => CopyIsCovered'
  BY DEF FeedInv, CopyIsCovered
<1>. QED BY <1>1, <1>2, <1>3, <1>4 DEF FeedInv

LEMMA StartKeeps ==
  ASSUME FeedInv, NEW event \in ScenarioEvent, StartWith(event), SocketTypeOK'
  PROVE  FeedInv'
<1>. DEFINE p == DemoPrediction[event.class]
            a == Alert(<<"live", predicted'>>, event.node, IsCritical(p), TRUE, TRUE)
<1>0. event.node \in SimNames /\ event.class \in DOMAIN DemoPrediction
  BY DEF ScenarioEvent, DemoPrediction, SimNames
<1>1. p \in Sent /\ p \in PredictionType
  BY <1>0, LiveType DEF Sent
<1>2. /\ toggles' = toggles + 1 /\ predicted' = predicted + 1 /\ simulating' = TRUE /\ batchRound' = 0
      /\ mlPredictions' = Only(event.node, p) /\ secondCopy' = None
      /\ alerts' = IF IsAlarming(p) THEN <<a>> ELSE <<>>
  BY DEF StartWith
<1>3. toggles \in Nat /\ predicted \in Nat
  BY DEF FeedInv, FeedTypeOK
<1>4. a \in AlertType /\ a.id = <<"live", predicted'>>
  <2>1. <<"live", predicted'>> \in AlertId
    BY <1>2, <1>3 DEF AlertId
  <2>2. IsCritical(p) \in BOOLEAN
    BY DEF IsCritical
  <2>. QED BY <1>0, <2>1, <2>2, SimNodeNames DEF Alert, AlertType
<1>. HIDE DEF p, a
<1>5. /\ alerts' \in Seq(AlertType)
      /\ \A i \in DOMAIN alerts' : i = 1 /\ alerts'[i] = a
  <2>1. CASE IsAlarming(p)
    BY <1>2, <1>4, <2>1
  <2>2. CASE ~ IsAlarming(p)
    BY <1>2, <2>2
  <2>. QED BY <2>1, <2>2
<1>6. DOMAIN mlPredictions' = {event.node} /\ mlPredictions'[event.node] = p
  BY <1>2 DEF Only
<1>7. FeedTypeOK'
  <2>1. simulating' \in BOOLEAN /\ toggles' \in Nat /\ predicted' \in Nat
    BY <1>2, <1>3
  <2>2. batchRound' \in 0 .. (2 * RoundsPerPhase - 1)
    BY <1>2 DEF RoundsPerPhase
  <2>3. DOMAIN mlPredictions' \subseteq Range(SimNode) /\ \A n \in DOMAIN mlPredictions' : mlPredictions'[n] \in PredictionType
    BY <1>0, <1>1, <1>6, SimNodeNames
  <2>. QED BY <1>2, <1>5, <2>1, <2>2, <2>3 DEF FeedTypeOK
<1>8. OneRound'
  <2>1. \A n \in DOMAIN mlPredictions' : mlPredictions'[n] \in Sent \cup {SimPrediction(n, 0)}
    BY <1>1, <1>6
  <2>. QED BY <2>1 DEF OneRound, Predicted
<1>9. LiveAreNumbered' /\ NoneTwice(alerts')
  BY <1>2, <1>3, <1>4, <1>5 DEF LiveAreNumbered, NoneTwice
<1>10. CopyIsCovered'
  BY <1>2 DEF CopyIsCovered
<1>. QED BY <1>7, <1>8, <1>9, <1>10 DEF FeedInv

\* A prediction nobody hears takes a number, and no alert has it.
LEMMA MissKeeps ==
  ASSUME FeedInv, NEW n, NEW p, MissPrediction(n, p), SocketTypeOK'
  PROVE  FeedInv'
<1>1. /\ predicted \in Nat /\ predicted' = predicted + 1 /\ alerts \in Seq(AlertType)
      /\ UNCHANGED <<simulating, toggles, batchRound, mlPredictions, alerts, secondCopy>>
  BY DEF FeedInv, FeedTypeOK, MissPrediction, Generate
<1>2. FeedTypeOK' /\ OneRound'
  BY <1>1 DEF FeedInv, FeedTypeOK, OneRound, Predicted
<1>3. LiveAreNumbered'
  <2>1. \A i \in DOMAIN alerts : alerts[i].id \in AlertId
    <3>1. \A i \in DOMAIN alerts : alerts[i] \in AlertType
      BY <1>1
    <3>. QED BY <3>1 DEF AlertType
  <2>2. \A x \in AlertId : x[1] = "live" => x[2] \in Nat
    BY DEF AlertId
  <2>. QED BY <1>1, <2>1, <2>2 DEF FeedInv, LiveAreNumbered
<1>4. ClocksAgree => NoneTwice(alerts') /\ CopyIsCovered'
  <2>1. \A i \in DOMAIN alerts : alerts[i].id # <<"live", predicted + 1>>
    BY NewNumber
  <2>. QED BY <1>1, <2>1 DEF FeedInv, NoneTwice, CopyIsCovered
<1>. QED BY <1>2, <1>3, <1>4 DEF FeedInv

\* A snapshot brings what the backend sent, or would have.
LEMMA SnapshotBrings ==
  ASSUME FeedInv, NEW zone, HandleSnapshot(zone)
  PROVE  /\ DOMAIN mlPredictions' \subseteq SimNames
         /\ \A n \in DOMAIN mlPredictions' :
              \/ n \in DOMAIN mlPredictions /\ mlPredictions'[n] = mlPredictions[n]
              \/ /\ n \in DOMAIN shadowPredictions /\ ZoneOf(n) = zone
                 /\ mlPredictions'[n] = shadowPredictions[n] /\ shadowPredictions[n] \in LivePrediction
<1>. DEFINE S == {n \in DOMAIN shadowPredictions : ZoneOf(n) = zone}
            new == Restrict(shadowPredictions, S)
<1>1. DOMAIN new = S /\ \A n \in S : new[n] = shadowPredictions[n]
  BY DEF Restrict
<1>2. /\ DOMAIN mlPredictions \subseteq SimNames /\ S \subseteq SimNames
      /\ \A n \in S : shadowPredictions[n] \in LivePrediction
  BY SimNodeNames, AlertFeedAssumption DEF FeedInv, FeedTypeOK, SocketTypeOK
<1>3. mlPredictions' = Replaced(mlPredictions, new)
  BY DEF HandleSnapshot
<1>. HIDE DEF new
<1>4. /\ DOMAIN mlPredictions' = DOMAIN mlPredictions \cup S
      /\ \A n \in DOMAIN mlPredictions' : mlPredictions'[n] = IF n \in S THEN new[n] ELSE mlPredictions[n]
  BY <1>1, <1>3 DEF Replaced
<1>. QED BY <1>1, <1>2, <1>4

LEMMA SnapshotKeeps ==
  ASSUME FeedInv, NEW zone, HandleSnapshot(zone), SocketTypeOK'
  PROVE  FeedInv'
<1>1. UNCHANGED <<simulating, toggles, batchRound, alerts, predicted, secondCopy>>
  BY DEF HandleSnapshot
<1>2. OneRound'
  <2>1. PICK r \in 0 .. 19 : \A n \in Predicted : mlPredictions[n] \in Sent \cup {SimPrediction(n, r)}
    BY DEF FeedInv, OneRound
  <2>2. \A n \in DOMAIN mlPredictions' : mlPredictions'[n] \in Sent \cup {SimPrediction(n, r)}
    BY <2>1, SnapshotBrings DEF Predicted, Sent
  <2>. QED BY <2>2 DEF OneRound, Predicted
<1>3. FeedTypeOK'
  <2>1. \A n \in DOMAIN mlPredictions' : mlPredictions'[n] \in PredictionType
    BY SnapshotBrings, LiveType DEF FeedInv, FeedTypeOK
  <2>. QED BY <1>1, <2>1, SnapshotBrings, SimNodeNames DEF FeedInv, FeedTypeOK
<1>4. LiveAreNumbered'
  BY <1>1 DEF FeedInv, LiveAreNumbered
<1>5. ClocksAgree => NoneTwice(alerts') /\ CopyIsCovered'
  BY <1>1 DEF FeedInv, NoneTwice, CopyIsCovered
<1>. QED BY <1>2, <1>3, <1>4, <1>5 DEF FeedInv

\* A connection that breaks takes the second copy with it.
LEMMA SocketKeeps ==
  ASSUME FeedInv, HandleConnect \/ HandleDisconnect, SocketTypeOK'
  PROVE  FeedInv'
<1>1. /\ UNCHANGED <<simulating, toggles, batchRound, mlPredictions, alerts, predicted>>
      /\ secondCopy' \in {None, secondCopy}
  BY DEF HandleConnect, HandleDisconnect
<1>2. FeedTypeOK' /\ OneRound' /\ LiveAreNumbered'
  BY <1>1 DEF FeedInv, FeedTypeOK, OneRound, LiveAreNumbered, Predicted
<1>3. ClocksAgree => NoneTwice(alerts') /\ CopyIsCovered'
  BY <1>1 DEF FeedInv, NoneTwice, CopyIsCovered
<1>. QED BY <1>2, <1>3 DEF FeedInv

LEMMA SocketTypeNext ==
  ASSUME SocketTypeOK, [FeedNext]_feedVars
  PROVE  SocketTypeOK'
<1>1. CASE UNCHANGED <<shadowPredictions, socket>>
  BY <1>1 DEF SocketTypeOK, socket
<1>2. ASSUME NEW n \in LiveNode, NEW p \in LivePrediction, Generate(n, p), UNCHANGED socket
      PROVE  SocketTypeOK'
  <2>1. /\ DOMAIN shadowPredictions' = {n} \cup DOMAIN shadowPredictions
        /\ shadowPredictions'[n] = p
        /\ \A m \in DOMAIN shadowPredictions : m # n => shadowPredictions'[m] = shadowPredictions[m]
    BY <1>2 DEF Generate, Replaced, Only
  <2>2. UNCHANGED <<socketUp, joinedZones, drops>>
    BY <1>2 DEF socket
  <2>. QED BY <2>1, <2>2 DEF SocketTypeOK
<1>3. CASE HandleConnect
  BY <1>3 DEF SocketTypeOK, HandleConnect
<1>4. CASE HandleDisconnect
  <2>1. shadowPredictions' = shadowPredictions \/ DOMAIN shadowPredictions' = {}
    BY <1>4 DEF HandleDisconnect
  <2>2. socketUp' = FALSE /\ joinedZones' = {} /\ drops' = drops + 1
    BY <1>4 DEF HandleDisconnect
  <2>3. /\ DOMAIN shadowPredictions' \subseteq LiveNode
        /\ \A n \in DOMAIN shadowPredictions' : shadowPredictions'[n] \in LivePrediction
    BY <2>1, Zenon DEF SocketTypeOK
  <2>4. drops' \in Nat /\ joinedZones' \subseteq {1, 2}
    BY <2>2 DEF SocketTypeOK
  <2>5. socketUp' \in BOOLEAN
    BY <2>2
  <2>. QED BY <2>3, <2>4, <2>5 DEF SocketTypeOK
<1>5. ASSUME NEW n \in LiveNode, HandleSnapshot(ZoneOf(n)) PROVE SocketTypeOK'
  <2>1. joinedZones' = joinedZones \cup {ZoneOf(n)} /\ ZoneOf(n) \in {1, 2}
        /\ UNCHANGED <<shadowPredictions, socketUp, drops>>
    BY <1>5 DEF HandleSnapshot, ZoneOf
  <2>. QED BY <2>1 DEF SocketTypeOK
<1>6. ASSUME NEW n \in LiveNode, NEW p \in LivePrediction, NEW isFresh \in BOOLEAN, ReceivePrediction(n, p, isFresh)
      PROVE  SocketTypeOK'
  BY <1>2, <1>6 DEF ReceivePrediction
<1>7. ASSUME NEW n \in LiveNode, NEW p \in LivePrediction, MissPrediction(n, p)
      PROVE  SocketTypeOK'
  BY <1>2, <1>7 DEF MissPrediction
<1>8. ASSUME NEW n, NEW class, TriggerDemoMlEvent(n, class)
      PROVE  SocketTypeOK'
  BY <1>1, <1>8 DEF TriggerDemoMlEvent
<1>9. ASSUME NEW event, QuickScenario(event)
      PROVE  SocketTypeOK'
  BY <1>1, <1>9 DEF QuickScenario, TriggerDemoMlEvent, StartWith
<1>10. CASE ReceiveSecondCopy \/ AlertsAge \/ ClearAlerts \/ ClearCache \/ GenerateSimBatch \/ ToggleSimulation
  BY <1>1, <1>10
     DEF ReceiveSecondCopy, AlertsAge, ClearAlerts, ClearCache, GenerateSimBatch, ToggleSimulation
<1>11. CASE UNCHANGED feedVars
  BY <1>1, <1>11 DEF feedVars
<1>. QED BY <1>3, <1>4, <1>5, <1>6, <1>7, <1>8, <1>9, <1>10, <1>11 DEF FeedNext

LEMMA FeedInvInit == FeedInit => FeedInv
<1>. SUFFICES ASSUME FeedInit PROVE FeedInv
  OBVIOUS
<1>1. alerts = <<>> /\ mlPredictions = <<>> /\ secondCopy = None /\ predicted = 0 /\ toggles = 0 /\ simulating = FALSE /\ batchRound = 0
  BY DEF FeedInit
<1>2. FeedTypeOK
  <2>1. batchRound \in 0 .. (2 * RoundsPerPhase - 1)
    BY <1>1 DEF RoundsPerPhase
  <2>2. DOMAIN mlPredictions = {} /\ alerts \in Seq(AlertType)
    BY <1>1
  <2>3. simulating \in BOOLEAN
    BY <1>1
  <2>4. SocketTypeOK
    <3>1. DOMAIN shadowPredictions = {} /\ joinedZones = {} /\ drops = 0 /\ socketUp = FALSE
      BY DEF FeedInit
    <3>2. socketUp \in BOOLEAN
      BY <3>1
    <3>. QED BY <3>1, <3>2 DEF SocketTypeOK
  <2>. QED BY <1>1, <2>1, <2>2, <2>3, <2>4 DEF FeedTypeOK
<1>3. OneRound
  <2>1. \A n \in DOMAIN mlPredictions : mlPredictions[n] \in Sent \cup {SimPrediction(n, 0)}
    BY <1>1
  <2>. QED BY <2>1 DEF OneRound, Predicted
<1>4. LiveAreNumbered /\ NoneTwice(alerts) /\ CopyIsCovered
  BY <1>1 DEF LiveAreNumbered, NoneTwice, CopyIsCovered
<1>. QED BY <1>2, <1>3, <1>4 DEF FeedInv

LEMMA FeedInvNext ==
  ASSUME FeedInv, [FeedNext]_feedVars
  PROVE  FeedInv'
<1>0. LiveNode \subseteq SimNames
  BY SimNodeNames, AlertFeedAssumption
<1>. SocketTypeOK'
  BY SocketTypeNext DEF FeedInv, FeedTypeOK
<1>1. ASSUME NEW n \in LiveNode, NEW p \in LivePrediction, NEW isFresh \in BOOLEAN, ReceivePrediction(n, p, isFresh)
      PROVE  FeedInv'
  <2>1. n \in SimNames /\ p \in Sent
    BY <1>0 DEF Sent
  <2>2. secondCopy' = None \/ /\ secondCopy' \in [node : LiveNode, prediction : LivePrediction, fresh : BOOLEAN]
                              /\ secondCopy'.node = n /\ secondCopy'.fresh = isFresh
    BY <1>1 DEF ReceivePrediction
  <2>3. /\ predicted' = predicted + 1 /\ DispatchMlPrediction(predicted', n, p, isFresh)
        /\ UNCHANGED <<simulating, toggles, batchRound>>
        /\ ClocksAgree => isFresh
    BY <1>1 DEF ReceivePrediction, Generate
  <2>. QED BY <2>1, <2>2, <2>3, NewPredictionKeeps
<1>2. CASE ReceiveSecondCopy
  BY <1>2, SecondCopyKeeps
<1>3. ASSUME NEW n \in SimNames, NEW class \in DOMAIN DemoPrediction, TriggerDemoMlEvent(n, class)
      PROVE  FeedInv'
  <2>1. DemoPrediction[class] \in Sent
    BY DEF Sent
  <2>. QED BY <1>3, <2>1, NewPredictionKeeps DEF TriggerDemoMlEvent
<1>4. ASSUME NEW event \in ScenarioEvent, QuickScenario(event)
      PROVE  FeedInv'
  <2>1. event.node \in SimNames /\ event.class \in DOMAIN DemoPrediction
    BY DEF ScenarioEvent, DemoPrediction, SimNames
  <2>. QED BY <1>3, <1>4, <2>1, StartKeeps DEF QuickScenario
<1>5. CASE AlertsAge
  BY <1>5, AgeKeeps
<1>6. CASE ClearAlerts
  BY <1>6, EmptyKeeps DEF ClearAlerts, FeedInv, FeedTypeOK
<1>7. CASE ClearCache
  <2>1. toggles' \in Nat
    BY <1>7 DEF ClearCache, FeedInv, FeedTypeOK
  <2>3. simulating' = FALSE
    BY <1>7 DEF ClearCache
  <2>2. /\ alerts' = <<>> /\ UNCHANGED <<predicted, secondCopy>>
        /\ batchRound' \in {0, batchRound} /\ mlPredictions' \in {<<>>, mlPredictions}
    BY <1>7 DEF ClearCache
  <2>. QED BY <2>1, <2>2, <2>3, EmptyKeeps
<1>8. CASE GenerateSimBatch
  BY <1>8, BatchKeeps
<1>9. CASE ToggleSimulation
  <2>1. CASE ~ simulating
    BY <1>9, <2>1, EmptyKeeps DEF ToggleSimulation, FeedInv, FeedTypeOK
  <2>2. CASE simulating
    <3>1. UNCHANGED <<batchRound, mlPredictions, alerts, predicted, secondCopy>>
          /\ simulating' \in BOOLEAN /\ toggles' = toggles + 1
      BY <1>9, <2>2 DEF ToggleSimulation
    <3>4. toggles' \in Nat
      BY <3>1 DEF FeedInv, FeedTypeOK
    <3>2. FeedTypeOK' /\ OneRound' /\ LiveAreNumbered'
      <4>1. FeedTypeOK'
        BY <3>1, <3>4 DEF FeedInv, FeedTypeOK
      <4>. QED BY <3>1, <4>1 DEF FeedInv, OneRound, LiveAreNumbered, Predicted
    <3>3. ClocksAgree => NoneTwice(alerts') /\ CopyIsCovered'
      BY <3>1 DEF FeedInv, NoneTwice, CopyIsCovered
    <3>. QED BY <3>2, <3>3 DEF FeedInv
  <2>. QED BY <2>1, <2>2
<1>10. CASE UNCHANGED feedVars
  <2>1. FeedTypeOK' /\ OneRound' /\ LiveAreNumbered'
    BY <1>10 DEF FeedInv, FeedTypeOK, OneRound, LiveAreNumbered, Predicted, feedVars
  <2>2. ClocksAgree => NoneTwice(alerts') /\ CopyIsCovered'
    BY <1>10 DEF FeedInv, NoneTwice, CopyIsCovered, feedVars
  <2>. QED BY <2>1, <2>2 DEF FeedInv
<1>11. ASSUME NEW n \in LiveNode, NEW p \in LivePrediction, MissPrediction(n, p)
       PROVE  FeedInv'
  BY <1>11, MissKeeps
<1>12. CASE HandleConnect \/ HandleDisconnect
  BY <1>12, SocketKeeps
<1>13. ASSUME NEW n \in LiveNode, HandleSnapshot(ZoneOf(n))
       PROVE  FeedInv'
  BY <1>13, SnapshotKeeps
<1>. QED BY <1>0, <1>1, <1>2, <1>3, <1>4, <1>5, <1>6, <1>7, <1>8, <1>9, <1>10, <1>11, <1>12, <1>13
         DEF FeedNext

(***************************************************************************)
(* What the context keeps of predictions and alerts is of its types: a     *)
(* place in the simulation's twenty rounds, the latest prediction of each  *)
(* node and alerts of known kinds, numbered if they are not simulated.     *)
(***************************************************************************)
THEOREM FeedTypeCorrect == FeedSpec => []FeedTypeOK
<1>1. FeedInv => FeedTypeOK
  BY DEF FeedInv
<1>. QED BY <1>1, FeedInvInit, FeedInvNext, PTL DEF FeedSpec

(***************************************************************************)
(* A prediction makes at most one entry in the alert list, if it arrives   *)
(* within five seconds of its time: the second copy finds the alert of the *)
(* first, fresh and of its node, and simulated batches have ids of their   *)
(* own, kept apart when the others are filtered (268-278, 917-921).        *)
(***************************************************************************)
THEOREM OneEntryEach == FeedSpec => []OneAlertPerPrediction
<1>1. FeedInv => OneAlertPerPrediction
  BY DEF FeedInv, OneAlertPerPrediction, NoneTwice
<1>. QED BY <1>1, FeedInvInit, FeedInvNext, PTL DEF FeedSpec

-----------------------------------------------------------------------------
(***************************************************************************)
(* What the pages make of it.                                              *)
(***************************************************************************)
\* Dangerous by its level is at least 44, calm is 20 if sent, 60 in any case.
IsDangerByLevel(p) == p.level \in {"RED", "ORANGE"}

Weighed(p) ==
  /\ p \in PredictionType
  /\ IsDangerByLevel(p) => p.severity >= 44
  /\ ~ IsDanger(p) => p.severity <= 60
  /\ p.level = "GREEN" => p.severity < 50

LEMMA SentIsWeighed ==
  ASSUME NEW p \in Sent
  PROVE  /\ Weighed(p)
         /\ IsDangerByLevel(p) => p.severity >= 60
         /\ p.level = "GREEN" => p.severity <= 20
<1>1. CASE p \in LivePrediction
  <2>1. p \in PredictionType /\ p.level \in LevelsOf(p.severity)
    BY <1>1, LiveIs
  <2>2. p.severity \in 0 .. 100
    BY <2>1 DEF PredictionType
  <2>3. /\ p.level \in {"GREEN", "YELLOW", "ORANGE", "RED"}
        /\ p.level = "GREEN" => p.severity <= 20
        /\ p.level = "YELLOW" => p.severity <= 60
        /\ p.level \in {"RED", "ORANGE"} => p.severity >= 60
    BY <2>1, <2>2, LevelsAre
  <2>. QED BY <2>1, <2>2, <2>3 DEF Weighed, IsDanger, IsDangerByLevel
<1>2. CASE p \in {DemoPrediction[class] : class \in DOMAIN DemoPrediction}
  <2>1. \/ p = Prediction("normal", "GREEN", 2)
        \/ p = Prediction("equipment_noise", "YELLOW", 24)
        \/ p = Prediction("subsidence_risk", "RED", 91)
    BY <1>2 DEF DemoPrediction
  <2>. QED BY <2>1 DEF Prediction, PredictionType, Class, Weighed, IsDanger, IsDangerByLevel
<1>. QED BY <1>1, <1>2 DEF Sent

\* Of what is kept at one time, no calm figure reaches a dangerous one.
LEMMA PredictedIsWeighed ==
  ASSUME FeedInv
  PROVE  /\ IsFiniteSet(Predicted)
         /\ \A n \in Predicted : Weighed(mlPredictions[n])
         /\ \A n, m \in Predicted :
              IsDangerByLevel(mlPredictions[n]) /\ mlPredictions[m].level = "GREEN"
                => mlPredictions[m].severity < mlPredictions[n].severity
<1>1. Predicted \subseteq SimNames
  BY SimNodeNames DEF FeedInv, FeedTypeOK, Predicted
<1>2. IsFiniteSet(Predicted)
  BY <1>1, SimNodeNames, FS_Subset
<1>3. PICK r \in 0 .. 19 : \A n \in Predicted : mlPredictions[n] \in Sent \cup {SimPrediction(n, r)}
  BY DEF FeedInv, OneRound
<1>4. \A n \in Predicted : Weighed(SimPrediction(n, r))
  BY <1>1, SimPredictions DEF Weighed, PredictionType, IsDanger, IsDangerByLevel
<1>5. \A n \in Predicted : Weighed(mlPredictions[n])
  BY <1>3, <1>4, SentIsWeighed
<1>6. ASSUME NEW n \in Predicted, NEW m \in Predicted,
             IsDangerByLevel(mlPredictions[n]), mlPredictions[m].level = "GREEN"
      PROVE  mlPredictions[m].severity < mlPredictions[n].severity
  <2>1. Weighed(mlPredictions[n]) /\ Weighed(mlPredictions[m])
    BY <1>5
  <2>2. mlPredictions[m].severity \in Nat /\ mlPredictions[n].severity \in Nat
    BY <2>1 DEF Weighed, PredictionType
  <2>3. CASE mlPredictions[m] \in Sent
    BY <1>6, <2>1, <2>2, <2>3, SentIsWeighed DEF Weighed
  <2>4. CASE mlPredictions[n] \in Sent
    BY <1>6, <2>1, <2>2, <2>4, SentIsWeighed DEF Weighed
  <2>5. CASE mlPredictions[m] = SimPrediction(m, r) /\ mlPredictions[n] = SimPrediction(n, r)
    BY <1>1, <1>6, <2>5, CalmIsLess DEF IsDanger, IsDangerByLevel
  <2>. QED BY <1>3, <2>3, <2>4, <2>5
<1>. QED BY <1>2, <1>5, <1>6

LEMMA GreatestOf ==
  ASSUME NEW T, T \subseteq 0 .. 100, T # {}
  PROVE  \E x \in T : \A y \in T : y <= x
<1>. DEFINE U == {100 - x : x \in T}
<1>1. U \subseteq Nat /\ U # {}
  <2>1. \A x \in T : 100 - x \in Nat
    OBVIOUS
  <2>2. PICK x \in T : TRUE
    OBVIOUS
  <2>. QED BY <2>1, <2>2
<1>2. PICK u \in U : \A v \in U : u <= v
  <2>. HIDE DEF U
  <2>. QED BY <1>1, LeastOf
<1>3. PICK x \in T : u = 100 - x
  OBVIOUS
<1>4. ASSUME NEW y \in T PROVE y <= x
  <2>1. 100 - y \in U
    OBVIOUS
  <2>2. 100 - x <= 100 - y /\ x \in Int /\ y \in Int
    BY <1>2, <1>3, <2>1
  <2>. QED BY <2>2
<1>. QED BY <1>4

\* The analytics card.
CardIsWeighed(risk) ==
  /\ \A n \in CriticalMlPredictions : risk.severity >= mlPredictions[n].severity
  /\ (\E n \in CriticalMlPredictions : IsDangerByLevel(mlPredictions[n]))
       => RiskCard(risk).badge # "success" /\ RiskCard(risk).icon # "emerald"
  /\ RiskCard(risk).line = "red" => CriticalMlPredictions # {} \/ risk.severity = 60

LEMMA RiskIsWeighed ==
  ASSUME FeedInv, NEW risk \in HighestRisk
  PROVE  CardIsWeighed(risk)
<1>. DEFINE positive == {m \in Predicted : mlPredictions[m].severity > 0}
            predictions == {mlPredictions[n] : n \in positive}
            highest == {p \in predictions : \A q \in predictions : q.severity <= p.severity}
<1>1. \A n \in Predicted : Weighed(mlPredictions[n]) /\ mlPredictions[n].severity \in 0 .. 100
  BY PredictedIsWeighed DEF Weighed, PredictionType
<1>2. /\ \A n \in CriticalMlPredictions : n \in positive \/ mlPredictions[n].severity = 0
      /\ \A n \in CriticalMlPredictions : IsDangerByLevel(mlPredictions[n]) => n \in positive
  BY <1>1 DEF CriticalMlPredictions, Weighed
<1>3. HighestRisk = IF highest = {} THEN {NoRisk}
                    ELSE {[severity |-> p.severity, level |-> p.level] : p \in highest}
  BY DEF HighestRisk
<1>4. positive # {} => highest # {}
  <2>. SUFFICES ASSUME positive # {} PROVE highest # {}
    OBVIOUS
  <2>. DEFINE T == {p.severity : p \in predictions}
  <2>1. T \subseteq 0 .. 100 /\ T # {}
    BY <1>1
  <2>2. PICK x \in T : \A y \in T : y <= x
    <3>. HIDE DEF T
    <3>. QED BY <2>1, GreatestOf
  <2>3. PICK p \in predictions : p.severity = x
    OBVIOUS
  <2>4. p \in highest
    BY <2>2, <2>3
  <2>. QED BY <2>4
<1>5. \A p \in highest : /\ \E m \in positive : p = mlPredictions[m]
                         /\ \A n \in positive : mlPredictions[n].severity <= p.severity
  OBVIOUS
<1>. HIDE DEF highest, predictions
<1>6. CASE highest = {}
  <2>1. risk.severity = 0 /\ risk.level = "GREEN"
    BY <1>3, <1>6 DEF NoRisk
  <2>2. \A n \in CriticalMlPredictions : mlPredictions[n].severity = 0 /\ ~ IsDangerByLevel(mlPredictions[n])
    BY <1>2, <1>4, <1>6
  <2>3. RiskCard(risk).line = "emerald"
    BY <2>1 DEF RiskCard
  <2>4. \A n \in CriticalMlPredictions : risk.severity >= mlPredictions[n].severity
    BY <2>1, <2>2
  <2>. QED BY <2>2, <2>3, <2>4 DEF CardIsWeighed
<1>7. CASE highest # {}
  <2>1. PICK p \in highest : risk = [severity |-> p.severity, level |-> p.level]
    BY <1>3, <1>7
  <2>2. PICK m \in positive : p = mlPredictions[m]
    BY <1>5
  <2>3. risk.severity = p.severity /\ risk.level = p.level
    BY <2>1
  <2>4. Weighed(p) /\ p.severity \in 0 .. 100 /\ p.level \in {"GREEN", "YELLOW", "ORANGE", "RED"}
    BY <1>1, <2>2 DEF Weighed, PredictionType
  <2>5. \A n \in CriticalMlPredictions : risk.severity >= mlPredictions[n].severity
    BY <1>1, <1>2, <1>5, <2>3, <2>4
  <2>6. ASSUME NEW n \in CriticalMlPredictions, IsDangerByLevel(mlPredictions[n])
        PROVE  RiskCard(risk).badge # "success" /\ RiskCard(risk).icon # "emerald"
    <3>1. n \in Predicted /\ mlPredictions[n].severity >= 44
          /\ mlPredictions[n].severity \in 0 .. 100
      BY <1>1, <2>6 DEF CriticalMlPredictions, Weighed
    <3>2. risk.severity >= 44
      BY <2>3, <2>4, <2>5, <3>1
    <3>3. risk.level # "GREEN"
      <4>. SUFFICES ASSUME p.level = "GREEN" PROVE FALSE
        BY <2>3
      <4>1. p.severity < mlPredictions[n].severity
        BY <2>2, <2>6, <3>1, PredictedIsWeighed
      <4>2. p.severity >= mlPredictions[n].severity
        BY <2>3, <2>5
      <4>. DEFINE most == p.severity
                  its == mlPredictions[n].severity
      <4>3. most \in 0 .. 100 /\ its \in 0 .. 100
        BY <2>4, <3>1
      <4>4. most < its /\ most >= its
        BY <4>1, <4>2
      <4>. HIDE DEF most, its
      <4>. QED BY <4>3, <4>4
    <3>4. RiskCard(risk).badge # "success"
      BY <2>3, <2>4, <3>3 DEF RiskCard
    <3>5. RiskCard(risk).icon # "emerald"
      BY <2>3, <2>4, <3>2 DEF RiskCard
    <3>. QED BY <3>4, <3>5
  <2>7. ASSUME RiskCard(risk).line = "red", risk.severity # 60 PROVE CriticalMlPredictions # {}
    <3>1. risk.severity >= 60
      BY <2>7 DEF RiskCard
    <3>2. IsDanger(p)
      BY <2>3, <2>4, <2>7, <3>1 DEF Weighed
    <3>. QED BY <2>2, <3>2 DEF CriticalMlPredictions
  <2>. QED BY <2>5, <2>6, <2>7 DEF CardIsWeighed
<1>. QED BY <1>6, <1>7

LEMMA SomeAlertsAreFinite ==
  ASSUME FeedInv, NEW S \in SUBSET DOMAIN alerts
  PROVE  IsFiniteSet(S) /\ Cardinality(S) \in Nat /\ (S # {} => Cardinality(S) > 0)
<1>1. DOMAIN alerts = 1 .. Len(alerts) /\ Len(alerts) \in Nat
  BY DEF FeedInv, FeedTypeOK
<1>2. IsFiniteSet(DOMAIN alerts)
  <2>1. 1 \in Int /\ Len(alerts) \in Int
    BY <1>1
  <2>. QED BY <1>1, <2>1, FS_Interval
<1>3. IsFiniteSet(S)
  BY <1>2, FS_Subset
<1>. QED BY <1>3, FS_CardinalityType, FS_EmptySet

LEMMA TabsAddUp ==
  ASSUME FeedInv
  PROVE  Tabs.count["all"] = Tabs.count["ml"] + Tabs.count["hardware"]
<1>. DEFINE A == DisplayedAlerts("ml")
            B == DisplayedAlerts("hardware")
<1>1. DisplayedAlerts("all") = A \cup B /\ A \cap B = {}
  <2>1. \A i \in DOMAIN alerts : alerts[i].ml \in BOOLEAN
    <3>1. \A i \in DOMAIN alerts : alerts[i] \in AlertType
      BY DEF FeedInv, FeedTypeOK
    <3>. QED BY <3>1 DEF AlertType
  <2>. QED BY <2>1 DEF DisplayedAlerts
<1>2. A \in SUBSET DOMAIN alerts /\ B \in SUBSET DOMAIN alerts
  BY DEF DisplayedAlerts
<1>3. /\ Tabs.count["all"] = Cardinality(DisplayedAlerts("all"))
      /\ Tabs.count["ml"] = Cardinality(A) /\ Tabs.count["hardware"] = Cardinality(B)
  BY DEF Tabs
<1>. HIDE DEF A, B
<1>4. IsFiniteSet(A) /\ IsFiniteSet(B) /\ Cardinality(A) \in Nat /\ Cardinality(B) \in Nat
  BY <1>2, SomeAlertsAreFinite
<1>5. Cardinality(A \cup B) = Cardinality(A) + Cardinality(B) - Cardinality(A \cap B)
  BY <1>4, FS_Union
<1>6. Cardinality(A \cap B) = 0
  BY <1>1, FS_EmptySet
<1>7. Cardinality(A \cup B) = Cardinality(A) + Cardinality(B)
  BY <1>4, <1>5, <1>6
<1>. QED BY <1>1, <1>3, <1>7

LEMMA SeenInv ==
  ASSUME FeedInv
  PROVE  DangerIsSeen
<1>. DEFINE danger == CriticalMlPredictions
<1>1. IsFiniteSet(Predicted) /\ \A n \in Predicted : mlPredictions[n] \in PredictionType
  BY PredictedIsWeighed DEF Weighed
<1>2. danger # {} => BannerIsUp /\ \A e \in EmergencyNodes : e.node \in danger
  <2>1. AtRiskNodes = danger
    BY DEF AtRiskNodes, CriticalMlPredictions
  <2>2. ASSUME danger # {} PROVE EmergencyNodes = [node : danger, source : {"ml"}]
    BY <2>1, <2>2 DEF EmergencyNodes
  <2>. HIDE DEF danger
  <2>3. \A e \in [node : danger, source : {"ml"}] : e.node \in danger
    OBVIOUS
  <2>4. ASSUME danger # {} PROVE [node : danger, source : {"ml"}] # {}
    <3>1. PICK n \in danger : TRUE
      BY <2>4
    <3>2. [node |-> n, source |-> "ml"] \in [node : danger, source : {"ml"}]
      OBVIOUS
    <3>. QED BY <3>2
  <2>. QED BY <2>2, <2>3, <2>4 DEF BannerIsUp
<1>3. (UrgentBox.up <=> danger # {}) /\ (UrgentBox.up <=> Tabs.marked)
  BY DEF UrgentBox, Tabs
<1>4. \A tab \in {"all", "ml"} : danger = {n \in DOMAIN CardGrid(tab) : CardGrid(tab)[n] = "danger"}
  BY DEF CardGrid, CardKind, CriticalMlPredictions
<1>5. \A n \in danger : NodeCards[n].dot = "red" \/ NodeCards[n].badge \in {"RED", "ORANGE"}
  BY DEF CriticalMlPredictions, IsDanger, NodeCards, NodeCardMl
<1>6. Filtered("ml_subsidence") = danger
  BY DEF Filtered, CriticalMlPredictions
<1>7. \A filter \in {"all", "ml_noise", "ml_normal"} : danger = Filtered(Pressed("ml_subsidence", filter))
  BY <1>6 DEF Pressed
<1>8. FleetCounts.subsidence = Cardinality(danger)
  BY DEF FleetCounts, CriticalMlPredictions
<1>9. /\ FleetCounts.noise <= Cardinality(Filtered("ml_noise"))
      /\ FleetCounts.normal <= Cardinality(Filtered("ml_normal"))
  <2>. DEFINE noise == {n \in Predicted \ danger : mlPredictions[n].class = "equipment_noise"}
              normal == Predicted \ (danger \cup noise)
  <2>1. FleetCounts.noise = Cardinality(noise) /\ FleetCounts.normal = Cardinality(normal)
    BY DEF FleetCounts, CriticalMlPredictions
  <2>2. noise \subseteq Filtered("ml_noise")
    BY DEF Filtered
  <2>3. normal \subseteq Filtered("ml_normal")
    <3>1. \A n \in Predicted :
            mlPredictions[n].class \in {"normal", "equipment_noise", "subsidence_risk"}
      BY <1>1 DEF PredictionType, Class
    <3>. QED BY <3>1 DEF Filtered, CriticalMlPredictions, IsDanger
  <2>. HIDE DEF noise, normal
  <2>4. \A filter : IsFiniteSet(Filtered(filter))
    <3>1. \A filter : Filtered(filter) \subseteq Predicted
      BY DEF Filtered
    <3>. QED BY <1>1, <3>1, FS_Subset
  <2>. QED BY <2>1, <2>2, <2>3, <2>4, FS_Subset
<1>10. AlertsHeader.mayClear <=> DOMAIN Stream("all") # {}
  <2>1. DOMAIN Stream("all") = DOMAIN alerts
    BY DEF Stream, DisplayedAlerts
  <2>2. alerts # <<>> <=> DOMAIN alerts # {}
    <3>1. alerts \in Seq(AlertType)
      BY DEF FeedInv, FeedTypeOK
    <3>2. DOMAIN alerts = 1 .. Len(alerts) /\ Len(alerts) \in Nat
      BY <3>1
    <3>3. Len(alerts) = 0 => alerts = <<>>
      BY <3>1
    <3>4. Len(alerts) # 0 => 1 \in DOMAIN alerts
      BY <3>2
    <3>5. alerts = <<>> => DOMAIN alerts = {}
      OBVIOUS
    <3>. QED BY <3>2, <3>3, <3>4, <3>5
  <2>. QED BY <2>1, <2>2 DEF AlertsHeader
<1>11. ASSUME danger = {}, BannerIsUp
       PROVE  /\ CriticalBadge # {}
              /\ \E tab \in {"ml", "hardware"} : \E i \in DOMAIN Stream(tab) : Stream(tab)[i].icon = "shield"
  <2>1. AtRiskNodes = {}
    BY <1>11 DEF AtRiskNodes, CriticalMlPredictions
  <2>2. PICK i \in CriticalAlerts : TRUE
    BY <1>11, <2>1 DEF BannerIsUp, EmergencyNodes
  <2>3. Severities.critical > 0
    <3>1. CriticalAlerts \in SUBSET DOMAIN alerts
      BY DEF CriticalAlerts
    <3>2. Cardinality(CriticalAlerts) > 0
      BY <2>2, <3>1, SomeAlertsAreFinite
    <3>. QED BY <3>2 DEF Severities
  <2>4. CriticalBadge # {}
    BY <2>3 DEF CriticalBadge
  <2>5. i \in DOMAIN alerts /\ alerts[i].critical
    BY DEF CriticalAlerts
  <2>6. PICK tab \in {"ml", "hardware"} : alerts[i].ml <=> tab = "ml"
    <3>1. alerts[i] \in AlertType
      BY <2>5 DEF FeedInv, FeedTypeOK
    <3>2. alerts[i].ml \in BOOLEAN
      BY <3>1 DEF AlertType
    <3>. QED BY <3>2
  <2>7. i \in DOMAIN Stream(tab) /\ Stream(tab)[i].icon = "shield"
    BY <2>5, <2>6 DEF Stream, DisplayedAlerts, RowOf
  <2>. QED BY <2>4, <2>7
<1>12. \A risk \in HighestRisk : CardIsWeighed(risk)
  BY RiskIsWeighed
<1>. QED BY <1>2, <1>3, <1>4, <1>5, <1>7, <1>8, <1>9, <1>10, <1>11, <1>12, TabsAddUp
         DEF DangerIsSeen, CardIsWeighed, IsDangerByLevel

(***************************************************************************)
(* A dangerous prediction is seen on every page, whatever class and level  *)
(* the server combines; on the analytics card, if its level says so.  The  *)
(* pages need no copy of each other's rule: a dangerous level means 44 at  *)
(* least, no danger means 60 at most, and no figure of a calm level        *)
(* reaches one of a dangerous level, because what is kept is of one        *)
(* simulated round or was sent.                                            *)
(***************************************************************************)
THEOREM DangerSeen == FeedSpec => []DangerIsSeen
BY SeenInv, FeedInvInit, FeedInvNext, PTL DEF FeedSpec

-----------------------------------------------------------------------------
(***************************************************************************)
(* What turns dangerous is in the list at once.                            *)
(***************************************************************************)
ListedAtOnce ==
  \A n \in DOMAIN mlPredictions' :
    /\ IsDanger(mlPredictions'[n])
    /\ n \in Predicted => mlPredictions[n] # mlPredictions'[n]
    => CameWithSnapshot(n) \/ \E i \in DOMAIN alerts' : alerts'[i].node = n /\ alerts'[i].ml

LEMMA DispatchLists ==
  ASSUME FeedInv, NEW id \in Nat, NEW n \in SimNames, NEW p \in Sent, NEW fresh \in BOOLEAN,
         DispatchMlPrediction(id, n, p, fresh)
  PROVE  ListedAtOnce
<1>1. /\ DOMAIN mlPredictions' = {n} \cup DOMAIN mlPredictions
      /\ mlPredictions'[n] = p
      /\ \A m \in DOMAIN mlPredictions : m # n => mlPredictions'[m] = mlPredictions[m]
  BY DEF DispatchMlPrediction, Replaced, Only
<1>. SUFFICES ASSUME NEW m \in DOMAIN mlPredictions', IsDanger(mlPredictions'[m]),
                     m \in Predicted => mlPredictions[m] # mlPredictions'[m]
              PROVE  \E i \in DOMAIN alerts' : alerts'[i].node = m /\ alerts'[i].ml
  BY DEF ListedAtOnce
<1>2. m = n /\ IsDanger(p)
  BY <1>1 DEF Predicted
<1>3. IsAlarming(p)
  BY <1>2 DEF IsDanger, IsAlarming
<1>4. CASE IsRecent(n)
  BY <1>2, <1>3, <1>4 DEF IsRecent, DispatchMlPrediction
<1>5. CASE ~ IsRecent(n)
  <2>. DEFINE a == Alert(<<"live", id>>, n, IsCritical(p), TRUE, fresh)
  <2>1. a.node = n /\ a.ml
    BY DEF Alert
  <2>2. a \in AlertType
    <3>1. <<"live", id>> \in AlertId
      BY DEF AlertId
    <3>2. IsCritical(p) \in BOOLEAN
      BY DEF IsCritical
    <3>. QED BY <3>1, <3>2, SimNodeNames DEF Alert, AlertType
  <2>3. alerts' = Cut(<<a>> \o alerts)
    BY <1>3, <1>5 DEF DispatchMlPrediction
  <2>. HIDE DEF a
  <2>4. Grown(alerts', alerts, a)
    BY <2>2, <2>3, CutGrows DEF FeedInv, FeedTypeOK
  <2>5. 1 \in DOMAIN alerts' /\ alerts'[1] = a
    BY <2>4 DEF Grown
  <2>. QED BY <1>2, <2>1, <2>5
<1>. QED BY <1>4, <1>5

LEMMA BatchLists ==
  ASSUME FeedInv, GenerateSimBatch
  PROVE  ListedAtOnce
<1>. DEFINE r == batchRound
            ml == SetToSeq(SimMlAlerts(r))
            hw == SetToSeq(SimHwAlerts(r))
            kept == WithoutSimulated(alerts)
<1>0. r \in 0 .. 19 /\ alerts \in Seq(AlertType)
  BY DEF FeedInv, FeedTypeOK, RoundsPerPhase
<1>1. Lists(ml, SimMlAlerts(r)) /\ Lists(hw, SimHwAlerts(r))
  BY <1>0, SimMlAlertsAre, SimHwAlertsAre, SetToSeqLists
<1>2. ml \in Seq(AlertType) /\ hw \in Seq(AlertType)
  <2>1. SimMlAlerts(r) \subseteq AlertType /\ SimHwAlerts(r) \subseteq AlertType
    BY <1>0, SimMlAlertsAre, SimHwAlertsAre
  <2>. HIDE DEF ml, hw
  <2>. QED BY <1>1, <2>1 DEF Lists
<1>3. kept \in Seq(AlertType)
  <2>1. \A x \in AlertType : x.id \in AlertId
    BY DEF AlertType
  <2>. QED BY <1>0, <2>1, WithoutSimulatedType
<1>4. alerts' = (ml \o hw) \o kept
  BY <1>1, <1>2, <1>3 DEF GenerateSimBatch
<1>5. /\ DOMAIN mlPredictions' \subseteq SimNames
      /\ \A n \in SimNames : mlPredictions'[n] = SimPrediction(n, r)
  <2>1. DOMAIN mlPredictions \subseteq SimNames
    BY SimNodeNames DEF FeedInv, FeedTypeOK
  <2>2. mlPredictions' = Replaced(mlPredictions, [n \in SimNames |-> SimPrediction(n, r)])
    BY SimNodeNames DEF GenerateSimBatch
  <2>. QED BY <2>1, <2>2 DEF Replaced
<1>. HIDE DEF ml, hw, kept, r
<1>. SUFFICES ASSUME NEW n \in DOMAIN mlPredictions', IsDanger(mlPredictions'[n])
              PROVE  \E i \in DOMAIN alerts' : alerts'[i].node = n /\ alerts'[i].ml
  BY DEF ListedAtOnce
<1>6. n \in SimNames /\ IsAlarming(SimPrediction(n, r))
  BY <1>5 DEF IsDanger, IsAlarming
<1>7. PICK a \in SimMlAlerts(r) : a.node = n /\ a.ml
  BY <1>0, <1>6, SimMlAlertsAre
<1>8. PICK i \in DOMAIN ml : ml[i] = a
  BY <1>1 DEF Lists
<1>. DEFINE batch == ml \o hw
<1>9. batch \in Seq(AlertType) /\ i \in DOMAIN batch /\ batch[i] = a
  BY <1>2, <1>8, JoinedLists
<1>10. alerts' = batch \o kept
  BY <1>4
<1>. HIDE DEF batch
<1>11. i \in DOMAIN alerts' /\ alerts'[i] = a
  BY <1>3, <1>9, <1>10, JoinedLists
<1>. QED BY <1>7, <1>11

LEMMA StepLists ==
  ASSUME FeedInv, FeedNext
  PROVE  ListedAtOnce
<1>0. LiveNode \subseteq SimNames
  BY SimNodeNames, AlertFeedAssumption
<1>1. ASSUME NEW n \in LiveNode, NEW p \in LivePrediction, NEW isFresh \in BOOLEAN, ReceivePrediction(n, p, isFresh)
      PROVE  ListedAtOnce
  <2>1. n \in SimNames /\ p \in Sent /\ predicted' \in Nat
    BY <1>0, <1>1 DEF Sent, ReceivePrediction, Generate, FeedInv, FeedTypeOK
  <2>2. DispatchMlPrediction(predicted', n, p, isFresh)
    BY <1>1 DEF ReceivePrediction
  <2>. QED BY <2>1, <2>2, DispatchLists
<1>2. CASE ReceiveSecondCopy
  <2>. DEFINE n == secondCopy.node
              p == secondCopy.prediction
              fresh == secondCopy.fresh
  <2>1. n \in SimNames /\ p \in Sent /\ fresh \in BOOLEAN
    <3>1. secondCopy \in [node : LiveNode, prediction : LivePrediction, fresh : BOOLEAN]
      BY <1>2 DEF FeedInv, FeedTypeOK, ReceiveSecondCopy
    <3>. QED BY <1>0, <3>1 DEF Sent
  <2>2. predicted \in Nat /\ DispatchMlPrediction(predicted, n, p, fresh)
    BY <1>2 DEF ReceiveSecondCopy, FeedInv, FeedTypeOK
  <2>. HIDE DEF n, p, fresh
  <2>. QED BY <2>1, <2>2, DispatchLists
<1>3. ASSUME NEW n \in SimNames, NEW class \in DOMAIN DemoPrediction, TriggerDemoMlEvent(n, class)
      PROVE  ListedAtOnce
  <2>1. DemoPrediction[class] \in Sent /\ predicted' \in Nat
    BY <1>3 DEF Sent, TriggerDemoMlEvent, FeedInv, FeedTypeOK
  <2>2. DispatchMlPrediction(predicted', n, DemoPrediction[class], TRUE)
    BY <1>3 DEF TriggerDemoMlEvent
  <2>. QED BY <2>1, <2>2, DispatchLists
<1>4. ASSUME NEW event \in ScenarioEvent, StartWith(event)
      PROVE  ListedAtOnce
  <2>. DEFINE p == DemoPrediction[event.class]
              a == Alert(<<"live", predicted'>>, event.node, IsCritical(p), TRUE, TRUE)
  <2>1. /\ mlPredictions' = Only(event.node, p)
        /\ alerts' = IF IsAlarming(p) THEN <<a>> ELSE <<>>
    BY <1>4 DEF StartWith
  <2>2. a.node = event.node /\ a.ml
    BY DEF Alert
  <2>. HIDE DEF p, a
  <2>3. DOMAIN mlPredictions' = {event.node} /\ mlPredictions'[event.node] = p
    BY <2>1 DEF Only
  <2>4. IsDanger(p) => 1 \in DOMAIN alerts' /\ alerts'[1] = a
    BY <2>1 DEF IsDanger, IsAlarming
  <2>. QED BY <2>2, <2>3, <2>4 DEF ListedAtOnce
<1>5. ASSUME NEW event \in ScenarioEvent, QuickScenario(event)
      PROVE  ListedAtOnce
  <2>1. event.node \in SimNames /\ event.class \in DOMAIN DemoPrediction
    BY DEF ScenarioEvent, DemoPrediction, SimNames
  <2>. QED BY <1>3, <1>4, <1>5, <2>1 DEF QuickScenario
<1>6. ASSUME UNCHANGED mlPredictions \/ mlPredictions' = <<>>
      PROVE  ListedAtOnce
  BY <1>6 DEF ListedAtOnce, Predicted
<1>7. CASE AlertsAge \/ ClearAlerts \/ ClearCache \/ ToggleSimulation \/ HandleConnect \/ HandleDisconnect
  BY <1>6, <1>7 DEF AlertsAge, ClearAlerts, ClearCache, ToggleSimulation, HandleConnect, HandleDisconnect
<1>8. CASE GenerateSimBatch
  BY <1>8, BatchLists
<1>9. ASSUME NEW n \in LiveNode, NEW p \in LivePrediction, MissPrediction(n, p)
      PROVE  ListedAtOnce
  BY <1>6, <1>9 DEF MissPrediction
<1>10. ASSUME NEW zone, HandleSnapshot(zone)
       PROVE  ListedAtOnce
  <2>1. joinedZones' = joinedZones \cup {zone} /\ zone \notin joinedZones
    BY <1>10 DEF HandleSnapshot
  <2>. SUFFICES ASSUME NEW n \in DOMAIN mlPredictions',
                       n \in Predicted => mlPredictions[n] # mlPredictions'[n]
                PROVE  CameWithSnapshot(n)
    BY DEF ListedAtOnce
  <2>2. n \in DOMAIN shadowPredictions /\ ZoneOf(n) = zone /\ mlPredictions'[n] = shadowPredictions[n]
    BY <1>10, SnapshotBrings DEF Predicted
  <2>. QED BY <2>1, <2>2 DEF CameWithSnapshot
<1>. QED BY <1>0, <1>1, <1>2, <1>3, <1>5, <1>7, <1>8, <1>9, <1>10 DEF FeedNext

(***************************************************************************)
(* The moment a node's prediction turns dangerous the list has an ML alert *)
(* of that node, whatever the length of the list: danger is alarming, a    *)
(* new alert is the head of the list, which the cut keeps, and a batch     *)
(* brings the alerts of its own predictions.  Only what a zone's snapshot  *)
(* brings is stored without an alert.                                      *)
(***************************************************************************)
THEOREM DangerListed == FeedSpec => DangerIsListed
<1>1. FeedInv /\ [FeedNext]_feedVars => [ListedAtOnce]_feedVars
  BY StepLists
<1>2. FeedSpec => [][ListedAtOnce]_feedVars
  BY <1>1, FeedInvInit, FeedInvNext, PTL DEF FeedSpec
<1>. QED BY <1>2 DEF DangerIsListed, ListedAtOnce

=============================================================================
