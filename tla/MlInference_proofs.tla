------------------------- MODULE MlInference_proofs -------------------------
(***************************************************************************)
(* Proofs about MlInference, for any nodes, channels, windows and bounds.  *)
(*                                                                         *)
(* That a packet is evaluated once rests on the readings of a packet       *)
(* coming together; that windows are whole, also on their not being        *)
(* padded; that the breaker spares a failing service rests on neither.     *)
(***************************************************************************)
EXTENDS MlInference, TLAPS

-----------------------------------------------------------------------------
(***************************************************************************)
(* The invariant.                                                          *)
(***************************************************************************)
IsSeen(n, s) == \E c \in Channel : <<n, s, c>> \in handled
IsComplete(n, s) == \A c \in Channel : <<n, s, c>> \in handled

\* A row holds the values of its packet, as far as they have come.
IsCurrent(n, row) ==
  \A c \in Channel : <<n, row.seq, c>> \in handled => row.vector[c] = row.seq

LastRow ==
  \A n \in Node :
    /\ lastPushed[n] = 0 => buffer[n] = <<>>
    /\ lastPushed[n] # 0 =>
         buffer[n] # <<>> /\ buffer[n][Len(buffer[n])].seq = lastPushed[n]

IInv == TypeOK /\ LastRow

IsCalled(n, s) == \E i \in 1 .. Len(calls) : PacketOf(i) = <<n, s>>

\* A pending packet is not called yet, and a failure finds it complete.
PendingIsNext ==
  \A n \in Node, s \in Seqs : IsPending(n, s) =>
    /\ IsSeen(n, s)
    /\ ~ IsCalled(n, s)
    /\ backoff => IsComplete(n, s)

CallsAreOfComplete == \A n \in Node, s \in Seqs : IsCalled(n, s) => IsComplete(n, s)

CallsDiffer == \A i, j \in 1 .. Len(calls) : PacketOf(i) = PacketOf(j) => i = j

OnceInv == PendingIsNext /\ CallsAreOfComplete /\ CallsDiffer

PartialIsLast == \A n \in Node, s \in Seqs : IsPartial(n, s) => lastPushed[n] = s

SourceIsLast ==
  \A n \in Node, c \in Channel :
    <<n, lastPushed[n], c>> \in handled => source[n][c] = lastPushed[n]

HasRow(n, row) == \E i \in 1 .. Len(buffer[n]) : buffer[n][i] = row

RowsAreCurrent ==
  \A n \in Node, row \in Row :
    HasRow(n, row) => IsSeen(n, row.seq) /\ IsCurrent(n, row)

RowsDiffer ==
  \A n \in Node : \A i, j \in 1 .. Len(buffer[n]) :
    buffer[n][i].seq = buffer[n][j].seq => i = j

\* A window is of different packets, and all but the last are complete.
IsSound(prediction) ==
  LET w == prediction.window
  IN  /\ \A i, j \in 1 .. WindowLen : w[i].seq = w[j].seq => i = j
      /\ \A i \in 1 .. WindowLen : i < WindowLen => IsWhole(w[i])
      /\ w[WindowLen].seq = prediction.seq

PendingWindows ==
  \A n \in Node, p \in Prediction : pending[n] # None /\ pending[n] = p =>
    Len(buffer[n]) = WindowLen /\ IsSound(p) /\ IsCurrent(n, p.window[WindowLen])

CallWindows ==
  \A i \in 1 .. Len(calls) :
    IsSound(calls[i].prediction) /\ IsWhole(calls[i].prediction.window[WindowLen])

WindowInv ==
  PartialIsLast /\ SourceIsLast /\ RowsAreCurrent /\ RowsDiffer /\ PendingWindows /\ CallWindows

\* The calls made since the backoff began, and the one that may follow.
SparedInv ==
  \A n \in Node :
    /\ spared[n] <= 1
    /\ backoff /\ pending[n] # None => spared[n] = 0

-----------------------------------------------------------------------------
(***************************************************************************)
(* What the window buffer computes.                                        *)
(***************************************************************************)
\* A row takes the last place; those before it keep their order.
Moves(old, new, row, replaces) ==
  /\ new \in Seq(Row)
  /\ 1 <= Len(new) /\ Len(new) <= WindowLen /\ Len(old) <= Len(new)
  /\ new[Len(new)] = row
  /\ \E d \in {0, 1} : \A i \in 1 .. Len(new) - 1 :
       /\ i + d \in 1 .. Len(old)
       /\ replaces => i + d < Len(old)
       /\ new[i] = old[i + d]

LEMMA CoalesceMoves ==
  ASSUME IInv, NEW n \in Node, NEW row \in Row
  PROVE  Moves(buffer[n], Coalesce(n, row), row, lastPushed[n] = row.seq)
  <1>. DEFINE old == buffer[n]
              longer == Append(old, row)
  <1>1. /\ old \in Seq(Row) /\ Len(old) \in Nat /\ Len(old) <= WindowLen
        /\ WindowLen \in Nat \ {0}
    BY MlInferenceAssumption DEF IInv, TypeOK
  <1>2. CASE lastPushed[n] = row.seq
    <2>1. row.seq # 0
      BY DEF Row, Seqs
    <2>2. old # <<>> /\ Len(old) >= 1
      BY <1>1, <1>2, <2>1 DEF IInv, LastRow
    <2>3. Coalesce(n, row) = [old EXCEPT ![Len(old)] = row]
      BY <1>2 DEF Coalesce
    <2>. DEFINE new == [old EXCEPT ![Len(old)] = row]
    <2>4. new \in Seq(Row) /\ Len(new) = Len(old) /\ new[Len(old)] = row
      BY <1>1, <2>2
    <2>5. \A i \in 1 .. Len(old) - 1 : new[i] = old[i + 0] /\ i + 0 < Len(old) /\ i + 0 \in 1 .. Len(old)
      BY <1>1, <2>2
    <2>. HIDE DEF new, old
    <2>6. Moves(old, new, row, TRUE)
      <3>1. \A i \in 1 .. Len(new) - 1 : i + 0 \in 1 .. Len(old) /\ i + 0 < Len(old) /\ new[i] = old[i + 0]
        BY <2>4, <2>5
      <3>2. new[Len(new)] = row /\ 1 <= Len(new) /\ Len(new) <= WindowLen /\ Len(old) <= Len(new)
        BY <1>1, <2>2, <2>4
      <3>. QED BY <2>4, <3>1, <3>2, Zenon DEF Moves
    <2>. QED BY <1>2, <2>3, <2>6 DEF new, old
  <1>3. CASE lastPushed[n] # row.seq
    <2>1. /\ longer \in Seq(Row) /\ Len(longer) = Len(old) + 1 /\ longer[Len(old) + 1] = row
          /\ \A i \in 1 .. Len(old) : longer[i] = old[i]
      BY <1>1
    <2>2. Coalesce(n, row) = Slide(longer)
      BY <1>3 DEF Coalesce
    <2>. HIDE DEF longer, old
    <2>3. CASE Len(longer) > WindowLen
      <3>. DEFINE new == Tail(longer)
      <3>1. /\ new \in Seq(Row) /\ Len(new) = Len(old)
            /\ \A i \in 1 .. Len(old) : new[i] = longer[i + 1]
        BY <1>1, <2>1
      <3>2. Len(old) = WindowLen /\ Len(old) >= 1
        BY <1>1, <2>1, <2>3
      <3>3. new[Len(old)] = row /\ \A i \in 1 .. Len(old) - 1 : new[i] = old[i + 1] /\ i + 1 \in 1 .. Len(old)
        BY <1>1, <2>1, <3>1, <3>2
      <3>. HIDE DEF new
      <3>4. Moves(old, new, row, FALSE)
        BY <1>1, <3>1, <3>2, <3>3 DEF Moves
      <3>. QED BY <1>3, <2>2, <2>3, <3>4 DEF Slide, new, old
    <2>4. CASE ~ (Len(longer) > WindowLen)
      <3>1. \A i \in 1 .. Len(longer) - 1 : longer[i] = old[i + 0] /\ i + 0 \in 1 .. Len(old)
        BY <1>1, <2>1
      <3>2. Moves(old, longer, row, FALSE)
        BY <1>1, <2>1, <2>4, <3>1 DEF Moves
      <3>. QED BY <1>3, <2>2, <2>4, <3>2 DEF Slide, old
    <2>. QED BY <2>3, <2>4
  <1>. QED BY <1>2, <1>3

\* A window is of the rows, and is them when there are enough.
LEMMA WindowOfRows ==
  ASSUME NEW rows \in Seq(Row), Len(rows) >= 1, Len(rows) <= WindowLen
  PROVE  /\ Window(rows) \in [1 .. WindowLen -> Row]
         /\ Window(rows)[WindowLen] = rows[Len(rows)]
         /\ Len(rows) = WindowLen => \A i \in 1 .. WindowLen : Window(rows)[i] = rows[i]
  <1>. DEFINE padding == WindowLen - Len(rows)
  <1>1. Len(rows) \in Nat /\ WindowLen \in Nat \ {0} /\ padding \in Nat
    BY MlInferenceAssumption
  <1>2. \A i \in 1 .. WindowLen :
          /\ i <= padding => rows[1] \in Row
          /\ ~ (i <= padding) => i - padding \in 1 .. Len(rows) /\ rows[i - padding] \in Row
    BY <1>1
  <1>3. Window(rows) = [i \in 1 .. WindowLen |-> IF i <= padding THEN rows[1] ELSE rows[i - padding]]
    BY DEF Window
  <1>4. WindowLen \in 1 .. WindowLen /\ ~ (WindowLen <= padding) /\ WindowLen - padding = Len(rows)
    BY <1>1
  <1>5. Len(rows) = WindowLen => \A i \in 1 .. WindowLen : ~ (i <= padding) /\ i - padding = i
    BY <1>1
  <1>. HIDE DEF padding
  <1>. QED BY <1>2, <1>3, <1>4, <1>5

-----------------------------------------------------------------------------
(***************************************************************************)
(* What a reading does.                                                    *)
(***************************************************************************)
NewRow(n, s, c) == [seq |-> s, vector |-> [source[n] EXCEPT ![c] = s]]
NewRows(n, s, c) == Coalesce(n, NewRow(n, s, c))
NewPrediction(n, s, c) == [seq |-> s, window |-> Window(NewRows(n, s, c))]

LEMMA NewTypes ==
  ASSUME IInv, NEW n \in Node, NEW s \in Seqs, NEW c \in Channel
  PROVE  /\ NewRow(n, s, c) \in Row
         /\ Moves(buffer[n], NewRows(n, s, c), NewRow(n, s, c), lastPushed[n] = s)
         /\ NewPrediction(n, s, c) \in Prediction
         /\ NewPrediction(n, s, c).window[WindowLen] = NewRow(n, s, c)
  <1>1. s \in 0 .. MaxSeq /\ source[n] \in [Channel -> 0 .. MaxSeq]
    BY MlInferenceAssumption DEF IInv, TypeOK, Seqs
  <1>2. NewRow(n, s, c) \in Row /\ NewRow(n, s, c).seq = s
    BY <1>1 DEF NewRow, Row
  <1>3. Moves(buffer[n], NewRows(n, s, c), NewRow(n, s, c), lastPushed[n] = s)
    BY <1>2, CoalesceMoves DEF NewRows
  <1>4. /\ Window(NewRows(n, s, c)) \in [1 .. WindowLen -> Row]
        /\ Window(NewRows(n, s, c))[WindowLen] = NewRow(n, s, c)
    BY <1>3, WindowOfRows DEF Moves
  <1>. QED BY <1>2, <1>3, <1>4 DEF NewPrediction, Prediction

\* The reading is taken over.
TakesOver(n, s, c) ==
  /\ <<n, s, c>> \notin handled
  /\ handled' = handled \cup {<<n, s, c>>}
  /\ source' = [source EXCEPT ![n] = NewRow(n, s, c).vector]
  /\ buffer' = [buffer EXCEPT ![n] = NewRows(n, s, c)]
  /\ lastPushed' = [lastPushed EXCEPT ![n] = s]
  /\ UNCHANGED <<backoff, latest, answered, cancelled>>

\* A call is made of what was pending, if it is of another packet.
FlushesOther(n, s) == pending[n] # None /\ pending[n].seq # s /\ Execute(n, pending[n])

Evaluates(n, s, c) ==
  \/ UNCHANGED pending /\ NoCall /\ (backoff \/ ~ IsReady(NewRows(n, s, c)))
  \/ /\ ~ backoff /\ IsReady(NewRows(n, s, c))
     /\ pending' = [pending EXCEPT ![n] = NewPrediction(n, s, c)]
     /\ NoCall \/ FlushesOther(n, s)

LEMMA HandleFacts ==
  ASSUME IInv, NEW n \in Node, NEW s \in Seqs, NEW c \in Channel, HandleSensorReading(n, s, c)
  PROVE  TakesOver(n, s, c) /\ Evaluates(n, s, c)
  <1>1. TakesOver(n, s, c)
    BY DEF HandleSensorReading, CurrentVector, NewRow, NewRows, service, TakesOver
  <1>2. IF IsReady(NewRows(n, s, c)) /\ ~ IsOpen
        THEN Debounce(n, NewPrediction(n, s, c))
        ELSE UNCHANGED pending /\ NoCall
    BY DEF HandleSensorReading, CurrentVector, NewRow, NewRows, NewPrediction
  <1>3. NewPrediction(n, s, c).seq = s
    BY DEF NewPrediction
  <1>4. ASSUME Debounce(n, NewPrediction(n, s, c))
        PROVE  /\ pending' = [pending EXCEPT ![n] = NewPrediction(n, s, c)]
               /\ NoCall \/ FlushesOther(n, s)
    BY <1>3, <1>4 DEF Debounce, IsSamePacket, Refresh, Flush, FlushesOther
  <1>. QED BY <1>1, <1>2, <1>4 DEF IsOpen, Evaluates

-----------------------------------------------------------------------------
(***************************************************************************)
(* The invariant of the types and of the last row.                         *)
(***************************************************************************)
Call == [node : Node, prediction : Prediction]

LEMMA ExecuteFacts ==
  ASSUME IInv, NEW n \in Node, NEW p \in Prediction, Execute(n, p)
  PROVE  /\ calls' \in Seq(Call) /\ Len(calls) \in Nat /\ Len(calls') = Len(calls) + 1
         /\ calls'[Len(calls) + 1] = [node |-> n, prediction |-> p]
         /\ \A i \in 1 .. Len(calls) : calls'[i] = calls[i]
         /\ inFlight' \subseteq 1 .. Len(calls') /\ inFlight \subseteq inFlight'
         /\ spared' \in [Node -> Nat]
         /\ ~ backoff => spared' = spared
         /\ \A m \in Node : spared'[m] = IF backoff /\ m = n THEN spared[m] + 1 ELSE spared[m]
  <1>. DEFINE call == [node |-> n, prediction |-> p]
  <1>1. calls \in Seq(Call) /\ call \in Call
    BY DEF IInv, TypeOK, Call
  <1>2. /\ calls' = Append(calls, call) /\ inFlight' = inFlight \cup {Len(calls) + 1}
        /\ spared' = IF backoff THEN [spared EXCEPT ![n] = @ + 1] ELSE spared
    BY DEF Execute
  <1>3. spared \in [Node -> Nat] /\ backoff \in BOOLEAN /\ inFlight \subseteq 1 .. Len(calls)
    BY DEF IInv, TypeOK
  <1>. HIDE DEF call
  <1>4. /\ calls' \in Seq(Call) /\ Len(calls) \in Nat /\ Len(calls') = Len(calls) + 1
        /\ calls'[Len(calls) + 1] = call
        /\ \A i \in 1 .. Len(calls) : calls'[i] = calls[i]
    BY <1>1, <1>2
  <1>5. inFlight' \subseteq 1 .. Len(calls') /\ inFlight \subseteq inFlight'
    <2>1. \A k \in 1 .. Len(calls) : k \in 1 .. Len(calls')
      BY <1>4
    <2>2. Len(calls) + 1 \in 1 .. Len(calls')
      BY <1>4
    <2>. QED BY <1>2, <1>3, <2>1, <2>2
  <1>6. /\ spared' \in [Node -> Nat]
        /\ \A m \in Node : spared'[m] = IF backoff /\ m = n THEN spared[m] + 1 ELSE spared[m]
    BY <1>2, <1>3
  <1>7. ~ backoff => spared' = spared
    BY <1>2
  <1>. QED BY <1>4, <1>5, <1>6, <1>7 DEF call

\* The state of the calls keeps its types, with or without a call.
CallTypes ==
  /\ calls \in Seq(Call)
  /\ inFlight \subseteq 1 .. Len(calls)
  /\ answered \subseteq inFlight
  /\ spared \in [Node -> Nat]

LEMMA CallTypesStay ==
  ASSUME IInv, UNCHANGED answered,
         NoCall \/ \E n \in Node, p \in Prediction : Execute(n, p)
  PROVE  CallTypes'
  <1>1. CASE NoCall
    BY <1>1 DEF NoCall, IInv, TypeOK, CallTypes, Call
  <1>2. CASE \E n \in Node, p \in Prediction : Execute(n, p)
    BY <1>2, ExecuteFacts DEF IInv, TypeOK, CallTypes
  <1>. QED BY <1>1, <1>2

LEMMA IInvInit == Init => IInv
  <1>. SUFFICES ASSUME Init PROVE IInv
    OBVIOUS
  <1>1. /\ source \in [Node -> [Channel -> 0 .. MaxSeq]]
        /\ lastPushed \in [Node -> 0 .. MaxSeq]
    BY MlInferenceAssumption DEF Init
  <1>2. buffer \in [Node -> Seq(Row)] /\ \A n \in Node : buffer[n] = <<>>
    BY DEF Init
  <1>3. \A n \in Node : Len(buffer[n]) <= WindowLen
    BY <1>2, MlInferenceAssumption
  <1>4. pending \in [Node -> Prediction \cup {None}]
    BY DEF Init
  <1>5. latest \in [Node -> Nat] /\ spared \in [Node -> Nat]
    BY DEF Init
  <1>6. /\ handled \subseteq Node \X Seqs \X Channel /\ cancelled \subseteq Node \X Seqs
        /\ calls \in Seq([node : Node, prediction : Prediction])
        /\ inFlight = {} /\ answered = {} /\ backoff \in BOOLEAN
    <2>1. <<>> \in Seq([node : Node, prediction : Prediction])
      OBVIOUS
    <2>. QED BY <2>1 DEF Init
  <1>7. LastRow
    BY <1>2 DEF Init, LastRow
  <1>. QED BY <1>1, <1>2, <1>3, <1>4, <1>5, <1>6, <1>7 DEF IInv, TypeOK

LEMMA HandleKeepsIInv ==
  ASSUME IInv, NEW n \in Node, NEW s \in Seqs, NEW c \in Channel, HandleSensorReading(n, s, c)
  PROVE  IInv'
  <1>0. TakesOver(n, s, c) /\ Evaluates(n, s, c)
    BY HandleFacts
  <1>1. /\ handled' = handled \cup {<<n, s, c>>}
        /\ source' = [source EXCEPT ![n] = NewRow(n, s, c).vector]
        /\ buffer' = [buffer EXCEPT ![n] = NewRows(n, s, c)]
        /\ lastPushed' = [lastPushed EXCEPT ![n] = s]
        /\ UNCHANGED <<backoff, latest, answered, cancelled>>
    BY <1>0 DEF TakesOver
  <1>2. /\ NewRow(n, s, c) \in Row /\ NewPrediction(n, s, c) \in Prediction
        /\ NewRow(n, s, c).seq = s
        /\ NewRows(n, s, c) \in Seq(Row) /\ 1 <= Len(NewRows(n, s, c))
        /\ Len(NewRows(n, s, c)) <= WindowLen
        /\ NewRows(n, s, c)[Len(NewRows(n, s, c))] = NewRow(n, s, c)
    BY NewTypes DEF Moves, NewRow
  <1>3. pending' \in [Node -> Prediction \cup {None}]
    BY <1>0, <1>2 DEF Evaluates, IInv, TypeOK
  <1>4. NoCall \/ \E m \in Node, p \in Prediction : Execute(m, p)
    <2>1. NoCall \/ (pending[n] # None /\ Execute(n, pending[n]))
      BY <1>0 DEF Evaluates, FlushesOther
    <2>2. pending[n] # None => pending[n] \in Prediction
      BY DEF IInv, TypeOK
    <2>. QED BY <2>1, <2>2
  <1>5. CallTypes'
    BY <1>1, <1>4, CallTypesStay
  <1>6. handled' \subseteq Node \X Seqs \X Channel
    BY <1>1 DEF IInv, TypeOK
  <1>7. source' \in [Node -> [Channel -> 0 .. MaxSeq]]
    BY <1>1, <1>2 DEF IInv, TypeOK, Row
  <1>8. buffer' \in [Node -> Seq(Row)] /\ \A m \in Node : Len(buffer'[m]) <= WindowLen
    BY <1>1, <1>2 DEF IInv, TypeOK
  <1>9. lastPushed' \in [Node -> 0 .. MaxSeq]
    BY <1>1, MlInferenceAssumption DEF IInv, TypeOK, Seqs
  <1>10. TypeOK'
    BY <1>1, <1>3, <1>5, <1>6, <1>7, <1>8, <1>9 DEF IInv, TypeOK, CallTypes, Call
  <1>11. LastRow'
    <2>. SUFFICES ASSUME NEW m \in Node
                  PROVE  /\ lastPushed'[m] = 0 => buffer'[m] = <<>>
                         /\ lastPushed'[m] # 0 =>
                              buffer'[m] # <<>> /\ buffer'[m][Len(buffer'[m])].seq = lastPushed'[m]
      BY DEF LastRow
    <2>1. CASE m = n
      <3>1. buffer'[m] = NewRows(n, s, c) /\ lastPushed'[m] = s /\ s # 0
        BY <1>1, <2>1 DEF IInv, TypeOK, Seqs
      <3>2. NewRows(n, s, c) # <<>>
        BY <1>2
      <3>. QED BY <1>2, <3>1, <3>2
    <2>2. CASE m # n
      BY <1>1, <2>2 DEF IInv, TypeOK, LastRow
    <2>. QED BY <2>1, <2>2
  <1>. QED BY <1>10, <1>11 DEF IInv

LEMMA IInvStep ==
  ASSUME IInv, [Next]_vars
  PROVE  IInv'
  <1>1. ASSUME UNCHANGED window, TypeOK'
        PROVE  IInv'
    BY <1>1 DEF IInv, LastRow, window
  <1>2. ASSUME NEW n \in Node, NEW s \in Seqs, NEW c \in Channel, HandleSensorReading(n, s, c)
        PROVE  IInv'
    BY <1>2, HandleKeepsIInv
  <1>3. ASSUME NEW n \in Node, DispatchPendingPrediction(n)
        PROVE  IInv'
    <2>1. pending[n] \in Prediction /\ Execute(n, pending[n])
      BY <1>3 DEF DispatchPendingPrediction, IInv, TypeOK
    <2>2. UNCHANGED <<window, service, answered, cancelled>>
      BY <1>3 DEF DispatchPendingPrediction
    <2>3. CallTypes'
      BY <2>1, <2>2, CallTypesStay
    <2>4. pending' \in [Node -> Prediction \cup {None}]
      BY <1>3 DEF DispatchPendingPrediction, IInv, TypeOK
    <2>. QED BY <1>1, <2>2, <2>3, <2>4 DEF IInv, TypeOK, CallTypes, Call, window, service
  <1>4. ASSUME NEW nodes \in SUBSET Node, Drop(nodes)
        PROVE  IInv'
    <2>1. pending' \in [Node -> Prediction \cup {None}]
      BY <1>4 DEF Drop, IInv, TypeOK
    <2>2. cancelled' \subseteq Node \X Seqs
      <3>1. \A m \in nodes : pending[m] # None => pending[m].seq \in Seqs
        BY DEF IInv, TypeOK, Prediction
      <3>. QED BY <1>4, <3>1 DEF Drop, IInv, TypeOK
    <2>. QED BY <1>1, <1>4, <2>1, <2>2 DEF Drop, IInv, TypeOK, window, service
  <1>5. ASSUME NEW i \in inFlight, ReceiveHead(i)
        PROVE  IInv'
    BY <1>1, <1>5 DEF ReceiveHead, IInv, TypeOK, window, service, history
  <1>6. ASSUME NEW i \in inFlight, Succeed(i)
        PROVE  IInv'
    <2>1. i \in Nat
      BY DEF IInv, TypeOK
    <2>2. latest' \in [Node -> Nat]
      BY <1>6, <2>1 DEF Succeed, IInv, TypeOK
    <2>. QED BY <1>1, <1>6, <2>2 DEF Succeed, IInv, TypeOK, window, history
  <1>7. ASSUME NEW i \in inFlight, Fail(i)
        PROVE  IInv'
    <2>1. spared' \in [Node -> Nat]
      BY <1>7 DEF Fail, IInv, TypeOK
    <2>. QED BY <1>1, <1>7, <2>1 DEF Fail, IInv, TypeOK, window
  <1>8. CASE CooldownElapses
    BY <1>1, <1>8 DEF CooldownElapses, IInv, TypeOK, window, history
  <1>9. CASE UNCHANGED vars
    BY <1>1, <1>9 DEF IInv, TypeOK, vars, window, service, history
  <1>. QED
    BY <1>2, <1>3, <1>4, <1>5, <1>6, <1>7, <1>8, <1>9
       DEF Next, OnNodeOffline, OnModuleDestroy

(***************************************************************************)
(* What the service keeps of windows, pending predictions and calls has    *)
(* its type: a buffer holds at most WindowLen rows, and a call under way   *)
(* is one that was made.                                                   *)
(***************************************************************************)
THEOREM TypeCorrect == Spec => []TypeOK
  <1>1. IInv => TypeOK
    BY DEF IInv
  <1>. QED BY IInvInit, IInvStep, <1>1, PTL DEF Spec

-----------------------------------------------------------------------------
(***************************************************************************)
(* The breaker.                                                            *)
(***************************************************************************)
LEMMA SparedInit == Init => SparedInv
  BY DEF Init, SparedInv

LEMMA SparedStep ==
  ASSUME IInv, SparedInv, [Next]_vars
  PROVE  SparedInv'
  <1>0. spared \in [Node -> Nat]
    BY DEF IInv, TypeOK
  <1>1. ASSUME UNCHANGED <<pending, spared>>, backoff' => backoff
        PROVE  SparedInv'
    BY <1>1 DEF SparedInv
  <1>2. ASSUME NEW n \in Node, NEW s \in Seqs, NEW c \in Channel, HandleSensorReading(n, s, c)
        PROVE  SparedInv'
    <2>1. TakesOver(n, s, c) /\ Evaluates(n, s, c)
      BY <1>2, HandleFacts
    <2>2. CASE UNCHANGED pending /\ NoCall
      BY <1>1, <2>1, <2>2 DEF TakesOver, NoCall
    <2>3. CASE ~ backoff /\ (NoCall \/ FlushesOther(n, s))
      <3>1. pending[n] # None => pending[n] \in Prediction
        BY DEF IInv, TypeOK
      <3>2. spared' = spared
        BY <2>3, <3>1, ExecuteFacts DEF NoCall, FlushesOther
      <3>3. ~ backoff'
        BY <2>1, <2>3 DEF TakesOver
      <3>. QED BY <3>2, <3>3 DEF SparedInv
    <2>. QED BY <2>1, <2>2, <2>3 DEF Evaluates
  <1>3. ASSUME NEW n \in Node, DispatchPendingPrediction(n)
        PROVE  SparedInv'
    <2>1. pending[n] \in Prediction /\ Execute(n, pending[n]) /\ pending[n] # None
      BY <1>3 DEF DispatchPendingPrediction, IInv, TypeOK
    <2>2. /\ pending' = [pending EXCEPT ![n] = None] /\ backoff' = backoff
          /\ pending \in [Node -> Prediction \cup {None}]
      BY <1>3 DEF DispatchPendingPrediction, service, IInv, TypeOK
    <2>3. \A m \in Node : spared'[m] = IF backoff /\ m = n THEN spared[m] + 1 ELSE spared[m]
      BY <2>1, ExecuteFacts
    <2>4. SUFFICES ASSUME NEW m \in Node
                   PROVE  spared'[m] <= 1 /\ (backoff' /\ pending'[m] # None => spared'[m] = 0)
      BY DEF SparedInv
    <2>5. CASE m = n
      BY <1>0, <2>1, <2>2, <2>3, <2>5 DEF SparedInv
    <2>6. CASE m # n
      BY <1>0, <2>2, <2>3, <2>6 DEF SparedInv
    <2>. QED BY <2>5, <2>6
  <1>4. ASSUME NEW nodes \in SUBSET Node, Drop(nodes)
        PROVE  SparedInv'
    BY <1>4 DEF Drop, SparedInv, service
  <1>5. ASSUME NEW i \in inFlight, ReceiveHead(i) \/ Succeed(i)
        PROVE  SparedInv'
    BY <1>1, <1>5 DEF ReceiveHead, Succeed, service, history
  <1>6. ASSUME NEW i \in inFlight, Fail(i)
        PROVE  SparedInv'
    BY <1>6 DEF Fail, SparedInv
  <1>7. CASE CooldownElapses \/ UNCHANGED vars
    BY <1>1, <1>7 DEF CooldownElapses, vars, service, history
  <1>. QED
    BY <1>2, <1>3, <1>4, <1>5, <1>6, <1>7 DEF Next, OnNodeOffline, OnModuleDestroy

(***************************************************************************)
(* While the service is left alone after a failure, a node makes at most   *)
(* the call that was pending, whether packets come whole or not and        *)
(* whatever else is under way.                                             *)
(***************************************************************************)
THEOREM FailingServiceSpared == Spec => []FailingServiceIsSpared
  <1>1. SparedInv => FailingServiceIsSpared
    BY DEF SparedInv, FailingServiceIsSpared
  <1>2. IInv /\ SparedInv /\ [Next]_vars => IInv' /\ SparedInv'
    BY IInvStep, SparedStep
  <1>. QED BY IInvInit, SparedInit, <1>1, <1>2, PTL DEF Spec

-----------------------------------------------------------------------------
(***************************************************************************)
(* One call for a packet.                                                  *)
(***************************************************************************)
LEMMA HandledGrows ==
  ASSUME handled \subseteq handled'
  PROVE  \A n \in Node, s \in Seqs :
           /\ IsSeen(n, s) => IsSeen(n, s)'
           /\ IsComplete(n, s) => IsComplete(n, s)'
  BY DEF IsSeen, IsComplete

\* Between two packets, and within one but for it, nothing is half handled.
LEMMA SeenIsComplete ==
  ASSUME NEW n \in Node, NEW s \in Seqs, IsSeen(n, s), <<n, s>> \notin Partial
  PROVE  IsComplete(n, s)
  <1>1. ~ IsPartial(n, s)
    BY DEF Partial
  <1>. QED BY <1>1 DEF IsPartial, IsSeen, IsComplete

LEMMA OthersAreComplete ==
  ASSUME WholePackets, NEW n \in Node, NEW s \in Seqs, NEW c \in Channel,
         HandleSensorReading(n, s, c), NEW m \in Node, NEW r \in Seqs,
         IsSeen(m, r), <<m, r>> # <<n, s>>
  PROVE  IsComplete(m, r)
  <1>1. Partial \subseteq {<<n, s>>}
    BY DEF HandleSensorReading, CurrentVector
  <1>. QED BY <1>1, SeenIsComplete

LEMMA PendingTypes ==
  ASSUME IInv, NEW n \in Node, pending[n] # None
  PROVE  pending[n] \in Prediction /\ pending[n].seq \in Seqs
  BY DEF IInv, TypeOK, Prediction

\* A call of a complete packet that was not called keeps the calls in order.
LEMMA ExecuteKeepsCalls ==
  ASSUME IInv, CallsAreOfComplete, CallsDiffer, handled \subseteq handled',
         NEW n \in Node, NEW p \in Prediction, Execute(n, p),
         IsComplete(n, p.seq), ~ IsCalled(n, p.seq)
  PROVE  /\ CallsAreOfComplete' /\ CallsDiffer'
         /\ \A m \in Node, s \in Seqs : IsCalled(m, s)' => IsCalled(m, s) \/ <<m, s>> = <<n, p.seq>>
  <1>1. /\ Len(calls) \in Nat /\ Len(calls') = Len(calls) + 1
        /\ calls'[Len(calls) + 1] = [node |-> n, prediction |-> p]
        /\ \A i \in 1 .. Len(calls) : calls'[i] = calls[i]
    BY ExecuteFacts
  <1>2. \A i \in 1 .. Len(calls') : i \in 1 .. Len(calls) \/ i = Len(calls) + 1
    BY <1>1
  <1>3. \A i \in 1 .. Len(calls') :
          PacketOf(i)' = IF i \in 1 .. Len(calls) THEN PacketOf(i) ELSE <<n, p.seq>>
    BY <1>1, <1>2 DEF PacketOf
  <1>4. \A m \in Node, s \in Seqs : IsCalled(m, s)' => IsCalled(m, s) \/ <<m, s>> = <<n, p.seq>>
    BY <1>3 DEF IsCalled
  <1>5. CallsAreOfComplete'
    <2>. SUFFICES ASSUME NEW m \in Node, NEW s \in Seqs, IsCalled(m, s)'
                  PROVE  IsComplete(m, s)'
      BY DEF CallsAreOfComplete
    <2>1. IsComplete(m, s)
      BY <1>4 DEF CallsAreOfComplete
    <2>. QED BY <2>1, HandledGrows
  <1>6. \A i \in 1 .. Len(calls) : PacketOf(i) # <<n, p.seq>>
    BY DEF IsCalled
  <1>7. CallsDiffer'
    <2>. SUFFICES ASSUME NEW i \in 1 .. Len(calls'), NEW j \in 1 .. Len(calls'), PacketOf(i)' = PacketOf(j)'
                  PROVE  i = j
      BY DEF CallsDiffer
    <2>. QED BY <1>2, <1>3, <1>6 DEF CallsDiffer
  <1>. QED BY <1>4, <1>5, <1>7

LEMMA NoCallKeepsCalls ==
  ASSUME CallsAreOfComplete, CallsDiffer, handled \subseteq handled', UNCHANGED calls
  PROVE  /\ CallsAreOfComplete' /\ CallsDiffer'
         /\ \A m \in Node, s \in Seqs : IsCalled(m, s)' => IsCalled(m, s)
  <1>1. \A m \in Node, s \in Seqs : IsCalled(m, s)' => IsCalled(m, s)
    BY DEF IsCalled, PacketOf
  <1>2. CallsAreOfComplete'
    BY <1>1, HandledGrows DEF CallsAreOfComplete
  <1>3. CallsDiffer'
    BY DEF CallsDiffer, PacketOf
  <1>. QED BY <1>1, <1>2, <1>3

LEMMA OnceInit == Init => OnceInv
  BY DEF Init, OnceInv, PendingIsNext, IsPending, CallsAreOfComplete, IsCalled, CallsDiffer

LEMMA HandleKeepsOnce ==
  ASSUME WholePackets, IInv, OnceInv,
         NEW n \in Node, NEW s \in Seqs, NEW c \in Channel, HandleSensorReading(n, s, c)
  PROVE  OnceInv'
  <1>1. TakesOver(n, s, c) /\ Evaluates(n, s, c)
    BY HandleFacts
  <1>2. handled \subseteq handled' /\ <<n, s, c>> \notin handled /\ IsSeen(n, s)' /\ UNCHANGED backoff
    BY <1>1 DEF TakesOver, IsSeen
  <1>3. ~ IsComplete(n, s) /\ ~ IsCalled(n, s)
    BY <1>2 DEF OnceInv, CallsAreOfComplete, IsComplete
  <1>4. CASE UNCHANGED pending /\ NoCall
    <2>1. /\ CallsAreOfComplete' /\ CallsDiffer'
          /\ \A m \in Node, r \in Seqs : IsCalled(m, r)' => IsCalled(m, r)
      BY <1>2, <1>4, NoCallKeepsCalls DEF OnceInv, NoCall
    <2>2. PendingIsNext'
      <3>1. \A m \in Node, r \in Seqs : IsPending(m, r)' => IsPending(m, r)
        BY <1>4 DEF IsPending
      <3>. QED BY <1>2, <2>1, <3>1, HandledGrows DEF OnceInv, PendingIsNext
    <2>. QED BY <2>1, <2>2 DEF OnceInv
  <1>5. ASSUME ~ backoff, pending' = [pending EXCEPT ![n] = NewPrediction(n, s, c)],
               NoCall \/ FlushesOther(n, s)
        PROVE  OnceInv'
    <2>1. /\ CallsAreOfComplete' /\ CallsDiffer'
          /\ \A m \in Node, r \in Seqs :
               IsCalled(m, r)' => IsCalled(m, r) \/ (m = n /\ r # s)
      <3>1. CASE NoCall
        BY <1>2, <3>1, NoCallKeepsCalls DEF OnceInv, NoCall
      <3>2. CASE FlushesOther(n, s)
        <4>1. pending[n] # None /\ pending[n].seq # s /\ Execute(n, pending[n])
          BY <3>2 DEF FlushesOther
        <4>2. pending[n] \in Prediction /\ pending[n].seq \in Seqs
          BY <4>1, PendingTypes
        <4>3. IsSeen(n, pending[n].seq) /\ ~ IsCalled(n, pending[n].seq)
          BY <4>1, <4>2 DEF OnceInv, PendingIsNext, IsPending
        <4>4. IsComplete(n, pending[n].seq)
          BY <4>1, <4>2, <4>3, OthersAreComplete
        <4>5. /\ CallsAreOfComplete' /\ CallsDiffer'
              /\ \A m \in Node, r \in Seqs :
                   IsCalled(m, r)' => IsCalled(m, r) \/ <<m, r>> = <<n, pending[n].seq>>
          BY <1>2, <4>1, <4>2, <4>3, <4>4, ExecuteKeepsCalls DEF OnceInv
        <4>. QED BY <4>1, <4>5
      <3>. QED BY <1>5, <3>1, <3>2
    <2>2. PendingIsNext'
      <3>. SUFFICES ASSUME NEW m \in Node, NEW r \in Seqs, IsPending(m, r)'
                    PROVE  IsSeen(m, r)' /\ ~ IsCalled(m, r)'
        BY <1>2, <1>5 DEF PendingIsNext
      <3>1. CASE m = n
        <4>1. r = s
          BY <1>5, <3>1 DEF IsPending, NewPrediction, IInv, TypeOK
        <4>. QED BY <1>2, <1>3, <2>1, <3>1, <4>1
      <3>2. CASE m # n
        <4>1. IsPending(m, r)
          BY <1>5, <3>2 DEF IsPending, IInv, TypeOK
        <4>2. IsSeen(m, r) /\ ~ IsCalled(m, r)
          BY <4>1 DEF OnceInv, PendingIsNext
        <4>. QED BY <1>2, <2>1, <3>2, <4>2, HandledGrows
      <3>. QED BY <3>1, <3>2
    <2>. QED BY <2>1, <2>2 DEF OnceInv
  <1>. QED BY <1>1, <1>4, <1>5 DEF Evaluates

LEMMA OnceStep ==
  ASSUME WholePackets, IInv, OnceInv, [Next]_vars
  PROVE  OnceInv'
  <1>1. ASSUME LoopIsOver, NEW n \in Node, NEW s \in Seqs, IsPending(n, s)
        PROVE  IsComplete(n, s) /\ ~ IsCalled(n, s)
    BY <1>1, SeenIsComplete DEF LoopIsOver, OnceInv, PendingIsNext
  <1>2. ASSUME UNCHANGED <<handled, calls>>,
               \A n \in Node : pending'[n] # None => pending'[n] = pending[n],
               backoff' => backoff \/ LoopIsOver
        PROVE  OnceInv'
    <2>1. /\ CallsAreOfComplete' /\ CallsDiffer'
          /\ \A m \in Node, s \in Seqs : IsCalled(m, s)' => IsCalled(m, s)
      BY <1>2, NoCallKeepsCalls DEF OnceInv
    <2>2. PendingIsNext'
      <3>. SUFFICES ASSUME NEW m \in Node, NEW r \in Seqs, IsPending(m, r)'
                    PROVE  IsSeen(m, r)' /\ ~ IsCalled(m, r)' /\ (backoff' => IsComplete(m, r)')
        BY DEF PendingIsNext
      <3>1. IsPending(m, r)
        BY <1>2 DEF IsPending
      <3>2. IsSeen(m, r) /\ ~ IsCalled(m, r) /\ (backoff' => IsComplete(m, r))
        BY <1>1, <1>2, <3>1 DEF OnceInv, PendingIsNext
      <3>. QED BY <1>2, <2>1, <3>2, HandledGrows
    <2>. QED BY <2>1, <2>2 DEF OnceInv
  <1>3. ASSUME NEW n \in Node, NEW s \in Seqs, NEW c \in Channel, HandleSensorReading(n, s, c)
        PROVE  OnceInv'
    BY <1>3, HandleKeepsOnce
  <1>4. ASSUME NEW n \in Node, DispatchPendingPrediction(n)
        PROVE  OnceInv'
    <2>1. /\ LoopIsOver /\ pending[n] # None /\ Execute(n, pending[n])
          /\ pending' = [pending EXCEPT ![n] = None] /\ UNCHANGED <<handled, backoff>>
      BY <1>4 DEF DispatchPendingPrediction, window, service
    <2>2. pending[n] \in Prediction /\ pending[n].seq \in Seqs
      BY <2>1, PendingTypes
    <2>3. IsComplete(n, pending[n].seq) /\ ~ IsCalled(n, pending[n].seq)
      BY <1>1, <2>1, <2>2 DEF IsPending
    <2>4. /\ CallsAreOfComplete' /\ CallsDiffer'
          /\ \A m \in Node, s \in Seqs :
               IsCalled(m, s)' => IsCalled(m, s) \/ <<m, s>> = <<n, pending[n].seq>>
      BY <2>1, <2>2, <2>3, ExecuteKeepsCalls DEF OnceInv
    <2>5. PendingIsNext'
      <3>. SUFFICES ASSUME NEW m \in Node, NEW r \in Seqs, IsPending(m, r)'
                    PROVE  IsSeen(m, r)' /\ ~ IsCalled(m, r)' /\ (backoff' => IsComplete(m, r)')
        BY DEF PendingIsNext
      <3>1. m # n /\ IsPending(m, r)
        BY <2>1 DEF IsPending, IInv, TypeOK
      <3>2. IsSeen(m, r) /\ ~ IsCalled(m, r) /\ (backoff => IsComplete(m, r))
        BY <3>1 DEF OnceInv, PendingIsNext
      <3>. QED BY <2>1, <2>4, <3>1, <3>2, HandledGrows
    <2>. QED BY <2>4, <2>5 DEF OnceInv
  <1>5. ASSUME NEW nodes \in SUBSET Node, Drop(nodes)
        PROVE  OnceInv'
    BY <1>2, <1>5 DEF Drop, window, service
  <1>6. ASSUME NEW i \in inFlight, ReceiveHead(i) \/ Succeed(i)
        PROVE  OnceInv'
    BY <1>2, <1>6 DEF ReceiveHead, Succeed, window, service
  <1>7. ASSUME NEW i \in inFlight, Fail(i)
        PROVE  OnceInv'
    BY <1>2, <1>7 DEF Fail, window
  <1>8. CASE CooldownElapses \/ UNCHANGED vars
    BY <1>2, <1>8 DEF CooldownElapses, vars, window, service
  <1>. QED
    BY <1>3, <1>4, <1>5, <1>6, <1>7, <1>8 DEF Next, OnNodeOffline, OnModuleDestroy

(***************************************************************************)
(* Where readings of a packet come together, no packet of a node is called *)
(* twice, whatever order packets come in and whichever of timer, flush,    *)
(* failure, backoff and offline node comes first; windows may be padded.   *)
(***************************************************************************)
THEOREM PacketsCalledOnce == ASSUME WholePackets PROVE Spec => []OncePerPacket
  <1>1. IInv /\ OnceInv => OncePerPacket
    <2>1. IInv => DOMAIN calls = 1 .. Len(calls)
      BY DEF IInv, TypeOK
    <2>. QED BY <2>1, Zenon DEF OnceInv, CallsDiffer, OncePerPacket
  <1>2. IInv /\ OnceInv /\ [Next]_vars => IInv' /\ OnceInv'
    BY IInvStep, OnceStep
  <1>. QED BY IInvInit, OnceInit, <1>1, <1>2, PTL DEF Spec

-----------------------------------------------------------------------------
(***************************************************************************)
(* Whole windows.                                                          *)
(***************************************************************************)
\* Before the new row of a buffer are rows of other packets.
LEMMA NewRowsDiffer ==
  ASSUME IInv, PartialIsLast, RowsAreCurrent, RowsDiffer,
         NEW n \in Node, NEW s \in Seqs, NEW c \in Channel, <<n, s, c>> \notin handled
  PROVE  /\ \A i \in 1 .. Len(NewRows(n, s, c)) - 1 :
              /\ NewRows(n, s, c)[i].seq # s
              /\ NewRows(n, s, c)[i] \in Row
              /\ HasRow(n, NewRows(n, s, c)[i])
         /\ \A i, j \in 1 .. Len(NewRows(n, s, c)) :
              NewRows(n, s, c)[i].seq = NewRows(n, s, c)[j].seq => i = j
  <1>. DEFINE old == buffer[n]
              new == NewRows(n, s, c)
              row == NewRow(n, s, c)
  <1>1. /\ new \in Seq(Row) /\ Len(new) \in Nat /\ 1 <= Len(new)
        /\ new[Len(new)] = row /\ row.seq = s
    BY NewTypes DEF Moves, NewRow
  <1>2. PICK d \in {0, 1} : \A i \in 1 .. Len(new) - 1 :
          /\ i + d \in 1 .. Len(old)
          /\ lastPushed[n] = s => i + d < Len(old)
          /\ new[i] = old[i + d]
    BY NewTypes DEF Moves
  <1>3. old \in Seq(Row) /\ Len(old) \in Nat /\ lastPushed[n] \in Nat /\ s # 0
    BY MlInferenceAssumption DEF IInv, TypeOK, Seqs
  <1>4. \A i, j \in 1 .. Len(old) : old[i].seq = old[j].seq => i = j
    BY DEF RowsDiffer
  <1>5. \A i \in 1 .. Len(old) : old[i] \in Row /\ HasRow(n, old[i]) /\ old[i].seq \in Seqs
    <2>1. \A i \in 1 .. Len(old) : old[i] \in Row
      BY <1>3
    <2>2. \A i \in 1 .. Len(old) : HasRow(n, old[i])
      BY DEF HasRow
    <2>. HIDE DEF old
    <2>. QED BY <2>1, <2>2 DEF Row
  <1>6. lastPushed[n] = s => old[Len(old)].seq = s /\ Len(old) \in 1 .. Len(old)
    <2>1. lastPushed[n] = s => old # <<>> /\ old[Len(old)].seq = s
      BY <1>3 DEF IInv, LastRow
    <2>. QED BY <1>3, <2>1
  <1>7. lastPushed[n] # s => \A i \in 1 .. Len(old) : old[i].seq # s
    <2>1. lastPushed[n] # s => ~ IsSeen(n, s)
      BY DEF PartialIsLast, IsPartial, IsSeen
    <2>2. \A i \in 1 .. Len(old) : IsSeen(n, old[i].seq)
      BY <1>5 DEF RowsAreCurrent
    <2>. QED BY <2>1, <2>2
  <1>. HIDE DEF old, new, row
  <1>8. \A i \in 1 .. Len(new) - 1 : new[i].seq # s /\ new[i] \in Row /\ HasRow(n, new[i])
    <2>. SUFFICES ASSUME NEW i \in 1 .. Len(new) - 1
                  PROVE  new[i].seq # s /\ new[i] \in Row /\ HasRow(n, new[i])
      OBVIOUS
    <2>1. i + d \in 1 .. Len(old) /\ (lastPushed[n] = s => i + d < Len(old)) /\ new[i] = old[i + d]
      BY <1>2
    <2>2. new[i] \in Row /\ HasRow(n, new[i])
      BY <1>5, <2>1
    <2>3. CASE lastPushed[n] = s
      <3>1. i + d # Len(old)
        BY <1>3, <2>1, <2>3
      <3>. QED BY <1>4, <1>6, <2>1, <2>2, <2>3, <3>1
    <2>4. CASE lastPushed[n] # s
      BY <1>7, <2>1, <2>2, <2>4
    <2>. QED BY <2>2, <2>3, <2>4
  <1>9. \A i, j \in 1 .. Len(new) : new[i].seq = new[j].seq => i = j
    <2>. SUFFICES ASSUME NEW i \in 1 .. Len(new), NEW j \in 1 .. Len(new), new[i].seq = new[j].seq
                  PROVE  i = j
      OBVIOUS
    <2>1. (i = Len(new) \/ i \in 1 .. Len(new) - 1) /\ (j = Len(new) \/ j \in 1 .. Len(new) - 1)
      BY <1>1
    <2>2. CASE i = Len(new) \/ j = Len(new)
      BY <1>1, <1>8, <2>1, <2>2
    <2>3. CASE i \in 1 .. Len(new) - 1 /\ j \in 1 .. Len(new) - 1
      <3>1. i + d = j + d
        BY <1>2, <1>4, <2>3
      <3>. QED BY <2>3, <3>1
    <2>. QED BY <2>1, <2>2, <2>3
  <1>. QED BY <1>8, <1>9 DEF new

\* What was handled of other packets stays as it is.
LEMMA OthersStay ==
  ASSUME NEW n \in Node, NEW s \in Seqs, NEW c \in Channel, TakesOver(n, s, c)
  PROVE  \A m \in Node, row \in Row : (m # n \/ row.seq # s) /\ IsCurrent(m, row) => IsCurrent(m, row)'
  BY DEF TakesOver, IsCurrent

LEMMA HandleKeepsBuffers ==
  ASSUME WholePackets, IInv, WindowInv,
         NEW n \in Node, NEW s \in Seqs, NEW c \in Channel, HandleSensorReading(n, s, c)
  PROVE  /\ PartialIsLast' /\ SourceIsLast' /\ RowsAreCurrent' /\ RowsDiffer'
         /\ \A row \in Row : row = NewRow(n, s, c) => IsCurrent(n, row)'
  <1>1. TakesOver(n, s, c)
    BY HandleFacts
  <1>2. /\ <<n, s, c>> \notin handled /\ handled' = handled \cup {<<n, s, c>>}
        /\ source' = [source EXCEPT ![n] = NewRow(n, s, c).vector]
        /\ buffer' = [buffer EXCEPT ![n] = NewRows(n, s, c)]
        /\ lastPushed' = [lastPushed EXCEPT ![n] = s]
        /\ handled \subseteq handled'
    BY <1>1 DEF TakesOver
  <1>3. /\ source \in [Node -> [Channel -> 0 .. MaxSeq]] /\ lastPushed \in [Node -> 0 .. MaxSeq]
        /\ buffer \in [Node -> Seq(Row)]
    BY DEF IInv, TypeOK
  <1>4. Partial \subseteq {<<n, s>>}
    BY DEF HandleSensorReading, CurrentVector
  <1>5. PartialIsLast'
    <2>. SUFFICES ASSUME NEW m \in Node, NEW r \in Seqs, IsPartial(m, r)'
                  PROVE  lastPushed'[m] = r
      BY DEF PartialIsLast
    <2>1. CASE <<m, r>> = <<n, s>>
      BY <1>2, <1>3, <2>1
    <2>2. CASE <<m, r>> # <<n, s>>
      <3>1. IsPartial(m, r)
        BY <1>2, <2>2 DEF IsPartial
      <3>. QED BY <1>4, <2>2, <3>1 DEF Partial
    <2>. QED BY <2>1, <2>2
  <1>6. \A d \in Channel : <<n, s, d>> \in handled' => NewRow(n, s, c).vector[d] = s
    <2>. SUFFICES ASSUME NEW d \in Channel, <<n, s, d>> \in handled', d # c
                  PROVE  source[n][d] = s
      BY <1>3 DEF NewRow
    <2>1. <<n, s, d>> \in handled
      BY <1>2
    <2>2. lastPushed[n] = s
      BY <1>2, <2>1 DEF WindowInv, PartialIsLast, IsPartial
    <2>. QED BY <2>1, <2>2 DEF WindowInv, SourceIsLast
  <1>7. NewRow(n, s, c) \in Row /\ NewRow(n, s, c).seq = s
    BY NewTypes DEF NewRow
  <1>8. \A row \in Row : row = NewRow(n, s, c) => IsCurrent(n, row)'
    BY <1>6, <1>7 DEF IsCurrent
  <1>9. SourceIsLast'
    <2>. SUFFICES ASSUME NEW m \in Node, NEW d \in Channel, <<m, lastPushed'[m], d>> \in handled'
                  PROVE  source'[m][d] = lastPushed'[m]
      BY DEF SourceIsLast
    <2>1. CASE m = n
      BY <1>2, <1>3, <1>6, <2>1
    <2>2. CASE m # n
      BY <1>2, <1>3, <2>2 DEF WindowInv, SourceIsLast
    <2>. QED BY <2>1, <2>2
  <1>10. /\ \A i \in 1 .. Len(NewRows(n, s, c)) - 1 :
              /\ NewRows(n, s, c)[i].seq # s
              /\ NewRows(n, s, c)[i] \in Row
              /\ HasRow(n, NewRows(n, s, c)[i])
         /\ \A i, j \in 1 .. Len(NewRows(n, s, c)) :
              NewRows(n, s, c)[i].seq = NewRows(n, s, c)[j].seq => i = j
    BY <1>2, NewRowsDiffer DEF WindowInv
  <1>11. RowsDiffer'
    BY <1>2, <1>3, <1>10 DEF WindowInv, RowsDiffer
  <1>12. RowsAreCurrent'
    <2>. SUFFICES ASSUME NEW m \in Node, NEW row \in Row, HasRow(m, row)'
                  PROVE  IsSeen(m, row.seq)' /\ IsCurrent(m, row)'
      BY DEF RowsAreCurrent
    <2>1. row.seq \in Seqs
      BY DEF Row
    <2>2. ASSUME HasRow(m, row), m # n \/ row.seq # s
          PROVE  IsSeen(m, row.seq)' /\ IsCurrent(m, row)'
      <3>1. IsSeen(m, row.seq) /\ IsCurrent(m, row)
        BY <2>2 DEF WindowInv, RowsAreCurrent
      <3>. QED BY <1>1, <1>2, <2>1, <2>2, <3>1, HandledGrows, OthersStay
    <2>3. CASE m # n
      <3>1. HasRow(m, row)
        BY <1>2, <1>3, <2>3 DEF HasRow
      <3>. QED BY <2>2, <2>3, <3>1
    <2>4. CASE m = n
      <3>1. PICK i \in 1 .. Len(NewRows(n, s, c)) : NewRows(n, s, c)[i] = row
        BY <1>2, <1>3, <2>4 DEF HasRow
      <3>2. /\ i \in 1 .. Len(NewRows(n, s, c)) - 1 \/ i = Len(NewRows(n, s, c))
            /\ NewRows(n, s, c)[Len(NewRows(n, s, c))] = NewRow(n, s, c)
        BY NewTypes DEF Moves
      <3>3. CASE i \in 1 .. Len(NewRows(n, s, c)) - 1
        BY <1>10, <2>2, <2>4, <3>1, <3>3
      <3>4. CASE row = NewRow(n, s, c)
        <4>1. IsCurrent(m, row)'
          BY <1>8, <2>4, <3>4
        <4>2. IsSeen(m, row.seq)'
          BY <1>2, <1>7, <2>4, <3>4 DEF IsSeen
        <4>. QED BY <4>1, <4>2
      <3>. QED BY <3>1, <3>2, <3>3, <3>4
    <2>. QED BY <2>3, <2>4
  <1>. QED BY <1>5, <1>8, <1>9, <1>11, <1>12

LEMMA WindowInit == Init => WindowInv
  BY DEF Init, WindowInv, PartialIsLast, IsPartial, SourceIsLast, RowsAreCurrent, HasRow,
         RowsDiffer, PendingWindows, CallWindows

\* A complete packet has nothing more to come.
LEMMA CurrentIsWhole ==
  ASSUME NEW n \in Node, NEW row, IsComplete(n, row.seq), IsCurrent(n, row)
  PROVE  IsWhole(row)
  BY DEF IsComplete, IsCurrent, IsWhole

\* The window made of the rows that a reading leaves.
LEMMA NewWindowIsSound ==
  ASSUME WholePackets, ~ AllowWarmup, IInv, WindowInv,
         NEW n \in Node, NEW s \in Seqs, NEW c \in Channel, HandleSensorReading(n, s, c),
         IsReady(NewRows(n, s, c))
  PROVE  Len(NewRows(n, s, c)) = WindowLen /\ IsSound(NewPrediction(n, s, c))
  <1>. DEFINE new == NewRows(n, s, c)
  <1>1. /\ new \in Seq(Row) /\ Len(new) <= WindowLen /\ 1 <= Len(new)
        /\ new[Len(new)] = NewRow(n, s, c) /\ NewRow(n, s, c).seq = s
    BY NewTypes DEF Moves, NewRow
  <1>2. Len(new) \in Nat /\ WindowLen \in Nat \ {0}
    BY <1>1, MlInferenceAssumption
  <1>3. Len(new) = WindowLen
    BY <1>1, <1>2 DEF IsReady
  <1>4. <<n, s, c>> \notin handled
    BY DEF HandleSensorReading, CurrentVector
  <1>5. /\ \A i \in 1 .. Len(new) - 1 : new[i].seq # s /\ new[i] \in Row /\ HasRow(n, new[i])
        /\ \A i, j \in 1 .. Len(new) : new[i].seq = new[j].seq => i = j
    BY <1>4, NewRowsDiffer DEF WindowInv
  <1>. HIDE DEF new
  <1>6. \A i \in 1 .. Len(new) - 1 : IsWhole(new[i])
    <2>. SUFFICES ASSUME NEW i \in 1 .. Len(new) - 1 PROVE IsWhole(new[i])
      OBVIOUS
    <2>1. new[i].seq # s /\ new[i] \in Row /\ HasRow(n, new[i]) /\ new[i].seq \in Seqs
      BY <1>5 DEF Row
    <2>2. IsSeen(n, new[i].seq) /\ IsCurrent(n, new[i])
      BY <2>1 DEF WindowInv, RowsAreCurrent
    <2>3. IsComplete(n, new[i].seq)
      BY <2>1, <2>2, OthersAreComplete
    <2>. QED BY <2>2, <2>3, CurrentIsWhole
  <1>7. \A i \in 1 .. WindowLen : Window(new)[i] = new[i]
    BY <1>1, <1>2, <1>3, WindowOfRows
  <1>8. NewPrediction(n, s, c).seq = s /\ NewPrediction(n, s, c).window = Window(new)
    BY DEF NewPrediction, new
  <1>9. \A i \in 1 .. WindowLen : i < WindowLen => i \in 1 .. Len(new) - 1
    BY <1>2, <1>3
  <1>10. IsSound(NewPrediction(n, s, c))
    <2>1. WindowLen \in 1 .. WindowLen
      BY <1>2
    <2>2. Window(new)[WindowLen].seq = s
      BY <1>1, <1>3, <1>7, <2>1
    <2>. QED BY <1>3, <1>5, <1>6, <1>7, <1>8, <1>9, <2>2 DEF IsSound
  <1>. QED BY <1>3, <1>10 DEF new

LEMMA ExecuteKeepsWindows ==
  ASSUME IInv, CallWindows, NEW n \in Node, NEW p \in Prediction, Execute(n, p),
         IsSound(p), IsWhole(p.window[WindowLen])
  PROVE  CallWindows'
  <1>1. /\ Len(calls) \in Nat /\ Len(calls') = Len(calls) + 1
        /\ calls'[Len(calls) + 1] = [node |-> n, prediction |-> p]
        /\ \A i \in 1 .. Len(calls) : calls'[i] = calls[i]
    BY ExecuteFacts
  <1>2. \A i \in 1 .. Len(calls') : i \in 1 .. Len(calls) \/ i = Len(calls) + 1
    BY <1>1
  <1>. QED BY <1>1, <1>2 DEF CallWindows

\* A pending window whose packet is complete is whole.
LEMMA PendingIsWhole ==
  ASSUME IInv, OnceInv, WindowInv, NEW n \in Node, pending[n] # None, IsComplete(n, pending[n].seq)
  PROVE  IsSound(pending[n]) /\ IsWhole(pending[n].window[WindowLen])
  <1>1. pending[n] \in Prediction
    BY PendingTypes
  <1>2. IsSound(pending[n]) /\ IsCurrent(n, pending[n].window[WindowLen])
    BY <1>1 DEF WindowInv, PendingWindows
  <1>3. pending[n].window[WindowLen].seq = pending[n].seq
    BY <1>2 DEF IsSound
  <1>. QED BY <1>2, <1>3, CurrentIsWhole

LEMMA HandleKeepsWindows ==
  ASSUME WholePackets, ~ AllowWarmup, IInv, OnceInv, WindowInv,
         NEW n \in Node, NEW s \in Seqs, NEW c \in Channel, HandleSensorReading(n, s, c)
  PROVE  WindowInv'
  <1>1. TakesOver(n, s, c) /\ Evaluates(n, s, c)
    BY HandleFacts
  <1>2. /\ PartialIsLast' /\ SourceIsLast' /\ RowsAreCurrent' /\ RowsDiffer'
        /\ \A row \in Row : row = NewRow(n, s, c) => IsCurrent(n, row)'
    BY HandleKeepsBuffers
  <1>3. /\ <<n, s, c>> \notin handled
        /\ buffer' = [buffer EXCEPT ![n] = NewRows(n, s, c)]
        /\ buffer \in [Node -> Seq(Row)]
    BY <1>1 DEF TakesOver, IInv, TypeOK
  <1>4. ASSUME NEW m \in Node, NEW p \in Prediction, pending[m] # None, pending[m] = p,
               m # n \/ p.seq # s
        PROVE  /\ m # n => Len(buffer'[m]) = WindowLen
               /\ IsSound(p) /\ IsCurrent(m, p.window[WindowLen])'
    <2>1. Len(buffer[m]) = WindowLen /\ IsSound(p) /\ IsCurrent(m, p.window[WindowLen])
      BY <1>4 DEF WindowInv, PendingWindows
    <2>2. p.window[WindowLen] \in Row /\ p.window[WindowLen].seq = p.seq
      BY <2>1, MlInferenceAssumption DEF IsSound, Prediction
    <2>. QED BY <1>1, <1>3, <1>4, <2>1, <2>2, OthersStay
  <1>5. CASE UNCHANGED pending /\ NoCall /\ (backoff \/ ~ IsReady(NewRows(n, s, c)))
    <2>1. CallWindows'
      BY <1>5 DEF NoCall, WindowInv, CallWindows
    <2>2. PendingWindows'
      <3>. SUFFICES ASSUME NEW m \in Node, NEW p \in Prediction, pending'[m] # None, pending'[m] = p
                    PROVE  Len(buffer'[m]) = WindowLen /\ IsSound(p) /\ IsCurrent(m, p.window[WindowLen])'
        BY DEF PendingWindows
      <3>1. pending[m] # None /\ pending[m] = p
        BY <1>5
      <3>2. CASE m # n
        BY <1>4, <3>1, <3>2
      <3>3. CASE m = n
        <4>1. Len(buffer[n]) = WindowLen
          BY <3>1, <3>3 DEF WindowInv, PendingWindows
        <4>2. /\ NewRows(n, s, c) \in Seq(Row) /\ Len(buffer[n]) <= Len(NewRows(n, s, c))
              /\ Len(NewRows(n, s, c)) <= WindowLen
          BY NewTypes DEF Moves
        <4>3. Len(NewRows(n, s, c)) = WindowLen
          BY <4>1, <4>2, MlInferenceAssumption
        <4>4. IsReady(NewRows(n, s, c))
          BY <4>3, MlInferenceAssumption DEF IsReady
        <4>5. IsPending(n, p.seq) /\ p.seq \in Seqs
          BY <3>1, <3>3 DEF IsPending, Prediction
        <4>6. IsComplete(n, p.seq)
          BY <1>5, <4>4, <4>5 DEF OnceInv, PendingIsNext
        <4>7. p.seq # s
          BY <1>3, <4>6 DEF IsComplete
        <4>. QED BY <1>3, <1>4, <3>1, <3>3, <4>3, <4>7
      <3>. QED BY <3>2, <3>3
    <2>. QED BY <1>2, <2>1, <2>2 DEF WindowInv
  <1>6. ASSUME IsReady(NewRows(n, s, c)), pending' = [pending EXCEPT ![n] = NewPrediction(n, s, c)],
               NoCall \/ FlushesOther(n, s)
        PROVE  WindowInv'
    <2>1. CallWindows'
      <3>1. CASE NoCall
        BY <3>1 DEF NoCall, WindowInv, CallWindows
      <3>2. CASE FlushesOther(n, s)
        <4>1. pending[n] # None /\ pending[n].seq # s /\ Execute(n, pending[n])
          BY <3>2 DEF FlushesOther
        <4>2. pending[n] \in Prediction /\ pending[n].seq \in Seqs
          BY <4>1, PendingTypes
        <4>3. IsSeen(n, pending[n].seq)
          BY <4>1, <4>2 DEF OnceInv, PendingIsNext, IsPending
        <4>4. IsComplete(n, pending[n].seq)
          BY <4>1, <4>2, <4>3, OthersAreComplete
        <4>5. IsSound(pending[n]) /\ IsWhole(pending[n].window[WindowLen])
          BY <4>1, <4>4, PendingIsWhole
        <4>. QED BY <4>1, <4>2, <4>5, ExecuteKeepsWindows DEF WindowInv
      <3>. QED BY <1>6, <3>1, <3>2
    <2>2. PendingWindows'
      <3>. SUFFICES ASSUME NEW m \in Node, NEW p \in Prediction, pending'[m] # None, pending'[m] = p
                    PROVE  Len(buffer'[m]) = WindowLen /\ IsSound(p) /\ IsCurrent(m, p.window[WindowLen])'
        BY DEF PendingWindows
      <3>1. CASE m = n
        <4>1. p = NewPrediction(n, s, c)
          BY <1>6, <3>1 DEF IInv, TypeOK
        <4>2. Len(NewRows(n, s, c)) = WindowLen /\ IsSound(p)
          BY <1>6, <4>1, NewWindowIsSound
        <4>3. p.window[WindowLen] = NewRow(n, s, c) /\ NewRow(n, s, c) \in Row
          BY <4>1, NewTypes
        <4>4. IsCurrent(n, p.window[WindowLen])'
          BY <1>2, <4>3
        <4>. QED BY <1>3, <3>1, <4>2, <4>4
      <3>2. CASE m # n
        <4>1. pending[m] = p /\ pending[m] # None
          BY <1>6, <3>2 DEF IInv, TypeOK
        <4>. QED BY <1>4, <3>2, <4>1
      <3>. QED BY <3>1, <3>2
    <2>. QED BY <1>2, <2>1, <2>2 DEF WindowInv
  <1>. QED BY <1>1, <1>5, <1>6 DEF Evaluates

LEMMA WindowStep ==
  ASSUME WholePackets, ~ AllowWarmup, IInv, OnceInv, WindowInv, [Next]_vars
  PROVE  WindowInv'
  <1>1. ASSUME UNCHANGED window, CallWindows',
               \A n \in Node : pending'[n] # None => pending'[n] = pending[n]
        PROVE  WindowInv'
    <2>1. PartialIsLast' /\ SourceIsLast' /\ RowsAreCurrent' /\ RowsDiffer'
      BY <1>1 DEF window, WindowInv, PartialIsLast, IsPartial, SourceIsLast, RowsAreCurrent,
                  HasRow, IsSeen, IsCurrent, RowsDiffer
    <2>2. \A n \in Node, row \in Row : IsCurrent(n, row) => IsCurrent(n, row)'
      BY <1>1 DEF window, IsCurrent
    <2>3. \A p \in Prediction : p.window[WindowLen] \in Row
      BY MlInferenceAssumption DEF Prediction
    <2>4. PendingWindows'
      BY <1>1, <2>2, <2>3 DEF window, WindowInv, PendingWindows
    <2>. QED BY <1>1, <2>1, <2>4 DEF WindowInv
  <1>2. ASSUME UNCHANGED <<window, calls>>,
               \A n \in Node : pending'[n] # None => pending'[n] = pending[n]
        PROVE  WindowInv'
    BY <1>1, <1>2 DEF WindowInv, CallWindows
  <1>3. ASSUME NEW n \in Node, NEW s \in Seqs, NEW c \in Channel, HandleSensorReading(n, s, c)
        PROVE  WindowInv'
    BY <1>3, HandleKeepsWindows
  <1>4. ASSUME NEW n \in Node, DispatchPendingPrediction(n)
        PROVE  WindowInv'
    <2>1. /\ LoopIsOver /\ pending[n] # None /\ Execute(n, pending[n])
          /\ pending' = [pending EXCEPT ![n] = None] /\ UNCHANGED window
      BY <1>4 DEF DispatchPendingPrediction
    <2>2. pending[n] \in Prediction /\ pending[n].seq \in Seqs
      BY <2>1, PendingTypes
    <2>3. IsSeen(n, pending[n].seq)
      BY <2>1, <2>2 DEF OnceInv, PendingIsNext, IsPending
    <2>4. IsComplete(n, pending[n].seq)
      BY <2>1, <2>2, <2>3, SeenIsComplete DEF LoopIsOver
    <2>5. IsSound(pending[n]) /\ IsWhole(pending[n].window[WindowLen])
      BY <2>1, <2>4, PendingIsWhole
    <2>6. CallWindows'
      BY <2>1, <2>2, <2>5, ExecuteKeepsWindows DEF WindowInv
    <2>7. \A m \in Node : pending'[m] # None => pending'[m] = pending[m]
      BY <2>1 DEF IInv, TypeOK
    <2>. QED BY <1>1, <2>1, <2>6, <2>7
  <1>5. ASSUME NEW nodes \in SUBSET Node, Drop(nodes)
        PROVE  WindowInv'
    BY <1>2, <1>5 DEF Drop
  <1>6. ASSUME NEW i \in inFlight, ReceiveHead(i) \/ Succeed(i) \/ Fail(i)
        PROVE  WindowInv'
    BY <1>2, <1>6 DEF ReceiveHead, Succeed, Fail
  <1>7. CASE CooldownElapses \/ UNCHANGED vars
    BY <1>2, <1>7 DEF CooldownElapses, vars
  <1>. QED
    BY <1>3, <1>4, <1>5, <1>6, <1>7 DEF Next, OnNodeOffline, OnModuleDestroy

(***************************************************************************)
(* Where readings of a packet come together and windows are not padded,    *)
(* every window the service is asked about is of WindowLen packets, each   *)
(* with all its channels, although buffer and pending prediction are       *)
(* replaced reading by reading.                                            *)
(***************************************************************************)
THEOREM WindowsWhole ==
  ASSUME WholePackets, ~ AllowWarmup PROVE Spec => []WindowsAreWhole
  <1>1. IInv /\ CallWindows => WindowsAreWhole
    <2>a. SUFFICES ASSUME IInv, CallWindows PROVE WindowsAreWhole
      OBVIOUS
    <2>b. calls \in Seq(Call) /\ DOMAIN calls = 1 .. Len(calls)
      BY <2>a DEF IInv, TypeOK, Call
    <2>. SUFFICES ASSUME NEW i \in DOMAIN calls
                  PROVE  LET w == calls[i].prediction.window
                         IN  /\ IsInjective([j \in DOMAIN w |-> w[j].seq])
                             /\ \A j \in DOMAIN w : IsWhole(w[j])
                             /\ w[WindowLen].seq = calls[i].prediction.seq
      BY Zenon DEF WindowsAreWhole
    <2>. DEFINE w == calls[i].prediction.window
    <2>1. calls[i] \in Call
      BY <2>b
    <2>2. DOMAIN w = 1 .. WindowLen
      BY <2>1 DEF Call, Prediction
    <2>3. IsSound(calls[i].prediction) /\ IsWhole(w[WindowLen])
      BY <2>a, <2>b DEF CallWindows
    <2>4. /\ \A j, k \in 1 .. WindowLen : w[j].seq = w[k].seq => j = k
          /\ \A j \in 1 .. WindowLen : j < WindowLen => IsWhole(w[j])
          /\ w[WindowLen].seq = calls[i].prediction.seq
      BY <2>3 DEF IsSound
    <2>. HIDE DEF w
    <2>5. \A j \in 1 .. WindowLen : IsWhole(w[j])
      <3>1. \A j \in 1 .. WindowLen : j < WindowLen \/ j = WindowLen
        BY MlInferenceAssumption
      <3>. QED BY <2>3, <2>4, <3>1
    <2>6. IsInjective([j \in DOMAIN w |-> w[j].seq])
      BY <2>2, <2>4 DEF IsInjective
    <2>. QED BY <2>2, <2>4, <2>5, <2>6 DEF w
  <1>2. IInv /\ OnceInv /\ WindowInv /\ [Next]_vars => IInv' /\ OnceInv' /\ WindowInv'
    BY IInvStep, OnceStep, WindowStep
  <1>3. IInv /\ WindowInv => WindowsAreWhole
    BY <1>1 DEF WindowInv
  <1>. QED BY IInvInit, OnceInit, WindowInit, <1>2, <1>3, PTL DEF Spec

=============================================================================
