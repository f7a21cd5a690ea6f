---------------------------- MODULE MlInference ----------------------------
(***************************************************************************)
(* Shadow inference: MlWindowBufferService keeps the last WindowLen        *)
(* packets of each node, and MlInferenceService asks the inference service *)
(* about them, debounced to one call per packet, behind a circuit breaker. *)
(*                                                                         *)
(* A reading is handled in one synchronous call; a call to the service is  *)
(* awaited, twice, and any number of calls may be under way.  The 25 ms of *)
(* the debounce and the 5 s of the breaker pass at any time.  A value is   *)
(* represented by the packet it came in.                                   *)
(***************************************************************************)
EXTENDS Naturals, Sequences, SequencesExt

CONSTANTS
  Node,          (* nodeIds                                                *)
  Channel,       (* the channels of ML_EXPECTED_CHANNELS                   *)
  MaxSeq,        (* bound: packets of a node                               *)
  WindowLen,     (* ML_WINDOW_LENGTH                                       *)
  AllowWarmup,   (* allowWarmup                                            *)
  WholePackets,  (* readings of a packet come in one message, handled in   *)
                 (* one synchronous loop; otherwise one message each       *)
  None           (* no prediction pending                                  *)

ASSUME MlInferenceAssumption ==
  /\ MaxSeq \in Nat
  /\ WindowLen \in Nat \ {0}
  /\ AllowWarmup \in BOOLEAN
  /\ WholePackets \in BOOLEAN

VARIABLES
  handled,     (* readings handled; Processing lets each pass once         *)
  source,      (* nodeChannelStates; 0 for a baseline                      *)
  buffer,      (* buffers: rows, oldest first                              *)
  lastPushed,  (* lastPushedSeq, 0 before the first                        *)
  pending,     (* pendingPredictions; each has its timer running           *)
  backoff,     (* ~ isServiceAlive and failureCooldownMs has not passed    *)
  calls,       (* history: every call made                                 *)
  inFlight,    (* those under way, by their number                         *)
  answered,    (* those of them that wait for the body of an answer        *)
  latest,      (* latestPredictions: the call it is from, or 0             *)
  cancelled,   (* history: packets whose pending prediction was dropped    *)
  spared       (* history: calls of each node since backoff began          *)

window == <<handled, source, buffer, lastPushed>>
service == <<backoff, latest>>
history == <<cancelled, spared>>
vars == <<window, pending, service, calls, inFlight, answered, history>>

Seqs == 1 .. MaxSeq
Row == [seq : Seqs, vector : [Channel -> 0 .. MaxSeq]]
Prediction == [seq : Seqs, window : [1 .. WindowLen -> Row]]

Init ==
  /\ handled = {}
  /\ source = [n \in Node |-> [c \in Channel |-> 0]]
  /\ buffer = [n \in Node |-> <<>>]
  /\ lastPushed = [n \in Node |-> 0]
  /\ pending = [n \in Node |-> None]
  /\ backoff = FALSE
  /\ calls = <<>>
  /\ inFlight = {}
  /\ answered = {}
  /\ latest = [n \in Node |-> 0]
  /\ cancelled = {}
  /\ spared = [n \in Node |-> 0]

\* A packet of which some readings have been handled, and not all.
IsPartial(n, s) ==
  /\ \E c \in Channel : <<n, s, c>> \in handled
  /\ \E c \in Channel : <<n, s, c>> \notin handled

Partial == {p \in Node \X Seqs : IsPartial(p[1], p[2])}

\* Nothing runs in the middle of a synchronous loop.
LoopIsOver == WholePackets => Partial = {}

-----------------------------------------------------------------------------
(***************************************************************************)
(* The window buffer.                                                      *)
(***************************************************************************)
Slide(rows) == IF Len(rows) > WindowLen THEN Tail(rows) ELSE rows

\* What is known of each channel once a reading has come in.
CurrentVector(n, c, s) == [source[n] EXCEPT ![c] = s]

\* A reading of the packet pushed last replaces its row.
Coalesce(n, row) ==
  IF lastPushed[n] = row.seq
  THEN [buffer[n] EXCEPT ![Len(buffer[n])] = row]
  ELSE Slide(Append(buffer[n], row))

IsReady(rows) == Len(rows) >= WindowLen \/ AllowWarmup

\* The latest rows, the oldest one repeated in front while they are too few.
Window(rows) ==
  LET padding == WindowLen - Len(rows)
  IN  [i \in 1 .. WindowLen |-> IF i <= padding THEN rows[1] ELSE rows[i - padding]]

-----------------------------------------------------------------------------
(***************************************************************************)
(* The debounce.                                                           *)
(***************************************************************************)
\* executePrediction, up to its first await.
Execute(n, prediction) ==
  /\ calls' = Append(calls, [node |-> n, prediction |-> prediction])
  /\ inFlight' = inFlight \cup {Len(calls) + 1}
  /\ spared' = IF backoff THEN [spared EXCEPT ![n] = @ + 1] ELSE spared

NoCall == UNCHANGED <<calls, inFlight, spared>>

\* Mutation: a call for every reading.
IsSamePacketNever(n, prediction) == FALSE
IsSamePacket(n, prediction) == pending[n].seq = prediction.seq

\* Mutation: the window of the packet's first reading is kept.
RefreshNothing(n, prediction) == pending[n]
Refresh(n, prediction) == prediction

\* Mutation: the previous packet is forgotten.
FlushNothing(n) == NoCall
Flush(n) == Execute(n, pending[n])

\* A further reading of the pending packet restarts its timer; one of another
\* packet makes the pending call at once.
Debounce(n, prediction) ==
  \/ /\ pending[n] = None
     /\ pending' = [pending EXCEPT ![n] = prediction]
     /\ NoCall
  \/ /\ pending[n] # None
     /\ IsSamePacket(n, prediction)
     /\ pending' = [pending EXCEPT ![n] = Refresh(n, prediction)]
     /\ NoCall
  \/ /\ pending[n] # None
     /\ ~ IsSamePacket(n, prediction)
     /\ pending' = [pending EXCEPT ![n] = prediction]
     /\ Flush(n)

\* Mutation: the breaker is ignored.
IsOpenNever == FALSE
IsOpen == backoff

HandleSensorReading(n, s, c) ==
  LET vector == CurrentVector(n, c, s)
      rows == Coalesce(n, [seq |-> s, vector |-> vector])
  IN
  /\ <<n, s, c>> \notin handled
  /\ WholePackets => Partial \subseteq {<<n, s>>}
  /\ handled' = handled \cup {<<n, s, c>>}
  /\ source' = [source EXCEPT ![n] = vector]
  /\ buffer' = [buffer EXCEPT ![n] = rows]
  /\ lastPushed' = [lastPushed EXCEPT ![n] = s]
  /\ IF IsReady(rows) /\ ~ IsOpen
     THEN Debounce(n, [seq |-> s, window |-> Window(rows)])
     ELSE UNCHANGED pending /\ NoCall
  /\ UNCHANGED <<service, answered, cancelled>>

\* dispatchPendingPrediction: the timer of a packet.
DispatchPendingPrediction(n) ==
  /\ LoopIsOver
  /\ pending[n] # None
  /\ pending' = [pending EXCEPT ![n] = None]
  /\ Execute(n, pending[n])
  /\ UNCHANGED <<window, service, answered, cancelled>>

Drop(nodes) ==
  /\ LoopIsOver
  /\ pending' = [n \in Node |-> IF n \in nodes THEN None ELSE pending[n]]
  /\ cancelled' = cancelled \cup
       {<<n, pending[n].seq>> : n \in {m \in nodes : pending[m] # None}}
  /\ UNCHANGED <<window, service, calls, inFlight, answered, spared>>

OnNodeOffline(n) == Drop({n})

OnModuleDestroy == Drop(Node)

-----------------------------------------------------------------------------
(***************************************************************************)
(* Calls under way.                                                        *)
(***************************************************************************)
\* The head of an answer stops the 2.5 s timeout, whatever its body does.
ReceiveHead(i) ==
  /\ LoopIsOver
  /\ i \in inFlight \ answered
  /\ answered' = answered \cup {i}
  /\ UNCHANGED <<window, pending, service, calls, inFlight, history>>

Succeed(i) ==
  /\ LoopIsOver
  /\ i \in answered
  /\ inFlight' = inFlight \ {i}
  /\ answered' = answered \ {i}
  /\ backoff' = FALSE
  /\ latest' = [latest EXCEPT ![calls[i].node] = i]
  /\ UNCHANGED <<window, pending, calls, history>>

\* Refused, answered with an error, timed out or not understood.
Fail(i) ==
  /\ LoopIsOver
  /\ i \in inFlight
  /\ inFlight' = inFlight \ {i}
  /\ answered' = answered \ {i}
  /\ backoff' = TRUE
  /\ spared' = IF backoff THEN spared ELSE [n \in Node |-> 0]
  /\ UNCHANGED <<window, pending, latest, calls, cancelled>>

CooldownElapses ==
  /\ backoff
  /\ backoff' = FALSE
  /\ UNCHANGED <<window, pending, latest, calls, inFlight, answered, history>>

ContinuePacket ==
  \E n \in Node, s \in Seqs, c \in Channel :
    <<n, s>> \in Partial /\ HandleSensorReading(n, s, c)

Next ==
  \/ \E n \in Node, s \in Seqs, c \in Channel : HandleSensorReading(n, s, c)
  \/ \E n \in Node : DispatchPendingPrediction(n) \/ OnNodeOffline(n)
  \/ OnModuleDestroy
  \/ \E i \in inFlight : ReceiveHead(i) \/ Succeed(i) \/ Fail(i)
  \/ CooldownElapses

\* Timers fire, and a synchronous loop runs to its end.
Fairness ==
  /\ WholePackets => WF_vars(ContinuePacket)
  /\ \A n \in Node : WF_vars(DispatchPendingPrediction(n))

Spec == Init /\ [][Next]_vars /\ Fairness

-----------------------------------------------------------------------------
TypeOK ==
  /\ handled \subseteq Node \X Seqs \X Channel
  /\ source \in [Node -> [Channel -> 0 .. MaxSeq]]
  /\ buffer \in [Node -> Seq(Row)]
  /\ \A n \in Node : Len(buffer[n]) <= WindowLen
  /\ lastPushed \in [Node -> 0 .. MaxSeq]
  /\ pending \in [Node -> Prediction \cup {None}]
  /\ backoff \in BOOLEAN
  /\ calls \in Seq([node : Node, prediction : Prediction])
  /\ inFlight \subseteq 1 .. Len(calls)
  /\ answered \subseteq inFlight
  /\ latest \in [Node -> Nat]
  /\ cancelled \subseteq Node \X Seqs
  /\ spared \in [Node -> Nat]

(***************************************************************************)
(* docs/ML_WORKFLOW.md:308-310: inference runs "strictly once per          *)
(* completed packet sequence" (70-71, 94-123), whatever order packets come *)
(* in and whichever of timer, flush, failure and offline node comes first. *)
(* Holds for packets that come whole.                                      *)
(***************************************************************************)
PacketOf(i) == <<calls[i].node, calls[i].prediction.seq>>

OncePerPacket == \A i, j \in DOMAIN calls : PacketOf(i) = PacketOf(j) => i = j

(***************************************************************************)
(* The window of a call is made of WindowLen different packets, every row  *)
(* complete and free of values of other packets, although rows and pending *)
(* windows are replaced reading by reading, with the breaker open or not   *)
(* (addReading 101-139, handleSensorReading 94-101).                       *)
(***************************************************************************)
IsWhole(row) == \A c \in Channel : row.vector[c] = row.seq

WindowsAreWhole ==
  \A i \in DOMAIN calls :
    LET w == calls[i].prediction.window
    IN  /\ IsInjective([j \in DOMAIN w |-> w[j].seq])
        /\ \A j \in DOMAIN w : IsWhole(w[j])
        /\ w[WindowLen].seq = calls[i].prediction.seq

(***************************************************************************)
(* A failing service is left alone (80-86): until the backoff ends, a node *)
(* makes at most the one call it had pending, however many packets come.   *)
(***************************************************************************)
FailingServiceIsSpared == \A n \in Node : spared[n] <= 1

(***************************************************************************)
(* A packet that was to be evaluated is, unless its node goes offline or   *)
(* the service shuts down first (103-109, 131-139, 241-256).               *)
(***************************************************************************)
IsPending(n, s) == pending[n] # None /\ pending[n].seq = s
IsEvaluated(n, s) == \E i \in DOMAIN calls : PacketOf(i) = <<n, s>>

PendingIsEvaluated ==
  \A n \in Node, s \in Seqs :
    IsPending(n, s) ~> IsEvaluated(n, s) \/ <<n, s>> \in cancelled

=============================================================================
