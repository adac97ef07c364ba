----------------------------- MODULE SignalingProofs -----------------------------
(***************************************************************************)
(* A connection attempt closes the sockets it must and no other, the       *)
(* signals on the socket it returns keep it so, and the listener is never  *)
(* left to wait, for any number of addresses and signals.                  *)
(***************************************************************************)
EXTENDS SignalChannel, SequenceTheorems, TLAPS

-----------------------------------------------------------------------------
(* The connection attempt.                                                 *)

Racing   == pc \in {"connecting", "selecting", "examining"}
HasWon   == pc \in {"handshake", "shaken", "returned"}

(* Before the race is decided there is neither a winner nor a monitor.     *)
NobodyYet ==
    /\ Racing => winner = None /\ ~complete
    /\ HasWon => winner \in Address
    /\ winner = None => monitor = "none"

(* The winner's channel is connected until it is closed.                   *)
WinnerStays == winner # None => channel[winner] \in {"connected", "closed"}

(* The flag is set together with the result, both in the monitor of the    *)
(* SignalingSocket: this is what keeps the SocketConnectMonitor away.      *)
FlagWithResult ==
    /\ complete => pc \in {"returned", "failed"}
    /\ pc = "returned" => complete

ConnectInvariant ==
    /\ TypeOK
    /\ NobodyYet
    /\ WinnerStays
    /\ FlagWithResult
    /\ LosersClosed
    /\ ReturnedIsOpen

LEMMA InitConnect == Init => ConnectInvariant
  BY AddressAssumption
  DEF Init, ConnectInvariant, TypeOK, NobodyYet, WinnerStays, FlagWithResult, LosersClosed,
      ReturnedIsOpen, Racing, HasWon

(* The steps of LowLatencySocketConnector before a channel has won.        *)
LEMMA ConnectorStep == ConnectInvariant /\ Connector => ConnectInvariant'
<1> SUFFICES ASSUME ConnectInvariant, Connector PROVE ConnectInvariant'
  OBVIOUS
<1> USE AddressAssumption DEF ConnectInvariant, TypeOK, NobodyYet, WinnerStays,
        FlagWithResult, LosersClosed, ReturnedIsOpen, Racing, HasWon
<1>1. ASSUME NEW a \in Address, BeginConnect(a) PROVE ConnectInvariant'
  BY <1>1 DEF BeginConnect
<1>2. ASSUME NEW a \in Address, NoRoute(a) PROVE ConnectInvariant'
  BY <1>2 DEF NoRoute
<1>3. ASSUME NEW a \in Address, Win(a) PROVE ConnectInvariant'
  BY <1>3 DEF Win, closeAllButChannel
<1>4. ASSUME NEW a \in Address, Refused(a) PROVE ConnectInvariant'
  BY <1>4 DEF Refused
<1>5. CASE AllBegun
  BY <1>5 DEF AllBegun
<1>6. CASE Select
  BY <1>6 DEF Select, Ready
<1>7. CASE SelectTimesOut
  BY <1>7 DEF SelectTimesOut
<1>8. CASE SelectAgain
  BY <1>8 DEF SelectAgain
<1>9. QED
  BY <1>1, <1>2, <1>3, <1>4, <1>5, <1>6, <1>7, <1>8 DEF Connector

LEMMA ConnectStep == ConnectInvariant /\ [Next]_vars => ConnectInvariant'
<1> SUFFICES ASSUME ConnectInvariant, [Next]_vars PROVE ConnectInvariant'
  OBVIOUS
<1>1. CASE Connector
  BY <1>1, ConnectorStep
<1> USE AddressAssumption DEF ConnectInvariant, TypeOK, NobodyYet, WinnerStays,
        FlagWithResult, LosersClosed, ReturnedIsOpen, Racing, HasWon
<1>2. ASSUME NEW a \in Address, Network(a) PROVE ConnectInvariant'
  BY <1>2 DEF Network
<1>3. CASE HandshakeDone
  BY <1>3 DEF HandshakeDone
<1>4. CASE HandshakeThrows
  BY <1>4 DEF HandshakeThrows
<1>5. CASE Return
  BY <1>5 DEF Return, isConnected
<1>6. CASE MonitorEnters
  BY <1>6 DEF MonitorEnters
<1>7. CASE MonitorWakes
  BY <1>7 DEF MonitorWakes, ClosesStaged
<1>8. CASE UNCHANGED vars
  BY <1>8 DEF vars
<1>9. QED
  BY <1>1, <1>2, <1>3, <1>4, <1>5, <1>6, <1>7, <1>8 DEF Next

(* The invariant holds in every reachable state.                           *)
THEOREM ConnectInvariance == Spec => []ConnectInvariant
  BY InitConnect, ConnectStep, PTL DEF Spec

(* closeAllButChannel: no channel but the winner's is ever left open.      *)
THEOREM LosersAlwaysClosed == Spec => []LosersClosed
<1>1. ConnectInvariant => LosersClosed
  BY DEF ConnectInvariant
<1>2. QED
  BY <1>1, ConnectInvariance, PTL

(* timeoutHackConnect: the monitor never closes a socket that was          *)
(* returned.                                                               *)
THEOREM ReturnedAlwaysOpen == Spec => []ReturnedIsOpen
<1>1. ConnectInvariant => ReturnedIsOpen
  BY DEF ConnectInvariant
<1>2. QED
  BY <1>1, ConnectInvariance, PTL

(* LowLatencySocketConnector: it gives up only when no channel is left     *)
(* or the select() has timed out with none that came through.              *)
THEOREM NeverGivenUpTooEarly == Spec => NotGivenUpTooEarly
<1>1. [Next]_vars => [(pc \in {"selecting", "examining"} /\ pc' = "failed")
                        => \A a \in Address : channel[a] # "established"]_vars
  <2> SUFFICES ASSUME Next, pc \in {"selecting", "examining"}, pc' = "failed",
                      NEW a \in Address
               PROVE  channel[a] # "established"
    OBVIOUS
  <2>1. CASE Connector
    BY <2>1
    DEF Connector, BeginConnect, NoRoute, AllBegun, Select, SelectTimesOut, Win, Refused,
        SelectAgain, Ready, AllConnectionsFailed, hasValidKeys, ValidKeys
  <2>2. CASE HandshakeDone \/ HandshakeThrows \/ Return \/ \E b \in Address : Network(b)
    BY <2>2 DEF HandshakeDone, HandshakeThrows, Return, Network
  <2>3. CASE MonitorEnters \/ MonitorWakes
    BY <2>3 DEF MonitorEnters, MonitorWakes
  <2>4. QED
    BY <2>1, <2>2, <2>3 DEF Next
<1>2. QED
  BY <1>1, PTL DEF Spec, NotGivenUpTooEarly

(* Every variable of a connection attempt keeps to its type.               *)
THEOREM ConnectTyped == Spec => []TypeOK
<1>1. ConnectInvariant => TypeOK
  BY DEF ConnectInvariant
<1>2. QED
  BY <1>1, ConnectInvariance, PTL
-----------------------------------------------------------------------------
(* The channel.                                                            *)

(* The listener's run.                                                     *)
Listening == {"waiting", "available", "reading", "replying", "finishing"}

(* One listener at most is queued or running, and there is one hangup.     *)
QueueShape ==
    /\ reader = "request" => Len(queue) = 0 /\ terminator = "none"
    /\ reader = "idle" =>
         IF terminator = "none" THEN Len(queue) = 1 /\ queue[1] = "listener"
         ELSE \/ Len(queue) = 1 /\ queue[1] = "hangup"
              \/ Len(queue) = 2 /\ queue[1] # queue[2]
    /\ reader \in Listening =>
         IF terminator = "none" THEN Len(queue) = 0
         ELSE Len(queue) = 1 /\ queue[1] = "hangup"
    /\ reader \in {"hangup", "hanging"} =>
         /\ terminator # "none"
         /\ Len(queue) = 0 \/ (Len(queue) = 1 /\ queue[1] = "listener")
    /\ reader = "closed" => Len(queue) = 0

(* The flag is up while a listener that has not looked at it yet comes     *)
(* before the hangup.                                                      *)
FlagStands ==
    /\ terminator = "done"
    /\ reader = "waiting" \/ (reader = "idle" /\ queue[1] = "listener")
    => interrupted

IInv == ChannelTypeOK /\ QueueShape /\ FlagStands

LEMMA NoSequence == \A S : <<>> \in Seq(S)
  OBVIOUS

LEMMA InitIInv == SignalingInit => IInv
<1> SUFFICES ASSUME ChannelInit PROVE IInv
  BY DEF SignalingInit
<1>1. ChannelTypeOK
  <2> USE DEF ChannelInit
  <2>1. wire \in Seq(Fragment) /\ buffer \in Seq(Fragment)
    BY NoSequence
  <2>2. queue \in Seq({"listener", "hangup"}) /\ handled \in Seq(1..MaxSignals)
    BY NoSequence
  <2>3. sent \in 0..MaxSignals
    BY SignalAssumption
  <2>4. QED
    BY <2>1, <2>2, <2>3 DEF ChannelTypeOK
<1>2. QueueShape
  BY DEF ChannelInit, QueueShape, Listening
<1>3. FlagStands
  BY DEF ChannelInit, FlagStands
<1>4. QED
  BY <1>1, <1>2, <1>3 DEF IInv

-----------------------------------------------------------------------------
(* The stream.                                                             *)

LEMMA FragmentsTyped ==
    ASSUME NEW kind \in {"response", "keepalive", "signal", "hangup"},
           NEW n \in Nat,
           n \in IF kind \in {"signal", "hangup"} THEN 1..MaxSignals ELSE 0..1
    PROVE  Fragments(kind, n) \in Seq(Fragment)
  BY DEF Fragments, Fragment

LEMMA PushTyped ==
    ASSUME ChannelTypeOK,
           NEW kind \in {"response", "keepalive", "signal", "hangup"},
           NEW n \in Nat,
           n \in IF kind \in {"signal", "hangup"} THEN 1..MaxSignals ELSE 0..1,
           Pushes(kind, n), sent' \in 0..MaxSignals
    PROVE  ChannelTypeOK'
<1>1. wire' \in Seq(Fragment)
  BY FragmentsTyped DEF Pushes, ChannelTypeOK
<1>2. QED
  BY <1>1 DEF Pushes, tasks, ChannelTypeOK, Fragment

LEMMA ReadTyped ==
    ASSUME wire \in Seq(Fragment), buffer \in Seq(Fragment), Read
    PROVE  wire' \in Seq(Fragment) /\ buffer' \in Seq(Fragment)
<1>1. PICK k \in 1..Len(wire) : /\ buffer' = buffer \o SubSeq(wire, 1, k)
                                /\ wire' = SubSeq(wire, k + 1, Len(wire))
  BY DEF Read
<1>2. SubSeq(wire, 1, k) \in Seq(Fragment) /\ SubSeq(wire, k + 1, Len(wire)) \in Seq(Fragment)
  BY SubSeqProperties
<1>3. QED
  BY <1>1, <1>2

LEMMA RemainingTyped ==
    ASSUME buffer \in Seq(Fragment) PROVE Remaining \in Seq(Fragment)
  BY SubSeqProperties DEF Remaining

(* The end of a queue that the hangup or the listener joins.               *)
LEMMA Joined ==
    ASSUME NEW q \in Seq({"listener", "hangup"}), NEW t \in {"listener", "hangup"}
    PROVE  /\ Append(q, t) \in Seq({"listener", "hangup"})
           /\ Len(Append(q, t)) = Len(q) + 1
           /\ Append(q, t)[Len(q) + 1] = t
           /\ Len(q) = 1 => Append(q, t)[1] = q[1]
  OBVIOUS

LEMMA SignalOrHangup ==
    ASSUME NEW kind \in {"signal", "hangup"}, ChannelTypeOK, PushSignal(kind)
    PROVE  ChannelTypeOK'
<1>1. sent + 1 \in Nat /\ sent + 1 \in 1..MaxSignals /\ sent' \in 0..MaxSignals
  BY SignalAssumption DEF PushSignal, ChannelTypeOK
<1>2. QED
  BY <1>1, PushTyped DEF PushSignal

(* A message is read when its first two fragments are in the buffer.       *)
LEMMA MessageTyped ==
    ASSUME buffer \in Seq(Fragment), HasMessage
    PROVE  /\ Head(buffer) \in Fragment
           /\ Head(buffer).kind \in {"signal", "hangup"} => Head(buffer).n \in 1..MaxSignals
<1>1. Len(buffer) \in Nat /\ Len(buffer) # 0
  BY DEF HasMessage
<1>2. Head(buffer) \in Fragment
  BY <1>1
<1>3. QED
  BY <1>2 DEF Fragment

LEMMA NextTyped == ASSUME ChannelTypeOK, ChannelNext PROVE ChannelTypeOK'
<1>1. CASE Server
  <2>1. CASE \E n \in 0..1 : Responds(n)
    <3>1. PICK n \in 0..1 : Responds(n)
      BY <2>1
    <3>2. QED
      BY <3>1, PushTyped DEF Responds, ChannelTypeOK
  <2>2. CASE PushSignal("signal") \/ PushSignal("hangup")
    BY <2>2, SignalOrHangup
  <2>3. CASE KeepAlive
    BY <2>3, PushTyped DEF KeepAlive, ChannelTypeOK
  <2>4. CASE CloseEnd
    <3>1. Half \in Fragment
      BY DEF Half, Fragments, Fragment
    <3>2. wire' \in Seq(Fragment)
      <4>1. wire \in Seq(Fragment) /\ wire' \in {wire, Append(wire, Half)}
        BY <2>4 DEF CloseEnd, ChannelTypeOK
      <4>2. Append(wire, Half) \in Seq(Fragment)
        BY <3>1, <4>1
      <4>3. QED
        BY <4>1, <4>2
    <3>3. QED
      BY <2>4, <3>2 DEF CloseEnd, ChannelTypeOK, tasks
  <2>5. QED
    BY <1>1, <2>1, <2>2, <2>3, <2>4 DEF Server
<1>2. CASE ReadMore
  <2>1. wire' \in Seq(Fragment) /\ buffer' \in Seq(Fragment)
    BY <1>2, ReadTyped DEF ReadMore, ChannelTypeOK
  <2>2. QED
    BY <1>2, <2>1 DEF ReadMore, Read, ChannelTypeOK, tasks
<1>3. CASE ReadResponse
  <2>1. buffer' \in Seq(Fragment)
    BY <1>3, RemainingTyped DEF ReadResponse, ChannelTypeOK
  <2>2. QED
    BY <1>3, <2>1 DEF ReadResponse, ChannelTypeOK, stream
<1>4. CASE RequestFails \/ LookAgain \/ SendOkResponse \/ SendHangup
  BY <1>4 DEF RequestFails, LookAgain, SendOkResponse, SendHangup, ChannelTypeOK, stream, tasks
<1>5. CASE Terminate
  BY <1>5, Joined DEF Terminate, QueueFirst, ChannelTypeOK, stream
<1>6. CASE NextTask
  <2>1. queue' \in Seq({"listener", "hangup"})
    BY <1>6 DEF NextTask, ChannelTypeOK
  <2>2. QED
    BY <1>6, <2>1 DEF NextTask, ChannelTypeOK, stream
<1>7. CASE WaitForSignal
  <2>1. wire' \in Seq(Fragment) /\ buffer' \in Seq(Fragment)
    BY <1>7, ReadTyped DEF WaitForSignal, ChannelTypeOK
  <2>2. QED
    BY <1>7, <2>1 DEF WaitForSignal, Read, ChannelTypeOK, tasks
<1>8. CASE WaitFails \/ SignalingFails
  BY <1>8, Joined
  DEF WaitFails, SignalingFails, NotifyDisconnected, WithHangup, ChannelTypeOK, stream, tasks
<1>9. CASE ReadSignal
  <2>1. buffer' \in Seq(Fragment)
    BY <1>9, RemainingTyped DEF ReadSignal, ChannelTypeOK
  <2>2. handled' \in Seq(1..MaxSignals)
    <3>1. CASE CallsBack(Head(buffer).kind)
      <4>1. Head(buffer).n \in 1..MaxSignals
        BY <1>9, <3>1, MessageTyped DEF ReadSignal, CallsBack, ChannelTypeOK
      <4>2. handled' = Append(handled, Head(buffer).n)
        BY <1>9, <3>1 DEF ReadSignal
      <4>3. QED
        BY <4>1, <4>2 DEF ChannelTypeOK
    <3>2. CASE ~CallsBack(Head(buffer).kind)
      BY <1>9, <3>2 DEF ReadSignal, ChannelTypeOK
    <3>3. QED
      BY <3>1, <3>2
  <2>3. /\ queue' \in Seq({"listener", "hangup"})
        /\ interrupted' \in BOOLEAN /\ terminator' \in {"none", "queued", "done"}
    <3>1. CASE NotifyDisconnected
      BY <3>1, Joined DEF NotifyDisconnected, WithHangup, ChannelTypeOK, tasks
    <3>2. CASE UNCHANGED tasks
      BY <3>2 DEF ChannelTypeOK, tasks
    <3>3. QED
      BY <1>9, <3>1, <3>2 DEF ReadSignal
  <2>4. QED
    BY <1>9, <2>1, <2>2, <2>3 DEF ReadSignal, ChannelTypeOK, stream
<1>10. CASE Finish
  BY <1>10, Joined DEF Finish, ChannelTypeOK, stream
<1>11. CASE CloseSocket
  <2>1. buffer' \in Seq(Fragment)
    BY <1>11, RemainingTyped DEF CloseSocket, ChannelTypeOK
  <2>2. QED
    BY <1>11, <2>1, NoSequence DEF CloseSocket, ChannelTypeOK, stream
<1>12. QED
  BY <1>1, <1>2, <1>3, <1>4, <1>5, <1>6, <1>7, <1>8, <1>9, <1>10, <1>11
  DEF ChannelNext, Executor

(* After it the termination is on its way, if the listener was running.    *)
LEMMA Notified ==
    ASSUME IInv, reader \in Listening, NotifyDisconnected
    PROVE  terminator' # "none" /\ Len(queue') = 1 /\ queue'[1] = "hangup"
<1> USE DEF IInv, ChannelTypeOK, QueueShape, NotifyDisconnected
<1>1. CASE terminator = "none"
  <2>1. Len(queue) = 0 /\ queue' = Append(queue, "hangup")
    BY <1>1 DEF WithHangup
  <2>2. Len(queue') = 1 /\ queue'[1] = "hangup"
    BY <2>1, Joined
  <2>3. QED
    BY <1>1, <2>2
<1>2. CASE terminator # "none"
  BY <1>2 DEF tasks
<1>3. QED
  BY <1>1, <1>2

LEMMA NextInOrder == ASSUME IInv, ChannelNext PROVE QueueShape' /\ FlagStands'
<1> USE DEF IInv, ChannelTypeOK, QueueShape, FlagStands, Listening
<1>1. CASE Server
  BY <1>1 DEF Server, Responds, PushSignal, KeepAlive, CloseEnd, Pushes, tasks
<1>2. CASE ReadMore
  BY <1>2 DEF ReadMore, tasks
<1>3. CASE ReadResponse
  BY <1>3 DEF ReadResponse
<1>4. CASE RequestFails
  BY <1>4 DEF RequestFails, tasks
<1>5. CASE Terminate
  <2> USE <1>5 DEF Terminate, QueueFirst
  <2>1. CASE terminator = "none"
    <3>1. /\ Len(queue') = Len(queue) + 1 /\ queue'[Len(queue) + 1] = "hangup"
          /\ Len(queue) = 1 => queue'[1] = queue[1]
      BY <2>1, Joined
    <3>2. /\ reader' = reader /\ terminator' = "queued" /\ FlagStands'
          /\ reader \notin {"request", "closed"} \cup {"hangup", "hanging"}
      BY <2>1
    <3>3. QueueShape'
      <4>1. CASE reader = "idle"
        <5>1. Len(queue) = 1 /\ queue[1] = "listener"
          BY <2>1, <4>1
        <5>2. Len(queue') = 2 /\ queue'[1] = "listener" /\ queue'[2] = "hangup"
          BY <3>1, <5>1
        <5>3. queue'[1] # queue'[2]
          BY <5>2
        <5>4. QED
          BY <3>2, <4>1, <5>2, <5>3
      <4>2. CASE reader \in Listening
        BY <3>1, <3>2, <2>1, <4>2
      <4>3. QED
        BY <3>2, <4>1, <4>2
    <3>4. QED
      BY <3>2, <3>3
  <2>2. CASE terminator = "queued"
    BY <2>2
  <2>3. QED
    BY <2>1, <2>2
<1>6. CASE NextTask
  BY <1>6 DEF NextTask
<1>7. CASE WaitForSignal
  BY <1>7 DEF WaitForSignal, tasks
<1>8. CASE WaitFails \/ SignalingFails
  BY <1>8, Notified DEF WaitFails, SignalingFails
<1>9. CASE LookAgain
  BY <1>9 DEF LookAgain, tasks
<1>10. CASE ReadSignal
  <2>1. NotifyDisconnected \/ UNCHANGED tasks
    BY <1>10 DEF ReadSignal
  <2>2. CASE NotifyDisconnected
    BY <1>10, <2>2, Notified DEF ReadSignal
  <2>3. CASE UNCHANGED tasks
    BY <1>10, <2>3 DEF ReadSignal, tasks
  <2>4. QED
    BY <2>1, <2>2, <2>3
<1>11. CASE SendOkResponse
  BY <1>11 DEF SendOkResponse, tasks
<1>12. CASE Finish
  <2>1. queue' = Append(queue, "listener") /\ UNCHANGED terminator /\ reader' = "idle"
    BY <1>12 DEF Finish
  <2>2. /\ Len(queue') = Len(queue) + 1 /\ queue'[Len(queue) + 1] = "listener"
        /\ Len(queue) = 1 => queue'[1] = queue[1]
    BY <2>1, Joined
  <2>3. FlagStands'
    BY <1>12, <2>1, <2>2 DEF Finish
  <2>4. CASE terminator = "none"
    BY <1>12, <2>1, <2>2, <2>4 DEF Finish
  <2>5. CASE terminator # "none"
    <3>1. Len(queue) = 1 /\ queue[1] = "hangup"
      BY <1>12, <2>5 DEF Finish
    <3>2. Len(queue') = 2 /\ queue'[1] # queue'[2]
      BY <2>2, <3>1
    <3>3. QueueShape'
      BY <2>1, <2>5, <3>2
    <3>4. QED
      BY <2>3, <3>3
  <2>6. QED
    BY <2>3, <2>4, <2>5
<1>13. CASE SendHangup
  BY <1>13 DEF SendHangup, tasks
<1>14. CASE CloseSocket
  BY <1>14 DEF CloseSocket
<1>15. QED
  BY <1>1, <1>2, <1>3, <1>4, <1>5, <1>6, <1>7, <1>8, <1>9, <1>10, <1>11, <1>12, <1>13, <1>14
  DEF ChannelNext, Executor

-----------------------------------------------------------------------------
(* The order of the signals.                                               *)

(* What the server has sent and nobody has read from the buffer.           *)
Left == buffer \o wire

(* Messages stand in the stream one after the other, each with its two     *)
(* fragments, but that the end of the stream may cut the last one.         *)
Framed(s, cut) ==
    /\ Len(s) # 0 => ~s[1].end
    /\ \A i \in 1..Len(s) :
         IF s[i].end THEN i = Len(s) \/ ~s[i + 1].end
         ELSE \/ cut /\ i = Len(s)
              \/ /\ i < Len(s) /\ s[i + 1].end
                 /\ s[i + 1].kind = s[i].kind /\ s[i + 1].n = s[i].n

(* The response to the request of the session comes before every signal.   *)
ResponseFirst ==
    reader = "request" =>
        /\ Len(handled) = 0
        /\ IF Len(Left) = 0 THEN sent = 0 ELSE Left[1].kind = "response"

OrderInvariant ==
    reader \notin {"hanging", "closed"} =>
        /\ Framed(Left, eof)
        /\ ResponseFirst
        /\ Len(handled) <= sent /\ \A i \in 1..Len(handled) : handled[i] = i
        /\ LeftInOrder(Left, Len(handled) + 1, sent)

(* LeftInOrder without its set.                                            *)
LEMMA InOrderMeans ==
    ASSUME NEW s, NEW a, NEW b
    PROVE  LeftInOrder(s, a, b) <=>
             /\ \A i \in Signals(s) : s[i].n \in a..b
             /\ \A n \in a..b : \E i \in Signals(s) : s[i].n = n
             /\ \A i, j \in Signals(s) : i < j => s[i].n < s[j].n
  BY DEF LeftInOrder

(* A stream that is cut elsewhere.                                         *)
LEMMA Grouped ==
    ASSUME NEW S, NEW b \in Seq(S), NEW p \in Seq(S), NEW q \in Seq(S), NEW w, w = p \o q
    PROVE  b \o w = (b \o p) \o q
  BY ConcatAssociative, SMT

LEMMA Regrouped ==
    ASSUME NEW S, NEW b \in Seq(S), NEW p \in Seq(S), NEW q \in Seq(S),
           NEW w, w = p \o q, NEW c, c = b \o p
    PROVE  b \o w = c \o q
  BY Grouped, SMT

LEMMA LeftGrows ==
    ASSUME NEW S, buffer \in Seq(S), wire \in Seq(S), NEW f \in Seq(S),
           buffer' = buffer, wire' = wire \o f
    PROVE  Left' = Left \o f
<1>1. buffer \o wire' = (buffer \o wire) \o f
  BY Grouped, SMT
<1>2. QED
  BY <1>1, Zenon DEF Left

LEMMA LeftMoves ==
    ASSUME NEW S, buffer \in Seq(S), NEW p \in Seq(S), NEW q \in Seq(S),
           wire = p \o q, buffer' = buffer \o p, wire' = q
    PROVE  Left' = Left
<1>1. buffer \o wire = buffer' \o q
  BY Regrouped, SMT
<1>2. QED
  BY <1>1, Zenon DEF Left

(* The ends of a stream that grows by a message, or loses one.             *)
LEMMA TwoMore ==
    ASSUME NEW S, NEW s \in Seq(S), NEW f \in Seq(S), Len(f) = 2
    PROVE  /\ Len(s \o f) = Len(s) + 2
           /\ \A i \in 1..Len(s) : (s \o f)[i] = s[i]
           /\ (s \o f)[Len(s) + 1] = f[1] /\ (s \o f)[Len(s) + 2] = f[2]
<1>1. Len(s) \in Nat
  OBVIOUS
<1>2. /\ Len(s \o f) = Len(s) + Len(f)
      /\ \A i \in 1..Len(s) + Len(f) :
           (s \o f)[i] = IF i <= Len(s) THEN s[i] ELSE f[i - Len(s)]
  BY ConcatProperties, Zenon
<1>3. QED
  BY <1>1, <1>2

LEMMA TwoLess ==
    ASSUME NEW S, NEW s \in Seq(S), NEW n \in Nat, n = Len(s), n >= 2
    PROVE  /\ SubSeq(s, 3, n) \in Seq(S) /\ Len(SubSeq(s, 3, n)) = n - 2
           /\ \A i \in 1..n - 2 : SubSeq(s, 3, n)[i] = s[i + 2]
  BY SubSeqProperties

(* What the server pushes joins the end of what is left.                   *)
LEMMA PushedAtEnd ==
    ASSUME ChannelTypeOK,
           NEW kind \in {"response", "keepalive", "signal", "hangup"}, NEW n \in Nat,
           n \in IF kind \in {"signal", "hangup"} THEN 1..MaxSignals ELSE 0..1,
           Pushes(kind, n)
    PROVE  /\ Left \in Seq(Fragment) /\ Left' \in Seq(Fragment)
           /\ Len(Left') = Len(Left) + 2
           /\ \A i \in 1..Len(Left) : Left'[i] = Left[i]
           /\ Left'[Len(Left) + 1] = [kind |-> kind, n |-> n, end |-> FALSE]
           /\ Left'[Len(Left) + 2] = [kind |-> kind, n |-> n, end |-> TRUE]
<1> DEFINE f == Fragments(kind, n)
<1>1. /\ f \in Seq(Fragment) /\ Len(f) = 2
      /\ f[1] = [kind |-> kind, n |-> n, end |-> FALSE]
      /\ f[2] = [kind |-> kind, n |-> n, end |-> TRUE]
  BY FragmentsTyped DEF Fragments
<1>2. buffer \in Seq(Fragment) /\ wire \in Seq(Fragment) /\ Left \in Seq(Fragment)
  BY DEF ChannelTypeOK, Left
<1>3. buffer' = buffer /\ wire' = wire \o f
  BY DEF Pushes
<1> HIDE DEF f
<1>4. Left' = Left \o f
  BY <1>1, <1>2, <1>3, LeftGrows, Zenon
<1>5. Left' \in Seq(Fragment)
  BY <1>1, <1>2, <1>4
<1>6. /\ Len(Left') = Len(Left) + 2
      /\ \A i \in 1..Len(Left) : Left'[i] = Left[i]
      /\ Left'[Len(Left) + 1] = f[1] /\ Left'[Len(Left) + 2] = f[2]
  <2>1. /\ Len(Left \o f) = Len(Left) + 2
        /\ \A i \in 1..Len(Left) : (Left \o f)[i] = Left[i]
        /\ (Left \o f)[Len(Left) + 1] = f[1] /\ (Left \o f)[Len(Left) + 2] = f[2]
    BY <1>1, <1>2, TwoMore
  <2>2. QED
    BY <1>4, <2>1, Zenon
<1>7. QED
  BY <1>1, <1>2, <1>5, <1>6, Zenon

LEMMA PushFramed ==
    ASSUME NEW s \in Seq(Fragment), NEW t \in Seq(Fragment), Framed(s, FALSE),
           Len(t) = Len(s) + 2, \A i \in 1..Len(s) : t[i] = s[i],
           ~t[Len(s) + 1].end, t[Len(s) + 2].end,
           t[Len(s) + 2].kind = t[Len(s) + 1].kind, t[Len(s) + 2].n = t[Len(s) + 1].n
    PROVE  Framed(t, FALSE)
<1>1. Len(s) \in Nat
  OBVIOUS
<1>2. ~t[1].end
  BY <1>1 DEF Framed
<1>3. ASSUME NEW i \in 1..Len(t)
      PROVE  IF t[i].end THEN i = Len(t) \/ ~t[i + 1].end
             ELSE /\ i < Len(t) /\ t[i + 1].end
                  /\ t[i + 1].kind = t[i].kind /\ t[i + 1].n = t[i].n
  <2>1. CASE i < Len(s)
    <3>1. /\ i \in 1..Len(s) /\ t[i] = s[i] /\ t[i + 1] = s[i + 1]
          /\ i # Len(s) /\ i < Len(t)
      BY <1>1, <2>1
    <3>2. QED
      BY <3>1 DEF Framed
  <2>2. CASE i = Len(s)
    BY <1>1, <2>2 DEF Framed
  <2>3. CASE i = Len(s) + 1
    BY <1>1, <2>3
  <2>4. CASE i = Len(s) + 2
    BY <1>1, <2>4
  <2>5. QED
    BY <1>1, <2>1, <2>2, <2>3, <2>4
<1>4. QED
  BY <1>2, <1>3 DEF Framed

(* A signal joins those that are left; any other message changes nothing.  *)
LEMMA PushInOrder ==
    ASSUME NEW s \in Seq(Fragment), NEW t \in Seq(Fragment), NEW a \in Nat, NEW b \in Nat,
           LeftInOrder(s, a, b), a <= b + 1,
           Len(t) = Len(s) + 2, \A i \in 1..Len(s) : t[i] = s[i],
           ~t[Len(s) + 1].end, t[Len(s) + 2].end
    PROVE  IF t[Len(s) + 2].kind \in {"signal", "hangup"}
           THEN t[Len(s) + 2].n = b + 1 => LeftInOrder(t, a, b + 1)
           ELSE LeftInOrder(t, a, b)
<1> DEFINE last == Len(s) + 2
<1>1. Len(s) \in Nat
  OBVIOUS
<1>2. Signals(s) \subseteq 1..Len(s) /\ \A i \in Signals(s) : t[i] = s[i]
  BY DEF Signals
<1>3. CASE t[last].kind \in {"signal", "hangup"}
  <2> SUFFICES ASSUME t[last].n = b + 1 PROVE LeftInOrder(t, a, b + 1)
    BY <1>3
  <2>1. Signals(t) = Signals(s) \cup {last}
    BY <1>1, <1>3 DEF Signals, IsSignal
  <2>2. ASSUME NEW i \in Signals(t) PROVE t[i].n \in a..(b + 1)
    <3>1. CASE i = last
      BY <3>1
    <3>2. CASE i \in Signals(s)
      <4>1. s[i].n \in a..b
        BY <3>2, InOrderMeans
      <4>2. QED
        BY <1>2, <3>2, <4>1
    <3>3. QED
      BY <2>1, <3>1, <3>2
  <2>3. ASSUME NEW n \in a..(b + 1) PROVE \E i \in Signals(t) : t[i].n = n
    <3>1. CASE n = b + 1
      BY <2>1, <3>1
    <3>2. CASE n # b + 1
      <4>1. PICK i \in Signals(s) : s[i].n = n
        BY <3>2, InOrderMeans
      <4>2. QED
        BY <1>2, <2>1, <4>1
    <3>3. QED
      BY <3>1, <3>2
  <2>4. ASSUME NEW i \in Signals(t), NEW j \in Signals(t), i < j PROVE t[i].n < t[j].n
    <3>1. i \in Signals(s) /\ t[i].n \in a..b
      BY <1>1, <1>2, <2>1, <2>4, InOrderMeans
    <3>2. CASE j = last
      BY <3>1, <3>2
    <3>3. CASE j \in Signals(s)
      BY <1>2, <2>4, <3>1, <3>3, InOrderMeans
    <3>4. QED
      BY <2>1, <3>2, <3>3
  <2>5. QED
    BY <2>2, <2>3, <2>4, InOrderMeans
<1>4. CASE t[last].kind \notin {"signal", "hangup"}
  <2>1. Signals(t) = Signals(s)
    BY <1>1, <1>4 DEF Signals, IsSignal
  <2>2. /\ \A i \in Signals(s) : s[i].n \in a..b
        /\ \A n \in a..b : \E i \in Signals(s) : s[i].n = n
        /\ \A i, j \in Signals(s) : i < j => s[i].n < s[j].n
    BY InOrderMeans, Zenon
  <2>3. /\ \A i \in Signals(t) : t[i].n \in a..b
        /\ \A n \in a..b : \E i \in Signals(t) : t[i].n = n
        /\ \A i, j \in Signals(t) : i < j => t[i].n < t[j].n
    BY <1>2, <2>1, <2>2, Zenon
  <2>4. QED
    BY <1>4, <2>3, InOrderMeans, Zenon
<1>5. QED
  BY <1>3, <1>4

(* Between the threads, a read moves fragments but changes nothing left.   *)
LEMMA ReadKeepsLeft ==
    ASSUME wire \in Seq(Fragment), buffer \in Seq(Fragment), Read
    PROVE  Left' = Left
<1>1. PICK k \in 1..Len(wire) : /\ buffer' = buffer \o SubSeq(wire, 1, k)
                                /\ wire' = SubSeq(wire, k + 1, Len(wire))
  BY DEF Read
<1>2. /\ SubSeq(wire, 1, k) \in Seq(Fragment)
      /\ SubSeq(wire, k + 1, Len(wire)) \in Seq(Fragment)
  BY SubSeqProperties
<1>3. wire = SubSeq(wire, 1, k) \o SubSeq(wire, k + 1, Len(wire))
  <2>1. SubSeq(wire, 1, k) \o SubSeq(wire, k + 1, Len(wire)) = SubSeq(wire, 1, Len(wire))
    BY ConcatAdjacentSubSeq
  <2>2. QED
    BY <2>1, SubSeqFull
<1>4. QED
  BY <1>1, <1>2, <1>3, LeftMoves, Zenon

(* A message that is read takes its two fragments from the front.          *)
LEMMA ReadTakesTwo ==
    ASSUME wire \in Seq(Fragment), buffer \in Seq(Fragment), Framed(Left, eof), HasMessage,
           buffer' = Remaining, wire' = wire
    PROVE  /\ Left \in Seq(Fragment) /\ Left' \in Seq(Fragment)
           /\ Len(Left) >= 2 /\ Len(Left') = Len(Left) - 2
           /\ \A i \in 1..Len(Left') : Left'[i] = Left[i + 2]
           /\ Left[1] = Head(buffer)
<1>1. /\ Left \in Seq(Fragment) /\ Len(Left) = Len(buffer) + Len(wire)
      /\ \A i \in 1..Len(buffer) + Len(wire) :
           Left[i] = IF i <= Len(buffer) THEN buffer[i] ELSE wire[i - Len(buffer)]
  BY ConcatProperties, Zenon DEF Left
<1>2. Len(buffer) \in Nat /\ Len(wire) \in Nat
  OBVIOUS
<1>3. Len(buffer) >= 2
  <2>1. PICK i \in 1..Len(buffer) : buffer[i].end
    BY DEF HasMessage
  <2>2. Len(Left) # 0 /\ Left[i].end /\ ~Left[1].end
    BY <1>1, <1>2, <2>1 DEF Framed
  <2>3. QED
    BY <1>2, <2>1, <2>2
<1>4. /\ Remaining \in Seq(Fragment) /\ Len(Remaining) = Len(buffer) - 2
      /\ \A i \in 1..Len(buffer) - 2 : Remaining[i] = buffer[i + 2]
  BY <1>2, <1>3, TwoLess, Zenon DEF Remaining
<1>5. Left' = Remaining \o wire
  BY DEF Left
<1>6. /\ Left' \in Seq(Fragment) /\ Len(Left') = Len(Remaining) + Len(wire)
      /\ \A i \in 1..Len(Remaining) + Len(wire) :
           Left'[i] = IF i <= Len(Remaining) THEN Remaining[i] ELSE wire[i - Len(Remaining)]
  BY <1>4, <1>5, ConcatProperties, Zenon
<1>7. Len(Left') = Len(Left) - 2
  BY <1>1, <1>2, <1>4, <1>6
<1>8. ASSUME NEW i \in 1..Len(Left') PROVE Left'[i] = Left[i + 2]
  <2>1. /\ i \in 1..Len(Remaining) + Len(wire) /\ i + 2 \in 1..Len(buffer) + Len(wire)
        /\ i <= Len(Remaining) <=> i + 2 <= Len(buffer)
        /\ i - Len(Remaining) = (i + 2) - Len(buffer)
    BY <1>2, <1>3, <1>4, <1>6
  <2>2. CASE i <= Len(Remaining)
    <3>1. Remaining[i] = buffer[i + 2]
      BY <1>2, <1>4, <2>1, <2>2
    <3>2. QED
      BY <1>1, <1>6, <2>1, <2>2, <3>1, Zenon
  <2>3. CASE ~(i <= Len(Remaining))
    BY <1>1, <1>6, <2>1, <2>3, Zenon
  <2>4. QED
    BY <2>2, <2>3
<1>9. Left[1] = Head(buffer)
  BY <1>1, <1>2, <1>3
<1>10. Len(Left) >= 2
  BY <1>1, <1>2, <1>3
<1>11. QED
  BY <1>1, <1>6, <1>7, <1>8, <1>9, <1>10, Zenon

(* What is left when the first message is taken out.                       *)
LEMMA RestFramed ==
    ASSUME NEW s \in Seq(Fragment), NEW t \in Seq(Fragment), NEW cut, Framed(s, cut), Len(s) >= 2,
           Len(t) = Len(s) - 2, \A i \in 1..Len(t) : t[i] = s[i + 2]
    PROVE  /\ Framed(t, cut)
           /\ ~s[1].end /\ s[2].end /\ s[2].kind = s[1].kind /\ s[2].n = s[1].n
<1>1. Len(s) \in Nat /\ Len(t) \in Nat
  OBVIOUS
<1>2. ~s[1].end /\ s[2].end /\ s[2].kind = s[1].kind /\ s[2].n = s[1].n
  BY <1>1 DEF Framed
<1>3. Len(t) # 0 => ~t[1].end
  BY <1>1, <1>2 DEF Framed
<1>4. ASSUME NEW i \in 1..Len(t)
      PROVE  IF t[i].end THEN i = Len(t) \/ ~t[i + 1].end
             ELSE \/ cut /\ i = Len(t)
                  \/ /\ i < Len(t) /\ t[i + 1].end
                     /\ t[i + 1].kind = t[i].kind /\ t[i + 1].n = t[i].n
  <2>1. /\ t[i] = s[i + 2] /\ i + 2 \in 1..Len(s)
        /\ i < Len(t) => t[i + 1] = s[i + 3]
        /\ i < Len(t) <=> i + 2 < Len(s)
        /\ (i + 2) + 1 = i + 3
    BY <1>1
  <2>2. IF s[i + 2].end THEN i + 2 = Len(s) \/ ~s[i + 3].end
        ELSE \/ cut /\ i + 2 = Len(s)
             \/ /\ i + 2 < Len(s) /\ s[i + 3].end
                /\ s[i + 3].kind = s[i + 2].kind /\ s[i + 3].n = s[i + 2].n
    BY <2>1 DEF Framed
  <2>3. QED
    BY <1>1, <2>1, <2>2
<1>5. QED
  BY <1>2, <1>3, <1>4 DEF Framed

LEMMA RestInOrder ==
    ASSUME NEW s \in Seq(Fragment), NEW t \in Seq(Fragment), Len(s) >= 2,
           Len(t) = Len(s) - 2, \A i \in 1..Len(t) : t[i] = s[i + 2],
           ~s[1].end, s[2].end, s[2].kind = s[1].kind, s[2].n = s[1].n,
           NEW a \in Nat, NEW b \in Nat, LeftInOrder(s, a, b)
    PROVE  IF s[1].kind \in {"signal", "hangup"}
           THEN s[1].n = a /\ LeftInOrder(t, a + 1, b)
           ELSE LeftInOrder(t, a, b)
<1>1. Len(s) \in Nat /\ Len(t) \in Nat
  OBVIOUS
<1>2. /\ 1 \notin Signals(s)
      /\ 2 \in Signals(s) <=> s[1].kind \in {"signal", "hangup"}
      /\ \A i \in Signals(t) : i \in 1..Len(t) /\ i + 2 \in Signals(s) /\ t[i] = s[i + 2]
  BY <1>1 DEF Signals, IsSignal
<1>3. ASSUME NEW j \in Signals(s), j # 2
      PROVE  j - 2 \in Signals(t) /\ t[j - 2] = s[j] /\ j > 2
  BY <1>1, <1>2, <1>3 DEF Signals, IsSignal
<1>4. ASSUME NEW i \in Signals(t), NEW j \in Signals(t), i < j PROVE t[i].n < t[j].n
  <2>1. /\ i + 2 \in Signals(s) /\ j + 2 \in Signals(s) /\ i + 2 < j + 2
        /\ t[i] = s[i + 2] /\ t[j] = s[j + 2]
    BY <1>1, <1>2, <1>4
  <2>2. QED
    BY <2>1, InOrderMeans
<1>5. CASE s[1].kind \in {"signal", "hangup"}
  <2>1. s[2].n \in a..b /\ \A j \in Signals(s) : j # 2 => s[2].n < s[j].n
    <3>1. ASSUME NEW j \in Signals(s), j # 2 PROVE 2 < j /\ j \in Signals(s)
      BY <1>1, <1>3, <3>1
    <3>2. QED
      BY <1>2, <1>5, <3>1, InOrderMeans
  <2>2. s[1].n = a
    <3>1. a \in a..b
      BY <2>1
    <3>2. PICK i \in Signals(s) : s[i].n = a
      BY <3>1, InOrderMeans
    <3>3. s[2].n \in Int /\ a <= s[2].n /\ (i # 2 => s[2].n < a)
      BY <2>1, <3>2
    <3>4. i = 2
      BY <3>3
    <3>5. QED
      BY <3>2, <3>4
  <2>3. ASSUME NEW i \in Signals(t) PROVE t[i].n \in (a + 1)..b
    <3>1. i + 2 \in Signals(s) /\ i + 2 # 2 /\ t[i] = s[i + 2]
      BY <1>1, <1>2
    <3>2. s[i + 2].n \in a..b /\ s[2].n < s[i + 2].n
      BY <2>1, <3>1, InOrderMeans
    <3>3. QED
      BY <2>2, <3>1, <3>2
  <2>4. ASSUME NEW n \in (a + 1)..b PROVE \E i \in Signals(t) : t[i].n = n
    <3>1. n \in a..b /\ n # a
      OBVIOUS
    <3>2. PICK j \in Signals(s) : s[j].n = n
      BY <3>1, InOrderMeans
    <3>3. j # 2
      BY <2>2, <3>1, <3>2
    <3>4. QED
      BY <1>3, <3>2, <3>3
  <2>5. QED
    BY <1>4, <1>5, <2>2, <2>3, <2>4, InOrderMeans
<1>6. CASE s[1].kind \notin {"signal", "hangup"}
  <2>1. ASSUME NEW i \in Signals(t) PROVE t[i].n \in a..b
    BY <1>2, InOrderMeans
  <2>2. ASSUME NEW n \in a..b PROVE \E i \in Signals(t) : t[i].n = n
    <3>1. PICK j \in Signals(s) : s[j].n = n
      BY InOrderMeans
    <3>2. j # 2
      BY <1>2, <1>6
    <3>3. QED
      BY <1>3, <3>1, <3>2
  <2>3. QED
    BY <1>4, <1>6, <2>1, <2>2, InOrderMeans
<1>7. QED
  BY <1>5, <1>6

LEMMA InitOrder == SignalingInit => OrderInvariant
<1> SUFFICES ASSUME ChannelInit PROVE OrderInvariant
  BY DEF SignalingInit
<1>1. Left = <<>> /\ handled = <<>> /\ sent = 0
  BY DEF ChannelInit, Left
<1>2. Len(Left) = 0 /\ Len(handled) = 0 /\ Signals(Left) = {}
  BY <1>1 DEF Signals
<1>3. Framed(Left, eof)
  BY <1>2 DEF Framed
<1>4. LeftInOrder(Left, Len(handled) + 1, sent)
  BY <1>1, <1>2, InOrderMeans
<1>5. QED
  BY <1>1, <1>2, <1>3, <1>4 DEF OrderInvariant, ResponseFirst

(* A step that neither sends nor reads nor handles a message.              *)
LEMMA NothingRead ==
    ASSUME OrderInvariant, Left' = Left, UNCHANGED <<sent, handled, eof>>,
           \/ reader' = reader \/ reader' \in {"hanging", "closed"}
           \/ (reader \notin {"request", "hanging", "closed"} /\ reader' # "request")
    PROVE  OrderInvariant'
  BY DEF OrderInvariant, ResponseFirst

(* Nothing is left of an established connection with an empty stream.      *)
LEMMA NothingLeft ==
    ASSUME ChannelTypeOK, Len(Left) = 0 PROVE wire \o buffer = <<>>
<1>1. Len(wire) = 0 /\ Len(buffer) = 0
  BY DEF ChannelTypeOK, Left
<1>2. QED
  BY <1>1 DEF ChannelTypeOK

(* A step of the server.                                                   *)
LEMMA ServerInOrder ==
    ASSUME IInv, OrderInvariant, reader \notin {"hanging", "closed"},
           NEW kind \in {"response", "keepalive", "signal", "hangup"}, NEW n \in Nat,
           n \in IF kind \in {"signal", "hangup"} THEN 1..MaxSignals ELSE 0..1,
           Pushes(kind, n),
           IF kind \in {"signal", "hangup"} THEN n = sent + 1 /\ sent' = n ELSE sent' = sent,
           Established \/ kind = "response"
    PROVE  OrderInvariant'
<1>1. ChannelTypeOK /\ sent \in Nat /\ Len(handled) \in Nat
  BY DEF IInv, ChannelTypeOK
<1>2. /\ Left \in Seq(Fragment) /\ Left' \in Seq(Fragment)
      /\ Len(Left') = Len(Left) + 2
      /\ \A i \in 1..Len(Left) : Left'[i] = Left[i]
      /\ Left'[Len(Left) + 1] = [kind |-> kind, n |-> n, end |-> FALSE]
      /\ Left'[Len(Left) + 2] = [kind |-> kind, n |-> n, end |-> TRUE]
  BY <1>1, PushedAtEnd
<1>3. /\ reader' = reader /\ handled' = handled
      /\ ~eof /\ ~eof' /\ Framed(Left, FALSE) /\ ResponseFirst
      /\ Len(handled) <= sent /\ \A i \in 1..Len(handled) : handled[i] = i
      /\ LeftInOrder(Left, Len(handled) + 1, sent)
  <2>1. eof = FALSE /\ eof' = FALSE
    BY <1>1 DEF Pushes, ChannelTypeOK
  <2>2. QED
    BY <2>1 DEF Pushes, OrderInvariant
<1>4. Framed(Left', eof')
  <2>1. eof' = FALSE
    BY <1>1 DEF Pushes, ChannelTypeOK
  <2>2. Framed(Left', FALSE)
    <3>1. /\ ~Left'[Len(Left) + 1].end /\ Left'[Len(Left) + 2].end
          /\ Left'[Len(Left) + 2].kind = Left'[Len(Left) + 1].kind
          /\ Left'[Len(Left) + 2].n = Left'[Len(Left) + 1].n
      BY <1>2
    <3>2. QED
      BY <1>2, <1>3, <3>1, PushFramed
  <2>3. QED
    BY <2>1, <2>2
<1>5. LeftInOrder(Left', Len(handled) + 1, sent')
  <2> DEFINE last == Left'[Len(Left) + 2]
  <2>1. last.kind = kind /\ last.n = n /\ last.end /\ ~Left'[Len(Left) + 1].end
    BY <1>2
  <2>2. Len(handled) + 1 \in Nat /\ Len(handled) + 1 <= sent + 1
    BY <1>1, <1>3
  <2>3. IF last.kind \in {"signal", "hangup"}
        THEN last.n = sent + 1 => LeftInOrder(Left', Len(handled) + 1, sent + 1)
        ELSE LeftInOrder(Left', Len(handled) + 1, sent)
    BY <1>1, <1>2, <1>3, <2>1, <2>2, PushInOrder
  <2> HIDE DEF last
  <2>4. QED
    BY <2>1, <2>3
<1>6. ResponseFirst'
  <2>1. Len(Left) \in Nat /\ Len(Left) + 1 # 0 /\ Len(Left) # 0 => 1 \in 1..Len(Left)
    BY <1>2
  <2>2. CASE Len(Left) # 0
    BY <1>2, <1>3, <2>1, <2>2 DEF ResponseFirst
  <2>3. CASE Len(Left) = 0
    <3>1. reader = "request" => kind = "response"
      BY <1>1, <2>3, NothingLeft DEF Established
    <3>2. QED
      BY <1>2, <1>3, <2>3, <3>1 DEF ResponseFirst
  <2>4. QED
    BY <2>2, <2>3
<1>7. sent <= sent'
  BY <1>1
<1>8. QED
  BY <1>1, <1>3, <1>4, <1>5, <1>6, <1>7 DEF OrderInvariant

(* The end of the stream, which may cut a message.                         *)
LEMMA EndInOrder ==
    ASSUME IInv, OrderInvariant, reader \notin {"hanging", "closed"}, CloseEnd
    PROVE  OrderInvariant'
<1>1. /\ ChannelTypeOK /\ ~eof /\ eof' /\ UNCHANGED <<sent, handled, reader, buffer>>
      /\ Framed(Left, FALSE) /\ ResponseFirst
      /\ Len(handled) <= sent /\ \A i \in 1..Len(handled) : handled[i] = i
      /\ LeftInOrder(Left, Len(handled) + 1, sent)
  BY DEF IInv, OrderInvariant, CloseEnd, Framed
<1>2. CASE wire' = wire
  <2>1. Left' = Left
    BY <1>1, <1>2 DEF Left
  <2>2. Framed(Left, TRUE)
    BY <1>1 DEF Framed
  <2>3. ResponseFirst'
    BY <1>1, <2>1 DEF ResponseFirst
  <2>4. QED
    BY <1>1, <2>1, <2>2, <2>3 DEF OrderInvariant, Framed
<1>3. CASE wire' = Append(wire, Half)
  <2> DEFINE s == Left  t == Append(Left, Half)
  <2>1. /\ buffer \in Seq(Fragment) /\ wire \in Seq(Fragment) /\ s \in Seq(Fragment)
        /\ Half \in Fragment /\ ~Half.end /\ Half.kind = "response"
    BY <1>1 DEF ChannelTypeOK, Left, Half, Fragments, Fragment
  <2>2. Left' = t
    BY <1>1, <1>3, <2>1 DEF Left
  <2>3. /\ Len(s) \in Nat /\ Len(t) = Len(s) + 1 /\ t[Len(s) + 1] = Half
        /\ \A i \in 1..Len(s) : t[i] = s[i]
    BY <2>1
  <2> HIDE DEF s, t
  <2>4. Framed(t, TRUE)
    <3>1. Len(t) # 0 => ~t[1].end
      BY <1>1, <2>1, <2>3 DEF Framed, s
    <3>2. ASSUME NEW i \in 1..Len(t)
          PROVE  IF t[i].end THEN i = Len(t) \/ ~t[i + 1].end
                 ELSE \/ TRUE /\ i = Len(t)
                      \/ /\ i < Len(t) /\ t[i + 1].end
                         /\ t[i + 1].kind = t[i].kind /\ t[i + 1].n = t[i].n
      <4>1. CASE i < Len(s)
        <5>1. /\ i \in 1..Len(s) /\ i + 1 \in 1..Len(s)
              /\ t[i] = s[i] /\ t[i + 1] = s[i + 1] /\ i # Len(s) /\ i < Len(t)
          BY <2>3, <4>1
        <5>2. QED
          BY <1>1, <5>1 DEF Framed, s
      <4>2. CASE i = Len(s)
        <5>1. s[i].end /\ t[i] = s[i] /\ t[i + 1] = Half
          BY <1>1, <2>3, <4>2 DEF Framed, s
        <5>2. QED
          BY <2>1, <5>1
      <4>3. CASE i = Len(s) + 1
        BY <2>1, <2>3, <4>3
      <4>4. QED
        BY <2>3, <4>1, <4>2, <4>3
    <3>3. QED
      BY <3>1, <3>2 DEF Framed
  <2>5. Signals(t) = Signals(s) /\ \A i \in Signals(s) : t[i] = s[i]
    BY <2>1, <2>3 DEF Signals, IsSignal
  <2>6. LeftInOrder(t, Len(handled) + 1, sent)
    BY <1>1, <2>5, InOrderMeans DEF s
  <2>7. ResponseFirst'
    <3>1. Len(s) = 0 => t[1] = Half
      BY <2>3
    <3>2. Len(s) # 0 => t[1] = s[1]
      BY <2>3
    <3>3. QED
      BY <1>1, <2>1, <2>2, <2>3, <3>1, <3>2 DEF ResponseFirst, s
  <2>8. QED
    BY <1>1, <2>2, <2>4, <2>6, <2>7 DEF OrderInvariant, Framed
<1>4. QED
  BY <1>2, <1>3 DEF CloseEnd

(* A message leaves the front of the stream.                               *)
LEMMA TakenInOrder ==
    ASSUME IInv, OrderInvariant, reader \notin {"hanging", "closed"}, HasMessage,
           buffer' = Remaining, UNCHANGED <<wire, sent, eof>>,
           reader' \notin {"request", "hanging", "closed"},
           IF reader # "request" /\ CallsBack(Head(buffer).kind)
           THEN handled' = Append(handled, Head(buffer).n) ELSE handled' = handled
    PROVE  OrderInvariant'
<1>1. /\ wire \in Seq(Fragment) /\ buffer \in Seq(Fragment) /\ sent \in Nat
      /\ handled \in Seq(Nat) /\ Len(handled) \in Nat /\ Len(handled) + 1 \in Nat
  BY SignalAssumption DEF IInv, ChannelTypeOK
<1>2. /\ Framed(Left, eof) /\ ResponseFirst
      /\ Len(handled) <= sent /\ \A i \in 1..Len(handled) : handled[i] = i
      /\ LeftInOrder(Left, Len(handled) + 1, sent)
  BY DEF OrderInvariant
<1>3. /\ Left \in Seq(Fragment) /\ Left' \in Seq(Fragment)
      /\ Len(Left) >= 2 /\ Len(Left') = Len(Left) - 2
      /\ \A i \in 1..Len(Left') : Left'[i] = Left[i + 2]
      /\ Left[1] = Head(buffer)
  BY <1>1, <1>2, ReadTakesTwo
<1>4. /\ Framed(Left', eof')
      /\ ~Left[1].end /\ Left[2].end /\ Left[2].kind = Left[1].kind /\ Left[2].n = Left[1].n
  BY <1>2, <1>3, RestFramed
<1>5. IF Left[1].kind \in {"signal", "hangup"}
      THEN Left[1].n = Len(handled) + 1 /\ LeftInOrder(Left', (Len(handled) + 1) + 1, sent)
      ELSE LeftInOrder(Left', Len(handled) + 1, sent)
  BY <1>1, <1>2, <1>3, <1>4, RestInOrder
<1>6. reader = "request" => Left[1].kind = "response"
  BY <1>2, <1>3 DEF ResponseFirst
<1>7. CASE CallsBack(Left[1].kind)
  <2>1. Left[1].kind \in {"signal", "hangup"} /\ reader # "request"
    BY <1>6, <1>7 DEF CallsBack
  <2>2. handled' = Append(handled, Len(handled) + 1)
    BY <1>3, <1>5, <1>7, <2>1
  <2>3. /\ Len(handled') = Len(handled) + 1
        /\ \A i \in 1..Len(handled') : handled'[i] = i
    BY <1>1, <1>2, <2>2
  <2>4. Len(handled) + 1 <= sent
    <3>1. 2 \in Signals(Left)
      BY <1>3, <1>4, <2>1 DEF Signals, IsSignal
    <3>2. Left[2].n \in (Len(handled) + 1)..sent
      BY <1>2, <3>1, InOrderMeans
    <3>3. QED
      BY <1>1, <3>2
  <2>5. QED
    BY <1>4, <1>5, <2>1, <2>3, <2>4 DEF OrderInvariant, ResponseFirst
<1>8. CASE ~CallsBack(Left[1].kind)
  <2>1. handled' = handled
    BY <1>3, <1>8
  <2>2. QED
    BY <1>2, <1>4, <1>5, <1>8, <2>1 DEF CallsBack, OrderInvariant, ResponseFirst
<1>9. QED
  BY <1>7, <1>8

LEMMA NextKeepsOrder == ASSUME IInv, OrderInvariant, ChannelNext PROVE OrderInvariant'
<1>1. CASE reader \in {"hanging", "closed"}
  <2>1. reader' \in {"hanging", "closed"}
    BY <1>1
    DEF ChannelNext, Server, Responds, PushSignal, KeepAlive, CloseEnd, Pushes, ReadMore,
        ReadResponse, RequestFails, Terminate, Executor, NextTask, WaitForSignal, WaitFails,
        LookAgain, ReadSignal, SendOkResponse, SignalingFails, Finish, SendHangup, CloseSocket
  <2>2. QED
    BY <2>1 DEF OrderInvariant
<1> SUFFICES ASSUME reader \notin {"hanging", "closed"} PROVE OrderInvariant'
  BY <1>1
<1>2. /\ sent + 1 \in Nat /\ wire \in Seq(Fragment) /\ buffer \in Seq(Fragment)
      /\ sent < MaxSignals => sent + 1 \in 1..MaxSignals
  BY SignalAssumption DEF IInv, ChannelTypeOK
<1>3. CASE Server
  <2>1. ASSUME NEW n \in 0..1, Responds(n) PROVE OrderInvariant'
    BY <2>1, ServerInOrder DEF Responds
  <2>2. ASSUME NEW kind \in {"signal", "hangup"}, PushSignal(kind) PROVE OrderInvariant'
    BY <1>2, <2>2, ServerInOrder DEF PushSignal
  <2>3. CASE KeepAlive
    BY <2>3, ServerInOrder DEF KeepAlive
  <2>4. CASE CloseEnd
    BY <2>4, EndInOrder
  <2>5. QED
    BY <1>3, <2>1, <2>2, <2>3, <2>4 DEF Server
<1>4. CASE ReadMore
  <2>1. Left' = Left /\ UNCHANGED <<sent, handled, reader, eof>>
    BY <1>2, <1>4, ReadKeepsLeft DEF ReadMore, Read
  <2>2. QED
    BY <2>1, NothingRead
<1>5. CASE ReadResponse
  BY <1>5, TakenInOrder DEF ReadResponse, stream
<1>6. CASE WaitForSignal
  BY <1>2, <1>6, NothingRead, ReadKeepsLeft DEF WaitForSignal, Read
<1>7. CASE ReadSignal
  BY <1>7, TakenInOrder DEF ReadSignal, stream
<1>8. CASE RequestFails \/ Terminate \/ NextTask \/ WaitFails \/ LookAgain \/ SendOkResponse
           \/ SignalingFails \/ Finish \/ SendHangup
  BY <1>8, NothingRead
  DEF RequestFails, Terminate, NextTask, WaitFails, LookAgain, SendOkResponse, SignalingFails,
      Finish, SendHangup, stream, Left
<1>9. CASE CloseSocket
  BY <1>9 DEF CloseSocket
<1>10. QED
  BY <1>3, <1>4, <1>5, <1>6, <1>7, <1>8, <1>9 DEF ChannelNext, Executor

-----------------------------------------------------------------------------
(* Theorems.                                                               *)

(* Whatever the SignalManager does, the signaling connection has the       *)
(* invariant from which NoWaitAfterTerminate follows.                      *)
THEOREM ListenerInvariance == SignalingSpec => []IInv
<1>1. IInv /\ [SignalingNext]_<<vars, channelVars>> => IInv'
  <2> SUFFICES ASSUME IInv, [SignalingNext]_<<vars, channelVars>> PROVE IInv'
    OBVIOUS
  <2>1. CASE ChannelNext
    BY <2>1, NextTyped, NextInOrder DEF IInv
  <2>2. CASE UNCHANGED channelVars
    BY <2>2 DEF channelVars, stream, tasks, IInv, ChannelTypeOK, QueueShape, FlagStands
  <2>3. QED
    BY <2>1, <2>2 DEF SignalingNext
<1>2. QED
  BY <1>1, InitIInv, PTL DEF SignalingSpec

(* When terminate() has returned, the listener does not wait for the       *)
(* server: Finish cannot undo the termination, for the listener it queues  *)
(* comes after the hangup.                                                 *)
THEOREM TerminationSeen == SignalingSpec => []ChannelInvariant
<1>1. IInv => ChannelInvariant
  BY DEF IInv, FlagStands, ChannelInvariant, NoWaitAfterTerminate
<1>2. QED
  BY <1>1, ListenerInvariance, PTL

(* LineReader: until the hangup, no signal is lost, handled twice or       *)
(* overtaken, however the stream is cut into reads and whichever thread    *)
(* reads it.                                                               *)
THEOREM SignalsHandledInOrder == SignalingSpec => []HandledInOrder
<1>1. IInv /\ OrderInvariant /\ [SignalingNext]_<<vars, channelVars>> => OrderInvariant'
  <2> SUFFICES ASSUME IInv, OrderInvariant, [SignalingNext]_<<vars, channelVars>>
               PROVE  OrderInvariant'
    OBVIOUS
  <2>1. CASE ChannelNext
    BY <2>1, NextKeepsOrder
  <2>2. CASE UNCHANGED channelVars
    <3>1. Left' = Left /\ UNCHANGED <<sent, handled, reader, eof>>
      BY <2>2 DEF channelVars, stream, Left
    <3>2. QED
      BY <3>1, NothingRead
  <2>3. QED
    BY <2>1, <2>2 DEF SignalingNext
<1>2. OrderInvariant => HandledInOrder
  BY DEF OrderInvariant, HandledInOrder, Left
<1>3. QED
  BY <1>1, <1>2, InitOrder, ListenerInvariance, PTL DEF SignalingSpec

(* The channel steps stutter for SignalingConnect.                         *)
THEOREM ConnectsAsAlone == SignalingSpec => Spec
<1>1. SignalingInit => Init
  BY DEF SignalingInit
<1>2. [SignalingNext]_<<vars, channelVars>> => [Next]_vars
  BY DEF SignalingNext
<1>3. QED
  BY <1>1, <1>2, PTL DEF SignalingSpec, Spec

(* The socket that carries the signals is never closed by the monitor of   *)
(* the attempt it came from, and the other sockets of that attempt are     *)
(* closed, all the time the signals run.                                   *)
THEOREM SocketStaysOpen == SignalingSpec => [](LosersClosed /\ ReturnedIsOpen)
  BY ConnectsAsAlone, LosersAlwaysClosed, ReturnedAlwaysOpen, PTL
==================================================================================
