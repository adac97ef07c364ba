--------------------------- MODULE AudioStreamProofs ---------------------------
(***************************************************************************)
(* Proofs about AudioStream, for headers of any width, any number of       *)
(* frames and any strays.                                                  *)
(***************************************************************************)
EXTENDS AudioStream, TLAPS

(* The remainder is in range, and a number is its quotient and remainder.  *)
LEMMA Division ==
    ASSUME NEW S \in Nat \ {0}, NEW n \in Int
    PROVE  /\ n % S \in 0..(S - 1)
           /\ n \div S \in Int
           /\ n = (S * (n \div S)) + (n % S)
  BY SMT

(* The remainder of a small number is the number.                          *)
LEMMA SmallRemainder ==
    ASSUME NEW S \in Nat \ {0}, NEW n \in 0..(S - 1)
    PROVE  n % S = n
  BY SMT

(* Two different quotients are at least one divisor apart.                 *)
LEMMA Multiples ==
    ASSUME NEW S \in Nat, NEW k \in Int
    PROVE  /\ S * k \in Int
           /\ k >= 2 => S * k >= 2 * S
           /\ k <= -2 => S * k <= -(2 * S)
  <1>1. S * k \in Int
    BY SMT
  <1>2. k >= 2 => S * k >= 2 * S
    BY SMT
  <1>3. k <= -2 => S * k <= -(2 * S)
    <2> SUFFICES ASSUME k <= -2 PROVE S * k <= -(2 * S)
      OBVIOUS
    <2>1. S * (-k) >= 2 * S
      BY SMT
    <2>2. S * (-k) = -(S * k)
      BY SMT
    <2> QED
      BY <1>1, <2>1, <2>2, SMT
  <1> QED
    BY <1>1, <1>2, <1>3

(* A multiple of a difference.                                             *)
LEMMA Distributes ==
    ASSUME NEW S \in Int, NEW a \in Int, NEW b \in Int
    PROVE  /\ S * (a - b) = (S * a) - (S * b)
           /\ S * a \in Int
           /\ S * b \in Int
  BY SMT

(* convertNext finds the position of every datagram that is less than half *)
(* the range away from the one before it.                                  *)
THEOREM WindowConverted ==
    ASSUME NEW longId \in Int, NEW position \in Int,
           position - longId \in -HalfRange..(HalfRange - 1)
    PROVE  convertNext(position % ShortRange, longId % ShortRange, longId) = position
  <1> DEFINE S == 2 * HalfRange
             d == position - longId
             q0 == longId \div S
             q1 == position \div S
             s0 == longId % S
             s1 == position % S
             k == q1 - q0
  <1>1. HalfRange \in Nat \ {0} /\ S \in Nat \ {0} /\ ShortRange = S
    BY RangeAssumption DEF ShortRange
  <1>2. s0 \in 0..(S - 1) /\ q0 \in Int /\ longId = (S * q0) + s0
    BY <1>1, Division
  <1>3. s1 \in 0..(S - 1) /\ q1 \in Int /\ position = (S * q1) + s1
    BY <1>1, Division
  <1>4. k \in Int /\ S * k = (S * q1) - (S * q0) /\ S * q1 \in Int /\ S * q0 \in Int
    <2>1. S \in Int /\ q1 \in Int /\ q0 \in Int
      BY <1>1, <1>2, <1>3
    <2>2. q1 - q0 \in Int
      BY <2>1
    <2> HIDE DEF S, q0, q1
    <2> QED
      BY <2>1, <2>2, Distributes
  <1>5. S * k \in Int /\ (k >= 2 => S * k >= 2 * S) /\ (k <= -2 => S * k <= -(2 * S))
    BY <1>1, <1>4, Multiples
  <1>6. s1 - s0 = d - S * k
    <2> HIDE DEF S, q0, q1, s0, s1, k
    <2> QED
      BY <1>1, <1>2, <1>3, <1>4, SMT
  <1>7. k \in {-1, 0, 1}
    <2> HIDE DEF S, q0, q1, s0, s1, k
    <2> QED
      BY <1>1, <1>2, <1>3, <1>4, <1>5, <1>6, SMT DEF S
  <1>8. S * 0 = 0 /\ S * 1 = S /\ S * (-1) = -S
    BY <1>1, SMT
  <1>9. ShortestStep(s1 - s0) = d
    <2> HIDE DEF q0, q1, s0, s1, k
    <2>1. CASE k = 0
      BY <1>1, <1>2, <1>3, <1>6, <1>8, <2>1, SMT DEF ShortestStep
    <2>2. CASE k = 1
      BY <1>1, <1>2, <1>3, <1>6, <1>8, <2>2, SMT DEF ShortestStep
    <2>3. CASE k = -1
      BY <1>1, <1>2, <1>3, <1>6, <1>8, <2>3, SMT DEF ShortestStep
    <2> QED
      BY <1>7, <2>1, <2>2, <2>3
  <1> QED
    <2>1. convertNext(s1, s0, longId) = longId + ShortestStep(s1 - s0)
      BY DEF convertNext
    <2>2. longId + (position - longId) = position
      BY SMT
    <2> QED
      BY <1>1, <1>9, <2>1, <2>2
-----------------------------------------------------------------------------
(* The kinds of datagrams there are.                                       *)
LEMMA PacketsTyped ==
    ASSUME NEW e \in Endpoint, NEW n \in 0..(WordRange - 1)
    PROVE  Packet(e, n, n) \in Datagram
  <1>1. ShortRange \in Nat \ {0} /\ n \in Int
    BY RangeAssumption, SMT DEF ShortRange
  <1>2. Truncated(n) \in 0..(ShortRange - 1)
    BY <1>1, Division DEF Truncated
  <1>3. Iv(n) \in 0..(IvRange - 1)
    BY <1>1, RangeAssumption, Division DEF Iv
  <1> QED
    BY <1>1, <1>2, <1>3 DEF Packet, Datagram, Keystream, SenderKey

LEMMA StraysTyped ==
    ASSUME NEW e \in Endpoint, NEW n \in Strays
    PROVE  Stray(e, n) \in Datagram
  <1>1. ShortRange \in Nat \ {0} /\ n \in Int /\ n \in Nat
    BY RangeAssumption, StrayAssumption, SMT DEF ShortRange
  <1>2. Truncated(n) \in 0..(ShortRange - 1)
    BY <1>1, Division DEF Truncated
  <1> QED
    BY <1>1, <1>2 DEF Stray, Datagram, Keystream

IInv == TypeOK /\ AudioInvariant /\ RightKeystream /\ GenuineAccepted

LEMMA InitInvariant == Init => IInv
  <1> SUFFICES ASSUME Init PROVE IInv
    OBVIOUS
  <1>1. /\ ShortRange \in Nat \ {0} /\ WordRange \in Nat \ {0} /\ MaxFrames \in Nat
        /\ 0 \in 0..(ShortRange - 1) /\ 0 \in 0..(WordRange - 1) /\ 0 \in 0..MaxFrames
    BY RangeAssumption, SMT DEF ShortRange
  <1>2. 0 % ShortRange = 0
    BY <1>1, SmallRemainder
  <1>3. net \subseteq Datagram
    BY StraysTyped DEF Init
  <1>4. TypeOK
    BY <1>1, <1>3, SMTT(30) DEF Init, TypeOK, Keystream
  <1>5. AudioInvariant
    <2>1. CounterFollows
      BY <1>2 DEF Init, CounterFollows
    <2>2. SenderInStep
      BY DEF Init, SenderInStep
    <2>3. DatagramsKnown
      BY DEF Init, DatagramsKnown, Stray
    <2> QED
      BY <2>1, <2>2, <2>3 DEF AudioInvariant
  <1>6. RightKeystream /\ GenuineAccepted
    BY DEF Init, RightKeystream, GenuineAccepted
  <1> QED
    BY <1>4, <1>5, <1>6 DEF IInv

(* A frame is encrypted at its own position and sent.                      *)
LEMMA SendInvariant ==
    ASSUME IInv, NEW e \in Endpoint, Send(e)
    PROVE  IInv'
  <1> DEFINE p == Packet(e, frames[e], sequenceNumber[e])
  <1>1. /\ WordRange \in Nat \ {0} /\ MaxFrames \in Nat /\ MaxFrames <= WordRange
        /\ frames \in [Endpoint -> 0..MaxFrames] /\ frames[e] < MaxFrames
        /\ frames' = [frames EXCEPT ![e] = frames[e] + 1]
        /\ sequenceNumber[e] = frames[e] /\ net' = net \cup {p}
        /\ sequenceNumber' = [sequenceNumber EXCEPT ![e] = NextSequence(sequenceNumber[e])]
    BY RangeAssumption DEF IInv, TypeOK, AudioInvariant, SenderInStep, Send
  <1>2. frames[e] \in 0..(WordRange - 1) /\ frames[e] + 1 \in 0..MaxFrames
    BY <1>1, SMT
  <1>3. /\ NextSequence(sequenceNumber[e]) \in 0..(WordRange - 1)
        /\ frames[e] + 1 < MaxFrames => NextSequence(sequenceNumber[e]) = frames[e] + 1
    <2>0. frames[e] + 1 \in Int
      BY <1>2
    <2>1. (frames[e] + 1) % WordRange \in 0..(WordRange - 1)
      BY <1>1, <2>0, Division
    <2>2. ASSUME frames[e] + 1 < MaxFrames PROVE (frames[e] + 1) % WordRange = frames[e] + 1
      <3>1. frames[e] + 1 \in 0..(WordRange - 1)
        BY <1>1, <1>2, <2>2, SMT
      <3> QED
        BY <1>1, <3>1, SmallRemainder
    <2> QED
      BY <1>1, <2>1, <2>2 DEF NextSequence
  <1>4. p \in Datagram
    BY <1>1, <1>2, PacketsTyped
  <1>5. TypeOK'
    BY <1>1, <1>2, <1>3, <1>4, SMTT(30) DEF IInv, TypeOK, Send
  <1>6. CounterFollows'
    BY DEF IInv, AudioInvariant, CounterFollows, Send
  <1>7. SenderInStep'
    BY <1>1, <1>3 DEF IInv, TypeOK, AudioInvariant, SenderInStep
  <1>8. DatagramsKnown'
    <2> SUFFICES ASSUME NEW q \in net'
                 PROVE  \/ q.position < frames'[q.from] /\ q = Packet(q.from, q.position, q.position)
                        \/ q = Stray(q.from, q.position)
      BY DEF DatagramsKnown
    <2>1. CASE q = p
      <3>1. q.from = e /\ q.position = frames[e] /\ q = Packet(e, frames[e], frames[e])
        BY <1>1, <2>1 DEF Packet
      <3>2. frames[e] < frames'[e]
        BY <1>1, <1>2, SMT
      <3> QED
        BY <3>1, <3>2
    <2>2. CASE q \in net
      <3>1. q.position \in Nat /\ q.from \in Endpoint
        BY <2>2 DEF IInv, TypeOK, Datagram
      <3>2. q.position < frames[q.from] => q.position < frames'[q.from]
        BY <1>1, <1>2, <3>1, SMT
      <3> QED
        BY <2>2, <3>2 DEF IInv, AudioInvariant, DatagramsKnown
    <2> QED
      BY <1>1, <2>1, <2>2
  <1>9. RightKeystream' /\ GenuineAccepted'
    BY DEF IInv, RightKeystream, GenuineAccepted, Send
  <1> QED
    BY <1>5, <1>6, <1>7, <1>8, <1>9 DEF IInv, AudioInvariant

(* What is received in the window is converted to its position.            *)
LEMMA ReceiveInvariant ==
    ASSUME IInv, NEW e \in Endpoint, NEW p \in net, Receive(e, p)
    PROVE  IInv'
  <1> DEFINE index == convertNext(p.short, prevShortId[e], prevLongId[e])
  <1>1. /\ p.from = Peer(e) /\ p \in Datagram /\ p.position \in Nat
        /\ p.short \in 0..(ShortRange - 1) /\ p.from \in Endpoint
        /\ last[e] \in Nat /\ prevLongId[e] = last[e]
        /\ prevShortId[e] = last[e] % ShortRange
        /\ p.position - last[e] \in -HalfRange..(HalfRange - 1)
    BY DEF IInv, TypeOK, Datagram, AudioInvariant, CounterFollows, Receive, InWindow
  <1>2. p.short = p.position % ShortRange
    BY DEF IInv, AudioInvariant, DatagramsKnown, Packet, Stray, Truncated
  <1>3. index = p.position
    BY <1>1, <1>2, WindowConverted
  <1>4. /\ prevShortId' = [prevShortId EXCEPT ![e] = p.short]
        /\ prevLongId' = [prevLongId EXCEPT ![e] = p.position]
        /\ last' = [last EXCEPT ![e] = p.position]
        /\ played' = [played EXCEPT ![e] = Decrypted(e, p, p.position)]
        /\ sequenceNumber' = sequenceNumber /\ net' = net /\ frames' = frames
    BY <1>3 DEF Receive
  <1>5. Iv(p.position) \in 0..(IvRange - 1)
    <2>1. p.position \in Int /\ IvRange \in Nat \ {0}
      BY <1>1, RangeAssumption
    <2> QED
      BY <2>1, Division DEF Iv
  <1>6. Decrypted(e, p, p.position) \in
            [status : {"nothing", "played", "rejected"}, sent : Keystream,
             used : Keystream, macKey : Endpoint \cup {None}]
    BY <1>1, <1>5 DEF Decrypted, Datagram, Keystream, ReceiverKey
  <1>7. TypeOK'
    BY <1>1, <1>4, <1>6 DEF IInv, TypeOK
  <1>8. CounterFollows'
    BY <1>1, <1>2, <1>4 DEF IInv, TypeOK, AudioInvariant, CounterFollows
  <1>9. SenderInStep' /\ DatagramsKnown'
    BY <1>4 DEF IInv, AudioInvariant, SenderInStep, DatagramsKnown
  <1>10. p.macKey = ReceiverKey(e) =>
            p.stream = [key |-> ReceiverKey(e), iv |-> Iv(p.position)]
    <2>1. None # ReceiverKey(e)
      BY <1>1, NoneAssumption DEF ReceiverKey
    <2>2. CASE p = Stray(p.from, p.position)
      BY <2>1, <2>2 DEF Stray
    <2>3. CASE p = Packet(p.from, p.position, p.position)
      BY <1>1, <2>3 DEF Packet, SenderKey, ReceiverKey
    <2> QED
      BY <2>2, <2>3 DEF IInv, AudioInvariant, DatagramsKnown
  <1>11. p.macKey # ReceiverKey(e) => p.macKey = None
    <2>1. CASE p = Stray(p.from, p.position)
      BY <2>1 DEF Stray
    <2>2. CASE p = Packet(p.from, p.position, p.position)
      BY <1>1, <2>2 DEF Packet, SenderKey, ReceiverKey
    <2> QED
      BY <2>1, <2>2 DEF IInv, AudioInvariant, DatagramsKnown
  <1>12. RightKeystream'
    BY <1>4, <1>10 DEF IInv, TypeOK, RightKeystream, Decrypted
  <1>13. GenuineAccepted'
    BY <1>4, <1>11 DEF IInv, TypeOK, GenuineAccepted, Decrypted
  <1> QED
    BY <1>7, <1>8, <1>9, <1>12, <1>13 DEF IInv, AudioInvariant

(* The invariant of the stream, from which the theorems below follow.      *)
THEOREM AudioInvariance == Spec => []IInv
  <1>1. IInv /\ [Next]_vars => IInv'
    <2> SUFFICES ASSUME IInv, [Next]_vars PROVE IInv'
      OBVIOUS
    <2>1. CASE Next
      BY <2>1, SendInvariant, ReceiveInvariant DEF Next
    <2>2. CASE UNCHANGED vars
      BY <2>2 DEF vars, IInv, TypeOK, AudioInvariant, CounterFollows, SenderInStep,
                  DatagramsKnown, RightKeystream, GenuineAccepted
    <2> QED
      BY <2>1, <2>2
  <1> QED
    BY <1>1, InitInvariant, PTL DEF Spec

(* Whatever a phone plays was decrypted with the keystream its peer used,  *)
(* though only the low bits of the position travel.                        *)
THEOREM KeystreamAlwaysRight == Spec => []RightKeystream
  BY AudioInvariance, PTL DEF IInv

(* Audio of the peer is never rejected: each phone's runAudio receives     *)
(* under the key the other's sends under.                                  *)
THEOREM GenuineAlwaysAccepted == Spec => []GenuineAccepted
  BY AudioInvariance, PTL DEF IInv

(* No two frames of the call are encrypted with one keystream, of the same *)
(* phone or of both.                                                       *)
THEOREM KeystreamNeverReused == Spec => []KeystreamOnce
  <1>1. IInv => KeystreamOnce
    <2> SUFFICES ASSUME IInv, NEW p \in net, NEW q \in net, p.stream # None,
                        p.stream = q.stream
                 PROVE  p.from = q.from /\ p.position = q.position
      BY DEF KeystreamOnce
    <2>1. ASSUME NEW r \in net, r.stream # None
          PROVE  /\ r.position \in 0..(IvRange - 1)
                 /\ r.stream = [key |-> r.from, iv |-> Iv(r.position)]
      <3>1. r.position < frames[r.from] /\ r = Packet(r.from, r.position, r.position)
        BY <2>1 DEF IInv, AudioInvariant, DatagramsKnown, Stray
      <3>2. r.stream = [key |-> r.from, iv |-> Iv(r.position)]
        BY <3>1 DEF Packet, SenderKey
      <3>3. r.position \in Nat /\ frames[r.from] \in 0..MaxFrames
        BY <2>1 DEF IInv, TypeOK, Datagram
      <3>4. r.position \in 0..(IvRange - 1)
        BY <3>1, <3>3, RangeAssumption, SMT
      <3> QED
        BY <3>2, <3>4
    <2>2. q.stream # None
      OBVIOUS
    <2>3. p.position \in 0..(IvRange - 1) /\ p.stream = [key |-> p.from, iv |-> Iv(p.position)]
      BY <2>1
    <2>4. q.position \in 0..(IvRange - 1) /\ q.stream = [key |-> q.from, iv |-> Iv(q.position)]
      BY <2>1, <2>2
    <2>5. Iv(p.position) = p.position /\ Iv(q.position) = q.position
      BY <2>3, <2>4, RangeAssumption, SmallRemainder DEF Iv
    <2>6. [key |-> p.from, iv |-> p.position] = [key |-> q.from, iv |-> q.position]
      BY <2>3, <2>4, <2>5
    <2> QED
      BY <2>6
  <1> QED
    BY <1>1, AudioInvariance, PTL

(* Every variable keeps to its type, and counters, datagrams and the frames *)
(* that were played stay in step, from the first packet to the last.       *)
THEOREM StreamsInStep == Spec => [](TypeOK /\ AudioInvariant)
  <1>1. IInv => TypeOK /\ AudioInvariant
    BY DEF IInv
  <1> QED
    BY <1>1, AudioInvariance, PTL
================================================================================
