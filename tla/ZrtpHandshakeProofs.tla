-------------------------- MODULE ZrtpHandshakeProofs --------------------------
(***************************************************************************)
(* HandshakeInvariant is inductive, and KeysAgree, NoRejection and the     *)
(* types follow from it; with RowsKept, so does what the two databases     *)
(* hold after the call.                                                    *)
(***************************************************************************)
EXTENDS ZrtpHandshakeInvariant, TLAPS

-----------------------------------------------------------------------------
(* The retained secrets: the two calculators choose the same s1, and it is *)
(* the one their class comment describes, for any secrets whatever.        *)

(* An ID is recognised by the holder of the secret it was derived from and *)
(* by nobody else: neither null derivatives nor random IDs match.          *)
LEMMA RecognisesOwn ==
    ASSUME NEW role \in {"Initiator", "Responder"}, NEW mine, NEW sent
    PROVE  Recognises(role, mine, SentID(role, sent)) <=> mine # NoSecret /\ mine = sent
<1>1. CASE sent = NoSecret
  <2>1. SentID(role, sent).role = "Random"
        BY <1>1 DEF SentID, RandomID
  <2>2. Derivative(role, mine).role = role
        BY DEF Derivative
  <2>3. Derivative(role, mine) # SentID(role, sent)
        BY <2>1, <2>2
  <2>   QED  BY <1>1, <2>3 DEF Recognises
<1>2. CASE sent # NoSecret
  <2>1. SentID(role, sent) = Derivative(role, sent)
        BY <1>2 DEF SentID
  <2>2. Derivative(role, mine).secret = mine /\ Derivative(role, sent).secret = sent
        BY DEF Derivative
  <2>   QED  BY <1>2, <2>1, <2>2 DEF Recognises
<1> QED  BY <1>1, <1>2

(* What the initiator computes from the responder's IDs, what the          *)
(* responder computes from the initiator's, and the documented choice are  *)
(* one secret, or none for both.                                           *)
THEOREM S1Agreement ==
    ASSUME NEW i, NEW r
    PROVE  /\ InitiatorS1(i, SentIDs("Responder", r)) = SharedSecret(i, r)
           /\ ResponderS1(r, SentIDs("Initiator", i)) = SharedSecret(i, r)
<1> DEFINE Held == {r.one, r.two} \ {NoSecret}
<1>1. SharedSecret(i, r) = IF i.one \in Held THEN i.one
                           ELSE IF i.two \in Held THEN i.two ELSE NoSecret
      BY DEF SharedSecret
<1>2. /\ SentIDs("Responder", r).one = SentID("Responder", r.one)
      /\ SentIDs("Responder", r).two = SentID("Responder", r.two)
      /\ SentIDs("Initiator", i).one = SentID("Initiator", i.one)
      /\ SentIDs("Initiator", i).two = SentID("Initiator", i.two)
      BY DEF SentIDs
<1>3. InitiatorS1(i, SentIDs("Responder", r)) = IF i.one \in Held THEN i.one
                           ELSE IF i.two \in Held THEN i.two ELSE NoSecret
  <2>1. \A s : Recognises("Responder", s, SentID("Responder", r.one))
               \/ Recognises("Responder", s, SentID("Responder", r.two)) <=> s \in Held
        BY RecognisesOwn
  <2>   QED  BY <1>2, <2>1 DEF InitiatorS1
<1>4. ResponderS1(r, SentIDs("Initiator", i)) = IF i.one \in Held THEN i.one
                           ELSE IF i.two \in Held THEN i.two ELSE NoSecret
  <2>1. \A s, t : Recognises("Initiator", s, SentID("Initiator", t))
                  <=> s # NoSecret /\ s = t
        BY RecognisesOwn
  <2>   QED  BY <1>2, <2>1 DEF ResponderS1
<1> QED  BY <1>1, <1>3, <1>4

-----------------------------------------------------------------------------
(* The packet constructors.                                                *)

LEMMA EndpointFacts ==
    /\ I \in Endpoint /\ R \in Endpoint /\ I # R
    /\ \A e \in Endpoint : e = I \/ e = R
    /\ Peer(I) = R /\ Peer(R) = I
BY DEF Endpoint, I, R, Peer

LEMMA IDsTyped ==
    ASSUME NEW role \in {I, R}, NEW secrets \in [one : Slot, two : Slot]
    PROVE  SentIDs(role, secrets) \in IDs
<1>1. \A s \in Slot : SentID(role, s) \in [role : {I, R, "Random"}, secret : Slot]
      BY DEF SentID, RandomID, Derivative, Slot
<1> QED  BY <1>1 DEF SentIDs, IDs

LEMMA KeyAgreementTyped == \A hello : KeyAgreement(hello) \in KA
BY DEF KeyAgreement, KA

LEMMA HelloTyped == \A e \in Endpoint : Hello(e) \in HelloSet
BY DEF Hello, HelloSet

LEMMA DHTyped ==
    ASSUME NEW ka \in KA, NEW secrets \in [one : Slot, two : Slot]
    PROVE  DHPart1(ka, secrets) \in DHSet /\ DHPart2(ka, secrets) \in DHSet
BY IDsTyped DEF DHPart1, DHPart2, DHSet, Endpoint

LEMMA CommitTyped ==
    ASSUME NEW hello \in HelloSet, NEW dh \in DHSet
    PROVE  Commit(hello, dh) \in CommitSet
<1>1. dh.ka \in KA
      BY DEF DHSet
<1> QED  BY <1>1 DEF Commit, CommitSet, Hvi

LEMMA MasterTyped ==
    ASSUME NEW ka \in KA, NEW hello \in HelloSet, NEW packet \in CommitSet,
           NEW dh1 \in DHSet, NEW dh2 \in DHSet, NEW s \in Slot
    PROVE  Master(ka, hello, packet, dh1, dh2, s) \in MasterSet
BY DEF Master, MasterSet

LEMMA S1Typed ==
    ASSUME NEW mine \in [one : Slot, two : Slot], NEW received
    PROVE  InitiatorS1(mine, received) \in Slot /\ ResponderS1(mine, received) \in Slot
BY DEF InitiatorS1, ResponderS1, Slot

LEMMA ConfirmTyped ==
    ASSUME NEW key \in MasterSet
    PROVE  Confirm1(key) \in Packet /\ Confirm2(key) \in Packet
<1>1. Confirm1(key) \in [type : {"Confirm1", "Confirm2"}, chain : Endpoint, key : MasterSet]
      BY DEF Confirm1, Endpoint
<1>2. Confirm2(key) \in [type : {"Confirm1", "Confirm2"}, chain : Endpoint, key : MasterSet]
      BY DEF Confirm2, Endpoint
<1> QED  BY <1>1, <1>2 DEF Packet

LEMMA PacketsTyped ==
    /\ HelloSet \subseteq Packet /\ DHSet \subseteq Packet /\ CommitSet \subseteq Packet
    /\ HelloAck \in Packet /\ ConfAck \in Packet /\ Audio \in Packet /\ Reply \in Packet
BY DEF Packet

LEMMA NoneIsNoPacket == None \notin Packet /\ None \notin MasterSet
BY NoneAssumption

-----------------------------------------------------------------------------
(* How far an endpoint has come.                                           *)

LEMMA StageRange == \A e \in Endpoint : Stage(e) \in {0, 1, 2, 3, 4}
BY DEF Stage

(* A thread reaches HANDSHAKE_COMPLETE after its last packet only.         *)
LEMMA CompleteIsLast ==
    ASSUME ThreadsInStep, NEW e \in Endpoint, state[e] = "HANDSHAKE_COMPLETE"
    PROVE  Stage(e) = 4
BY StageRange, EndpointFacts DEF ThreadsInStep, Expecting

(* A step that sets no key material and sends no new packet keeps every    *)
(* part of the invariant that speaks of them.                              *)
LEMMA Frozen ==
    ASSUME UNCHANGED <<keys, lastPacket>>
    PROVE  /\ \A e \in Endpoint : Stage(e)' = Stage(e) /\ Expecting(e)' = Expecting(e)
           /\ \A m : Genuine(m)' <=> Genuine(m)
           /\ InitiatorFields => InitiatorFields'
           /\ ResponderFields => ResponderFields'
           /\ ResponderStarted => ResponderStarted'
<1> USE DEF keys
<1>1. Stage(I)' = Stage(I) /\ Stage(R)' = Stage(R)
      BY DEF Stage
<1>2. \A e \in Endpoint : Stage(e)' = Stage(e)
      BY <1>1, EndpointFacts
<1>3. \A e \in Endpoint : Expecting(e)' = Expecting(e)
      BY <1>1, EndpointFacts DEF Expecting
<1>4. \A m : Genuine(m)' <=> Genuine(m)
      BY <1>1 DEF Genuine
<1>5. InitiatorFields => InitiatorFields'
      BY <1>1 DEF InitiatorFields
<1>6. ResponderFields => ResponderFields'
      BY <1>1 DEF ResponderFields
<1> QED  BY <1>2, <1>3, <1>4, <1>5, <1>6 DEF ResponderStarted

(* What each kind of packet in flight is, and what it says of its sender.  *)
LEMMA GenuineKinds ==
    ASSUME HandshakeInvariant, NEW m, Genuine(m)
    PROVE  /\ m.chain = R =>
                \/ TypeOf(m) = "Hello"    /\ m = Hello(R)
                \/ TypeOf(m) = "HelloAck" /\ m = HelloAck /\ Stage(R) >= 1
                \/ TypeOf(m) = "DHPart1"  /\ m = localDH[R] /\ Stage(R) >= 2
                \/ TypeOf(m) = "Confirm1" /\ m = Confirm1(masterSecret[R]) /\ Stage(R) >= 3
                \/ TypeOf(m) = "Conf2Ack" /\ m \in {ConfAck, Audio} /\ Stage(R) >= 4
           /\ m.chain = I =>
                \/ TypeOf(m) = "Hello"    /\ m = Hello(I) /\ Stage(I) >= 1
                \/ TypeOf(m) = "Commit"   /\ m = commit[I] /\ Stage(I) >= 2
                \/ TypeOf(m) = "DHPart2"  /\ m = localDH[I] /\ Stage(I) >= 3
                \/ TypeOf(m) = "Confirm2" /\ m = Confirm2(masterSecret[I]) /\ Stage(I) >= 4
           /\ m.chain \notin Endpoint => TypeOf(m) = "Conf2Ack" /\ m = Reply /\ Reply \in Strays
<1> USE DEF TypeOf, IsHandshake
<1>1. CASE m = Hello(R)
      BY <1>1, EndpointFacts DEF Hello
<1>2. CASE m = Hello(I) /\ Stage(I) >= 1
      BY <1>2, EndpointFacts DEF Hello
<1>3. CASE m = HelloAck /\ Stage(R) >= 1
      BY <1>3, EndpointFacts DEF HelloAck
<1>4. CASE m = commit[I] /\ Stage(I) >= 2
  <2>1. commit[I].type = "Commit" /\ commit[I].chain = I
        BY <1>4 DEF HandshakeInvariant, InitiatorFields, Commit
  <2>   QED  BY <1>4, <2>1, EndpointFacts
<1>5. CASE m = localDH[R] /\ Stage(R) >= 2
  <2>1. localDH[R].type = "DHPart1" /\ localDH[R].chain = R
        BY <1>5 DEF HandshakeInvariant, ResponderFields, DHPart1
  <2>   QED  BY <1>5, <2>1, EndpointFacts
<1>6. CASE m = localDH[I] /\ Stage(I) >= 3
  <2>1. localDH[I].type = "DHPart2" /\ localDH[I].chain = I
        BY <1>6, StageRange, EndpointFacts DEF HandshakeInvariant, InitiatorFields, DHPart2
  <2>   QED  BY <1>6, <2>1, EndpointFacts
<1>7. CASE m = Confirm1(masterSecret[R]) /\ Stage(R) >= 3
      BY <1>7, EndpointFacts DEF Confirm1
<1>8. CASE m = Confirm2(masterSecret[I]) /\ Stage(I) >= 4
      BY <1>8, EndpointFacts DEF Confirm2
<1>9. CASE m \in {ConfAck, Audio} /\ Stage(R) >= 4
      BY <1>9, EndpointFacts DEF ConfAck, Audio
<1>10. CASE m = Reply /\ Reply \in Strays
      BY <1>10, EndpointFacts DEF Reply, Endpoint, I, R
<1> QED  BY <1>1, <1>2, <1>3, <1>4, <1>5, <1>6, <1>7, <1>8, <1>9, <1>10 DEF Genuine

(* What a handler holds in its hands: the packet the peer sent when it had *)
(* come just as far.                                                       *)
LEMMA HandledByInitiator ==
    ASSUME TypeOK, HandshakeInvariant, NEW type, Handling(I, type)
    PROVE  /\ pending[I] # None
           /\ type = "Hello"    => Stage(I) = 0 /\ pending[I] = Hello(R)
           /\ type = "HelloAck" => Stage(I) = 1 /\ Stage(R) >= 1
           /\ type = "DHPart1"  => Stage(I) = 2 /\ Stage(R) >= 2 /\ pending[I] = localDH[R]
           /\ type = "Confirm1" => /\ Stage(I) = 3 /\ Stage(R) >= 3
                                   /\ pending[I] = Confirm1(masterSecret[R])
           /\ type = "Conf2Ack" => Stage(I) = 4 /\ (Stage(R) = 4 \/ Reply \in Strays)
<1>1. /\ pending[I] # None
      /\ TypeOf(pending[I]) = type
      /\ type = Awaits(Expecting(I))
      BY EndpointFacts DEF Handling, HandshakeInvariant, ThreadsInStep
<1>2. Genuine(pending[I]) /\ pending[I].chain # I
      BY <1>1, EndpointFacts DEF HandshakeInvariant, PacketsGenuine
<1>3. /\ Stage(I) = 0 => type = "Hello"
      /\ Stage(I) = 1 => type = "HelloAck"
      /\ Stage(I) = 2 => type = "DHPart1"
      /\ Stage(I) = 3 => type = "Confirm1"
      /\ Stage(I) = 4 => type = "Conf2Ack"
      BY <1>1 DEF Expecting, Awaits
<1>4. /\ Stage(I) \in {0, 1, 2, 3, 4} /\ Stage(R) \in {0, 1, 2, 3, 4}
      BY StageRange, EndpointFacts
<1>5. \/ type = "Hello"    /\ pending[I] = Hello(R)
      \/ type = "HelloAck" /\ Stage(R) >= 1
      \/ type = "DHPart1"  /\ pending[I] = localDH[R] /\ Stage(R) >= 2
      \/ type = "Confirm1" /\ pending[I] = Confirm1(masterSecret[R]) /\ Stage(R) >= 3
      \/ type = "Conf2Ack" /\ (Stage(R) >= 4 \/ Reply \in Strays)
      BY <1>1, <1>2, GenuineKinds, EndpointFacts
<1> QED  BY <1>1, <1>3, <1>4, <1>5

LEMMA HandledByResponder ==
    ASSUME TypeOK, HandshakeInvariant, NEW type, Handling(R, type)
    PROVE  /\ pending[R] # None
           /\ type = "Hello"    => /\ Stage(R) = 0 /\ Stage(I) >= 1
                                   /\ pending[R] = Hello(I)
           /\ type = "Commit"   => Stage(R) = 1 /\ Stage(I) >= 2 /\ pending[R] = commit[I]
           /\ type = "DHPart2"  => Stage(R) = 2 /\ Stage(I) >= 3 /\ pending[R] = localDH[I]
           /\ type = "Confirm2" => /\ Stage(R) = 3 /\ Stage(I) = 4
                                   /\ pending[R] = Confirm2(masterSecret[I])
<1>1. /\ pending[R] # None
      /\ TypeOf(pending[R]) = type
      /\ type = Awaits(Expecting(R))
      BY EndpointFacts DEF Handling, HandshakeInvariant, ThreadsInStep
<1>2. Genuine(pending[R]) /\ pending[R].chain # R
      BY <1>1, EndpointFacts DEF HandshakeInvariant, PacketsGenuine
<1>3. /\ Stage(R) = 0 => type = "Hello"
      /\ Stage(R) = 1 => type = "Commit"
      /\ Stage(R) = 2 => type = "DHPart2"
      /\ Stage(R) = 3 => type = "Confirm2"
      /\ Stage(R) = 4 => type = "Nothing"
      BY <1>1, EndpointFacts DEF Expecting, Awaits
<1>4. /\ Stage(I) \in {0, 1, 2, 3, 4} /\ Stage(R) \in {0, 1, 2, 3, 4}
      BY StageRange, EndpointFacts
<1>5. \/ type = "Hello"    /\ pending[R] = Hello(I) /\ Stage(I) >= 1
      \/ type = "Commit"   /\ pending[R] = commit[I] /\ Stage(I) >= 2
      \/ type = "DHPart2"  /\ pending[R] = localDH[I] /\ Stage(I) >= 3
      \/ type = "Confirm2" /\ pending[R] = Confirm2(masterSecret[I]) /\ Stage(I) >= 4
      \/ type = "Conf2Ack"
      BY <1>1, <1>2, GenuineKinds, EndpointFacts
<1> QED  BY <1>1, <1>3, <1>4, <1>5

-----------------------------------------------------------------------------
(* The steps that send nothing new.                                        *)

LEMMA FrozenInvariant ==
    ASSUME HandshakeInvariant, UNCHANGED <<keys, lastPacket>>,
           \A m \in net' : Genuine(m),
           \A e \in Endpoint : \/ pending'[e] = pending[e]
                               \/ Genuine(pending'[e]) /\ pending'[e].chain # e,
           \A e \in Endpoint : row'[e] = row[e] \/ Stage(e) = 4,
           ThreadsInStep'
    PROVE  HandshakeInvariant'
<1>1. PacketsGenuine'
      BY Frozen DEF HandshakeInvariant, PacketsGenuine
<1>2. RowsUntouched'
  <2> SUFFICES ASSUME NEW e \in Endpoint, Stage(e)' < 4
               PROVE  row'[e].one \in Slot /\ row'[e].two \in Slot
      BY DEF RowsUntouched, Slot
  <2> QED  BY Frozen DEF HandshakeInvariant, RowsUntouched, Slot
<1> QED  BY <1>1, <1>2, Frozen DEF HandshakeInvariant

LEMMA ReceiveKeeps ==
    ASSUME TypeOK, HandshakeInvariant, NEW e \in Endpoint, NEW m \in net, Receive(e, m)
    PROVE  HandshakeInvariant'
<1>1. /\ UNCHANGED <<keys, lastPacket>> /\ row' = row /\ state' = state
      /\ retransmitCount' = retransmitCount /\ socket' = socket
      BY DEF Receive, sending
<1>2. /\ pending' = [pending EXCEPT ![e] = m] /\ pc' = [pc EXCEPT ![e] = "handle"]
      /\ net' \subseteq net
      /\ m.chain # e /\ InLoop(e) /\ TypeOf(m) = Awaits(state[e])
      BY DEF Receive, Goto, Delivered, Dispatches
<1>3. Genuine(m)
      BY DEF HandshakeInvariant, PacketsGenuine
<1>4. m # None
      BY NoneIsNoPacket DEF TypeOK
<1>5. state[e] = Expecting(e)
  <2>1. state[e] # "TERMINATED" /\ state[e] # "HANDSHAKE_COMPLETE"
        BY <1>2 DEF InLoop
  <2>   QED  BY <2>1 DEF HandshakeInvariant, ThreadsInStep
<1>6. ThreadsInStep'
      BY <1>1, <1>2, <1>4, <1>5, Frozen, EndpointFacts
      DEF HandshakeInvariant, ThreadsInStep, TypeOK, Final, InLoop
<1> QED  BY <1>1, <1>2, <1>3, <1>6, FrozenInvariant DEF TypeOK, HandshakeInvariant, PacketsGenuine

LEMMA IgnoreKeeps ==
    ASSUME TypeOK, HandshakeInvariant, NEW e \in Endpoint, NEW m \in net, Ignore(e, m)
    PROVE  HandshakeInvariant'
<1>1. /\ UNCHANGED <<keys, lastPacket>> /\ row' = row /\ state' = state
      /\ retransmitCount' = retransmitCount /\ pc' = pc /\ pending' = pending
      /\ socket' = socket /\ net' \subseteq net
      BY DEF Ignore, Delivered, sending
<1>2. ThreadsInStep'
  <2>1. \A f \in Endpoint : Stage(f)' = Stage(f) /\ Expecting(f)' = Expecting(f)
        BY <1>1, Frozen
  <2>   QED  BY <1>1, <2>1, EndpointFacts DEF HandshakeInvariant, ThreadsInStep
<1> QED  BY <1>1, <1>2, FrozenInvariant DEF HandshakeInvariant, PacketsGenuine

LEMMA TimeoutKeeps ==
    ASSUME TypeOK, HandshakeInvariant, NEW e \in Endpoint, Timeout(e)
    PROVE  HandshakeInvariant'
<1>1. /\ UNCHANGED <<keys, lastPacket, row, state, pending, socket>>
      /\ retransmitCount' = [retransmitCount EXCEPT ![e] = retransmitCount[e] + 1]
      /\ InLoop(e)
      BY DEF Timeout
<1>2. \A m \in net' : Genuine(m)
      BY DEF Timeout, Sent, HandshakeInvariant, PacketsGenuine
<1>3. \/ /\ retransmitCount[e] > MaxRetransmit
         /\ \/ pc' = [pc EXCEPT ![e] = "unavailable"]
            \/ pc' = [pc EXCEPT ![e] = "failed"]
      \/ retransmitCount[e] <= MaxRetransmit /\ pc' = pc
      BY BoundAssumption DEF Timeout, Goto, TypeOK
<1>4. ThreadsInStep'
      BY <1>1, <1>3, Frozen, EndpointFacts, BoundAssumption
      DEF HandshakeInvariant, ThreadsInStep, TypeOK, Final
<1> QED  BY <1>1, <1>2, <1>4, FrozenInvariant

(* The steps that only move a thread, close a socket or drop a datagram.   *)
LEMMA AroundKeeps ==
    ASSUME TypeOK, HandshakeInvariant, NEW e \in Endpoint,
           \/ ReceiveFails(e) \/ EnterFinish(e) \/ Connect(e) \/ Terminate(e)
           \/ CloseSocket(e) \/ Crash(e)
    PROVE  HandshakeInvariant'
<1>1. UNCHANGED <<keys, sending, row, pending, net>>
      BY DEF ReceiveFails, EnterFinish, Connect, Terminate, CloseSocket, Crash
<1>2. ThreadsInStep'
  <2>1. CASE ReceiveFails(e)
        BY <1>1, <2>1, Frozen, EndpointFacts DEF ReceiveFails, Goto, HandshakeInvariant,
           ThreadsInStep, TypeOK, Final, InLoop, sending
  <2>2. CASE EnterFinish(e)
        BY <1>1, <2>2, Frozen, EndpointFacts DEF EnterFinish, Goto, HandshakeInvariant,
           ThreadsInStep, TypeOK, Final, sending
  <2>3. CASE Connect(e)
        BY <1>1, <2>3, Frozen, EndpointFacts, CompleteIsLast DEF Connect, Goto, HandshakeInvariant,
           ThreadsInStep, TypeOK, Final, sending
  <2>4. CASE Terminate(e)
        BY <1>1, <2>4, Frozen, EndpointFacts DEF Terminate, setState, HandshakeInvariant,
           ThreadsInStep, TypeOK, Final, sending
  <2>5. CASE CloseSocket(e)
        BY <1>1, <2>5, Frozen, EndpointFacts DEF CloseSocket, HandshakeInvariant,
           ThreadsInStep, TypeOK, Final, sending
  <2>6. CASE Crash(e)
        BY <1>1, <2>6, Frozen, EndpointFacts DEF Crash, Goto, HandshakeInvariant,
           ThreadsInStep, TypeOK, Final, sending
  <2>   QED  BY <2>1, <2>2, <2>3, <2>4, <2>5, <2>6
<1> QED  BY <1>1, <1>2, FrozenInvariant DEF HandshakeInvariant, PacketsGenuine, sending

LEMMA NetworkKeeps ==
    ASSUME TypeOK, HandshakeInvariant, SendAudio \/ Lose
    PROVE  HandshakeInvariant'
<1>1. /\ UNCHANGED <<keys, lastPacket>> /\ row' = row /\ state' = state
      /\ retransmitCount' = retransmitCount /\ pc' = pc /\ pending' = pending
      /\ socket' = socket
      BY DEF SendAudio, Lose, sending
<1>2. \A f \in Endpoint : Stage(f)' = Stage(f) /\ Expecting(f)' = Expecting(f)
      BY <1>1, Frozen
<1>3. ThreadsInStep'
      BY <1>1, <1>2, EndpointFacts DEF HandshakeInvariant, ThreadsInStep
<1>4. \A m \in net' : Genuine(m)
  <2>1. CASE SendAudio
    <3>1. Stage(R) = 4
          BY <2>1 DEF SendAudio, HandshakeInvariant, ThreadsInStep
    <3>2. Genuine(Audio)
          BY <3>1 DEF Genuine
    <3>   QED  BY <2>1, <3>2 DEF SendAudio, HandshakeInvariant, PacketsGenuine
  <2>2. CASE Lose
        BY <2>2 DEF Lose, HandshakeInvariant, PacketsGenuine
  <2>   QED  BY <2>1, <2>2
<1> QED  BY <1>1, <1>3, <1>4, FrozenInvariant

(* The two steps that store the new secret.                                *)
LEMMA InitiatorConfirmAckKeeps ==
    ASSUME TypeOK, HandshakeInvariant, InitiatorConfirmAck
    PROVE  HandshakeInvariant'
<1>1. /\ UNCHANGED <<keys, lastPacket>> /\ retransmitCount' = retransmitCount
      /\ pending' = pending /\ net' = net /\ socket' = socket
      /\ state' = [state EXCEPT ![I] = "HANDSHAKE_COMPLETE"]
      /\ pc' = [pc EXCEPT ![I] = "finish"]
      /\ \A e \in Endpoint : e # I => row'[e] = row[e]
      BY DEF InitiatorConfirmAck, setState, Goto, sending, TypeOK
<1>2. Stage(I) = 4 /\ pc[I] = "handle" /\ (Stage(R) = 4 \/ Reply \in Strays)
      BY HandledByInitiator DEF InitiatorConfirmAck, Handling
<1>3. \A f \in Endpoint : Stage(f)' = Stage(f) /\ Expecting(f)' = Expecting(f)
      BY <1>1, Frozen
<1>4. ThreadsInStep'
      BY <1>1, <1>2, <1>3, EndpointFacts DEF HandshakeInvariant, ThreadsInStep, TypeOK, Final
<1> QED  BY <1>1, <1>2, <1>4, FrozenInvariant DEF HandshakeInvariant, PacketsGenuine

LEMMA ResponderStoreKeeps ==
    ASSUME TypeOK, HandshakeInvariant, ResponderStore
    PROVE  HandshakeInvariant'
<1>1. /\ UNCHANGED <<keys, lastPacket>> /\ retransmitCount' = retransmitCount
      /\ pending' = pending /\ net' = net /\ socket' = socket /\ state' = state
      /\ pc' = [pc EXCEPT ![R] = "finish"]
      /\ \A e \in Endpoint : e # R => row'[e] = row[e]
      BY DEF ResponderStore, Goto, sending, TypeOK
<1>2. Stage(R) = 4 /\ pc[R] = "store"
      BY DEF ResponderStore, HandshakeInvariant, ThreadsInStep
<1>3. \A f \in Endpoint : Stage(f)' = Stage(f) /\ Expecting(f)' = Expecting(f)
      BY <1>1, Frozen
<1>4. ThreadsInStep'
      BY <1>1, <1>2, <1>3, EndpointFacts DEF HandshakeInvariant, ThreadsInStep, TypeOK, Final
<1> QED  BY <1>1, <1>2, <1>4, FrozenInvariant DEF HandshakeInvariant, PacketsGenuine

-----------------------------------------------------------------------------
(* The steps that answer a packet.  The sender's stage grows by one; what  *)
(* was genuine stays so.                                                   *)

(* The parts of the invariant that a sender's step leaves to show.         *)
LEMMA SentInvariant ==
    ASSUME HandshakeInvariant, NEW e \in Endpoint,
           \A f \in Endpoint : f # e => lastPacket'[f] = lastPacket[f],
           pending' = pending, row' = row,
           net' \subseteq net \cup {lastPacket'[e]},
           \A m : Genuine(m) => Genuine(m)',
           (Genuine(lastPacket[e]) /\ lastPacket[e].chain = e /\ lastPacket[e] # None
              /\ lastPacket[e] # Audio)',
           \A f \in Endpoint : Stage(f) = 4 => Stage(f)' = 4,
           ThreadsInStep', InitiatorFields', ResponderFields'
    PROVE  HandshakeInvariant'
<1>1. PacketsGenuine'
  <2>1. \A m \in net' : Genuine(m)'
        BY DEF HandshakeInvariant, PacketsGenuine
  <2>2. \A f \in Endpoint : (lastPacket[f] # None =>
            Genuine(lastPacket[f]) /\ lastPacket[f].chain = f)'
        BY DEF HandshakeInvariant, PacketsGenuine
  <2>3. \A f \in Endpoint : (pending[f] # None =>
            Genuine(pending[f]) /\ pending[f].chain # f)'
        BY DEF HandshakeInvariant, PacketsGenuine
  <2>   QED  BY <2>1, <2>2, <2>3 DEF PacketsGenuine
<1>2. ResponderStarted'
      BY EndpointFacts DEF HandshakeInvariant, ResponderStarted
<1>3. RowsUntouched'
  <2>1. \A f \in Endpoint : Stage(f)' < 4 => Stage(f) < 4
        BY StageRange
  <2>   QED  BY <2>1 DEF HandshakeInvariant, RowsUntouched, Slot
<1> QED  BY <1>1, <1>2, <1>3 DEF HandshakeInvariant

LEMMA InitiatorHelloKeeps ==
    ASSUME TypeOK, HandshakeInvariant, InitiatorHello
    PROVE  HandshakeInvariant'
<1>1. Stage(I) = 0 /\ pending[I] = Hello(R) /\ pc[I] = "handle"
      BY HandledByInitiator DEF InitiatorHello, Handling
<1>2. /\ foreignHello' = [foreignHello EXCEPT ![I] = pending[I]]
      /\ state' = [state EXCEPT ![I] = "EXPECTING_HELLO_ACK"]
      /\ pc' = [pc EXCEPT ![I] = "start"]
      /\ lastPacket' = [lastPacket EXCEPT ![I] = Hello(I)]
      /\ retransmitCount' = [retransmitCount EXCEPT ![I] = 0]
      /\ net' \subseteq net \cup {Hello(I)}
      /\ UNCHANGED <<pending, socket, retained, commit, localDH, foreignDH, masterSecret, row>>
      BY DEF InitiatorHello, setState, Goto, SendFresh, Sent
<1>3. Hello(I) # None /\ Hello(I).chain = I /\ Hello(I).type = "Hello" /\ Hello(I) # Audio
      BY HelloTyped, PacketsTyped, NoneIsNoPacket, EndpointFacts DEF Hello, Audio
<1>4. lastPacket'[I] = Hello(I) /\ lastPacket'[R] = lastPacket[R]
      /\ foreignHello'[I] = Hello(R) /\ foreignHello'[R] = foreignHello[R]
      BY <1>1, <1>2, EndpointFacts DEF TypeOK
<1>5. Stage(I)' = 1 /\ Stage(R)' = Stage(R)
      BY <1>3, <1>4, EndpointFacts DEF Stage
<1>6. InitiatorFields'
      BY <1>1, <1>2, <1>4, <1>5 DEF HandshakeInvariant, InitiatorFields
<1>7. ResponderFields'
      BY <1>1, <1>2, <1>4, <1>5 DEF HandshakeInvariant, ResponderFields
<1>8. \A m : Genuine(m) => Genuine(m)'
      BY <1>1, <1>2, <1>5 DEF Genuine
<1>9. (Genuine(lastPacket[I]) /\ lastPacket[I].chain = I /\ lastPacket[I] # None
         /\ lastPacket[I] # Audio)'
      BY <1>3, <1>4, <1>5 DEF Genuine
<1>10. ThreadsInStep'
  <2>1. Expecting(I)' = "EXPECTING_HELLO_ACK" /\ Expecting(R)' = Expecting(R)
        BY <1>5, EndpointFacts DEF Expecting
  <2>   QED  BY <1>1, <1>2, <1>5, <2>1, EndpointFacts, BoundAssumption
             DEF HandshakeInvariant, ThreadsInStep, TypeOK
<1>11. \A f \in Endpoint : Stage(f) = 4 => Stage(f)' = 4
      BY <1>1, <1>5, EndpointFacts
<1>12. /\ pending' = pending /\ row' = row /\ I \in Endpoint
       /\ \A f \in Endpoint : f # I => lastPacket'[f] = lastPacket[f]
       /\ net' \subseteq net \cup {lastPacket'[I]}
      BY <1>2, <1>4, EndpointFacts
<1> QED  BY <1>6, <1>7, <1>8, <1>9, <1>10, <1>11, <1>12, SentInvariant

LEMMA InitiatorHelloAckKeeps ==
    ASSUME TypeOK, HandshakeInvariant, InitiatorHelloAck
    PROVE  HandshakeInvariant'
<1> DEFINE secrets == getRetainedSecrets(row[I])
           dh      == DHPart2(KeyAgreement(foreignHello[I]), secrets)
           packet  == Commit(foreignHello[I], dh)
<1>1. Stage(I) = 1 /\ Stage(R) >= 1 /\ pc[I] = "handle" /\ foreignHello[I] = Hello(R)
      BY HandledByInitiator DEF InitiatorHelloAck, Handling, HandshakeInvariant, InitiatorFields
<1>2. /\ retained' = [retained EXCEPT ![I] = secrets]
      /\ localDH' = [localDH EXCEPT ![I] = dh]
      /\ commit' = [commit EXCEPT ![I] = packet]
      /\ state' = [state EXCEPT ![I] = "EXPECTING_DH_1"]
      /\ pc' = [pc EXCEPT ![I] = "finish"]
      /\ lastPacket' = [lastPacket EXCEPT ![I] = packet]
      /\ retransmitCount' = [retransmitCount EXCEPT ![I] = 0]
      /\ net' \subseteq net \cup {packet}
      /\ UNCHANGED <<pending, socket, foreignHello, foreignDH, masterSecret, row>>
      BY DEF InitiatorHelloAck, setState, Goto, SendFresh, Sent
<1>3. packet # None /\ packet.chain = I /\ packet.type = "Commit" /\ packet # Audio
  <2>1. secrets \in [one : Slot, two : Slot]
        BY <1>1, EndpointFacts DEF getRetainedSecrets, NoneRetained, HandshakeInvariant, RowsUntouched, Slot
  <2>2. packet \in Packet
        BY <1>1, <2>1, DHTyped, CommitTyped, HelloTyped, KeyAgreementTyped, PacketsTyped, EndpointFacts
  <2>   QED  BY <2>2, NoneIsNoPacket, EndpointFacts DEF Commit, Audio
<1>4. /\ lastPacket'[I] = packet /\ lastPacket'[R] = lastPacket[R]
      /\ commit'[I] = packet /\ commit'[R] = commit[R]
      /\ localDH'[I] = dh /\ localDH'[R] = localDH[R]
      /\ retained'[I] = secrets /\ retained'[R] = retained[R]
      BY <1>2, EndpointFacts DEF TypeOK
<1>5. Stage(I)' = 2 /\ Stage(R)' = Stage(R) /\ Stage(R) < 2
  <2>1. Stage(R) < 2
        BY <1>1, StageRange, EndpointFacts DEF HandshakeInvariant, ResponderFields
  <2>   QED  BY <1>3, <1>4, <2>1, EndpointFacts DEF Stage
<1>6. InitiatorFields'
      BY <1>1, <1>2, <1>4, <1>5 DEF HandshakeInvariant, InitiatorFields
<1>7. ResponderFields'
      BY <1>1, <1>2, <1>4, <1>5 DEF HandshakeInvariant, ResponderFields
<1>8. \A m : Genuine(m) => Genuine(m)'
      BY <1>1, <1>2, <1>4, <1>5 DEF Genuine
<1>9. (Genuine(lastPacket[I]) /\ lastPacket[I].chain = I /\ lastPacket[I] # None
         /\ lastPacket[I] # Audio)'
      BY <1>3, <1>4, <1>5 DEF Genuine
<1>10. ThreadsInStep'
  <2>1. Expecting(I)' = "EXPECTING_DH_1" /\ Expecting(R)' = Expecting(R)
        BY <1>5, EndpointFacts DEF Expecting
  <2>   QED  BY <1>1, <1>2, <1>5, <2>1, EndpointFacts, BoundAssumption
             DEF HandshakeInvariant, ThreadsInStep, TypeOK
<1>11. \A f \in Endpoint : Stage(f) = 4 => Stage(f)' = 4
      BY <1>1, <1>5, EndpointFacts
<1>12. /\ pending' = pending /\ row' = row /\ I \in Endpoint
       /\ \A f \in Endpoint : f # I => lastPacket'[f] = lastPacket[f]
       /\ net' \subseteq net \cup {lastPacket'[I]}
      BY <1>2, <1>4, EndpointFacts
<1> QED  BY <1>6, <1>7, <1>8, <1>9, <1>10, <1>11, <1>12, SentInvariant

(* An endpoint that has derived a key has a key of the right type.         *)
LEMMA InitiatorKeyTyped ==
    ASSUME TypeOK, HandshakeInvariant, Stage(I) >= 3
    PROVE  masterSecret[I] \in MasterSet
<1>1. /\ localDH[R] = DHPart1(commit[I].ka, retained[R])
      /\ localDH[I] = DHPart2(KeyAgreement(Hello(R)), retained[I])
      /\ commit[I] = Commit(Hello(R), localDH[I])
      /\ masterSecret[I] = Master(KeyAgreement(Hello(R)), Hello(R), commit[I], localDH[R],
                                  localDH[I], InitiatorS1(retained[I], localDH[R].ids))
      BY StageRange, EndpointFacts DEF HandshakeInvariant, InitiatorFields, ResponderFields
<1>2. localDH[I] \in DHSet
      BY <1>1, DHTyped, KeyAgreementTyped, EndpointFacts DEF TypeOK
<1>3. commit[I] \in CommitSet /\ commit[I].ka \in KA
      BY <1>1, <1>2, CommitTyped, HelloTyped, EndpointFacts DEF CommitSet
<1>4. localDH[R] \in DHSet
      BY <1>1, <1>3, DHTyped, EndpointFacts DEF TypeOK
<1>5. InitiatorS1(retained[I], localDH[R].ids) \in Slot
      BY S1Typed, EndpointFacts DEF TypeOK
<1> QED  BY <1>1, <1>2, <1>3, <1>4, <1>5, MasterTyped, HelloTyped, KeyAgreementTyped, EndpointFacts

(* Once both have derived a key it is the same one: the two sides' s1 come *)
(* from S1Agreement, everything else from the packets both have seen.      *)
LEMMA KeysAgreeNow ==
    ASSUME TypeOK, HandshakeInvariant, Stage(I) >= 3, Stage(R) >= 3
    PROVE  masterSecret[I] = masterSecret[R] /\ masterSecret[I] \in MasterSet
<1>1. /\ localDH[R] = DHPart1(commit[I].ka, retained[R])
      /\ localDH[I] = DHPart2(KeyAgreement(Hello(R)), retained[I])
      /\ commit[I] = Commit(Hello(R), localDH[I])
      BY DEF HandshakeInvariant, InitiatorFields, ResponderFields
<1>2. commit[I].ka = KeyAgreement(Hello(R))
      BY <1>1 DEF Commit, DHPart2
<1>3. /\ localDH[R].ids = SentIDs("Responder", retained[R])
      /\ localDH[I].ids = SentIDs("Initiator", retained[I])
      BY <1>1 DEF DHPart1, DHPart2, I, R
<1>4. InitiatorS1(retained[I], localDH[R].ids) = ResponderS1(retained[R], localDH[I].ids)
      BY <1>3, S1Agreement
<1>5. /\ masterSecret[I] = Master(KeyAgreement(Hello(R)), Hello(R), commit[I], localDH[R],
                                  localDH[I], InitiatorS1(retained[I], localDH[R].ids))
      /\ masterSecret[R] = Master(commit[I].ka, Hello(R), commit[I], localDH[R], localDH[I],
                                  ResponderS1(retained[R], localDH[I].ids))
      BY DEF HandshakeInvariant, InitiatorFields, ResponderFields
<1>6. masterSecret[I] \in MasterSet
      BY InitiatorKeyTyped
<1> QED  BY <1>2, <1>4, <1>5, <1>6

LEMMA InitiatorDHKeeps ==
    ASSUME TypeOK, HandshakeInvariant, InitiatorDH
    PROVE  HandshakeInvariant'
<1> DEFINE dh  == pending[I]
           key == Master(KeyAgreement(foreignHello[I]), foreignHello[I], commit[I], dh,
                         localDH[I], InitiatorS1(retained[I], dh.ids))
<1>1. /\ Stage(I) = 2 /\ Stage(R) >= 2 /\ pc[I] = "handle" /\ dh = localDH[R]
      /\ foreignHello[I] = Hello(R)
      /\ localDH[R] = DHPart1(commit[I].ka, retained[R])
      /\ localDH[I] = DHPart2(KeyAgreement(Hello(R)), retained[I])
      BY HandledByInitiator
      DEF InitiatorDH, Handling, HandshakeInvariant, InitiatorFields, ResponderFields
<1>2. /\ foreignDH' = [foreignDH EXCEPT ![I] = dh]
      /\ masterSecret' = [masterSecret EXCEPT ![I] = key]
      /\ state' = [state EXCEPT ![I] = "EXPECTING_CONFIRM_ONE"]
      /\ pc' = [pc EXCEPT ![I] = "finish"]
      /\ lastPacket' = [lastPacket EXCEPT ![I] = localDH[I]]
      /\ retransmitCount' = [retransmitCount EXCEPT ![I] = 0]
      /\ net' \subseteq net \cup {localDH[I]}
      /\ UNCHANGED <<pending, socket, retained, foreignHello, commit, localDH, row>>
  <2>1. foreignHello[I].chain = dh.chain
        BY <1>1 DEF Hello, DHPart1
  <2>   QED  BY <2>1 DEF InitiatorDH, setState, Goto, SendFresh, Sent
<1>3. /\ localDH[I].type = "DHPart2" /\ localDH[I].chain = I
      /\ localDH[I] # None /\ localDH[I] # Audio
  <2>1. localDH[I] \in DHSet
        BY <1>1, DHTyped, KeyAgreementTyped, EndpointFacts DEF TypeOK
  <2>   QED  BY <1>1, <2>1, NoneIsNoPacket, PacketsTyped, EndpointFacts DEF DHPart2, Audio
<1>4. /\ lastPacket'[I] = localDH[I] /\ lastPacket'[R] = lastPacket[R]
      /\ foreignDH'[I] = dh /\ foreignDH'[R] = foreignDH[R]
      /\ masterSecret'[I] = key /\ masterSecret'[R] = masterSecret[R]
      BY <1>2, EndpointFacts DEF TypeOK
<1>5. Stage(I)' = 3 /\ Stage(R)' = Stage(R)
      BY <1>3, <1>4, EndpointFacts DEF Stage
<1>6. InitiatorFields'
      BY <1>1, <1>2, <1>4, <1>5 DEF HandshakeInvariant, InitiatorFields
<1>7. ResponderFields'
      BY <1>1, <1>2, <1>4, <1>5 DEF HandshakeInvariant, ResponderFields
<1>8. \A m : Genuine(m) => Genuine(m)'
      BY <1>1, <1>2, <1>4, <1>5 DEF Genuine
<1>9. (Genuine(lastPacket[I]) /\ lastPacket[I].chain = I /\ lastPacket[I] # None
         /\ lastPacket[I] # Audio)'
      BY <1>1, <1>2, <1>3, <1>4, <1>5 DEF Genuine
<1>10. ThreadsInStep'
  <2>1. Expecting(I)' = "EXPECTING_CONFIRM_ONE" /\ Expecting(R)' = Expecting(R)
        BY <1>5, EndpointFacts DEF Expecting
  <2>   QED  BY <1>1, <1>2, <1>5, <2>1, EndpointFacts, BoundAssumption
             DEF HandshakeInvariant, ThreadsInStep, TypeOK
<1>11. \A f \in Endpoint : Stage(f) = 4 => Stage(f)' = 4
      BY <1>1, <1>5, EndpointFacts
<1>12. /\ pending' = pending /\ row' = row /\ I \in Endpoint
       /\ \A f \in Endpoint : f # I => lastPacket'[f] = lastPacket[f]
       /\ net' \subseteq net \cup {lastPacket'[I]}
      BY <1>2, <1>4, EndpointFacts
<1> QED  BY <1>6, <1>7, <1>8, <1>9, <1>10, <1>11, <1>12, SentInvariant

LEMMA InitiatorConfirmOneKeeps ==
    ASSUME TypeOK, HandshakeInvariant, InitiatorConfirmOne
    PROVE  HandshakeInvariant'
<1>1. /\ Stage(I) = 3 /\ Stage(R) >= 3 /\ pc[I] = "handle"
      /\ pending[I] = Confirm1(masterSecret[R])
      /\ foreignDH[I] = localDH[R] /\ localDH[R].chain = R
      BY HandledByInitiator
      DEF InitiatorConfirmOne, Handling, HandshakeInvariant, InitiatorFields, ResponderFields,
          DHPart1
<1>2. /\ state' = [state EXCEPT ![I] = "EXPECTING_CONFIRM_ACK"]
      /\ pc' = [pc EXCEPT ![I] = "finish"]
      /\ lastPacket' = [lastPacket EXCEPT ![I] = Confirm2(masterSecret[I])]
      /\ retransmitCount' = [retransmitCount EXCEPT ![I] = 0]
      /\ net' \subseteq net \cup {Confirm2(masterSecret[I])}
      /\ UNCHANGED <<pending, socket, keys, row>>
  <2>1. pending[I].key = masterSecret[I] /\ foreignDH[I].chain = pending[I].chain
        BY <1>1, KeysAgreeNow, EndpointFacts DEF Confirm1
  <2>   QED  BY <2>1 DEF InitiatorConfirmOne, setState, Goto, SendFresh, Sent
<1>3. /\ Confirm2(masterSecret[I]).type = "Confirm2" /\ Confirm2(masterSecret[I]).chain = I
      /\ Confirm2(masterSecret[I]) # None /\ Confirm2(masterSecret[I]) # Audio
  <2>1. masterSecret[I] \in MasterSet
        BY <1>1, KeysAgreeNow
  <2>   QED  BY <2>1, ConfirmTyped, NoneIsNoPacket, EndpointFacts DEF Confirm2, Audio
<1>4. /\ lastPacket'[I] = Confirm2(masterSecret[I]) /\ lastPacket'[R] = lastPacket[R]
      /\ UNCHANGED <<retained, foreignHello, commit, localDH, foreignDH, masterSecret>>
      BY <1>2, EndpointFacts DEF TypeOK, keys
<1>5. Stage(I)' = 4 /\ Stage(R)' = Stage(R)
      BY <1>3, <1>4, EndpointFacts DEF Stage
<1>6. InitiatorFields'
      BY <1>1, <1>2, <1>4, <1>5 DEF HandshakeInvariant, InitiatorFields
<1>7. ResponderFields'
      BY <1>1, <1>2, <1>4, <1>5 DEF HandshakeInvariant, ResponderFields
<1>8. \A m : Genuine(m) => Genuine(m)'
      BY <1>1, <1>2, <1>4, <1>5 DEF Genuine
<1>9. (Genuine(lastPacket[I]) /\ lastPacket[I].chain = I /\ lastPacket[I] # None
         /\ lastPacket[I] # Audio)'
      BY <1>1, <1>2, <1>3, <1>4, <1>5 DEF Genuine
<1>10. ThreadsInStep'
  <2>1. Expecting(I)' = "EXPECTING_CONFIRM_ACK" /\ Expecting(R)' = Expecting(R)
        BY <1>5, EndpointFacts DEF Expecting
  <2>   QED  BY <1>1, <1>2, <1>5, <2>1, EndpointFacts, BoundAssumption
             DEF HandshakeInvariant, ThreadsInStep, TypeOK
<1>11. \A f \in Endpoint : Stage(f) = 4 => Stage(f)' = 4
      BY <1>1, <1>5, EndpointFacts
<1>12. /\ pending' = pending /\ row' = row /\ I \in Endpoint
       /\ \A f \in Endpoint : f # I => lastPacket'[f] = lastPacket[f]
       /\ net' \subseteq net \cup {lastPacket'[I]}
      BY <1>2, <1>4, EndpointFacts
<1> QED  BY <1>6, <1>7, <1>8, <1>9, <1>10, <1>11, <1>12, SentInvariant

LEMMA ResponderHelloKeeps ==
    ASSUME TypeOK, HandshakeInvariant, ResponderHello
    PROVE  HandshakeInvariant'
<1>1. Stage(R) = 0 /\ Stage(I) >= 1 /\ pending[R] = Hello(I) /\ pc[R] = "handle"
      BY HandledByResponder DEF ResponderHello, Handling
<1>2. /\ foreignHello' = [foreignHello EXCEPT ![R] = pending[R]]
      /\ state' = [state EXCEPT ![R] = "EXPECTING_COMMIT"]
      /\ pc' = [pc EXCEPT ![R] = "start"]
      /\ lastPacket' = [lastPacket EXCEPT ![R] = HelloAck]
      /\ retransmitCount' = [retransmitCount EXCEPT ![R] = 0]
      /\ net' \subseteq net \cup {HelloAck}
      /\ UNCHANGED <<pending, socket, retained, commit, localDH, foreignDH, masterSecret, row>>
      BY DEF ResponderHello, setState, Goto, SendFresh, Sent
<1>3. HelloAck # None /\ HelloAck.chain = R /\ HelloAck.type = "HelloAck" /\ HelloAck # Audio
      BY PacketsTyped, NoneIsNoPacket DEF HelloAck, Audio
<1>4. lastPacket'[R] = HelloAck /\ lastPacket'[I] = lastPacket[I]
      /\ foreignHello'[R] = Hello(I) /\ foreignHello'[I] = foreignHello[I]
      BY <1>1, <1>2, EndpointFacts DEF TypeOK
<1>5. Stage(R)' = 1 /\ Stage(I)' = Stage(I)
      BY <1>3, <1>4, EndpointFacts DEF Stage
<1>6. InitiatorFields'
      BY <1>1, <1>2, <1>4, <1>5 DEF HandshakeInvariant, InitiatorFields
<1>7. ResponderFields'
      BY <1>1, <1>2, <1>4, <1>5 DEF HandshakeInvariant, ResponderFields
<1>8. \A m : Genuine(m) => Genuine(m)'
      BY <1>1, <1>2, <1>4, <1>5 DEF Genuine
<1>9. (Genuine(lastPacket[R]) /\ lastPacket[R].chain = R /\ lastPacket[R] # None
         /\ lastPacket[R] # Audio)'
      BY <1>1, <1>2, <1>3, <1>4, <1>5 DEF Genuine
<1>10. ThreadsInStep'
  <2>1. Expecting(R)' = "EXPECTING_COMMIT" /\ Expecting(I)' = Expecting(I)
        BY <1>5, EndpointFacts DEF Expecting
  <2>   QED  BY <1>1, <1>2, <1>5, <2>1, EndpointFacts, BoundAssumption
             DEF HandshakeInvariant, ThreadsInStep, TypeOK
<1>11. \A f \in Endpoint : Stage(f) = 4 => Stage(f)' = 4
      BY <1>1, <1>5, EndpointFacts
<1>12. /\ pending' = pending /\ row' = row /\ R \in Endpoint
       /\ \A f \in Endpoint : f # R => lastPacket'[f] = lastPacket[f]
       /\ net' \subseteq net \cup {lastPacket'[R]}
      BY <1>2, <1>4, EndpointFacts
<1> QED  BY <1>6, <1>7, <1>8, <1>9, <1>10, <1>11, <1>12, SentInvariant

LEMMA ResponderCommitKeeps ==
    ASSUME TypeOK, HandshakeInvariant, ResponderCommit
    PROVE  HandshakeInvariant'
<1> DEFINE secrets == getRetainedSecrets(row[R])
           dh      == DHPart1(pending[R].ka, secrets)
<1>1. /\ Stage(R) = 1 /\ Stage(I) = 2 /\ pc[R] = "handle" /\ pending[R] = commit[I]
      /\ foreignHello[R] = Hello(I)
      /\ commit[I] = Commit(Hello(R), localDH[I])
      BY HandledByResponder, StageRange, EndpointFacts
      DEF ResponderCommit, Handling, HandshakeInvariant, InitiatorFields, ResponderFields
<1>2. /\ commit' = [commit EXCEPT ![R] = pending[R]]
      /\ retained' = [retained EXCEPT ![R] = secrets]
      /\ localDH' = [localDH EXCEPT ![R] = dh]
      /\ state' = [state EXCEPT ![R] = "EXPECTING_DH_2"]
      /\ pc' = [pc EXCEPT ![R] = "finish"]
      /\ lastPacket' = [lastPacket EXCEPT ![R] = dh]
      /\ retransmitCount' = [retransmitCount EXCEPT ![R] = 0]
      /\ net' \subseteq net \cup {dh}
      /\ UNCHANGED <<pending, socket, foreignHello, foreignDH, masterSecret, row>>
  <2>1. foreignHello[R].chain = pending[R].chain
        BY <1>1 DEF Hello, Commit
  <2>   QED  BY <2>1 DEF ResponderCommit, setState, Goto, SendFresh, Sent
<1>3. dh # None /\ dh.chain = R /\ dh.type = "DHPart1" /\ dh # Audio
  <2>1. secrets \in [one : Slot, two : Slot]
        BY <1>1, EndpointFacts DEF getRetainedSecrets, NoneRetained, HandshakeInvariant, RowsUntouched, Slot
  <2>2. pending[R].ka \in KA
    <3>1. commit[I].ka = localDH[I].ka /\ localDH[I].ka = KeyAgreement(Hello(R))
          BY <1>1 DEF HandshakeInvariant, InitiatorFields, Commit, DHPart2
    <3>   QED  BY <1>1, <3>1, KeyAgreementTyped
  <2>3. dh \in Packet
        BY <2>1, <2>2, DHTyped, PacketsTyped
  <2>   QED  BY <2>3, NoneIsNoPacket DEF DHPart1, Audio
<1>4. /\ lastPacket'[R] = dh /\ lastPacket'[I] = lastPacket[I]
      /\ commit'[R] = commit[I] /\ commit'[I] = commit[I]
      /\ localDH'[R] = DHPart1(commit[I].ka, secrets) /\ localDH'[I] = localDH[I]
      /\ retained'[R] = secrets /\ retained'[I] = retained[I]
      BY <1>1, <1>2, EndpointFacts DEF TypeOK
<1>5. Stage(R)' = 2 /\ Stage(I)' = Stage(I)
      BY <1>3, <1>4, EndpointFacts DEF Stage
<1>6. InitiatorFields'
      BY <1>1, <1>2, <1>4, <1>5 DEF HandshakeInvariant, InitiatorFields
<1>7. ResponderFields'
      BY <1>1, <1>2, <1>4, <1>5 DEF HandshakeInvariant, ResponderFields
<1>8. \A m : Genuine(m) => Genuine(m)'
      BY <1>1, <1>2, <1>4, <1>5 DEF Genuine
<1>9. (Genuine(lastPacket[R]) /\ lastPacket[R].chain = R /\ lastPacket[R] # None
         /\ lastPacket[R] # Audio)'
      BY <1>1, <1>2, <1>3, <1>4, <1>5 DEF Genuine
<1>10. ThreadsInStep'
  <2>1. Expecting(R)' = "EXPECTING_DH_2" /\ Expecting(I)' = Expecting(I)
        BY <1>5, EndpointFacts DEF Expecting
  <2>   QED  BY <1>1, <1>2, <1>5, <2>1, EndpointFacts, BoundAssumption
             DEF HandshakeInvariant, ThreadsInStep, TypeOK
<1>11. \A f \in Endpoint : Stage(f) = 4 => Stage(f)' = 4
      BY <1>1, <1>5, EndpointFacts
<1>12. /\ pending' = pending /\ row' = row /\ R \in Endpoint
       /\ \A f \in Endpoint : f # R => lastPacket'[f] = lastPacket[f]
       /\ net' \subseteq net \cup {lastPacket'[R]}
      BY <1>2, <1>4, EndpointFacts
<1> QED  BY <1>6, <1>7, <1>8, <1>9, <1>10, <1>11, <1>12, SentInvariant

LEMMA ResponderDHKeeps ==
    ASSUME TypeOK, HandshakeInvariant, ResponderDH
    PROVE  HandshakeInvariant'
<1> DEFINE dh  == pending[R]
           key == Master(commit[R].ka, Hello(R), commit[R], localDH[R], dh,
                         ResponderS1(retained[R], dh.ids))
<1>1. /\ Stage(R) = 2 /\ Stage(I) = 3 /\ pc[R] = "handle" /\ dh = localDH[I]
      /\ commit[R] = commit[I]
      /\ commit[I] = Commit(Hello(R), localDH[I])
      /\ localDH[I] = DHPart2(KeyAgreement(Hello(R)), retained[I])
      /\ localDH[R] = DHPart1(commit[I].ka, retained[R])
      BY HandledByResponder, StageRange, EndpointFacts
      DEF ResponderDH, Handling, HandshakeInvariant, InitiatorFields, ResponderFields
<1>2. /\ foreignDH' = [foreignDH EXCEPT ![R] = dh]
      /\ masterSecret' = [masterSecret EXCEPT ![R] = key]
      /\ state' = [state EXCEPT ![R] = "EXPECTING_CONFIRM_TWO"]
      /\ pc' = [pc EXCEPT ![R] = "finish"]
      /\ lastPacket' = [lastPacket EXCEPT ![R] = Confirm1(key)]
      /\ retransmitCount' = [retransmitCount EXCEPT ![R] = 0]
      /\ net' \subseteq net \cup {Confirm1(key)}
      /\ UNCHANGED <<pending, socket, retained, foreignHello, commit, localDH, row>>
  <2>1. commit[R].chain = dh.chain /\ commit[R].hvi = Hvi(Hello(R), dh)
        BY <1>1 DEF Commit, DHPart2
  <2>   QED  BY <2>1 DEF ResponderDH, setState, Goto, SendFresh, Sent
<1>3. /\ Confirm1(key).type = "Confirm1" /\ Confirm1(key).chain = R
      /\ Confirm1(key) # None /\ Confirm1(key) # Audio
  <2>1. localDH[I] \in DHSet
        BY <1>1, DHTyped, KeyAgreementTyped, EndpointFacts DEF TypeOK
  <2>2. commit[I] \in CommitSet /\ commit[I].ka \in KA
        BY <1>1, <2>1, CommitTyped, HelloTyped, EndpointFacts DEF CommitSet
  <2>3. localDH[R] \in DHSet
        BY <1>1, <2>2, DHTyped, EndpointFacts DEF TypeOK
  <2>4. ResponderS1(retained[R], dh.ids) \in Slot
        BY S1Typed, EndpointFacts DEF TypeOK
  <2>5. key \in MasterSet
        BY <1>1, <2>1, <2>2, <2>3, <2>4, MasterTyped, HelloTyped, EndpointFacts
  <2>   QED  BY <2>5, ConfirmTyped, NoneIsNoPacket DEF Confirm1, Audio
<1>4. /\ lastPacket'[R] = Confirm1(key) /\ lastPacket'[I] = lastPacket[I]
      /\ foreignDH'[R] = dh /\ foreignDH'[I] = foreignDH[I]
      /\ masterSecret'[R] = key /\ masterSecret'[I] = masterSecret[I]
      BY <1>2, EndpointFacts DEF TypeOK
<1>5. Stage(R)' = 3 /\ Stage(I)' = Stage(I)
      BY <1>3, <1>4, EndpointFacts DEF Stage
<1>6. InitiatorFields'
      BY <1>1, <1>2, <1>4, <1>5 DEF HandshakeInvariant, InitiatorFields
<1>7. ResponderFields'
      BY <1>1, <1>2, <1>4, <1>5 DEF HandshakeInvariant, ResponderFields
<1>8. \A m : Genuine(m) => Genuine(m)'
      BY <1>1, <1>2, <1>4, <1>5 DEF Genuine
<1>9. (Genuine(lastPacket[R]) /\ lastPacket[R].chain = R /\ lastPacket[R] # None
         /\ lastPacket[R] # Audio)'
      BY <1>1, <1>2, <1>3, <1>4, <1>5 DEF Genuine
<1>10. ThreadsInStep'
  <2>1. Expecting(R)' = "EXPECTING_CONFIRM_TWO" /\ Expecting(I)' = Expecting(I)
        BY <1>5, EndpointFacts DEF Expecting
  <2>   QED  BY <1>1, <1>2, <1>5, <2>1, EndpointFacts, BoundAssumption
             DEF HandshakeInvariant, ThreadsInStep, TypeOK
<1>11. \A f \in Endpoint : Stage(f) = 4 => Stage(f)' = 4
      BY <1>1, <1>5, EndpointFacts
<1>12. /\ pending' = pending /\ row' = row /\ R \in Endpoint
       /\ \A f \in Endpoint : f # R => lastPacket'[f] = lastPacket[f]
       /\ net' \subseteq net \cup {lastPacket'[R]}
      BY <1>2, <1>4, EndpointFacts
<1> QED  BY <1>6, <1>7, <1>8, <1>9, <1>10, <1>11, <1>12, SentInvariant

LEMMA ResponderConfirmTwoKeeps ==
    ASSUME TypeOK, HandshakeInvariant, ResponderConfirmTwo
    PROVE  HandshakeInvariant'
<1>1. /\ Stage(R) = 3 /\ Stage(I) = 4 /\ pc[R] = "handle"
      /\ pending[R] = Confirm2(masterSecret[I])
      /\ foreignDH[R] = localDH[I] /\ localDH[I].chain = I
      BY HandledByResponder
      DEF ResponderConfirmTwo, Handling, HandshakeInvariant, InitiatorFields, ResponderFields,
          DHPart2
<1>2. /\ state' = [state EXCEPT ![R] = "HANDSHAKE_COMPLETE"]
      /\ pc' = [pc EXCEPT ![R] = "store"]
      /\ lastPacket' = [lastPacket EXCEPT ![R] = ConfAck]
      /\ retransmitCount' = [retransmitCount EXCEPT ![R] = 0]
      /\ net' \subseteq net \cup {ConfAck}
      /\ UNCHANGED <<pending, socket, keys, row>>
  <2>1. pending[R].key = masterSecret[R] /\ foreignDH[R].chain = pending[R].chain
        BY <1>1, KeysAgreeNow, EndpointFacts DEF Confirm2
  <2>   QED  BY <2>1 DEF ResponderConfirmTwo, setState, Goto, SendFresh, Sent
<1>3. ConfAck # None /\ ConfAck.chain = R /\ ConfAck.type = "Conf2Ack" /\ ConfAck # Audio
      BY PacketsTyped, NoneIsNoPacket DEF ConfAck, Audio
<1>4. /\ lastPacket'[R] = ConfAck /\ lastPacket'[I] = lastPacket[I]
      /\ UNCHANGED <<retained, foreignHello, commit, localDH, foreignDH, masterSecret>>
      BY <1>2, EndpointFacts DEF TypeOK, keys
<1>5. Stage(R)' = 4 /\ Stage(I)' = Stage(I)
      BY <1>3, <1>4, EndpointFacts DEF Stage
<1>6. InitiatorFields'
      BY <1>1, <1>2, <1>4, <1>5 DEF HandshakeInvariant, InitiatorFields
<1>7. ResponderFields'
      BY <1>1, <1>2, <1>4, <1>5 DEF HandshakeInvariant, ResponderFields
<1>8. \A m : Genuine(m) => Genuine(m)'
      BY <1>1, <1>2, <1>4, <1>5 DEF Genuine
<1>9. (Genuine(lastPacket[R]) /\ lastPacket[R].chain = R /\ lastPacket[R] # None
         /\ lastPacket[R] # Audio)'
      BY <1>1, <1>2, <1>3, <1>4, <1>5 DEF Genuine
<1>10. ThreadsInStep'
  <2>1. Expecting(R)' = "HANDSHAKE_COMPLETE" /\ Expecting(I)' = Expecting(I)
        BY <1>5, EndpointFacts DEF Expecting
  <2>   QED  BY <1>1, <1>2, <1>5, <2>1, EndpointFacts, BoundAssumption
             DEF HandshakeInvariant, ThreadsInStep, TypeOK
<1>11. \A f \in Endpoint : Stage(f) = 4 => Stage(f)' = 4
      BY <1>1, <1>5, EndpointFacts
<1>12. /\ pending' = pending /\ row' = row /\ R \in Endpoint
       /\ \A f \in Endpoint : f # R => lastPacket'[f] = lastPacket[f]
       /\ net' \subseteq net \cup {lastPacket'[R]}
      BY <1>2, <1>4, EndpointFacts
<1> QED  BY <1>6, <1>7, <1>8, <1>9, <1>10, <1>11, <1>12, SentInvariant

-----------------------------------------------------------------------------
(* The invariant is inductive.                                             *)

LEMMA InitIInv == Init => IInv
<1> SUFFICES ASSUME Init PROVE IInv
    OBVIOUS
<1>1. /\ lastPacket[R] = Hello(R) /\ lastPacket[I] = None
      /\ \A e \in Endpoint : /\ state[e] = "EXPECTING_HELLO" /\ pc[e] = "start"
                             /\ pending[e] = None /\ retransmitCount[e] = 0
                             /\ masterSecret[e] = None
      BY EndpointFacts DEF Init
<1>2. Hello(R) # None /\ Hello(R).type = "Hello" /\ Hello(R).chain = R /\ Hello(R) # Audio
      BY HelloTyped, PacketsTyped, NoneIsNoPacket, EndpointFacts DEF Hello, Audio
<1>3. Stage(I) = 0 /\ Stage(R) = 0
      BY <1>1, <1>2, EndpointFacts DEF Stage
<1>4. TypeOK
  <2>1. \A e \in Endpoint : row[e] \in RowSet
    <3>1. row \in [Endpoint -> [one : Secret \cup {NoSecret}, two : Secret \cup {NoSecret},
                                verified : BOOLEAN, expires : Expiry]]
          BY RowAssumption DEF Init
    <3>2. \A e \in Endpoint : row[e] \in [one : Slot, two : Slot, verified : BOOLEAN,
                                          expires : Expiry]
          BY <3>1 DEF Slot
    <3>   QED  BY <3>2 DEF RowSet
  <2>2. row \in [Endpoint -> RowSet]
        BY <2>1, RowAssumption DEF Init
  <2>3. net \subseteq Packet
        BY HelloTyped, PacketsTyped, StraysAssumption, EndpointFacts DEF Init
  <2>4. /\ state \in [Endpoint -> State] /\ pending \in [Endpoint -> Packet \cup {None}]
        /\ pc \in [Endpoint -> {"start", "handle", "store", "finish"} \cup Final]
        /\ retransmitCount \in [Endpoint -> 0 .. MaxRetransmit + 2]
        /\ socket \in [Endpoint -> {"open", "marked", "closed"}]
        /\ cacheField \in {"offered", "overwritten"} /\ lost \in 0 .. MaxLoss
        BY BoundAssumption DEF Init, State
  <2>5. /\ retained \in [Endpoint -> [one : Slot, two : Slot]]
        /\ foreignHello \in [Endpoint -> HelloSet \cup {None}]
        /\ commit \in [Endpoint -> CommitSet \cup {None}]
        /\ localDH \in [Endpoint -> DHSet \cup {None}]
        /\ foreignDH \in [Endpoint -> DHSet \cup {None}]
        /\ masterSecret \in [Endpoint -> MasterSet \cup {None}]
        BY DEF Init, NoneRetained, Slot
  <2>6. lastPacket \in [Endpoint -> Packet \cup {None}]
        BY HelloTyped, PacketsTyped, EndpointFacts DEF Init
  <2>7. callConnected \subseteq Endpoint /\ sasVerified \in [Endpoint -> BOOLEAN]
        BY DEF Init
  <2>   QED  BY <2>2, <2>3, <2>4, <2>5, <2>6, <2>7 DEF TypeOK
<1>5. PacketsGenuine
  <2>1. \A m \in net : Genuine(m)
        BY StraysAssumption DEF Init, Genuine
  <2>   QED  BY <1>1, <1>2, <2>1, EndpointFacts DEF PacketsGenuine, Genuine
<1>6. ThreadsInStep
  <2>1. Expecting(I) = "EXPECTING_HELLO" /\ Expecting(R) = "EXPECTING_HELLO"
        BY <1>3, EndpointFacts DEF Expecting
  <2>   QED  BY <1>1, <1>3, <2>1, EndpointFacts, BoundAssumption DEF ThreadsInStep
<1>7. RowsUntouched
      BY RowAssumption DEF Init, RowsUntouched, Slot
<1>8. InitiatorFields /\ ResponderFields /\ ResponderStarted
      BY <1>1, <1>2, <1>3, EndpointFacts DEF InitiatorFields, ResponderFields, ResponderStarted
<1> QED  BY <1>4, <1>5, <1>6, <1>7, <1>8 DEF IInv, HandshakeInvariant

(* Storing a secret leaves a row.                                          *)
LEMMA StoredRowTyped ==
    ASSUME NEW old \in RowSet, NEW key \in MasterSet, NEW expires \in Expiry,
           NEW continuity \in BOOLEAN
    PROVE  setRetainedSecret(old, key, expires, continuity) \in RowSet
BY DEF setRetainedSecret, RowSet

LEMMA FetchedTyped ==
    ASSUME HandshakeInvariant, NEW e \in Endpoint, Stage(e) < 4
    PROVE  getRetainedSecrets(row[e]) \in [one : Slot, two : Slot]
BY DEF getRetainedSecrets, NoneRetained, HandshakeInvariant, RowsUntouched, Slot

LEMMA ThreadTypeOK ==
    ASSUME TypeOK, HandshakeInvariant, NEW e \in Endpoint,
           \/ \E m \in net : Receive(e, m) \/ Ignore(e, m)
           \/ Timeout(e) \/ ReceiveFails(e) \/ EnterFinish(e) \/ Connect(e) \/ Terminate(e)
           \/ CloseSocket(e) \/ Crash(e)
    PROVE  TypeOK'
<1> USE DEF TypeOK, Goto, setState, keys, sending, outcome
<1>1. CASE \E m \in net : Receive(e, m) \/ Ignore(e, m)
  <2>1. PICK m \in net : Receive(e, m) \/ Ignore(e, m)
        BY <1>1
  <2>2. net' \subseteq Packet /\ cacheField' \in {"offered", "overwritten"}
        BY <2>1 DEF Receive, Ignore, Delivered, ReceivedInto
  <2>3. /\ pending' \in [Endpoint -> Packet \cup {None}]
        /\ pc' \in [Endpoint -> {"start", "handle", "store", "finish"} \cup Final]
    <3>1. m \in Packet
          OBVIOUS
    <3>2. CASE Receive(e, m)
          BY <3>1, <3>2 DEF Receive
    <3>3. CASE Ignore(e, m)
          BY <3>3 DEF Ignore
    <3>   QED  BY <2>1, <3>2, <3>3
  <2>4. UNCHANGED <<state, sending, socket, keys, row, outcome, lost>>
        BY <2>1 DEF Receive, Ignore
  <2>   QED  BY <2>2, <2>3, <2>4
<1>2. CASE Timeout(e)
  <2>1. retransmitCount[e] <= MaxRetransmit + 1
        BY <1>2 DEF Timeout, InLoop, Final, HandshakeInvariant, ThreadsInStep
  <2>2. net' \subseteq Packet
        BY <1>2 DEF Timeout, Sent
  <2>3. retransmitCount' \in [Endpoint -> 0 .. MaxRetransmit + 2]
        BY <1>2, <2>1, BoundAssumption DEF Timeout
  <2>4. pc' \in [Endpoint -> {"start", "handle", "store", "finish"} \cup Final]
        BY <1>2 DEF Timeout, Final
  <2>   QED  BY <1>2, <2>2, <2>3, <2>4 DEF Timeout
<1>3. CASE ReceiveFails(e)
      BY <1>3 DEF ReceiveFails, Final
<1>4. CASE EnterFinish(e)
      BY <1>4 DEF EnterFinish, Final
<1>5. CASE Connect(e)
  <2>1. row[e].verified \in BOOLEAN
        BY DEF RowSet
  <2>2. /\ pc' \in [Endpoint -> {"start", "handle", "store", "finish"} \cup Final]
        /\ UNCHANGED <<state, pending, sending, socket, keys, cacheField, row, net, lost>>
        BY <1>5 DEF Connect, Final
  <2>3. callConnected' \subseteq Endpoint /\ sasVerified' \in [Endpoint -> BOOLEAN]
    <3>1. \/ UNCHANGED <<callConnected, sasVerified>>
          \/ /\ callConnected' = callConnected \cup {e}
             /\ sasVerified'   = [sasVerified EXCEPT ![e] = row[e].verified]
          BY <1>5 DEF Connect
    <3>   QED  BY <2>1, <3>1
  <2>   QED  BY <2>2, <2>3
<1>6. CASE Terminate(e)
      BY <1>6 DEF Terminate, State
<1>7. CASE CloseSocket(e)
      BY <1>7 DEF CloseSocket
<1>8. CASE Crash(e)
      BY <1>8 DEF Crash, Final
<1> QED  BY <1>1, <1>2, <1>3, <1>4, <1>5, <1>6, <1>7, <1>8

LEMMA NetworkTypeOK ==
    ASSUME TypeOK, SendAudio \/ Lose
    PROVE  TypeOK'
<1> USE DEF TypeOK, keys, sending, outcome
<1>1. CASE SendAudio
      BY <1>1, PacketsTyped DEF SendAudio
<1>2. CASE Lose
      BY <1>2, BoundAssumption DEF Lose
<1> QED  BY <1>1, <1>2

(* A sender's bookkeeping.                                                 *)
LEMMA SentTypeOK ==
    ASSUME TypeOK, NEW e \in Endpoint, NEW p \in Packet, NEW s \in State,
           NEW label \in {"start", "store", "finish"},
           SendFresh(e, p), setState(e, s), Goto(e, label)
    PROVE  /\ (state \in [Endpoint -> State])'
           /\ (pc \in [Endpoint -> {"start", "handle", "store", "finish"} \cup Final])'
           /\ (lastPacket \in [Endpoint -> Packet \cup {None}])'
           /\ (retransmitCount \in [Endpoint -> 0 .. MaxRetransmit + 2])'
           /\ (net \subseteq Packet)'
BY BoundAssumption DEF TypeOK, SendFresh, setState, Goto, Sent

(* Deriving the key.                                                       *)
LEMMA InitiatorDHEffect ==
    ASSUME TypeOK, HandshakeInvariant, InitiatorDH
    PROVE  /\ Stage(I) = 2 /\ masterSecret[I] = None
           /\ \E dh \in DHSet, key \in MasterSet, p \in Packet :
                /\ foreignDH' = [foreignDH EXCEPT ![I] = dh]
                /\ masterSecret' = [masterSecret EXCEPT ![I] = key]
                /\ SendFresh(I, p)
           /\ setState(I, "EXPECTING_CONFIRM_ONE") /\ Goto(I, "finish")
           /\ UNCHANGED <<pending, socket, retained, foreignHello, commit, localDH,
                          cacheField, row, outcome, lost>>
<1> USE EndpointFacts
<1> DEFINE dh  == pending[I]
           key == Master(KeyAgreement(foreignHello[I]), foreignHello[I], commit[I], dh,
                         localDH[I], InitiatorS1(retained[I], dh.ids))
<1>1. /\ Stage(I) = 2 /\ Stage(R) >= 2 /\ dh = localDH[R] /\ foreignHello[I] = Hello(R)
      /\ masterSecret[I] = None
      /\ localDH[R] = DHPart1(commit[I].ka, retained[R])
      /\ localDH[I] = DHPart2(KeyAgreement(Hello(R)), retained[I])
      /\ commit[I] = Commit(Hello(R), localDH[I])
      BY HandledByInitiator
      DEF InitiatorDH, HandshakeInvariant, InitiatorFields, ResponderFields
<1>2. localDH[I] \in DHSet
      BY <1>1, DHTyped, KeyAgreementTyped DEF TypeOK
<1>3. commit[I] \in CommitSet /\ commit[I].ka \in KA
      BY <1>1, <1>2, CommitTyped, HelloTyped DEF CommitSet
<1>4. dh \in DHSet
      BY <1>1, <1>3, DHTyped DEF TypeOK
<1>5. InitiatorS1(retained[I], dh.ids) \in Slot
      BY S1Typed DEF TypeOK
<1>6. key \in MasterSet
      BY <1>1, <1>2, <1>3, <1>4, <1>5, MasterTyped, HelloTyped, KeyAgreementTyped
<1>7. foreignHello[I].chain = dh.chain
      BY <1>1 DEF Hello, DHPart1
<1>8. /\ foreignDH' = [foreignDH EXCEPT ![I] = dh]
      /\ masterSecret' = [masterSecret EXCEPT ![I] = key]
      /\ SendFresh(I, localDH[I])
      /\ setState(I, "EXPECTING_CONFIRM_ONE") /\ Goto(I, "finish")
      /\ UNCHANGED <<pending, socket, retained, foreignHello, commit, localDH,
                     cacheField, row, outcome, lost>>
      BY <1>7 DEF InitiatorDH
<1>9. PICK p \in Packet : p = localDH[I]
      BY <1>2, PacketsTyped
<1>10. SendFresh(I, p)
      BY <1>8, <1>9 DEF SendFresh
<1> QED  BY <1>1, <1>4, <1>6, <1>8, <1>10

LEMMA ResponderDHEffect ==
    ASSUME TypeOK, HandshakeInvariant, ResponderDH
    PROVE  /\ Stage(R) = 2 /\ masterSecret[R] = None
           /\ \E dh \in DHSet, key \in MasterSet :
                /\ foreignDH' = [foreignDH EXCEPT ![R] = dh]
                /\ masterSecret' = [masterSecret EXCEPT ![R] = key]
                /\ SendFresh(R, Confirm1(key))
           /\ setState(R, "EXPECTING_CONFIRM_TWO") /\ Goto(R, "finish")
           /\ UNCHANGED <<pending, socket, retained, foreignHello, commit, localDH,
                          cacheField, row, outcome, lost>>
<1> USE EndpointFacts
<1> DEFINE dh  == pending[R]
           key == Master(commit[R].ka, Hello(R), commit[R], localDH[R], dh,
                         ResponderS1(retained[R], dh.ids))
<1>1. /\ Stage(R) = 2 /\ dh = localDH[I]
      /\ masterSecret[R] = None
      /\ commit[R] = commit[I]
      /\ commit[I] = Commit(Hello(R), localDH[I])
      /\ localDH[I] = DHPart2(KeyAgreement(Hello(R)), retained[I])
      /\ localDH[R] = DHPart1(commit[I].ka, retained[R])
      BY HandledByResponder, StageRange
      DEF ResponderDH, HandshakeInvariant, InitiatorFields, ResponderFields
<1>2. dh \in DHSet
      BY <1>1, DHTyped, KeyAgreementTyped DEF TypeOK
<1>3. commit[R] \in CommitSet /\ commit[R].ka \in KA
      BY <1>1, <1>2, CommitTyped, HelloTyped DEF CommitSet
<1>4. localDH[R] \in DHSet
      BY <1>1, <1>3, DHTyped DEF TypeOK
<1>5. ResponderS1(retained[R], dh.ids) \in Slot
      BY S1Typed DEF TypeOK
<1>6. key \in MasterSet
      BY <1>2, <1>3, <1>4, <1>5, MasterTyped, HelloTyped
<1>7. commit[R].chain = dh.chain /\ commit[R].hvi = Hvi(Hello(R), dh)
      BY <1>1 DEF Commit, DHPart2
<1>8. /\ foreignDH' = [foreignDH EXCEPT ![R] = dh]
      /\ masterSecret' = [masterSecret EXCEPT ![R] = key]
      /\ SendFresh(R, Confirm1(key))
      /\ setState(R, "EXPECTING_CONFIRM_TWO") /\ Goto(R, "finish")
      /\ UNCHANGED <<pending, socket, retained, foreignHello, commit, localDH,
                     cacheField, row, outcome, lost>>
      BY <1>7 DEF ResponderDH
<1> QED  BY <1>1, <1>2, <1>6, <1>8

LEMMA InitiatorTypeOK ==
    ASSUME TypeOK, HandshakeInvariant,
           \/ InitiatorHello \/ InitiatorHelloAck \/ InitiatorDH \/ InitiatorConfirmOne
           \/ InitiatorConfirmAck
    PROVE  TypeOK'
<1> USE EndpointFacts
<1>1. CASE InitiatorHello
  <2>1. pending[I] \in HelloSet
        BY <1>1, HandledByInitiator, HelloTyped DEF InitiatorHello
  <2>2. SendFresh(I, Hello(I)) /\ setState(I, "EXPECTING_HELLO_ACK") /\ Goto(I, "start")
        BY <1>1 DEF InitiatorHello
  <2>3. Hello(I) \in Packet /\ "EXPECTING_HELLO_ACK" \in State
        BY HelloTyped, PacketsTyped DEF State
  <2>   QED  BY <1>1, <2>1, <2>2, <2>3, SentTypeOK DEF InitiatorHello, TypeOK, outcome
<1>2. CASE InitiatorHelloAck
  <2> DEFINE secrets == getRetainedSecrets(row[I])
             dh      == DHPart2(KeyAgreement(foreignHello[I]), secrets)
             packet  == Commit(foreignHello[I], dh)
  <2>1. Stage(I) = 1 /\ foreignHello[I] = Hello(R)
        BY <1>2, HandledByInitiator DEF InitiatorHelloAck, HandshakeInvariant, InitiatorFields
  <2>2. secrets \in [one : Slot, two : Slot]
        BY <2>1, FetchedTyped
  <2>3. dh \in DHSet
        BY <2>2, DHTyped, KeyAgreementTyped
  <2>4. packet \in CommitSet
        BY <2>1, <2>3, CommitTyped, HelloTyped
  <2>5. PICK p \in Packet : p = packet
        BY <2>4, PacketsTyped
  <2>6. SendFresh(I, p) /\ setState(I, "EXPECTING_DH_1") /\ Goto(I, "finish")
        BY <1>2, <2>5 DEF InitiatorHelloAck, SendFresh
  <2>7. "EXPECTING_DH_1" \in State
        BY DEF State
  <2>8. /\ retained' = [retained EXCEPT ![I] = secrets]
        /\ localDH' = [localDH EXCEPT ![I] = dh]
        /\ commit' = [commit EXCEPT ![I] = packet]
        BY <1>2 DEF InitiatorHelloAck
  <2>   QED  BY <1>2, <2>2, <2>3, <2>4, <2>6, <2>7, <2>8, SentTypeOK
             DEF InitiatorHelloAck, TypeOK, outcome
<1>3. CASE InitiatorDH
  <2>1. PICK dh \in DHSet, key \in MasterSet, p \in Packet :
            /\ foreignDH' = [foreignDH EXCEPT ![I] = dh]
            /\ masterSecret' = [masterSecret EXCEPT ![I] = key]
            /\ SendFresh(I, p)
        BY <1>3, InitiatorDHEffect
  <2>2. /\ setState(I, "EXPECTING_CONFIRM_ONE") /\ Goto(I, "finish")
        /\ UNCHANGED <<pending, socket, retained, foreignHello, commit, localDH,
                       cacheField, row, outcome, lost>>
        BY <1>3, InitiatorDHEffect
  <2>3. "EXPECTING_CONFIRM_ONE" \in State
        BY DEF State
  <2>   QED  BY <2>1, <2>2, <2>3, SentTypeOK DEF TypeOK, outcome
<1>4. CASE InitiatorConfirmOne
  <2>1. /\ Stage(I) = 3 /\ Stage(R) >= 3 /\ pending[I] = Confirm1(masterSecret[R])
        /\ foreignDH[I] = localDH[R] /\ localDH[R].chain = R
        BY <1>4, HandledByInitiator
        DEF InitiatorConfirmOne, HandshakeInvariant, InitiatorFields, ResponderFields, DHPart1
  <2>2. masterSecret[I] = masterSecret[R] /\ masterSecret[I] \in MasterSet
        BY <2>1, KeysAgreeNow
  <2>3. pending[I].key = masterSecret[I] /\ foreignDH[I].chain = pending[I].chain
        BY <2>1, <2>2 DEF Confirm1
  <2>4. PICK p \in Packet : p = Confirm2(masterSecret[I])
        BY <2>2, ConfirmTyped
  <2>5. SendFresh(I, p) /\ setState(I, "EXPECTING_CONFIRM_ACK") /\ Goto(I, "finish")
        BY <1>4, <2>3, <2>4 DEF InitiatorConfirmOne, SendFresh
  <2>6. "EXPECTING_CONFIRM_ACK" \in State
        BY DEF State
  <2>7. cacheField' = "offered" /\ UNCHANGED <<pending, socket, keys, row, outcome, lost>>
        BY <1>4, <2>3 DEF InitiatorConfirmOne
  <2>   QED  BY <2>5, <2>6, <2>7, SentTypeOK DEF TypeOK, keys, outcome
<1>5. CASE InitiatorConfirmAck
  <2>1. Stage(I) = 4 /\ Stage(I) >= 3
        BY <1>5, HandledByInitiator DEF InitiatorConfirmAck
  <2>2. masterSecret[I] \in MasterSet
        BY <2>1, InitiatorKeyTyped
  <2>3. PICK expires \in Expiry, continuity \in BOOLEAN :
            row' = [row EXCEPT ![I] =
                      setRetainedSecret(row[I], masterSecret[I], expires, continuity)]
        BY <1>5 DEF InitiatorConfirmAck, Expiry
  <2>4. row' \in [Endpoint -> RowSet]
        BY <2>2, <2>3, StoredRowTyped DEF TypeOK
  <2>5. /\ state' = [state EXCEPT ![I] = "HANDSHAKE_COMPLETE"]
        /\ pc' = [pc EXCEPT ![I] = "finish"]
        /\ UNCHANGED <<pending, sending, socket, keys, cacheField, outcome, net, lost>>
        BY <1>5 DEF InitiatorConfirmAck, setState, Goto
  <2>   QED  BY <2>4, <2>5 DEF TypeOK, State, keys, sending, outcome
<1> QED  BY <1>1, <1>2, <1>3, <1>4, <1>5

LEMMA ResponderTypeOK ==
    ASSUME TypeOK, HandshakeInvariant,
           \/ ResponderHello \/ ResponderCommit \/ ResponderDH \/ ResponderConfirmTwo
           \/ ResponderStore
    PROVE  TypeOK'
<1> USE EndpointFacts
<1>1. CASE ResponderHello
  <2>1. pending[R] \in HelloSet
        BY <1>1, HandledByResponder, HelloTyped DEF ResponderHello
  <2>2. SendFresh(R, HelloAck) /\ setState(R, "EXPECTING_COMMIT") /\ Goto(R, "start")
        BY <1>1 DEF ResponderHello
  <2>3. HelloAck \in Packet /\ "EXPECTING_COMMIT" \in State
        BY PacketsTyped DEF State
  <2>   QED  BY <1>1, <2>1, <2>2, <2>3, SentTypeOK DEF ResponderHello, TypeOK, outcome
<1>2. CASE ResponderCommit
  <2> DEFINE secrets == getRetainedSecrets(row[R])
             dh      == DHPart1(pending[R].ka, secrets)
  <2>1. /\ Stage(R) = 1 /\ Stage(I) = 2 /\ pending[R] = commit[I] /\ foreignHello[R] = Hello(I)
        /\ commit[I] = Commit(Hello(R), localDH[I])
        /\ localDH[I] = DHPart2(KeyAgreement(Hello(R)), retained[I])
        BY <1>2, HandledByResponder, StageRange
        DEF ResponderCommit, HandshakeInvariant, InitiatorFields, ResponderFields
  <2>2. secrets \in [one : Slot, two : Slot]
        BY <2>1, FetchedTyped
  <2>3. localDH[I] \in DHSet
        BY <2>1, DHTyped, KeyAgreementTyped DEF TypeOK
  <2>4. pending[R] \in CommitSet /\ pending[R].ka \in KA
        BY <2>1, <2>3, CommitTyped, HelloTyped DEF CommitSet
  <2>5. dh \in DHSet
        BY <2>2, <2>4, DHTyped
  <2>6. foreignHello[R].chain = pending[R].chain
        BY <2>1 DEF Hello, Commit
  <2>7. PICK p \in Packet : p = dh
        BY <2>5, PacketsTyped
  <2>8. SendFresh(R, p) /\ setState(R, "EXPECTING_DH_2") /\ Goto(R, "finish")
        BY <1>2, <2>6, <2>7 DEF ResponderCommit, SendFresh
  <2>9. "EXPECTING_DH_2" \in State
        BY DEF State
  <2>10. /\ commit' = [commit EXCEPT ![R] = pending[R]]
         /\ retained' = [retained EXCEPT ![R] = secrets]
         /\ localDH' = [localDH EXCEPT ![R] = dh]
         /\ UNCHANGED <<pending, socket, foreignHello, foreignDH, masterSecret,
                        cacheField, row, outcome, lost>>
        BY <1>2, <2>6 DEF ResponderCommit
  <2>   QED  BY <2>2, <2>4, <2>5, <2>8, <2>9, <2>10, SentTypeOK DEF TypeOK, outcome
<1>3. CASE ResponderDH
  <2>1. PICK dh \in DHSet, key \in MasterSet :
            /\ foreignDH' = [foreignDH EXCEPT ![R] = dh]
            /\ masterSecret' = [masterSecret EXCEPT ![R] = key]
            /\ SendFresh(R, Confirm1(key))
        BY <1>3, ResponderDHEffect
  <2>2. /\ setState(R, "EXPECTING_CONFIRM_TWO") /\ Goto(R, "finish")
        /\ UNCHANGED <<pending, socket, retained, foreignHello, commit, localDH,
                       cacheField, row, outcome, lost>>
        BY <1>3, ResponderDHEffect
  <2>3. PICK p \in Packet : p = Confirm1(key)
        BY ConfirmTyped
  <2>4. SendFresh(R, p)
        BY <2>1, <2>3 DEF SendFresh
  <2>5. "EXPECTING_CONFIRM_TWO" \in State
        BY DEF State
  <2>   QED  BY <2>1, <2>2, <2>4, <2>5, SentTypeOK DEF TypeOK, outcome
<1>4. CASE ResponderConfirmTwo
  <2>1. /\ Stage(R) = 3 /\ Stage(I) = 4 /\ pending[R] = Confirm2(masterSecret[I])
        /\ foreignDH[R] = localDH[I] /\ localDH[I].chain = I
        BY <1>4, HandledByResponder
        DEF ResponderConfirmTwo, HandshakeInvariant, InitiatorFields, ResponderFields, DHPart2
  <2>2. masterSecret[I] = masterSecret[R]
        BY <2>1, KeysAgreeNow
  <2>3. pending[R].key = masterSecret[R] /\ foreignDH[R].chain = pending[R].chain
        BY <2>1, <2>2 DEF Confirm2
  <2>4. SendFresh(R, ConfAck) /\ setState(R, "HANDSHAKE_COMPLETE") /\ Goto(R, "store")
        BY <1>4, <2>3 DEF ResponderConfirmTwo
  <2>5. "HANDSHAKE_COMPLETE" \in State
        BY DEF State
  <2>6. UNCHANGED <<pending, socket, keys, cacheField, row, outcome, lost>>
        BY <1>4, <2>3 DEF ResponderConfirmTwo
  <2>   QED  BY <2>4, <2>5, <2>6, SentTypeOK, PacketsTyped DEF TypeOK, keys, outcome
<1>5. CASE ResponderStore
  <2>1. Stage(R) = 4
        BY <1>5 DEF ResponderStore, HandshakeInvariant, ThreadsInStep
  <2>2. masterSecret[R] \in MasterSet
    <3>1. Stage(I) >= 3
          BY <2>1, StageRange DEF HandshakeInvariant, ResponderFields
    <3>   QED  BY <2>1, <3>1, KeysAgreeNow
  <2>3. PICK expires \in Expiry, continuity \in BOOLEAN :
            row' = [row EXCEPT ![R] =
                      setRetainedSecret(row[R], masterSecret[R], expires, continuity)]
        BY <1>5 DEF ResponderStore, Expiry
  <2>4. row' \in [Endpoint -> RowSet]
        BY <2>2, <2>3, StoredRowTyped DEF TypeOK
  <2>5. /\ pc' = [pc EXCEPT ![R] = "finish"]
        /\ UNCHANGED <<state, pending, sending, socket, keys, cacheField, outcome, net, lost>>
        BY <1>5 DEF ResponderStore, Goto
  <2>   QED  BY <2>4, <2>5 DEF TypeOK, keys, sending, outcome
<1> QED  BY <1>1, <1>2, <1>3, <1>4, <1>5

LEMMA NextIInv == IInv /\ [Next]_vars => IInv'
<1> SUFFICES ASSUME TypeOK, HandshakeInvariant, [Next]_vars
             PROVE  TypeOK' /\ HandshakeInvariant'
    BY DEF IInv
<1>1. ASSUME NEW e \in Endpoint, Thread(e)
      PROVE  TypeOK' /\ HandshakeInvariant'
  <2>1. CASE \E m \in net : Receive(e, m) \/ Ignore(e, m)
        BY <2>1, ThreadTypeOK, ReceiveKeeps, IgnoreKeeps
  <2>2. CASE Handle(e)
    <3>1. CASE \/ InitiatorHello \/ InitiatorHelloAck \/ InitiatorDH
               \/ InitiatorConfirmOne \/ InitiatorConfirmAck
          BY <3>1, InitiatorTypeOK, InitiatorHelloKeeps, InitiatorHelloAckKeeps,
             InitiatorDHKeeps, InitiatorConfirmOneKeeps, InitiatorConfirmAckKeeps
    <3>2. CASE \/ ResponderHello \/ ResponderCommit \/ ResponderDH
               \/ ResponderConfirmTwo \/ ResponderStore
          BY <3>2, ResponderTypeOK, ResponderHelloKeeps, ResponderCommitKeeps,
             ResponderDHKeeps, ResponderConfirmTwoKeeps, ResponderStoreKeeps
    <3>   QED  BY <2>2, <3>1, <3>2 DEF Handle
  <2>3. CASE Timeout(e)
        BY <2>3, ThreadTypeOK, TimeoutKeeps
  <2>4. CASE EnterFinish(e) \/ Connect(e)
        BY <2>4, ThreadTypeOK, AroundKeeps
  <2>   QED  BY <1>1, <2>1, <2>2, <2>3, <2>4 DEF Thread
<1>2. ASSUME NEW e \in Endpoint,
             ReceiveFails(e) \/ Terminate(e) \/ CloseSocket(e) \/ Crash(e)
      PROVE  TypeOK' /\ HandshakeInvariant'
      BY <1>2, ThreadTypeOK, AroundKeeps
<1>3. ASSUME SendAudio \/ Lose
      PROVE  TypeOK' /\ HandshakeInvariant'
      BY <1>3, NetworkTypeOK, NetworkKeeps
<1>4. CASE UNCHANGED vars
  <2>1. UNCHANGED <<state, pc, pending, lastPacket, retransmitCount, socket, keys, cacheField,
                    row, callConnected, sasVerified, net, lost>>
        BY <1>4 DEF vars, sending, outcome
  <2>2. TypeOK'
        BY <2>1 DEF TypeOK, keys
  <2>3. ThreadsInStep'
    <3>1. \A f \in Endpoint : Stage(f)' = Stage(f) /\ Expecting(f)' = Expecting(f)
          BY <2>1, Frozen
    <3>   QED  BY <2>1, <3>1, EndpointFacts DEF HandshakeInvariant, ThreadsInStep
  <2>   QED  BY <2>1, <2>2, <2>3, FrozenInvariant DEF HandshakeInvariant, PacketsGenuine
<1> QED  BY <1>1, <1>2, <1>3, <1>4 DEF Next

THEOREM Invariance == Spec => []IInv
BY InitIInv, NextIInv, PTL DEF Spec

-----------------------------------------------------------------------------
(* What follows from it.                                                   *)

(* Every variable keeps to its type, the retransmission counter to its     *)
(* bound, in handshakes of any length.                                     *)
THEOREM TypeCorrect == Spec => []TypeOK
BY Invariance, PTL DEF IInv

LEMMA InvariantKeysAgree == IInv => KeysAgree
<1> SUFFICES ASSUME TypeOK, HandshakeInvariant, masterSecret[I] # None, masterSecret[R] # None
             PROVE  masterSecret[I] = masterSecret[R]
    BY EndpointFacts DEF IInv, KeysAgree
<1>1. Stage(I) >= 3 /\ Stage(R) >= 3
      BY StageRange, EndpointFacts DEF HandshakeInvariant, InitiatorFields, ResponderFields
<1> QED  BY <1>1, KeysAgreeNow

(* The two phones never hold different master secrets, whatever the        *)
(* network does to their packets and whichever secrets they retained.      *)
THEOREM KeysAlwaysAgree == Spec => []KeysAgree
BY Invariance, InvariantKeysAgree, PTL

(* No handler ever throws InvalidPacketException at an honest peer.        *)
THEOREM NeverRejected == Spec => []NoRejection
<1>1. IInv => NoRejection
      BY DEF IInv, HandshakeInvariant, ThreadsInStep, NoRejection
<1> QED  BY Invariance, <1>1, PTL

(* The s1 in the responder's key is the one the calculators' comment       *)
(* describes.                                                              *)
THEOREM S1AlwaysAsDocumented == Spec => []S1AsDocumented
<1>1. IInv => S1AsDocumented
  <2> SUFFICES ASSUME TypeOK, HandshakeInvariant, masterSecret[R] # None
               PROVE  masterSecret[R].s1 = SharedSecret(retained[I], retained[R])
      BY DEF IInv, S1AsDocumented
  <2>1. Stage(R) >= 3
        BY StageRange, EndpointFacts DEF HandshakeInvariant, ResponderFields
  <2>2. Stage(R) >= 2 /\ Stage(I) >= 2
        BY <2>1, StageRange, EndpointFacts DEF HandshakeInvariant, ResponderFields
  <2>3. localDH[I].ids = SentIDs("Initiator", retained[I])
        BY <2>2 DEF HandshakeInvariant, InitiatorFields, DHPart2, I
  <2>4. masterSecret[R].s1 = ResponderS1(retained[R], localDH[I].ids)
        BY <2>1 DEF HandshakeInvariant, ResponderFields, Master
  <2>   QED  BY <2>3, <2>4, S1Agreement
<1> QED  BY Invariance, <1>1, PTL

LEMMA LastPackets ==
    ASSUME HandshakeInvariant
    PROVE  /\ Stage(I) = 1 => lastPacket[I] # None /\ TypeOf(lastPacket[I]) = "Hello"
           /\ Stage(I) = 2 => lastPacket[I] # None /\ TypeOf(lastPacket[I]) = "Commit"
           /\ Stage(I) = 3 => lastPacket[I] # None /\ TypeOf(lastPacket[I]) = "DHPart2"
           /\ Stage(I) = 4 => lastPacket[I] # None /\ TypeOf(lastPacket[I]) = "Confirm2"
           /\ lastPacket[R] # None
           /\ Stage(R) = 0 => TypeOf(lastPacket[R]) = "Hello"
           /\ Stage(R) = 1 => TypeOf(lastPacket[R]) = "HelloAck"
           /\ Stage(R) = 2 => TypeOf(lastPacket[R]) = "DHPart1"
           /\ Stage(R) = 3 => TypeOf(lastPacket[R]) = "Confirm1"
           /\ Stage(R) = 4 => lastPacket[R] = ConfAck /\ TypeOf(lastPacket[R]) = "Conf2Ack"
           /\ lastPacket[R] = ConfAck => Stage(R) = 4
<1>1. lastPacket[R] # None /\ Genuine(lastPacket[R]) /\ lastPacket[R].chain = R
      /\ lastPacket[R] # Audio
      BY EndpointFacts DEF HandshakeInvariant, PacketsGenuine, ResponderStarted
<1>2. \/ TypeOf(lastPacket[R]) = "Hello" \/ TypeOf(lastPacket[R]) = "HelloAck"
      \/ TypeOf(lastPacket[R]) = "DHPart1" \/ TypeOf(lastPacket[R]) = "Confirm1"
      \/ TypeOf(lastPacket[R]) = "Conf2Ack" /\ lastPacket[R] = ConfAck
      BY <1>1, GenuineKinds
<1>3. lastPacket[R].type = TypeOf(lastPacket[R])
      BY <1>2 DEF TypeOf, ConfAck, IsHandshake
<1>4. CASE Stage(I) >= 1
  <2>1. lastPacket[I] # None
        BY <1>4, EndpointFacts DEF Stage
  <2>2. Genuine(lastPacket[I]) /\ lastPacket[I].chain = I
        BY <2>1, EndpointFacts DEF HandshakeInvariant, PacketsGenuine
  <2>3. TypeOf(lastPacket[I]) \in {"Hello", "Commit", "DHPart2", "Confirm2"}
        BY <2>2, GenuineKinds
  <2>4. lastPacket[I].type = TypeOf(lastPacket[I])
        BY <2>3 DEF TypeOf, IsHandshake
  <2>   QED  BY <1>1, <1>2, <1>3, <2>1, <2>3, <2>4, EndpointFacts DEF Stage, ConfAck
<1>5. CASE Stage(I) = 0
      BY <1>1, <1>2, <1>3, <1>5, EndpointFacts DEF Stage, ConfAck
<1> QED  BY <1>4, <1>5, StageRange, EndpointFacts

(* The two stages are equal, or the initiator is one ahead: always exactly *)
(* one of the two last packets is the one the other endpoint waits for.    *)
THEOREM NeverMutualWait == Spec => []NoMutualWait
<1>1. IInv => NoMutualWait
  <2> SUFFICES ASSUME HandshakeInvariant, NEW e \in Endpoint, InLoop(e),
                      \A f \in Endpoint : state[f] # "TERMINATED"
               PROVE  \/ /\ lastPacket[I] # None
                         /\ TypeOf(lastPacket[I]) = Awaits(state[R])
                      \/ /\ lastPacket[R] # None
                         /\ TypeOf(lastPacket[R]) = Awaits(state[I])
      BY EndpointFacts DEF IInv, NoMutualWait
  <2>1. /\ Stage(I) \in {0, 1, 2, 3, 4} /\ Stage(R) \in {0, 1, 2, 3, 4}
        /\ Stage(I) = Stage(R) \/ Stage(I) = Stage(R) + 1
        BY StageRange, EndpointFacts DEF HandshakeInvariant, InitiatorFields, ResponderFields
  <2>2. /\ Stage(I) < 4 => state[I] = Expecting(I)
        /\ Stage(I) = 4 => state[I] \in {Expecting(I), "HANDSHAKE_COMPLETE"}
        /\ state[R] = Expecting(R)
    <3>1. Stage(R) = 4 => Expecting(R) = "HANDSHAKE_COMPLETE"
          BY EndpointFacts DEF Expecting
    <3>   QED  BY <3>1, StageRange, EndpointFacts DEF HandshakeInvariant, ThreadsInStep
  <2>3. CASE Stage(I) = Stage(R) + 1
    <3>1. Awaits(state[R]) = TypeOf(lastPacket[I]) /\ lastPacket[I] # None
          BY <2>1, <2>2, <2>3, LastPackets, EndpointFacts DEF Expecting, Awaits
    <3>   QED  BY <3>1
  <2>4. CASE Stage(I) = Stage(R)
    <3>1. CASE state[I] = Expecting(I)
          BY <2>1, <2>2, <2>4, <3>1, LastPackets, EndpointFacts DEF Expecting, Awaits
    <3>2. CASE state[I] # Expecting(I)
      <4>1. Stage(I) = 4 /\ state[I] = "HANDSHAKE_COMPLETE" /\ state[R] = "HANDSHAKE_COMPLETE"
            BY <2>1, <2>2, <2>4, <3>2, EndpointFacts DEF Expecting
      <4>2. ~ InLoop(e)
            BY <4>1, EndpointFacts DEF InLoop
      <4>   QED  BY <4>2
    <3>   QED  BY <3>1, <3>2
  <2>   QED  BY <2>1, <2>3, <2>4
<1> QED  BY Invariance, <1>1, PTL

(* Without strays the handshake implements SecureSession.                  *)

LEMMA SessionConnect ==
    ASSUME Strays = {}, TypeOK, HandshakeInvariant, NEW e \in Endpoint, Connect(e)
    PROVE  Session!Connect(e) \/ UNCHANGED Session!sessionVars
<1>1. UNCHANGED <<masterSecret, lastPacket>>
      BY DEF Connect, sending, keys
<1>2. CASE socket[e] = "open"
  <2>1. state[e] = "HANDSHAKE_COMPLETE"
        BY <1>2 DEF Connect, HandshakeInvariant, ThreadsInStep
  <2>2. Stage(R) = 4
        BY <2>1, CompleteIsLast, EndpointFacts DEF HandshakeInvariant, ThreadsInStep
  <2>3. lastPacket[R] = ConfAck
        BY <2>2, LastPackets
  <2>4. callConnected' = callConnected \cup {e}
        BY <1>2 DEF Connect
  <2>   QED  BY <1>1, <2>3, <2>4 DEF Session!Connect
<1>3. CASE socket[e] # "open"
      BY <1>1, <1>3 DEF Connect, outcome, Session!sessionVars
<1> QED  BY <1>2, <1>3

(* Deriving a key: the other phone has the same one, or none yet.          *)
LEMMA SessionDerive ==
    ASSUME TypeOK, HandshakeInvariant, KeysAgree', InitiatorDH \/ ResponderDH
    PROVE  Session!Derive(I) \/ Session!Derive(R)
<1> USE EndpointFacts
<1>1. CASE InitiatorDH
  <2>1. PICK key \in MasterSet, p \in Packet :
            masterSecret' = [masterSecret EXCEPT ![I] = key] /\ SendFresh(I, p)
        BY <1>1, InitiatorDHEffect
  <2>2. /\ masterSecret[I] = None /\ masterSecret'[I] = key /\ key # None
        /\ masterSecret'[R] = masterSecret[R]
        BY <1>1, <2>1, InitiatorDHEffect, NoneIsNoPacket DEF TypeOK
  <2>3. lastPacket'[R] = lastPacket[R] /\ callConnected' = callConnected
        BY <1>1, <2>1, InitiatorDHEffect DEF SendFresh, TypeOK, outcome
  <2>4. \A q \in Endpoint : masterSecret[q] \in {None, masterSecret'[I]}
        BY <2>2 DEF KeysAgree, Peer
  <2>   QED  BY <2>1, <2>2, <2>3, <2>4 DEF Session!Derive, Session!Phones, Endpoint
<1>2. CASE ResponderDH
  <2>1. PICK key \in MasterSet :
            masterSecret' = [masterSecret EXCEPT ![R] = key] /\ SendFresh(R, Confirm1(key))
        BY <1>2, ResponderDHEffect
  <2>2. /\ masterSecret[R] = None /\ masterSecret'[R] = key /\ key # None
        /\ masterSecret'[I] = masterSecret[I]
        BY <1>2, <2>1, ResponderDHEffect, NoneIsNoPacket DEF TypeOK
  <2>3. lastPacket'[R] = Confirm1(key) /\ callConnected' = callConnected
        BY <1>2, <2>1, ResponderDHEffect DEF SendFresh, TypeOK, outcome
  <2>4. lastPacket[R] # ConfAck /\ lastPacket'[R] # ConfAck
        BY <1>2, <2>3, ResponderDHEffect, LastPackets DEF Confirm1, ConfAck
  <2>5. \A q \in Endpoint : masterSecret[q] \in {None, masterSecret'[R]}
        BY <2>2 DEF KeysAgree, Peer
  <2>   QED  BY <2>1, <2>2, <2>3, <2>4, <2>5 DEF Session!Derive, Session!Phones, Endpoint
<1> QED  BY <1>1, <1>2

LEMMA SessionConfirm ==
    ASSUME TypeOK, HandshakeInvariant, ResponderConfirmTwo, ~ Reject(R)
    PROVE  Session!Confirm
<1>1. Stage(R) = 3 /\ Stage(I) = 4
      BY HandledByResponder DEF ResponderConfirmTwo
<1>2. masterSecret[I] # None /\ masterSecret[R] # None
      BY <1>1, KeysAgreeNow, NoneIsNoPacket
<1>3. lastPacket'[R] = ConfAck /\ masterSecret' = masterSecret /\ callConnected' = callConnected
      BY EndpointFacts DEF ResponderConfirmTwo, SendFresh, TypeOK, keys, outcome
<1> QED  BY <1>2, <1>3, EndpointFacts DEF Session!Confirm, Session!Phones

(* Every other step stutters.                                              *)
LEMMA SessionStutter ==
    ASSUME TypeOK, HandshakeInvariant,
           \/ \E e \in Endpoint :
                \/ \E m \in net : Receive(e, m) \/ Ignore(e, m)
                \/ Timeout(e) \/ EnterFinish(e) \/ ReceiveFails(e) \/ Terminate(e)
                \/ CloseSocket(e) \/ Crash(e)
           \/ InitiatorHello \/ InitiatorHelloAck \/ InitiatorConfirmOne \/ InitiatorConfirmAck
           \/ ResponderHello \/ ResponderCommit \/ ResponderStore
           \/ SendAudio \/ Lose
           \/ UNCHANGED vars
    PROVE  UNCHANGED Session!sessionVars
<1>1. UNCHANGED <<masterSecret, callConnected>>
      BY DEF Receive, Ignore, Timeout, EnterFinish, ReceiveFails, Terminate, CloseSocket, Crash,
         InitiatorHello, InitiatorHelloAck, InitiatorConfirmOne, InitiatorConfirmAck,
         ResponderHello, ResponderCommit, ResponderStore, SendAudio, Lose, Reject, vars, keys,
         outcome
<1>2. (lastPacket'[R] = ConfAck) = (lastPacket[R] = ConfAck)
  <2>1. CASE lastPacket'[R] = lastPacket[R]
        BY <2>1
  <2>2. CASE InitiatorHello \/ InitiatorHelloAck \/ InitiatorConfirmOne
        BY <2>2, EndpointFacts DEF InitiatorHello, InitiatorHelloAck, InitiatorConfirmOne,
           SendFresh, Reject, sending, TypeOK
  <2>3. CASE ResponderHello
    <3>1. Stage(R) = 0 /\ lastPacket'[R] = HelloAck
          BY <2>3, HandledByResponder, EndpointFacts DEF ResponderHello, SendFresh, TypeOK
    <3>   QED  BY <3>1, LastPackets DEF HelloAck, ConfAck
  <2>4. CASE ResponderCommit
    <3>1. Stage(R) = 1
          BY <2>4, HandledByResponder DEF ResponderCommit
    <3>2. lastPacket'[R] = lastPacket[R] \/ lastPacket'[R].type = "DHPart1"
          BY <2>4, EndpointFacts DEF ResponderCommit, SendFresh, TypeOK, DHPart1, Reject, sending
    <3>   QED  BY <3>1, <3>2, LastPackets DEF ConfAck
  <2>5. CASE \/ InitiatorConfirmAck \/ ResponderStore \/ SendAudio \/ Lose
             \/ UNCHANGED vars
        BY <2>5 DEF InitiatorConfirmAck, ResponderStore, SendAudio, Lose, vars, sending
  <2>6. CASE \E e \in Endpoint :
               \/ \E m \in net : Receive(e, m) \/ Ignore(e, m)
               \/ Timeout(e) \/ EnterFinish(e) \/ ReceiveFails(e) \/ Terminate(e)
               \/ CloseSocket(e) \/ Crash(e)
        BY <2>6 DEF Receive, Ignore, Timeout, EnterFinish, ReceiveFails, Terminate,
           CloseSocket, Crash, sending
  <2>   QED  BY <2>2, <2>3, <2>4, <2>5, <2>6
<1> QED  BY <1>1, <1>2 DEF Session!sessionVars

(* Keys are agreed once and for all, and no phone reports the call as      *)
(* connected before the responder has seen the initiator's proof that it   *)
(* has the key: the handshake implements SecureSession.                    *)
THEOREM SessionImplemented == ASSUME Strays = {} PROVE Spec => ImplementsSession
<1>1. Init => Session!Init
  <2>1. Hello(R) # ConfAck
        BY DEF Hello, ConfAck
  <2>   QED  BY <2>1, EndpointFacts DEF Init, Session!Init, Session!Phones, Endpoint
<1>2. IInv /\ KeysAgree' /\ NoRejection' /\ [Next]_vars => [Session!Next]_(Session!sessionVars)
  <2> SUFFICES ASSUME TypeOK, HandshakeInvariant, KeysAgree', NoRejection', [Next]_vars
               PROVE  [Session!Next]_(Session!sessionVars)
      BY DEF IInv
  <2>1. CASE \E e \in Endpoint : Connect(e)
        BY <2>1, SessionConnect, EndpointFacts DEF Session!Next, Session!Phones, Endpoint
  <2>2. CASE InitiatorDH \/ ResponderDH
        BY <2>2, SessionDerive DEF Session!Next, Session!Phones
  <2>3. CASE ResponderConfirmTwo
    <3>1. ~ Reject(R)
          BY EndpointFacts DEF Reject, Goto, NoRejection, TypeOK
    <3>   QED  BY <2>3, <3>1, SessionConfirm DEF Session!Next
  <2>   QED  BY <2>1, <2>2, <2>3, SessionStutter DEF Next, Thread, Handle
<1> QED  BY <1>1, <1>2, Invariance, KeysAlwaysAgree, NeverRejected, PTL
         DEF Spec, ImplementsSession, Session!Spec
-----------------------------------------------------------------------------
(* The rows.                                                               *)

(* setRetainedSecret writes nothing, or moves slot one to slot two.        *)
LEMMA StoredRow ==
    ASSUME NEW r, NEW s, NEW expires, NEW continuity
    PROVE  LET new == setRetainedSecret(r, s, expires, continuity) IN
           /\ new = r \/ new.one = s
           /\ new = r \/ new.two = r.one
           /\ new = r \/ (new.verified => r.verified /\ continuity)
           /\ new = r \/ new.expires # "past"
BY DEF setRetainedSecret

LEMMA StoredInFuture ==
    ASSUME NEW r, NEW s, NEW continuity
    PROVE  setRetainedSecret(r, s, "future", continuity).one = s
BY DEF setRetainedSecret

(* After its last packet an endpoint sends no other and keeps its key.     *)
LEMMA LastStays ==
    ASSUME TypeOK, HandshakeInvariant, [Next]_vars, NEW e \in Endpoint, Stage(e) = 4
    PROVE  Stage(e)' = 4 /\ masterSecret'[e] = masterSecret[e]
<1>1. lastPacket'[e] = lastPacket[e] /\ masterSecret'[e] = masterSecret[e]
  <2>1. CASE InitiatorHello \/ InitiatorHelloAck \/ InitiatorDH \/ InitiatorConfirmOne
    <3>1. e = R
          BY <2>1, HandledByInitiator, EndpointFacts
          DEF InitiatorHello, InitiatorHelloAck, InitiatorDH, InitiatorConfirmOne
    <3>   QED  BY <2>1, <3>1, EndpointFacts
          DEF InitiatorHello, InitiatorHelloAck, InitiatorDH, InitiatorConfirmOne,
              SendFresh, Reject, sending, keys, TypeOK
  <2>2. CASE ResponderHello \/ ResponderCommit \/ ResponderDH \/ ResponderConfirmTwo
    <3>1. e = I
          BY <2>2, HandledByResponder, EndpointFacts
          DEF ResponderHello, ResponderCommit, ResponderDH, ResponderConfirmTwo
    <3>   QED  BY <2>2, <3>1, EndpointFacts
          DEF ResponderHello, ResponderCommit, ResponderDH, ResponderConfirmTwo,
              SendFresh, Reject, sending, keys, TypeOK
  <2>3. CASE \/ InitiatorConfirmAck \/ ResponderStore \/ SendAudio \/ Lose
             \/ UNCHANGED vars
        BY <2>3 DEF InitiatorConfirmAck, ResponderStore, SendAudio, Lose, vars, sending, keys
  <2>4. CASE \E f \in Endpoint :
               \/ \E m \in net : Receive(f, m) \/ Ignore(f, m)
               \/ Timeout(f) \/ EnterFinish(f) \/ Connect(f) \/ ReceiveFails(f)
               \/ Terminate(f) \/ CloseSocket(f) \/ Crash(f)
        BY <2>4 DEF Receive, Ignore, Timeout, EnterFinish, Connect, ReceiveFails, Terminate,
           CloseSocket, Crash, sending, keys
  <2>   QED  BY <2>1, <2>2, <2>3, <2>4 DEF Next, Thread, Handle
<1> QED  BY <1>1, EndpointFacts DEF Stage

(* The steps that neither store a secret nor lead to that.                 *)
LEMMA OtherSteps ==
    ASSUME TypeOK, HandshakeInvariant, [Next]_vars,
           ~ InitiatorConfirmAck, ~ ResponderStore, ~ ResponderConfirmTwo
    PROVE  /\ row' = row
           /\ Stage(R)' = 4 => Stage(R) = 4
           /\ pc[R] \in {"store", "crashed"} => pc'[R] \in {"store", "crashed"}
           /\ \A e \in Endpoint : pc[e] = "connected" => pc'[e] = "connected"
           /\ \A e \in Endpoint :
                sasVerified'[e] => \/ sasVerified[e]
                                   \/ pc'[e] = "connected" /\ row[e].verified
<1> USE EndpointFacts
<1>1. CASE InitiatorHello \/ InitiatorHelloAck \/ InitiatorDH \/ InitiatorConfirmOne
  <2>1. pc[I] = "handle" /\ pc'[R] = pc[R] /\ row' = row /\ sasVerified' = sasVerified
        BY <1>1 DEF InitiatorHello, InitiatorHelloAck, InitiatorDH, InitiatorConfirmOne,
           Handling, Goto, Reject, outcome, TypeOK
  <2>2. lastPacket'[R] = lastPacket[R]
        BY <1>1 DEF InitiatorHello, InitiatorHelloAck, InitiatorDH, InitiatorConfirmOne,
           SendFresh, Reject, sending, TypeOK
  <2>3. Stage(R)' = Stage(R)
        BY <2>2 DEF Stage
  <2>   QED  BY <2>1, <2>3
<1>2. CASE ResponderHello \/ ResponderCommit \/ ResponderDH
  <2>1. pc[R] = "handle" /\ pc'[I] = pc[I] /\ row' = row /\ sasVerified' = sasVerified
        BY <1>2 DEF ResponderHello, ResponderCommit, ResponderDH,
           Handling, Goto, Reject, outcome, TypeOK
  <2>2. Stage(R) # 4
        BY <1>2, HandledByResponder DEF ResponderHello, ResponderCommit, ResponderDH
  <2>3. \/ lastPacket'[R] = lastPacket[R]
        \/ lastPacket'[R].type \in {"HelloAck", "DHPart1", "Confirm1"}
        BY <1>2 DEF ResponderHello, ResponderCommit, ResponderDH, SendFresh, Reject, sending,
           TypeOK, HelloAck, DHPart1, Confirm1
  <2>4. Stage(R)' # 4
        BY <2>2, <2>3 DEF Stage
  <2>   QED  BY <2>1, <2>4
<1>3. CASE SendAudio \/ Lose \/ UNCHANGED vars
  <2>1. UNCHANGED <<row, lastPacket, pc, sasVerified>>
        BY <1>3 DEF SendAudio, Lose, vars, sending, outcome
  <2>   QED  BY <2>1 DEF Stage
<1>4. ASSUME NEW f \in Endpoint,
             \/ \E m \in net : Receive(f, m) \/ Ignore(f, m)
             \/ Timeout(f) \/ EnterFinish(f) \/ ReceiveFails(f)
             \/ Terminate(f) \/ CloseSocket(f) \/ Crash(f)
      PROVE  /\ UNCHANGED <<row, lastPacket, sasVerified>>
             /\ \A e \in Endpoint : \/ pc'[e] = pc[e] \/ pc[e] \notin {"store"} \cup Final
                                    \/ pc[e] = "store" /\ pc'[e] = "crashed"
      BY <1>4 DEF Receive, Ignore, Timeout, EnterFinish, ReceiveFails, Terminate,
         CloseSocket, Crash, InLoop, Goto, sending, outcome, TypeOK, Final
<1>5. ASSUME NEW f \in Endpoint, Connect(f)
      PROVE  /\ UNCHANGED <<row, lastPacket>>
             /\ \A e \in Endpoint : pc'[e] = pc[e] \/ pc[e] = "finish"
             /\ \A e \in Endpoint :
                  sasVerified'[e] => \/ sasVerified[e]
                                     \/ pc'[e] = "connected" /\ row[e].verified
      BY <1>5 DEF Connect, Goto, sending, outcome, TypeOK
<1>6. CASE \E f \in Endpoint :
               \/ \E m \in net : Receive(f, m) \/ Ignore(f, m)
               \/ Timeout(f) \/ EnterFinish(f) \/ ReceiveFails(f)
               \/ Terminate(f) \/ CloseSocket(f) \/ Crash(f)
      BY <1>4, <1>6 DEF Final, Stage
<1>7. CASE \E f \in Endpoint : Connect(f)
      BY <1>5, <1>7 DEF Stage
<1> QED  BY <1>1, <1>2, <1>3, <1>6, <1>7 DEF Next, Thread, Handle

LEMMA RowsKeptStep ==
    ASSUME TypeOK, HandshakeInvariant, RowsKept, [Next]_vars
    PROVE  RowsKept'
<1> USE EndpointFacts
<1>1. CASE InitiatorConfirmAck
  <2>1. /\ Stage(I) = 4 /\ pc[I] = "handle"
        /\ Stage(R) = 4 \/ Strays # {}
        BY <1>1, HandledByInitiator DEF InitiatorConfirmAck, Handling
  <2>2. /\ UNCHANGED <<keys, lastPacket, sasVerified>> /\ pc' = [pc EXCEPT ![I] = "finish"]
        BY <1>1 DEF InitiatorConfirmAck, Goto, sending, outcome
  <2>3. PICK expires : row' = [row EXCEPT ![I] = setRetainedSecret(row[I], masterSecret[I],
                         expires, InitiatorS1(retained[I], foreignDH[I].ids) # NoSecret)]
        BY <1>1 DEF InitiatorConfirmAck
  <2>4. masterSecret[I].s1 = InitiatorS1(retained[I], foreignDH[I].ids)
        BY <2>1 DEF HandshakeInvariant, InitiatorFields, Master
  <2>5. /\ row'[R] = row[R]
        /\ \/ row'[I] = row[I]
           \/ /\ row'[I].one = masterSecret[I]
              /\ row'[I].verified => masterSecret[I].s1 # NoSecret
    <3> DEFINE s1  == InitiatorS1(retained[I], foreignDH[I].ids)
               new == setRetainedSecret(row[I], masterSecret[I], expires, s1 # NoSecret)
    <3>1. row'[R] = row[R] /\ row'[I] = new
          BY <2>3 DEF TypeOK
    <3>2. new = row[I] \/ new.one = masterSecret[I]
          BY StoredRow, Zenon
    <3>3. new = row[I] \/ (new.verified => s1 # NoSecret)
          BY StoredRow, Zenon
    <3>   HIDE DEF new
    <3>   QED  BY <2>4, <3>1, <3>2, <3>3
  <2>6. \A e \in Endpoint : Stage(e)' = Stage(e) /\ masterSecret'[e] = masterSecret[e]
        BY <2>2, Frozen DEF keys
  <2>7. pc'[R] = pc[R] /\ ~ sasVerified[I]
        BY <2>1, <2>2 DEF RowsKept, TypeOK
  <2>   QED  BY <2>1, <2>2, <2>5, <2>6, <2>7 DEF RowsKept, Slot
<1>2. CASE ResponderStore
  <2>1. Stage(R) = 4 /\ pc[R] = "store"
        BY <1>2 DEF ResponderStore, HandshakeInvariant, ThreadsInStep
  <2>2. /\ UNCHANGED <<keys, lastPacket, sasVerified>> /\ pc' = [pc EXCEPT ![R] = "finish"]
        BY <1>2 DEF ResponderStore, Goto, sending, outcome
  <2>3. masterSecret[R].s1 = ResponderS1(retained[R], foreignDH[R].ids)
        BY <2>1 DEF HandshakeInvariant, ResponderFields, Master
  <2>4. /\ row'[I] = row[I] /\ row'[R].one = masterSecret[R]
        /\ row'[R] = row[R] \/ (row'[R].verified => masterSecret[R].s1 # NoSecret)
    <3> DEFINE s1  == ResponderS1(retained[R], foreignDH[R].ids)
               new == setRetainedSecret(row[R], masterSecret[R], "future", s1 # NoSecret)
    <3>1. row'[I] = row[I] /\ row'[R] = new
          BY <1>2 DEF ResponderStore, TypeOK
    <3>2. new = row[R] \/ (new.verified => s1 # NoSecret)
          BY StoredRow, Zenon
    <3>3. new.one = masterSecret[R]
          BY StoredInFuture
    <3>   HIDE DEF new
    <3>   QED  BY <2>3, <3>1, <3>2, <3>3
  <2>5. \A e \in Endpoint : Stage(e)' = Stage(e) /\ masterSecret'[e] = masterSecret[e]
        BY <2>2, Frozen DEF keys
  <2>6. pc'[I] = pc[I] /\ ~ sasVerified[R]
        BY <2>1, <2>2 DEF RowsKept, TypeOK
  <2>   QED  BY <2>1, <2>2, <2>4, <2>5, <2>6 DEF RowsKept, Slot
<1>3. CASE ResponderConfirmTwo
  <2>1. Stage(R) = 3 /\ Stage(I) = 4 /\ pc[R] = "handle"
        BY <1>3, HandledByResponder DEF ResponderConfirmTwo, Handling
  <2>2. /\ row' = row /\ sasVerified' = sasVerified /\ pc'[I] = pc[I]
        /\ lastPacket' = lastPacket \/ pc'[R] = "store"
        /\ ~ sasVerified[R]
        BY <1>3, <2>1
        DEF ResponderConfirmTwo, Goto, Reject, sending, outcome, TypeOK, RowsKept
  <2>3. Stage(R)' = 4 => pc'[R] = "store"
        BY <2>1, <2>2 DEF Stage
  <2>4. Stage(I)' = 4 /\ masterSecret'[I] = masterSecret[I]
        BY <2>1, LastStays
  <2>5. row[R].one \in Slot /\ (row[I].one \in Slot \/ Strays # {})
        BY <2>1 DEF RowsKept
  <2>   QED  BY <2>1, <2>2, <2>3, <2>4, <2>5 DEF RowsKept, Slot
<1>4. CASE ~ InitiatorConfirmAck /\ ~ ResponderStore /\ ~ ResponderConfirmTwo
  <2>1. \A e \in Endpoint :
          Stage(e) = 4 => Stage(e)' = 4 /\ masterSecret'[e] = masterSecret[e]
        BY LastStays
  <2>   QED  BY <1>4, <2>1, OtherSteps DEF RowsKept, Slot
<1> QED  BY <1>1, <1>2, <1>3, <1>4

LEMMA InitRowsKept == Init => RowsKept
<1> SUFFICES ASSUME Init PROVE RowsKept
    OBVIOUS
<1>1. \A e \in Endpoint : row[e].one \in Slot /\ ~ sasVerified[e]
      BY RowAssumption DEF Init, Slot
<1>2. Stage(R) = 0
      BY NoneIsNoPacket, EndpointFacts DEF Init, Stage, Hello
<1> QED  BY <1>1, <1>2, EndpointFacts DEF RowsKept

(* What the rows hold, at any time.                                        *)
THEOREM RowsAlwaysKept == Spec => []RowsKept
<1>1. IInv /\ RowsKept /\ [Next]_vars => RowsKept'
      BY RowsKeptStep DEF IInv
<1> QED  BY <1>1, InitRowsKept, Invariance, PTL DEF Spec

(* isVerified is never reported for a call that has stored its secret and  *)
(* was not keyed with an earlier one.                                      *)
THEOREM VerifiedOnlyWithContinuity == Spec => []VerifiedMeansContinuity
<1>1. IInv /\ RowsKept => VerifiedMeansContinuity
  <2> SUFFICES ASSUME TypeOK, RowsKept, NEW e \in Endpoint, sasVerified[e],
                      masterSecret[e] # None, row[e].one = masterSecret[e]
               PROVE  masterSecret[e].s1 # NoSecret
      BY DEF IInv, VerifiedMeansContinuity
  <2>1. masterSecret[e] \in MasterSet
        BY DEF TypeOK
  <2>2. row[e].one \notin Slot /\ row[e].verified
        BY <2>1, FreshAssumption DEF RowsKept
  <2>   QED  BY <2>2 DEF RowsKept
<1> QED  BY <1>1, Invariance, RowsAlwaysKept, PTL

(* Without strays, the initiator never stores the new secret before the    *)
(* responder has sent its Conf2Ack, after which the responder stores it    *)
(* too unless it dies.                                                     *)
THEOREM StoredAlwaysInOrder == ASSUME Strays = {} PROVE Spec => []StoredInOrder
<1>1. IInv /\ RowsKept => StoredInOrder
  <2> SUFFICES ASSUME TypeOK, HandshakeInvariant, RowsKept, masterSecret[I] # None,
                      row[I].one = masterSecret[I]
               PROVE  \/ masterSecret[R] # None /\ row[R].one = masterSecret[R]
                      \/ pc[R] = "store"
                      \/ pc[R] = "crashed" /\ lastPacket[R] = ConfAck
      BY DEF IInv, StoredInOrder
  <2>1. row[I].one \notin Slot
        BY FreshAssumption, EndpointFacts DEF TypeOK
  <2>2. Stage(R) = 4 /\ Stage(I) = 4
        BY <2>1, EndpointFacts DEF RowsKept
  <2>3. masterSecret[R] # None
        BY <2>2, KeysAgreeNow, NoneIsNoPacket
  <2>   QED  BY <2>2, <2>3, LastPackets DEF RowsKept
<1> QED  BY <1>1, Invariance, RowsAlwaysKept, PTL

-----------------------------------------------------------------------------
(* Continuity.                                                             *)

(* An endpoint that is past its loop stays there.                          *)
LEMMA LoopOver ==
    ASSUME TypeOK, [Next]_vars, NEW e \in Endpoint, ~ NotYet(e)
    PROVE  ~ NotYet(e)'
<1> USE EndpointFacts
<1>1. pc[e] \notin {"handle", "store"} /\ state[e] \in {"HANDSHAKE_COMPLETE", "TERMINATED"}
      BY DEF NotYet
<1>2. ~ InLoop(e)
      BY <1>1 DEF InLoop
<1>3. CASE \/ InitiatorHello \/ InitiatorHelloAck \/ InitiatorDH \/ InitiatorConfirmOne
           \/ InitiatorConfirmAck
  <2>1. pc[I] = "handle"
        BY <1>3 DEF InitiatorHello, InitiatorHelloAck, InitiatorDH, InitiatorConfirmOne,
           InitiatorConfirmAck, Handling
  <2>2. e = R /\ pc'[R] = pc[R] /\ state'[R] = state[R]
        BY <1>1, <1>3, <2>1
        DEF InitiatorHello, InitiatorHelloAck, InitiatorDH, InitiatorConfirmOne,
            InitiatorConfirmAck, Goto, setState, Reject, TypeOK
  <2>   QED  BY <1>1, <2>2 DEF NotYet
<1>4. CASE \/ ResponderHello \/ ResponderCommit \/ ResponderDH \/ ResponderConfirmTwo
           \/ ResponderStore
  <2>1. pc[R] \in {"handle", "store"}
        BY <1>4 DEF ResponderHello, ResponderCommit, ResponderDH, ResponderConfirmTwo,
           ResponderStore, Handling
  <2>2. e = I /\ pc'[I] = pc[I] /\ state'[I] = state[I]
        BY <1>1, <1>4, <2>1
        DEF ResponderHello, ResponderCommit, ResponderDH, ResponderConfirmTwo,
            ResponderStore, Goto, setState, Reject, TypeOK
  <2>   QED  BY <1>1, <2>2 DEF NotYet
<1>5. CASE SendAudio \/ Lose \/ UNCHANGED vars
  <2>1. pc' = pc /\ state' = state
        BY <1>5 DEF SendAudio, Lose, vars
  <2>   QED  BY <1>1, <2>1 DEF NotYet
<1>6. ASSUME NEW f \in Endpoint,
             \/ \E m \in net : Receive(f, m) \/ Ignore(f, m)
             \/ Timeout(f) \/ EnterFinish(f) \/ Connect(f) \/ ReceiveFails(f)
             \/ Terminate(f) \/ CloseSocket(f) \/ Crash(f)
      PROVE  ~ NotYet(e)'
  <2>1. pc'[e] \notin {"handle", "store"}
        BY <1>1, <1>2, <1>6
        DEF Receive, Ignore, Timeout, EnterFinish, Connect, ReceiveFails, Terminate,
            CloseSocket, Crash, Goto, TypeOK
  <2>2. state'[e] \in {state[e], "TERMINATED"}
        BY <1>6 DEF Receive, Ignore, Timeout, EnterFinish, Connect, ReceiveFails, Terminate,
            CloseSocket, Crash, setState, TypeOK
  <2>   QED  BY <1>1, <2>1, <2>2 DEF NotYet
<1> QED  BY <1>3, <1>4, <1>5, <1>6 DEF Next, Thread, Handle

(* Only one store remains for an endpoint that holds s in slot one, and it *)
(* moves s to slot two.                                                    *)
LEMMA BothHoldStep ==
    ASSUME TypeOK, HandshakeInvariant, [Next]_vars, NEW s, BothHold(s)
    PROVE  BothHold(s)'
<1> USE EndpointFacts
<1>1. ASSUME NEW e \in Endpoint PROVE NotYet(e)' => NotYet(e)
      BY LoopOver
<1>2. CASE InitiatorConfirmAck
  <2>1. row'[R] = row[R]
        BY <1>2 DEF InitiatorConfirmAck, TypeOK
  <2>2. NotYet(I) /\ ~ NotYet(I)'
        BY <1>2 DEF InitiatorConfirmAck, Handling, setState, Goto, NotYet, TypeOK
  <2>3. PICK expires : row'[I] = setRetainedSecret(row[I], masterSecret[I],
                         expires, InitiatorS1(retained[I], foreignDH[I].ids) # NoSecret)
        BY <1>2 DEF InitiatorConfirmAck, TypeOK
  <2>4. s \in {row'[I].one, row'[I].two} /\ row'[I].expires # "past"
        BY <2>2, <2>3, StoredRow DEF BothHold
  <2>   QED  BY <1>1, <2>1, <2>2, <2>4 DEF BothHold
<1>3. CASE ResponderStore
  <2>1. row'[I] = row[I]
        BY <1>3 DEF ResponderStore, TypeOK
  <2>2. Stage(R) = 4
        BY <1>3 DEF ResponderStore, HandshakeInvariant, ThreadsInStep
  <2>3. state[R] \in {"HANDSHAKE_COMPLETE", "TERMINATED"}
        BY <2>2 DEF HandshakeInvariant, ThreadsInStep, Expecting
  <2>4. NotYet(R) /\ ~ NotYet(R)'
        BY <1>3, <2>3 DEF ResponderStore, Goto, NotYet, TypeOK
  <2>5. row'[R] = setRetainedSecret(row[R], masterSecret[R], "future",
                                    ResponderS1(retained[R], foreignDH[R].ids) # NoSecret)
        BY <1>3 DEF ResponderStore, TypeOK
  <2>6. s \in {row'[R].one, row'[R].two} /\ row'[R].expires # "past"
        BY <2>4, <2>5, StoredRow DEF BothHold
  <2>   QED  BY <1>1, <2>1, <2>4, <2>6 DEF BothHold
<1>4. CASE ~ InitiatorConfirmAck /\ ~ ResponderStore
  <2>1. row' = row
    <3>1. CASE ResponderConfirmTwo
          BY <3>1 DEF ResponderConfirmTwo, Reject
    <3>   QED  BY <1>4, <3>1, OtherSteps
  <2>   QED  BY <1>1, <2>1 DEF BothHold
<1> QED  BY <1>2, <1>3, <1>4

Latest(e, s) == row[e].one = s /\ row[e].expires # "past"

(* Two phones whose latest secret is the same, and not expired, share one  *)
(* ever after, whichever of the two stores the next one, whichever dies.   *)
THEOREM ContinuityAlwaysSurvives == Spec => ContinuitySurvives
<1>1. ASSUME NEW CONSTANT s, s # NoSecret
      PROVE  Spec /\ Latest(I, s) /\ Latest(R, s) => []Linked(row[I], row[R])
  <2>1. Init /\ Latest(I, s) /\ Latest(R, s) => BothHold(s)
        BY EndpointFacts DEF BothHold, Latest
  <2>2. IInv /\ BothHold(s) /\ [Next]_vars => BothHold(s)'
        BY BothHoldStep DEF IInv
  <2>3. BothHold(s) => Linked(row[I], row[R])
        BY <1>1, EndpointFacts DEF BothHold, Linked, Fetched, getRetainedSecrets
  <2>   QED  BY <2>1, <2>2, <2>3, Invariance, PTL DEF Spec
<1>2. InSync => \E s : s # NoSecret /\ Latest(I, s) /\ Latest(R, s)
      BY DEF InSync, Latest, getRetainedSecrets, NoneRetained
<1>3. Spec /\ InSync => []Linked(row[I], row[R])
      BY <1>1, <1>2
<1> QED  BY <1>3, PTL DEF ContinuitySurvives
================================================================================
