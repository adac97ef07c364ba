----------------------------- MODULE ZrtpHandshake -----------------------------
(***************************************************************************)
(* The ZRTP handshake of one call: the initiator's and the responder's     *)
(* ZRTPSocket, each driven by its CallManager thread, the UDP relay        *)
(* between them, the retained_secrets row each phone keeps of the other,   *)
(* and CallManager.terminate, which another thread may call at any time.   *)
(*                                                                         *)
(* Code: crypto/zrtp/ZRTPSocket.java, ZRTPInitiatorSocket.java,            *)
(* ZRTPResponderSocket.java, HandshakePacket.java, CommitPacket.java,      *)
(* ConfirmPacket.java, SecureRtpSocket.java, network/RtpSocket.java and    *)
(* call/CallManager.java.                                                  *)
(*                                                                         *)
(* Hashes, MACs and the key derivation are free constructors: a digest is  *)
(* the record of what was digested.  Packets are records of the fields the *)
(* handlers compare or mix into keys.                                      *)
(***************************************************************************)
EXTENDS Naturals, RetainedSecrets

CONSTANTS
    Secret,         \* retained secrets of earlier calls
    InitialRows,    \* the rows the two phones may start from
    EC25Capable,    \* the endpoints whose Hello offers EC25
    MaxRetransmit,  \* MAX_RETRANSMIT_COUNT
    Duplicates,     \* may the network deliver a datagram more than once
    MaxLoss,        \* how many datagrams the network drops
    Strays,         \* datagrams on the relay port before the handshake starts
    None            \* a packet or key that does not exist yet (Java's null)

I == "Initiator"
R == "Responder"
Endpoint == {I, R}

ASSUME SecretAssumption == NoSecret \notin Secret
ASSUME RowAssumption ==
    InitialRows \subseteq
        [Endpoint -> [one : Secret \cup {NoSecret}, two : Secret \cup {NoSecret},
                      verified : BOOLEAN, expires : Expiry]]
ASSUME BoundAssumption == MaxRetransmit \in Nat /\ MaxLoss \in Nat
ASSUME NetworkAssumption == Duplicates \in BOOLEAN /\ EC25Capable \subseteq Endpoint

VARIABLES
    state,            \* ZRTPSocket.state
    pc,               \* where the CallManager thread of the endpoint is
    pending,          \* the packet the thread is handling
    lastPacket,       \* ZRTPSocket.lastPacket
    retransmitCount,  \* ZRTPSocket.retransmitCount
    socket,           \* how far CallManager.terminate has come
    retained,         \* what retainedSecretsCalculator was built from
    foreignHello,     \* the peer's Hello, deep-copied
    commit,           \* commitPacket and foreignCommit
    localDH,
    foreignDH,
    masterSecret,
    cacheField,       \* the cache-time bytes of confirmPacket (initiator)
    row,              \* the retained_secrets row for the peer
    callConnected,    \* the endpoints that reported the call as connected
    sasVerified,      \* SASInfo.verified, as reported with it
    net,              \* datagrams in flight
    lost              \* datagrams the network has dropped

keys    == <<retained, foreignHello, commit, localDH, foreignDH, masterSecret>>
sending == <<lastPacket, retransmitCount>>
outcome == <<callConnected, sasVerified>>
vars    == <<state, pc, pending, sending, socket, keys, cacheField, row, outcome,
             net, lost>>

-----------------------------------------------------------------------------
(* The packets.  "chain" stands for the sender's hash chain, whose keys    *)
(* authenticate its Hello, Commit and DHPart packets.                      *)

Hello(e)     == [type |-> "Hello", chain |-> e, ec25 |-> e \in EC25Capable]
HelloAck     == [type |-> "HelloAck", chain |-> R]
DHPart1(ka, secrets) ==
    [type |-> "DHPart1", chain |-> R, ka |-> ka, ids |-> SentIDs(R, secrets)]
DHPart2(ka, secrets) ==
    [type |-> "DHPart2", chain |-> I, ka |-> ka, ids |-> SentIDs(I, secrets)]
Hvi(hello, dh)    == [hello |-> hello, dh |-> dh]
(* Mutant: the hvi commits to the wrong Hello.                             *)
CommitOwnHello(hello, dh) ==
    [type |-> "Commit", chain |-> I, ka |-> dh.ka, hvi |-> Hvi(Hello(I), dh)]
Commit(hello, dh) ==
    [type |-> "Commit", chain |-> I, ka |-> dh.ka, hvi |-> Hvi(hello, dh)]
Confirm1(key) == [type |-> "Confirm1", chain |-> R, key |-> key]
Confirm2(key) == [type |-> "Confirm2", chain |-> I, key |-> key]
ConfAck       == [type |-> "Conf2Ack", chain |-> R]

(* An SRTP packet of the responder's audio.                                *)
Audio == [type |-> "Audio", chain |-> R]

(* The relay's answer to the OPEN request NetworkConnector sent from the   *)
(* same local port, delivered once more.                                   *)
Reply == [type |-> "Reply", chain |-> "Relay"]

(* The master secret is derived from the DH result, the hash of all the    *)
(* messages and s1.  The next retained secret is derived from it.          *)
Master(ka, hello, commitPacket, dh1, dh2, s1) ==
    [ka |-> ka, hello |-> hello, commit |-> commitPacket, dh1 |-> dh1, dh2 |-> dh2,
     s1 |-> s1]

KeyAgreement(hello) == IF hello.ec25 THEN "EC25" ELSE "DH3K"

(* HandshakePacket.getType: whatever does not start with a ZRTP prefix     *)
(* byte counts as a Conf2Ack.  Such packets fail the CRC check, which is   *)
(* skipped in EXPECTING_CONFIRM_ACK only.                                  *)
IsHandshake(m) == m.type \notin {"Audio", "Reply"}
TypeOf(m)      == IF IsHandshake(m) THEN m.type ELSE "Conf2Ack"

(* The packet type a state waits for.                                      *)
Awaits(s) ==
    CASE s = "EXPECTING_HELLO"       -> "Hello"
      [] s = "EXPECTING_HELLO_ACK"   -> "HelloAck"
      [] s = "EXPECTING_COMMIT"      -> "Commit"
      [] s = "EXPECTING_DH_1"        -> "DHPart1"
      [] s = "EXPECTING_DH_2"        -> "DHPart2"
      [] s = "EXPECTING_CONFIRM_ONE" -> "Confirm1"
      [] s = "EXPECTING_CONFIRM_TWO" -> "Confirm2"
      [] s = "EXPECTING_CONFIRM_ACK" -> "Conf2Ack"
      [] OTHER                       -> "Nothing"

Final == {"connected", "quit", "invalid", "failed", "unavailable", "crashed"}

(* The condition of the loop the thread is in.                             *)
InLoop(e) ==
    \/ pc[e] = "start"  /\ state[e] = "EXPECTING_HELLO"
    \/ pc[e] = "finish" /\ state[e] \notin {"HANDSHAKE_COMPLETE", "TERMINATED"}

(* Mutant: the CRC is checked in every state.                              *)
DispatchesVerified(e, m) == IsHandshake(m) /\ TypeOf(m) = Awaits(state[e])

Dispatches(e, m) ==
    /\ IsHandshake(m) \/ state[e] = "EXPECTING_CONFIRM_ACK"
    /\ TypeOf(m) = Awaits(state[e])

(* What a datagram leaves of the cache-time bytes of the initiator's       *)
(* confirmPacket, which shares RtpSocket.buf with every later packet.      *)
(* HelloAck, Conf2Ack and audio are too short to reach them.               *)
ReceivedInto(field, m) ==
    IF m.type \in {"Hello", "DHPart1", "Confirm1"} THEN "overwritten" ELSE field

Delivered(m) == IF Duplicates THEN net ELSE net \ {m}

(* SecureRtpSocket.send: nothing leaves a closed socket.                   *)
Sent(e, m) == IF socket[e] = "closed" THEN {} ELSE {m}

(* Mutant: the packet is not remembered for retransmission.                *)
SendOnce(e, m) ==
    /\ retransmitCount' = [retransmitCount EXCEPT ![e] = 0]
    /\ net'             = net \cup Sent(e, m)
    /\ UNCHANGED lastPacket

SendFresh(e, m) ==
    /\ lastPacket'      = [lastPacket EXCEPT ![e] = m]
    /\ retransmitCount' = [retransmitCount EXCEPT ![e] = 0]
    /\ net'             = net \cup Sent(e, m)

setState(e, s) == state' = [state EXCEPT ![e] = s]
Goto(e, label) == pc' = [pc EXCEPT ![e] = label]

Handling(e, type) == pc[e] = "handle" /\ TypeOf(pending[e]) = type

(* An InvalidPacketException leaves negotiateStart or negotiateFinish as a *)
(* NegotiationFailedException.                                             *)
Reject(e) ==
    /\ Goto(e, "invalid")
    /\ UNCHANGED <<state, pending, sending, socket, keys, cacheField, row, outcome,
                   net, lost>>

-----------------------------------------------------------------------------
(* The initial state: both sockets exist and the responder has sent its    *)
(* Hello, the first thing ZRTPResponderSocket.negotiateStart does.  The    *)
(* initiator sends nothing before it has seen one.                         *)
Init ==
    /\ state           = [e \in Endpoint |-> "EXPECTING_HELLO"]
    /\ pc              = [e \in Endpoint |-> "start"]
    /\ pending         = [e \in Endpoint |-> None]
    /\ lastPacket      = [e \in Endpoint |-> IF e = R THEN Hello(R) ELSE None]
    /\ retransmitCount = [e \in Endpoint |-> 0]
    /\ socket          = [e \in Endpoint |-> "open"]
    /\ retained        = [e \in Endpoint |-> NoneRetained]
    /\ foreignHello    = [e \in Endpoint |-> None]
    /\ commit          = [e \in Endpoint |-> None]
    /\ localDH         = [e \in Endpoint |-> None]
    /\ foreignDH       = [e \in Endpoint |-> None]
    /\ masterSecret    = [e \in Endpoint |-> None]
    /\ cacheField      = "overwritten"
    /\ row \in InitialRows
    /\ callConnected   = {}
    /\ sasVerified     = [e \in Endpoint |-> FALSE]
    /\ net             = {Hello(R)} \cup Strays
    /\ lost            = 0

-----------------------------------------------------------------------------
(* The loops of negotiateStart and negotiateFinish.                        *)

(* A packet of the awaited type is passed to its handler.  The handler is  *)
(* a step of its own: terminate may run between the two.                   *)
Receive(e, m) ==
    /\ InLoop(e) /\ socket[e] # "closed"
    /\ m \in net /\ m.chain # e
    /\ Dispatches(e, m)
    /\ Goto(e, "handle")
    /\ pending' = [pending EXCEPT ![e] = m]
    /\ cacheField' = IF e = I THEN ReceivedInto(cacheField, m) ELSE cacheField
    /\ net' = Delivered(m)
    /\ UNCHANGED <<state, sending, socket, keys, row, outcome, lost>>

(* Any other packet only overwrites the receive buffer.                    *)
Ignore(e, m) ==
    /\ InLoop(e) /\ socket[e] # "closed"
    /\ m \in net /\ m.chain # e
    /\ ~ Dispatches(e, m)
    /\ cacheField' = IF e = I THEN ReceivedInto(cacheField, m) ELSE cacheField
    /\ net' = Delivered(m)
    /\ UNCHANGED <<state, pc, pending, sending, socket, keys, row, outcome, lost>>

(* Mutant: a packet is resent the way it was sent first.                   *)
TimeoutResets(e) ==
    /\ InLoop(e) /\ lastPacket[e] # None
    /\ SendFresh(e, lastPacket[e])
    /\ UNCHANGED <<state, pc, pending, socket, keys, cacheField, row, outcome, lost>>

(* resendPacket, when nothing awaited has come for a retransmit interval:  *)
(* the last packet goes out again, or the handshake is given up.  A closed *)
(* socket receives nothing, and the loop comes here too.                   *)
Timeout(e) ==
    /\ InLoop(e)
    /\ retransmitCount' = [retransmitCount EXCEPT ![e] = @ + 1]
    /\ IF retransmitCount[e] > MaxRetransmit
       THEN /\ Goto(e, IF lastPacket[e] = None THEN "unavailable" ELSE "failed")
            /\ net' = net
       ELSE /\ net' = net \cup (IF lastPacket[e] = None THEN {} ELSE Sent(e, lastPacket[e]))
            /\ pc' = pc
    /\ UNCHANGED <<state, pending, lastPacket, socket, keys, cacheField, row, outcome,
                   lost>>

(* An IOException from an open socket (an ICMP port unreachable, say).     *)
ReceiveFails(e) ==
    /\ InLoop(e) /\ socket[e] # "closed"
    /\ Goto(e, "failed")
    /\ UNCHANGED <<state, pending, sending, socket, keys, cacheField, row, outcome,
                   net, lost>>

(* CallManager.run between negotiateStart and negotiateFinish.             *)
EnterFinish(e) ==
    /\ pc[e] = "start" /\ state[e] # "EXPECTING_HELLO"
    /\ Goto(e, IF socket[e] = "open" THEN "finish" ELSE "quit")
    /\ UNCHANGED <<state, pending, sending, socket, keys, cacheField, row, outcome,
                   net, lost>>

(* Mutant: terminated is not looked at again after negotiateFinish.        *)
ConnectTerminated(e) ==
    /\ pc[e] = "finish" /\ state[e] \in {"HANDSHAKE_COMPLETE", "TERMINATED"}
    /\ Goto(e, "connected")
    /\ callConnected' = callConnected \cup {e}
    /\ sasVerified'   = [sasVerified EXCEPT ![e] = row[e].verified]
    /\ UNCHANGED <<state, pending, sending, socket, keys, cacheField, row, net, lost>>

(* CallManager.run after negotiateFinish: the SAS and its verified flag    *)
(* are read from the database and reported, and the call is connected.     *)
Connect(e) ==
    /\ pc[e] = "finish" /\ state[e] \in {"HANDSHAKE_COMPLETE", "TERMINATED"}
    /\ IF socket[e] = "open"
       THEN /\ Goto(e, "connected")
            /\ callConnected' = callConnected \cup {e}
            /\ sasVerified'   = [sasVerified EXCEPT ![e] = row[e].verified]
       ELSE Goto(e, "quit") /\ UNCHANGED outcome
    /\ UNCHANGED <<state, pending, sending, socket, keys, cacheField, row, net, lost>>

(* runAudio: the responder's SRTP packets reach the initiator's socket.    *)
SendAudio ==
    /\ pc[R] = "connected" /\ socket[R] = "open"
    /\ net' = net \cup {Audio}
    /\ UNCHANGED <<state, pc, pending, sending, socket, keys, cacheField, row, outcome,
                   lost>>

-----------------------------------------------------------------------------
(* The initiator's handlers.                                               *)

InitiatorHello ==
    /\ Handling(I, "Hello")
    /\ foreignHello' = [foreignHello EXCEPT ![I] = pending[I]]
    /\ setState(I, "EXPECTING_HELLO_ACK")
    /\ SendFresh(I, Hello(I))
    /\ Goto(I, "start")
    /\ UNCHANGED <<pending, socket, retained, commit, localDH, foreignDH, masterSecret,
                   cacheField, row, outcome, lost>>

InitiatorHelloAck ==
    /\ Handling(I, "HelloAck")
    /\ LET secrets == getRetainedSecrets(row[I])
           dh      == DHPart2(KeyAgreement(foreignHello[I]), secrets)
           packet  == Commit(foreignHello[I], dh)
       IN  /\ retained' = [retained EXCEPT ![I] = secrets]
           /\ localDH'  = [localDH EXCEPT ![I] = dh]
           /\ commit'   = [commit EXCEPT ![I] = packet]
           /\ SendFresh(I, packet)
    /\ setState(I, "EXPECTING_DH_1")
    /\ Goto(I, "finish")
    /\ UNCHANGED <<pending, socket, foreignHello, foreignDH, masterSecret, cacheField, row,
                   outcome, lost>>

InitiatorDH ==
    /\ Handling(I, "DHPart1")
    /\ LET dh == pending[I]
           s1 == InitiatorS1(retained[I], dh.ids)
       IN  IF foreignHello[I].chain = dh.chain
           THEN /\ foreignDH'    = [foreignDH EXCEPT ![I] = dh]
                /\ masterSecret' = [masterSecret EXCEPT ![I] =
                     Master(KeyAgreement(foreignHello[I]), foreignHello[I], commit[I],
                            dh, localDH[I], s1)]
                /\ setState(I, "EXPECTING_CONFIRM_ONE")
                /\ SendFresh(I, localDH[I])
                /\ Goto(I, "finish")
                /\ UNCHANGED <<pending, socket, retained, foreignHello, commit, localDH,
                               cacheField, row, outcome, lost>>
           ELSE Reject(I)

(* confirmPacket is not a copy: from here on cacheField is its cache time, *)
(* decrypted in place.                                                     *)
InitiatorConfirmOne ==
    /\ Handling(I, "Confirm1")
    /\ LET confirm == pending[I]
       IN  IF confirm.key = masterSecret[I] /\ foreignDH[I].chain = confirm.chain
           THEN /\ cacheField' = "offered"
                /\ setState(I, "EXPECTING_CONFIRM_ACK")
                /\ SendFresh(I, Confirm2(masterSecret[I]))
                /\ Goto(I, "finish")
                /\ UNCHANGED <<pending, socket, keys, row, outcome, lost>>
           ELSE Reject(I)

(* The expiry is computed from cacheField as it is now.  The sender offers *)
(* 0xffffffff seconds; overwritten bytes may say anything, zero included.  *)
InitiatorConfirmAck ==
    /\ Handling(I, "Conf2Ack")
    /\ LET continuity == InitiatorS1(retained[I], foreignDH[I].ids) # NoSecret
       IN  \E expires \in IF cacheField = "offered" THEN {"future"} ELSE {"arbitrary", "past"} :
             row' = [row EXCEPT ![I] =
                       setRetainedSecret(row[I], masterSecret[I], expires, continuity)]
    /\ setState(I, "HANDSHAKE_COMPLETE")
    /\ Goto(I, "finish")
    /\ UNCHANGED <<pending, sending, socket, keys, cacheField, outcome, net, lost>>

-----------------------------------------------------------------------------
(* The responder's handlers.                                               *)

ResponderHello ==
    /\ Handling(R, "Hello")
    /\ foreignHello' = [foreignHello EXCEPT ![R] = pending[R]]
    /\ setState(R, "EXPECTING_COMMIT")
    /\ SendFresh(R, HelloAck)
    /\ Goto(R, "start")
    /\ UNCHANGED <<pending, socket, retained, commit, localDH, foreignDH, masterSecret,
                   cacheField, row, outcome, lost>>

ResponderCommit ==
    /\ Handling(R, "Commit")
    /\ LET packet  == pending[R]
           secrets == getRetainedSecrets(row[R])
           dh      == DHPart1(packet.ka, secrets)
       IN  IF foreignHello[R].chain = packet.chain
           THEN /\ commit'   = [commit EXCEPT ![R] = packet]
                /\ retained' = [retained EXCEPT ![R] = secrets]
                /\ localDH'  = [localDH EXCEPT ![R] = dh]
                /\ setState(R, "EXPECTING_DH_2")
                /\ SendFresh(R, dh)
                /\ Goto(R, "finish")
                /\ UNCHANGED <<pending, socket, foreignHello, foreignDH, masterSecret,
                               cacheField, row, outcome, lost>>
           ELSE Reject(R)

ResponderDH ==
    /\ Handling(R, "DHPart2")
    /\ LET dh == pending[R]
           s1 == ResponderS1(retained[R], dh.ids)
           key == Master(commit[R].ka, Hello(R), commit[R], localDH[R], dh, s1)
       IN  IF commit[R].chain = dh.chain /\ commit[R].hvi = Hvi(Hello(R), dh)
           THEN /\ foreignDH'    = [foreignDH EXCEPT ![R] = dh]
                /\ masterSecret' = [masterSecret EXCEPT ![R] = key]
                /\ setState(R, "EXPECTING_CONFIRM_TWO")
                /\ SendFresh(R, Confirm1(key))
                /\ Goto(R, "finish")
                /\ UNCHANGED <<pending, socket, retained, foreignHello, commit, localDH,
                               cacheField, row, outcome, lost>>
           ELSE Reject(R)

(* Mutant: the new secret is not stored.                                   *)
ResponderForgetsSecret ==
    /\ Handling(R, "Confirm2")
    /\ LET confirm == pending[R]
       IN  IF confirm.key = masterSecret[R] /\ foreignDH[R].chain = confirm.chain
           THEN /\ setState(R, "HANDSHAKE_COMPLETE")
                /\ SendFresh(R, ConfAck)
                /\ Goto(R, "finish")
                /\ UNCHANGED <<pending, socket, keys, cacheField, row, outcome, lost>>
           ELSE Reject(R)

(* The acknowledgement leaves before the secret is stored, and is never    *)
(* sent again: the responder's loop ends here.                             *)
ResponderConfirmTwo ==
    /\ Handling(R, "Confirm2")
    /\ LET confirm == pending[R]
       IN  IF confirm.key = masterSecret[R] /\ foreignDH[R].chain = confirm.chain
           THEN /\ setState(R, "HANDSHAKE_COMPLETE")
                /\ SendFresh(R, ConfAck)
                /\ Goto(R, "store")
                /\ UNCHANGED <<pending, socket, keys, cacheField, row, outcome, lost>>
           ELSE Reject(R)

(* The rest of handleConfirmTwo.                                           *)
ResponderStore ==
    /\ pc[R] = "store"
    /\ LET continuity == ResponderS1(retained[R], foreignDH[R].ids) # NoSecret
       IN  row' = [row EXCEPT ![R] =
                     setRetainedSecret(row[R], masterSecret[R], "future", continuity)]
    /\ Goto(R, "finish")
    /\ UNCHANGED <<state, pending, sending, socket, keys, cacheField, outcome, net, lost>>

-----------------------------------------------------------------------------
(* What happens around the two threads.                                    *)

(* CallManager.terminate, called from RedPhoneService: terminated is set   *)
(* and ZRTPSocket.close starts.  A handler that is running may overwrite   *)
(* the TERMINATED state with the one it leads to.                          *)
Terminate(e) ==
    /\ socket[e] = "open" /\ pc[e] # "crashed"
    /\ socket' = [socket EXCEPT ![e] = "marked"]
    /\ setState(e, "TERMINATED")
    /\ UNCHANGED <<pc, pending, sending, keys, cacheField, row, outcome, net, lost>>

(* The rest of ZRTPSocket.close: socket.close().                           *)
CloseSocket(e) ==
    /\ socket[e] = "marked"
    /\ socket' = [socket EXCEPT ![e] = "closed"]
    /\ UNCHANGED <<state, pc, pending, sending, keys, cacheField, row, outcome, net, lost>>

(* Android kills the process: only the database survives.                  *)
Crash(e) ==
    /\ pc[e] \notin Final
    /\ Goto(e, "crashed")
    /\ socket' = [socket EXCEPT ![e] = "closed"]
    /\ UNCHANGED <<state, pending, sending, keys, cacheField, row, outcome, net, lost>>

(* The network drops a datagram.                                           *)
Lose ==
    /\ lost < MaxLoss
    /\ \E m \in net : net' = net \ {m}
    /\ lost' = lost + 1
    /\ UNCHANGED <<state, pc, pending, sending, socket, keys, cacheField, row, outcome>>

-----------------------------------------------------------------------------
Handle(e) ==
    \/ e = I /\ (InitiatorHello \/ InitiatorHelloAck \/ InitiatorDH
                 \/ InitiatorConfirmOne \/ InitiatorConfirmAck)
    \/ e = R /\ (ResponderHello \/ ResponderCommit \/ ResponderDH
                 \/ ResponderConfirmTwo \/ ResponderStore)

(* The steps of the CallManager thread of e.                               *)
Thread(e) ==
    \/ \E m \in net : Receive(e, m) \/ Ignore(e, m)
    \/ Handle(e)
    \/ Timeout(e)
    \/ EnterFinish(e)
    \/ Connect(e)

Next ==
    \/ \E e \in Endpoint : Thread(e) \/ ReceiveFails(e) \/ Terminate(e) \/ CloseSocket(e)
                           \/ Crash(e)
    \/ Lose
    \/ SendAudio

Spec == Init /\ [][Next]_vars

(* Every thread runs on, and terminate finishes closing the socket it has  *)
(* started to close.                                                       *)
Fairness == \A e \in Endpoint : WF_vars(Thread(e)) /\ WF_vars(CloseSocket(e))

FairSpec == Spec /\ Fairness

(***************************************************************************)
(* A call nobody ends, over a network that loses MaxLoss datagrams at most *)
(* and is faster than the retransmit interval: nobody times out while a    *)
(* datagram somebody waits for is on its way, or while a thread has work.  *)
(* The interval doubles with every retransmission, so the endpoint that    *)
(* has retransmitted less times out first.                                 *)
(***************************************************************************)
Peer(e) == IF e = I THEN R ELSE I

Quiet ==
    \A e \in Endpoint :
        InLoop(e) /\ \A m \in net : m.chain = e \/ ~ Dispatches(e, m)

TimelyTimeout(e) ==
    Quiet /\ retransmitCount[e] <= retransmitCount[Peer(e)] /\ Timeout(e)

TimelyThread(e) ==
    \/ \E m \in net : Receive(e, m) \/ Ignore(e, m)
    \/ Handle(e)
    \/ TimelyTimeout(e)
    \/ EnterFinish(e)
    \/ Connect(e)

TimelyNext ==
    \/ \E e \in Endpoint : TimelyThread(e)
    \/ Lose
    \/ SendAudio

TimelySpec ==
    /\ Init /\ [][TimelyNext]_vars
    /\ \A e \in Endpoint : WF_vars(TimelyThread(e))
    /\ WF_vars(SendAudio)

-----------------------------------------------------------------------------
(* Types.                                                                  *)

Slot      == Secret \cup {NoSecret}
KA        == {"EC25", "DH3K"}
IDs       == LET ID == [role : {I, R, "Random"}, secret : Slot] IN [one : ID, two : ID]
HelloSet  == [type : {"Hello"}, chain : Endpoint, ec25 : BOOLEAN]
DHSet     == [type : {"DHPart1", "DHPart2"}, chain : Endpoint, ka : KA, ids : IDs]
CommitSet == [type : {"Commit"}, chain : {I}, ka : KA, hvi : [hello : HelloSet, dh : DHSet]]
MasterSet == [ka : KA, hello : HelloSet, commit : CommitSet, dh1 : DHSet, dh2 : DHSet,
              s1 : Slot]
Packet    == HelloSet \cup DHSet \cup CommitSet
             \cup {HelloAck, ConfAck, Audio, Reply}
             \cup [type : {"Confirm1", "Confirm2"}, chain : Endpoint, key : MasterSet]
RowSet    == [one : Slot \cup MasterSet, two : Slot \cup MasterSet, verified : BOOLEAN,
              expires : Expiry]
State     == {"EXPECTING_HELLO", "EXPECTING_HELLO_ACK", "EXPECTING_COMMIT",
              "EXPECTING_DH_1", "EXPECTING_DH_2", "EXPECTING_CONFIRM_ONE",
              "EXPECTING_CONFIRM_TWO", "EXPECTING_CONFIRM_ACK", "HANDSHAKE_COMPLETE",
              "TERMINATED"}

ASSUME StraysAssumption == Strays \subseteq {Reply}
ASSUME NoneAssumption == None \notin Packet \cup MasterSet

(* The secret of a call is none of those of earlier calls.                 *)
ASSUME FreshAssumption == \A s \in Slot : s \notin MasterSet

TypeOK ==
    /\ state           \in [Endpoint -> State]
    /\ pc              \in [Endpoint -> {"start", "handle", "store", "finish"} \cup Final]
    /\ pending         \in [Endpoint -> Packet \cup {None}]
    /\ lastPacket      \in [Endpoint -> Packet \cup {None}]
    /\ retransmitCount \in [Endpoint -> 0 .. MaxRetransmit + 2]
    /\ socket          \in [Endpoint -> {"open", "marked", "closed"}]
    /\ retained        \in [Endpoint -> [one : Slot, two : Slot]]
    /\ foreignHello    \in [Endpoint -> HelloSet \cup {None}]
    /\ commit          \in [Endpoint -> CommitSet \cup {None}]
    /\ localDH         \in [Endpoint -> DHSet \cup {None}]
    /\ foreignDH       \in [Endpoint -> DHSet \cup {None}]
    /\ masterSecret    \in [Endpoint -> MasterSet \cup {None}]
    /\ cacheField      \in {"offered", "overwritten"}
    /\ row             \in [Endpoint -> RowSet]
    /\ callConnected   \subseteq Endpoint
    /\ sasVerified     \in [Endpoint -> BOOLEAN]
    /\ net             \subseteq Packet
    /\ lost            \in 0 .. MaxLoss

-----------------------------------------------------------------------------
(* Properties.  The two phones are honest: what is left to go wrong is the *)
(* network, the timeouts, the other threads and the database.              *)

(* Both phones derive the master secret from the same packets and the same *)
(* s1, whatever is lost, repeated or answered late (calculateTotalHash and *)
(* the two getS1 hash and choose on each side separately).                 *)
KeysAgree ==
    \A e \in Endpoint :
        masterSecret[e] # None /\ masterSecret[Peer(e)] # None
            => masterSecret[e] = masterSecret[Peer(e)]

(* No packet of the peer fails a hash-chain, hvi or MAC check, so a        *)
(* negotiation is only ever given up for silence or an I/O error: a        *)
(* retransmitted or late packet never reaches the handler of another state.*)
NoRejection == \A e \in Endpoint : pc[e] # "invalid"

(* The loops never come to wait for a packet that the peer will not send   *)
(* (again): while either is looping, somebody's lastPacket, the one its    *)
(* timeout resends, is what the other one waits for.                       *)
NoMutualWait ==
    (\E e \in Endpoint : InLoop(e)) /\ (\A e \in Endpoint : state[e] # "TERMINATED") =>
        \E e \in Endpoint :
            lastPacket[e] # None /\ TypeOf(lastPacket[e]) = Awaits(state[Peer(e)])

(* The initiator stores the new secret on the Conf2Ack, which leaves the   *)
(* responder before handleConfirmTwo stores it there: the responder's row  *)
(* is behind only while it is between the two, or died there.              *)
StoredInOrder ==
    masterSecret[I] # None /\ row[I].one = masterSecret[I] =>
        \/ masterSecret[R] # None /\ row[R].one = masterSecret[R]
        \/ pc[R] = "store"
        \/ pc[R] = "crashed" /\ lastPacket[R] = ConfAck

(* s1 is the secret the comment of the calculators describes, although     *)
(* each side sees only its own secrets and the IDs of the other's.         *)
S1AsDocumented ==
    masterSecret[R] # None =>
        masterSecret[R].s1 = SharedSecret(retained[I], retained[R])

(* Two phones that share their latest secret, in rows that have not        *)
(* expired, share one in such rows ever after, whichever of the two stores *)
(* the next one, or neither, and whatever becomes of its expiry.           *)
InSync ==
    LET latest(e) == getRetainedSecrets(row[e]).one
    IN  latest(I) # NoSecret /\ latest(I) = latest(R)
ContinuitySurvives == InSync => []Linked(row[I], row[R])

(* A call shown as verified under a secret it has stored is one that was   *)
(* keyed with an earlier secret: setRetainedSecret drops the verification  *)
(* of a peer that came without one before isVerified is read.              *)
VerifiedMeansContinuity ==
    \A e \in Endpoint :
        sasVerified[e] /\ masterSecret[e] # None /\ row[e].one = masterSecret[e]
            => masterSecret[e].s1 # NoSecret

(* Every thread that enters the handshake leaves it: the retransmission    *)
(* count, reset by every packet sent, still runs out in the end.           *)
EveryNegotiationEnds == \A e \in Endpoint : <>(pc[e] \in Final)

(* As long as fewer datagrams are lost than an endpoint is ready to resend *)
(* the call comes through: retransmission recovers each single packet, and *)
(* the responder's audio stands in for a lost Conf2Ack.                    *)
EveryLossSurvived == <>(callConnected = Endpoint)

(* The handshake implements SecureSession.                                 *)
Session ==
    INSTANCE SecureSession WITH
        Initiator <- I, Responder <- R, NoKey <- None,
        key       <- masterSecret,
        confirmed <- (lastPacket[R] = ConfAck),
        connected <- callConnected
ImplementsSession == Session!Spec
================================================================================
