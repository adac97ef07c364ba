------------------------------ MODULE AudioStream ------------------------------
(***************************************************************************)
(* The encrypted audio of one call, in both directions: the microphone     *)
(* thread of each phone encrypts frames and sends them (RtpAudioSender),   *)
(* the call thread of the other receives and decrypts them                 *)
(* (RtpAudioReceiver), and the 16 bits of the sequence number that travel  *)
(* are extended to the position in the keystream by SequenceCounter.       *)
(*                                                                         *)
(* Code: jni/redphone/RtpAudioSender.cpp, RtpAudioReceiver.cpp,            *)
(* RtpPacket.cpp, SequenceCounter.h, SrtpStream.cpp, and runAudio of the   *)
(* two call managers.                                                      *)
(*                                                                         *)
(* A keystream is a record of the key and the IV it starts from; a MAC     *)
(* verifies if it was made with the receiver's key.  The MAC covers the    *)
(* header and the ciphertext and not the extended sequence number, so a    *)
(* wrong extension is not noticed.                                         *)
(***************************************************************************)
EXTENDS Integers

CONSTANTS
    HalfRange,   \* 2^15: a sequence number in a header has twice as many values
    WordRange,   \* 2^32: the values of RtpAudioSender's sequenceNumber
    IvRange,     \* 2^48: the values of the six bytes setIv takes from an index
    MaxFrames,   \* how many frames each phone captures
    Strays,      \* sequence numbers of late handshake packets and relay answers
    None         \* no datagram yet

I == "Initiator"
R == "Responder"
Endpoint == {I, R}
Peer(e)  == IF e = I THEN R ELSE I

ASSUME RangeAssumption ==
    /\ HalfRange \in Nat \ {0}
    /\ WordRange \in Nat \ {0}
    /\ IvRange \in Nat \ {0}
    /\ MaxFrames \in Nat
    /\ MaxFrames <= WordRange
    /\ WordRange <= IvRange
ASSUME StrayAssumption == Strays \subseteq Nat
ASSUME NoneAssumption == None \notin Endpoint

VARIABLES
    sequenceNumber,  \* RtpAudioSender.sequenceNumber
    prevShortId,     \* SequenceCounter.prevShortId
    prevLongId,      \* SequenceCounter.prevLongId
    net,             \* every datagram sent so far
    frames,          \* how many frames the microphone thread has sent
    last,            \* the position of the datagram received last
    played           \* what became of that datagram

vars == <<sequenceNumber, prevShortId, prevLongId, net, frames, last, played>>

-----------------------------------------------------------------------------
ShortRange == 2 * HalfRange

(* SequenceCounter.convertNext: the shorter way round from the previous    *)
(* number.  INT16_MIN itself counts as a step back.                        *)
(* Mutant: the lower bound is not treated.                                 *)
OnlyForward(delta) == IF delta > HalfRange - 1 THEN delta - ShortRange ELSE delta

ShortestStep(delta) ==
    IF delta > HalfRange - 1 THEN delta - ShortRange
    ELSE IF delta < -HalfRange THEN delta + ShortRange
    ELSE delta

convertNext(nextShortId, shortId, longId) == longId + ShortestStep(nextShortId - shortId)

(* runAudio passes the keys of its own role for sending.                   *)
(* Mutant: both phones send under the initiator's key.                     *)
InitiatorKey(e) == I

SenderKey(e)   == e
ReceiverKey(e) == Peer(e)

Iv(index) == index % IvRange

(* RtpPacket: htons keeps the low 16 bits.                                 *)
Truncated(n) == n % ShortRange

(* Mutant: the counter of the sender has 16 bits as well.                  *)
ShortCount(n) == (n + 1) % ShortRange

NextSequence(n) == (n + 1) % WordRange

(* SrtpStream.encrypt: "position" is the place of the frame in the call,  *)
(* of which the header carries the low 16 bits of the sender's counter.    *)
Packet(e, position, n) ==
    [from |-> e, position |-> position, short |-> Truncated(n),
     macKey |-> SenderKey(e), stream |-> [key |-> SenderKey(e), iv |-> Iv(n)]]

(* A datagram that is not SRTP: no key made its MAC, and the bytes at the  *)
(* place of the sequence number say n.                                     *)
Stray(e, n) ==
    [from |-> e, position |-> n, short |-> Truncated(n), macKey |-> None,
     stream |-> None]

(* SrtpStream.decrypt gives up if the MAC is not the receiver's.           *)
Decrypted(e, p, index) ==
    IF p.macKey = ReceiverKey(e)
    THEN [status |-> "played", sent |-> p.stream,
          used |-> [key |-> ReceiverKey(e), iv |-> Iv(index)], macKey |-> p.macKey]
    ELSE [status |-> "rejected", sent |-> p.stream, used |-> None, macKey |-> p.macKey]

(* The network delivers nothing that is half the range or more away from   *)
(* the datagram before it: 32768 frames are 20 minutes.                    *)
InWindow(e, p) == p.position - last[e] \in -HalfRange..(HalfRange - 1)

-----------------------------------------------------------------------------
Init ==
    /\ sequenceNumber = [e \in Endpoint |-> 0]
    /\ prevShortId = [e \in Endpoint |-> 0]
    /\ prevLongId = [e \in Endpoint |-> 0]
    /\ net = {Stray(e, n) : e \in Endpoint, n \in Strays}
    /\ frames = [e \in Endpoint |-> 0]
    /\ last = [e \in Endpoint |-> 0]
    /\ played = [e \in Endpoint |->
                    [status |-> "nothing", sent |-> None, used |-> None, macKey |-> None]]

(* RtpAudioSender.send, called by the microphone thread for every frame.   *)
(* A sendto that fails is a datagram that is never received.               *)
Send(e) ==
    /\ frames[e] < MaxFrames
    /\ net' = net \cup {Packet(e, frames[e], sequenceNumber[e])}
    /\ sequenceNumber' = [sequenceNumber EXCEPT ![e] = NextSequence(@)]
    /\ frames' = [frames EXCEPT ![e] = @ + 1]
    /\ UNCHANGED <<prevShortId, prevLongId, last, played>>

(* RtpAudioReceiver.receive: the counter moves before the MAC is checked.  *)
(* A datagram may be lost, repeated and overtaken.                         *)
Receive(e, p) ==
    /\ p.from = Peer(e)
    /\ InWindow(e, p)
    /\ LET index == convertNext(p.short, prevShortId[e], prevLongId[e])
       IN  /\ prevShortId' = [prevShortId EXCEPT ![e] = p.short]
           /\ prevLongId' = [prevLongId EXCEPT ![e] = index]
           /\ played' = [played EXCEPT ![e] = Decrypted(e, p, index)]
    /\ last' = [last EXCEPT ![e] = p.position]
    /\ UNCHANGED <<sequenceNumber, net, frames>>

Next == \E e \in Endpoint : Send(e) \/ \E p \in net : Receive(e, p)

Spec == Init /\ [][Next]_vars

-----------------------------------------------------------------------------
(* Properties.                                                             *)

Keystream == [key : Endpoint, iv : 0..(IvRange - 1)] \cup {None}
Datagram  == [from : Endpoint, position : Nat, short : 0..(ShortRange - 1),
              macKey : Endpoint \cup {None}, stream : Keystream]

(* The counters stay in the ranges of their C types.                       *)
TypeOK ==
    /\ sequenceNumber \in [Endpoint -> 0..(WordRange - 1)]
    /\ prevShortId \in [Endpoint -> 0..(ShortRange - 1)]
    /\ prevLongId \in [Endpoint -> Int]
    /\ net \subseteq Datagram
    /\ frames \in [Endpoint -> 0..MaxFrames]
    /\ last \in [Endpoint -> Nat]
    /\ played \in [Endpoint -> [status : {"nothing", "played", "rejected"},
                                sent : Keystream, used : Keystream,
                                macKey : Endpoint \cup {None}]]

(* What a phone plays was decrypted with the keystream it was encrypted    *)
(* with, however datagrams were lost, repeated or reordered, and whatever  *)
(* came between them that failed its MAC.                                  *)
RightKeystream ==
    \A e \in Endpoint : played[e].status = "played" => played[e].used = played[e].sent

(* Only datagrams that are not the peer's audio are rejected.              *)
GenuineAccepted ==
    \A e \in Endpoint : played[e].status = "rejected" => played[e].macKey = None

(* No keystream encrypts two frames, of one phone or of the two.           *)
KeystreamOnce ==
    \A p, q \in net :
        p.stream # None /\ p.stream = q.stream
            => p.from = q.from /\ p.position = q.position

(* The extended sequence number of the receiver is the position of the     *)
(* datagram it received last, a stray's too.                               *)
CounterFollows ==
    \A e \in Endpoint :
        /\ prevLongId[e] = last[e]
        /\ prevShortId[e] = last[e] % ShortRange

(* The sender's counter is the number of its next frame.                   *)
SenderInStep ==
    \A e \in Endpoint : frames[e] < MaxFrames => sequenceNumber[e] = frames[e]

(* Every datagram is a frame sent before, or a stray.                      *)
DatagramsKnown ==
    \A p \in net :
        \/ p.position < frames[p.from] /\ p = Packet(p.from, p.position, p.position)
        \/ p = Stray(p.from, p.position)

(* What every step of the stream maintains: receiver, sender and network   *)
(* agree on the position of every frame.                                   *)
AudioInvariant == CounterFollows /\ SenderInStep /\ DatagramsKnown
================================================================================
