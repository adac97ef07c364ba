------------------------- MODULE ZrtpHandshakeInvariant -------------------------
(***************************************************************************)
(* The inductive invariant of ZrtpHandshake.                               *)
(*                                                                         *)
(* lastPacket, the packet an endpoint would resend, says how far it has    *)
(* come.  Everything else follows from how far the two have come: what     *)
(* each of them waits for, which of its fields are set and to what, and    *)
(* what a datagram in the network or in a handler's hands can be.          *)
(***************************************************************************)
EXTENDS ZrtpHandshake

Stage(e) ==
    IF lastPacket[e] = None THEN 0
    ELSE IF e = I
    THEN IF lastPacket[I].type = "Hello"   THEN 1
    ELSE IF lastPacket[I].type = "Commit"  THEN 2
    ELSE IF lastPacket[I].type = "DHPart2" THEN 3 ELSE 4
    ELSE IF lastPacket[R].type = "Hello"    THEN 0
    ELSE IF lastPacket[R].type = "HelloAck" THEN 1
    ELSE IF lastPacket[R].type = "DHPart1"  THEN 2
    ELSE IF lastPacket[R].type = "Confirm1" THEN 3 ELSE 4

(* The state the handler that sent lastPacket left behind, and the packet  *)
(* that state waits for.                                                   *)
Expecting(e) ==
    IF e = I
    THEN IF Stage(I) = 0 THEN "EXPECTING_HELLO"
    ELSE IF Stage(I) = 1 THEN "EXPECTING_HELLO_ACK"
    ELSE IF Stage(I) = 2 THEN "EXPECTING_DH_1"
    ELSE IF Stage(I) = 3 THEN "EXPECTING_CONFIRM_ONE" ELSE "EXPECTING_CONFIRM_ACK"
    ELSE IF Stage(R) = 0 THEN "EXPECTING_HELLO"
    ELSE IF Stage(R) = 1 THEN "EXPECTING_COMMIT"
    ELSE IF Stage(R) = 2 THEN "EXPECTING_DH_2"
    ELSE IF Stage(R) = 3 THEN "EXPECTING_CONFIRM_TWO" ELSE "HANDSHAKE_COMPLETE"

(* A packet that was sent says how far its sender has come, and carries    *)
(* what the sender still holds.                                            *)
Genuine(m) ==
    \/ m = Hello(R)
    \/ m = Hello(I)  /\ Stage(I) >= 1
    \/ m = HelloAck  /\ Stage(R) >= 1
    \/ m = commit[I] /\ Stage(I) >= 2
    \/ m = localDH[R] /\ Stage(R) >= 2
    \/ m = localDH[I] /\ Stage(I) >= 3
    \/ m = Confirm1(masterSecret[R]) /\ Stage(R) >= 3
    \/ m = Confirm2(masterSecret[I]) /\ Stage(I) >= 4
    \/ m \in {ConfAck, Audio} /\ Stage(R) >= 4
    \/ m = Reply /\ Reply \in Strays

PacketsGenuine ==
    /\ \A m \in net : Genuine(m)
    /\ \A e \in Endpoint :
         /\ lastPacket[e] # None => Genuine(lastPacket[e]) /\ lastPacket[e].chain = e
         /\ pending[e] # None    => Genuine(pending[e]) /\ pending[e].chain # e

(* The responder's Hello is its first packet.                              *)
ResponderStarted == lastPacket[R] # None /\ lastPacket[R] # Audio

ThreadsInStep ==
    /\ \A e \in Endpoint :
         /\ state[e] \in {Expecting(e), "TERMINATED"}
                         \cup (IF Stage(e) = 4 THEN {"HANDSHAKE_COMPLETE"} ELSE {})
         /\ pc[e] = "handle" => pending[e] # None /\ TypeOf(pending[e]) = Awaits(Expecting(e))
         /\ socket[e] = "open" => state[e] # "TERMINATED"
         /\ pc[e] # "invalid"
         /\ pc[e] \notin Final => retransmitCount[e] <= MaxRetransmit + 1
    /\ pc[R] = "store" => Stage(R) = 4
    /\ pc[R] = "connected" => Stage(R) = 4
    /\ state[I] = "HANDSHAKE_COMPLETE" => Stage(R) = 4 \/ Reply \in Strays

(* What the initiator's handlers have set.                                 *)
InitiatorFields ==
    /\ Stage(I) >= 1 => foreignHello[I] = Hello(R)
    /\ Stage(I) >= 2 =>
         /\ Stage(R) >= 1
         /\ localDH[I] = DHPart2(KeyAgreement(Hello(R)), retained[I])
         /\ commit[I]  = Commit(Hello(R), localDH[I])
    /\ Stage(I) < 3 => masterSecret[I] = None
    /\ Stage(I) >= 3 =>
         /\ Stage(R) >= 2
         /\ foreignDH[I] = localDH[R]
         /\ masterSecret[I] =
              Master(KeyAgreement(Hello(R)), Hello(R), commit[I], localDH[R], localDH[I],
                     InitiatorS1(retained[I], localDH[R].ids))
    /\ Stage(I) >= 4 => Stage(R) >= 3

(* What the responder's handlers have set.                                 *)
ResponderFields ==
    /\ Stage(R) >= 1 => Stage(I) >= 1 /\ foreignHello[R] = Hello(I)
    /\ Stage(R) >= 2 =>
         /\ Stage(I) >= 2
         /\ commit[R]  = commit[I]
         /\ localDH[R] = DHPart1(commit[I].ka, retained[R])
    /\ Stage(R) < 3 => masterSecret[R] = None
    /\ Stage(R) >= 3 =>
         /\ Stage(I) >= 3
         /\ foreignDH[R] = localDH[I]
         /\ masterSecret[R] =
              Master(commit[I].ka, Hello(R), commit[I], localDH[R], localDH[I],
                     ResponderS1(retained[R], localDH[I].ids))
    /\ Stage(R) >= 4 => Stage(I) >= 4

(* Neither phone touches the database before it has sent its last packet.  *)
RowsUntouched ==
    \A e \in Endpoint : Stage(e) < 4 => row[e].one \in Slot /\ row[e].two \in Slot

(* What an endpoint has stored by then is the secret of the call, and the  *)
(* verification that was kept with it, or read back, is one of a call that *)
(* was keyed with an earlier secret.  The responder stores it after its    *)
(* last packet, the initiator after it has received that one.              *)
RowsKept ==
    /\ \A e \in Endpoint :
         /\ \/ row[e].one \in Slot
            \/ /\ Stage(e) = 4 /\ row[e].one = masterSecret[e]
               /\ row[e].verified => masterSecret[e].s1 # NoSecret
         /\ sasVerified[e] => pc[e] = "connected" /\ row[e].verified
    /\ Stage(R) = 4 => pc[R] \in {"store", "crashed"} \/ row[R].one = masterSecret[R]
    /\ row[I].one \in Slot \/ Stage(R) = 4 \/ Strays # {}

(* An endpoint may yet store a secret; afterwards it never will.           *)
NotYet(e) ==
    pc[e] \in {"handle", "store"} \/ state[e] \notin {"HANDSHAKE_COMPLETE", "TERMINATED"}

(* Both phones hold the earlier secret s, in rows that have not expired,   *)
(* in the first place while they may yet store another one.                *)
BothHold(s) ==
    \A e \in Endpoint :
        /\ s \in {row[e].one, row[e].two} /\ (NotYet(e) => row[e].one = s)
        /\ row[e].expires # "past"

(* Everything the proofs of KeysAgree and NoRejection need: no handler     *)
(* meets a packet that its sender's fields, and its own, do not explain.   *)
HandshakeInvariant ==
    /\ PacketsGenuine
    /\ ResponderStarted
    /\ ThreadsInStep
    /\ InitiatorFields
    /\ ResponderFields
    /\ RowsUntouched

(* The inductive invariant.                                                *)
IInv == TypeOK /\ HandshakeInvariant
================================================================================
