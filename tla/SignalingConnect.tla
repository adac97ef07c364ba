---------------------------- MODULE SignalingConnect ----------------------------
(***************************************************************************)
(* How a SignalingSocket is connected: LowLatencySocketConnector connects  *)
(* to all addresses of the server at once and keeps the first channel that *)
(* comes through; a monitor thread gives the TLS handshake on it ten       *)
(* seconds.                                                                *)
(*                                                                         *)
(* Code: network/LowLatencySocketConnector.java and timeoutHackConnect and *)
(* SocketConnectMonitor of signaling/SignalingSocket.java.                 *)
(*                                                                         *)
(* The two timeouts may strike whenever the code waits.  Of the platform   *)
(* (Android's libcore) it is assumed that finishConnect() closes a channel *)
(* when it throws, that a closed socket is not connected any more, and     *)
(* that closing a socket ends a handshake on it.                           *)
(***************************************************************************)
CONSTANTS
    Address,   \* what the host name of the server resolves to
    None       \* no channel has won

ASSUME AddressAssumption == None \notin Address

VARIABLES
    channel,    \* the SocketChannel of each address
    selected,   \* the selected keys that were not looked at yet
    pc,         \* where the thread that connects is
    winner,     \* the channel that connect() returned
    monitor,    \* where the SocketConnectMonitor is
    complete    \* connectionAttemptComplete

vars == <<channel, selected, pc, winner, monitor, complete>>

Init ==
    /\ channel = [a \in Address |-> "open"]
    /\ selected = {}
    /\ pc = "connecting"
    /\ winner = None
    /\ monitor = "none"
    /\ complete = FALSE

Ready(a) == channel[a] \in {"established", "refused"}

(* A key is valid until it is cancelled or its channel closed.             *)
ValidKeys == {a \in Address : channel[a] # "closed"}

-----------------------------------------------------------------------------
(* LowLatencySocketConnector.                                              *)

(* connectChannels, one address after the other.                           *)
BeginConnect(a) ==
    /\ pc = "connecting"
    /\ channel[a] = "open"
    /\ channel' = [channel EXCEPT ![a] = "connecting"]
    /\ UNCHANGED <<selected, pc, winner, monitor, complete>>

(* connect() throws at once: there is no route to the address.             *)
NoRoute(a) ==
    /\ pc = "connecting"
    /\ channel[a] = "open"
    /\ channel' = [channel EXCEPT ![a] = "closed"]
    /\ pc' = "failed"
    /\ UNCHANGED <<selected, winner, monitor, complete>>

AllBegun ==
    /\ pc = "connecting"
    /\ \A a \in Address : channel[a] # "open"
    /\ pc' = "selecting"
    /\ UNCHANGED <<channel, selected, winner, monitor, complete>>

Select ==
    /\ pc = "selecting"
    /\ \E a \in Address : Ready(a)
    /\ selected' = {a \in Address : Ready(a)}
    /\ pc' = "examining"
    /\ UNCHANGED <<channel, winner, monitor, complete>>

SelectTimesOut ==
    /\ pc = "selecting"
    /\ \A a \in Address : ~Ready(a)
    /\ pc' = "failed"
    /\ UNCHANGED <<channel, selected, winner, monitor, complete>>

(* Mutant: closes only the others that were selected with the winner.      *)
ClosesSelected(a) ==
    [b \in Address |-> IF b = a THEN "connected"
                       ELSE IF b \in selected THEN "closed" ELSE channel[b]]
closeAllButChannel(a) ==
    [b \in Address |-> IF b = a THEN "connected" ELSE "closed"]

Win(a) ==
    /\ pc = "examining"
    /\ a \in selected
    /\ channel[a] = "established"
    /\ channel' = closeAllButChannel(a)
    /\ winner' = a
    /\ monitor' = "started"
    /\ pc' = "handshake"
    /\ selected' = {}
    /\ UNCHANGED complete

(* finishConnect() throws and the key is cancelled.                        *)
Refused(a) ==
    /\ pc = "examining"
    /\ a \in selected
    /\ channel[a] = "refused"
    /\ channel' = [channel EXCEPT ![a] = "closed"]
    /\ selected' = selected \ {a}
    /\ UNCHANGED <<pc, winner, monitor, complete>>

(* Mutant: the first refusal ends the attempt.                             *)
NoneLeft      == TRUE
hasValidKeys  == ValidKeys # {}
AllConnectionsFailed == ~hasValidKeys

SelectAgain ==
    /\ pc = "examining"
    /\ selected = {}
    /\ pc' = IF AllConnectionsFailed THEN "failed" ELSE "selecting"
    /\ UNCHANGED <<channel, selected, winner, monitor, complete>>

Connector ==
    \/ \E a \in Address : BeginConnect(a) \/ NoRoute(a) \/ Win(a) \/ Refused(a)
    \/ AllBegun \/ Select \/ SelectTimesOut \/ SelectAgain

(* The network decides about a channel that connects.                      *)
Network(a) ==
    /\ channel[a] = "connecting"
    /\ \E to \in {"established", "refused"} : channel' = [channel EXCEPT ![a] = to]
    /\ UNCHANGED <<selected, pc, winner, monitor, complete>>

-----------------------------------------------------------------------------
(* timeoutHackConnect, from sslSocketFactory.createSocket on.              *)

HandshakeDone ==
    /\ pc = "handshake"
    /\ channel[winner] = "connected"
    /\ pc' = "shaken"
    /\ UNCHANGED <<channel, selected, winner, monitor, complete>>

(* createSocket() throws, and the flag is never set.                       *)
HandshakeThrows ==
    /\ pc = "handshake"
    /\ pc' = "failed"
    /\ UNCHANGED <<channel, selected, winner, monitor, complete>>

(* Mutant: isConnected() is not asked.                                     *)
BelievesHandshake == TRUE
isConnected       == channel[winner] = "connected"

Return ==
    /\ pc = "shaken"
    /\ complete' = TRUE
    /\ pc' = IF isConnected THEN "returned" ELSE "failed"
    /\ UNCHANGED <<channel, selected, winner, monitor>>

(* SocketConnectMonitor: the test before the wait and the one after it,    *)
(* each in the monitor of the SignalingSocket.                             *)
MonitorEnters ==
    /\ monitor = "started"
    /\ monitor' = IF complete THEN "over" ELSE "waiting"
    /\ UNCHANGED <<channel, selected, pc, winner, complete>>

(* Mutant: the monitor does not close the socket.                          *)
LeavesOpen    == channel
ClosesStaged  == [channel EXCEPT ![winner] = "closed"]

(* It was notified, or the ten seconds are over.                           *)
MonitorWakes ==
    /\ monitor = "waiting"
    /\ monitor' = "over"
    /\ channel' = IF complete THEN channel ELSE ClosesStaged
    /\ UNCHANGED <<selected, pc, winner, complete>>

Next ==
    \/ Connector
    \/ \E a \in Address : Network(a)
    \/ HandshakeDone \/ HandshakeThrows \/ Return
    \/ MonitorEnters \/ MonitorWakes

Spec == Init /\ [][Next]_vars

(* The thread runs and its select() times out; the monitor runs; a         *)
(* handshake on a closed socket throws.  The network and the server owe    *)
(* nothing.                                                                *)
Fairness ==
    /\ WF_vars(Connector)
    /\ WF_vars(Return)
    /\ WF_vars(MonitorEnters \/ MonitorWakes)
    /\ WF_vars(winner # None /\ channel[winner] = "closed" /\ HandshakeThrows)

FairSpec == Spec /\ Fairness

-----------------------------------------------------------------------------
(* Properties.                                                             *)

TypeOK ==
    /\ channel \in [Address -> {"open", "connecting", "established", "refused",
                                "connected", "closed"}]
    /\ selected \subseteq Address
    /\ pc \in {"connecting", "selecting", "examining", "handshake", "shaken",
               "returned", "failed"}
    /\ winner \in Address \cup {None}
    /\ monitor \in {"none", "started", "waiting", "over"}
    /\ complete \in BOOLEAN

(* Once a channel has won, every other one is closed, those that come      *)
(* through in the same moment or later included (closeAllButChannel).      *)
LosersClosed ==
    winner # None => \A a \in Address \ {winner} : channel[a] = "closed"

(* A socket that was returned is open, and the monitor, wherever it is,    *)
(* does not close it any more.                                             *)
ReturnedIsOpen == pc = "returned" => channel[winner] = "connected"

(* After the connects were begun, the attempt is not given up while there  *)
(* is a connection: the refusal of one address does not hide another's.    *)
NotGivenUpTooEarly ==
    [][(pc \in {"selecting", "examining"} /\ pc' = "failed")
         => \A a \in Address : channel[a] # "established"]_vars

(* An attempt ends, although the server may accept the connection and say  *)
(* nothing; and the monitor closes the socket of a handshake that failed.  *)
AttemptEnds ==
    /\ <>(pc \in {"returned", "failed"})
    /\ pc = "failed" /\ winner # None ~> winner # None /\ channel[winner] = "closed"
=================================================================================
