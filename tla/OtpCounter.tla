------------------------------- MODULE OtpCounter -------------------------------
(***************************************************************************)
(* The one-time passwords of the signaling requests.  Every request takes  *)
(* the next value of a counter that is kept in the preferences; the server *)
(* computes the one-time password from the account's password and that     *)
(* value.  A registration stores a new password and resets the counter.    *)
(*                                                                         *)
(* Code: signaling/OtpCounterProvider.java, the requests of                *)
(* SignalingSocket.java that use it, the sockets' constructors in          *)
(* InitiatingCallManager.java, ResponderCallManager.java and               *)
(* RedPhoneService.java, and markAsVerified of RegistrationService.java.   *)
(*                                                                         *)
(* A commit of the preferences is atomic and survives the process.  Every  *)
(* registration has a password of its own, as they are random.             *)
(***************************************************************************)
EXTENDS Naturals

CONSTANTS
    Thread,     \* call threads, signal threads and service threads
    Password,   \* the passwords of successive registrations
    MaxCounter, \* bounds the counter
    None        \* no password, nobody

ASSUME OtpAssumption == None \notin Thread /\ None \notin Password /\ MaxCounter \in Nat

VARIABLES
    password,   \* PASSWORD_PREFERENCE
    counter,    \* PASSWORD_COUNTER_PREFERENCE
    fresh,      \* passwords no registration has used yet
    monitor,    \* the thread inside getOtpCounter, which is synchronized
    service,    \* the password RedPhoneService has read when it was created
    socket,     \* the password each thread's SignalingSocket was built with
    read,       \* the counter a thread inside getOtpCounter has read
    used        \* the pairs of password and counter that requests were made of

vars == <<password, counter, fresh, monitor, service, socket, read, used>>

Init ==
    /\ password \in Password
    /\ counter = 1
    /\ fresh = Password \ {password}
    /\ monitor = None
    /\ service = None
    /\ socket = [t \in Thread |-> None]
    /\ read = [t \in Thread |-> 0]
    /\ used = {}

(* RedPhoneService.onCreate, and the system's destruction of the service.  *)
CreateService ==
    /\ service = None
    /\ service' = password
    /\ UNCHANGED <<password, counter, fresh, monitor, socket, read, used>>

DestroyService ==
    /\ service' = None
    /\ UNCHANGED <<password, counter, fresh, monitor, socket, read, used>>

(* A thread of the service builds a SignalingSocket, which keeps the       *)
(* password of the service, stored or not.                                 *)
OpenSocket(t) ==
    /\ service # None
    /\ read[t] = 0
    /\ socket' = [socket EXCEPT ![t] = service]
    /\ UNCHANGED <<password, counter, fresh, monitor, service, read, used>>

(* getOtpCounter: two steps in the provider's monitor.  Mutant: it is not  *)
(* synchronized.                                                           *)
Unsynchronized(t) == TRUE
Free(t)           == monitor = None

ReadCounter(t) ==
    /\ socket[t] # None
    /\ read[t] = 0
    /\ Free(t)
    /\ counter < MaxCounter
    /\ monitor' = t
    /\ read' = [read EXCEPT ![t] = counter]
    /\ UNCHANGED <<password, counter, fresh, service, socket, used>>

(* ... and the request that is signed with it.                             *)
CommitCounter(t) ==
    /\ read[t] # 0
    /\ counter' = read[t] + 1
    /\ used' = used \cup {<<socket[t], read[t]>>}
    /\ read' = [read EXCEPT ![t] = 0]
    /\ monitor' = None
    /\ UNCHANGED <<password, fresh, service, socket>>

(* The process dies; a counter that was read is not used.                  *)
Die ==
    /\ monitor' = None
    /\ service' = None
    /\ socket' = [t \in Thread |-> None]
    /\ read' = [t \in Thread |-> 0]
    /\ UNCHANGED <<password, counter, fresh, used>>

(* markAsVerified does not enter the provider's monitor.                   *)
markAsVerified(p) ==
    /\ p \in fresh
    /\ password' = p
    /\ counter' = 1
    /\ fresh' = fresh \ {p}
    /\ UNCHANGED <<monitor, service, socket, read, used>>

Next ==
    \/ \E t \in Thread : OpenSocket(t) \/ ReadCounter(t) \/ CommitCounter(t)
    \/ \E p \in Password : markAsVerified(p)
    \/ CreateService \/ DestroyService \/ Die

Spec == Init /\ [][Next]_vars

-----------------------------------------------------------------------------
(* Properties.                                                             *)

TypeOK ==
    /\ password \in Password
    /\ counter \in Nat
    /\ fresh \subseteq Password
    /\ monitor \in Thread \cup {None}
    /\ service \in Password \cup {None}
    /\ socket \in [Thread -> Password \cup {None}]
    /\ read \in [Thread -> Nat]
    /\ used \subseteq Password \X Nat

(* "Using this provider guarantees that the counter is incremented once    *)
(* for each use": no one-time password of the current account is made      *)
(* twice, by whichever thread, across a death of the process and beside a  *)
(* registration that resets the counter between the read and the commit.   *)
NeverReused ==
    [][\A t \in Thread :
         CommitCounter(t) /\ socket[t] = password
           => <<password, read[t]>> \notin used]_vars

(* The counter is past every value that was used with the password.        *)
CounterAhead == \A pair \in used : pair[1] = password => pair[2] < counter
=================================================================================
