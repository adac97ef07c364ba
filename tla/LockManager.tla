------------------------------- MODULE LockManager -------------------------------
(***************************************************************************)
(* The wake locks, the keyguard and the accelerometer during a call.  The  *)
(* service and the call threads tell the LockManager the state of the      *)
(* phone; in a call, the accelerometer's events, which the main thread     *)
(* debounces, make it choose the locks for the posture of the phone.       *)
(*                                                                         *)
(* Code: call/LockManager.java, AccelerometerListener.java and the calls   *)
(* of updatePhoneState in RedPhoneService.java.                            *)
(*                                                                         *)
(* updatePhoneState is not synchronized; setLockState and the listener's   *)
(* enable and setOrientation each are.  So every thread is a list of       *)
(* atomic steps that are left to do.  ProximityLock never has a lock.      *)
(* Bounds: MaxCalls calls, whose threads tell their states one after the   *)
(* other.                                                                  *)
(***************************************************************************)
EXTENDS Naturals, Sequences

CONSTANTS
    MaxCalls,         \* bounds the number of calls
    wifiLockEnforced  \* the policy of the device's Wifi

ASSUME LockAssumption == MaxCalls \in Nat /\ wifiLockEnforced \in BOOLEAN

Thread    == {"service", "call", "main"}
Lock      == {"full", "partial", "wifi"}
Posture   == {"vertical", "horizontal"}

VARIABLES
    calls,         \* how many calls have begun
    open,          \* the service has a call and refuses another
    told,          \* the last PhoneState that was told
    toTell,        \* the states the call threads may still tell
    todo,          \* the steps each thread has left
    held,          \* the locks that are held
    keyguard,      \* the system's keyguard is enabled
    keyguardDisabled,
    orientation,   \* LockManager.orientation
    registered,    \* the accelerometer delivers events
    mOrientation, mPendingOrientation,
    loaded,        \* what the handler has read of mPendingOrientation
    message,       \* ORIENTATION_CHANGED is in the main thread's queue
    posture,       \* how the phone is held
    alone,         \* history: nothing overlapped with the last update
    overlapped     \* history: updates of two threads have overlapped

locks    == <<held, keyguard, keyguardDisabled>>
listener == <<registered, mOrientation, mPendingOrientation, loaded, message>>
phone    == <<calls, open, told, toTell, posture, alone, overlapped>>
vars     == <<phone, todo, locks, orientation, listener>>

Init ==
    /\ calls = 0
    /\ open = FALSE
    /\ told = "IDLE"
    /\ toTell = <<>>
    /\ todo = [t \in Thread |-> <<>>]
    /\ held = {}
    /\ keyguard = TRUE
    /\ keyguardDisabled = FALSE
    /\ orientation = "unknown"
    /\ registered = FALSE
    /\ mOrientation = "unknown"
    /\ mPendingOrientation = "unknown"
    /\ loaded = "unknown"
    /\ message = FALSE
    /\ posture \in Posture
    /\ alone = TRUE
    /\ overlapped = FALSE

AtRest(t) == todo[t] = <<>>

(* Thread t begins an update.                                              *)
Begins(t) ==
    /\ alone' = \A u \in Thread \ {t} : AtRest(u)
    /\ overlapped' = (overlapped \/ \E u \in Thread \ {t, "main"} : ~AtRest(u))

-----------------------------------------------------------------------------
(* updatePhoneState: its steps, and who tells what.                        *)

(* Mutant: the accelerometer is left on.                                   *)
LeavesSensor == <<"SLEEP", "testKeyguard">>
ToIdle       == <<"SLEEP", "disable", "testKeyguard">>

Steps(state) ==
    CASE state = "IDLE"        -> ToIdle
      [] state = "PROCESSING"  -> <<"PARTIAL", "disable", "testKeyguard">>
      [] state = "INTERACTIVE" -> <<"FULL", "disable", "disableKeyguard">>
      [] state = "IN_CALL"     -> <<"enable", "updateInCallLockState", "disableKeyguard">>

Tell(t, state) ==
    /\ AtRest(t)
    /\ todo' = [todo EXCEPT ![t] = Steps(state)]
    /\ told' = state
    /\ Begins(t)
    /\ UNCHANGED <<posture, locks, orientation, listener>>

(* handleIncomingCall and handleOutgoingCall, unless the service is busy.  *)
(* A late notifyCallConnected, which would make it refuse an outgoing call *)
(* once more, is left out.                                                 *)
BeginCall ==
    /\ calls < MaxCalls
    /\ ~open
    /\ calls' = calls + 1
    /\ open' = TRUE
    /\ \/ /\ Tell("service", "PROCESSING")
          /\ toTell' = toTell \o <<"INTERACTIVE", "IN_CALL">>
       \/ /\ Tell("service", "INTERACTIVE")
          /\ toTell' = Append(toTell, "IN_CALL")

(* A failed call sets the state to idle before it calls terminate, so that *)
(* another call may come in between.                                       *)
ResetState ==
    /\ open
    /\ open' = FALSE
    /\ UNCHANGED <<calls, told, toTell, posture, alone, overlapped, todo, locks, orientation, listener>>

(* terminate, all of it in the service's monitor; it may be called for a   *)
(* call that is over.                                                      *)
Terminate ==
    /\ calls > 0
    /\ AtRest("service")
    /\ todo' = [todo EXCEPT !["service"] = Steps("PROCESSING") \o <<"IDLE">>]
    /\ told' = "PROCESSING"
    /\ Begins("service")
    /\ open' = FALSE
    /\ UNCHANGED <<calls, toTell, posture, locks, orientation, listener>>

TerminateEnds ==
    /\ todo["service"] = <<"IDLE">>
    /\ todo' = [todo EXCEPT !["service"] = Steps("IDLE")]
    /\ told' = "IDLE"
    /\ Begins("service")
    /\ UNCHANGED <<calls, open, toTell, posture, locks, orientation, listener>>

(* notifyCallFresh and notifyCallConnected, which a call thread may reach  *)
(* after the call was terminated, or not at all.                           *)
CallTells ==
    /\ toTell # <<>>
    /\ toTell' = Tail(toTell)
    /\ Tell("call", Head(toTell))
    /\ UNCHANGED <<calls, open>>

CallSkips ==
    /\ toTell # <<>>
    /\ toTell' = Tail(toTell)
    /\ UNCHANGED <<calls, open, told, posture, alone, overlapped, todo, locks, orientation, listener>>

-----------------------------------------------------------------------------
(* The main thread: events of the accelerometer and the debounced message. *)

MoveTo(p) ==
    /\ posture # p
    /\ posture' = p
    /\ UNCHANGED <<calls, open, told, toTell, alone, overlapped, todo, locks, orientation, listener>>

MainBegins(steps) ==
    /\ AtRest("main")
    /\ todo' = [todo EXCEPT !["main"] = steps]
    /\ alone' = (alone /\ \A u \in Thread : AtRest(u))
    /\ UNCHANGED <<calls, open, told, toTell, posture, overlapped, locks, orientation>>

onSensorEvent ==
    /\ registered
    /\ MainBegins(<<posture>>)
    /\ UNCHANGED listener

handleMessage ==
    /\ message
    /\ message' = FALSE
    /\ MainBegins(<<"load", "store", "orientationChanged", "updateInCallLockState">>)
    /\ UNCHANGED <<registered, mOrientation, mPendingOrientation, loaded>>

-----------------------------------------------------------------------------
(* The steps.                                                              *)

(* updateInCallLockState reads the orientation first.                      *)
InCallLockState ==
    IF orientation # "horizontal" /\ wifiLockEnforced THEN "PROXIMITY" ELSE "FULL"

Locks(state) ==
    CASE state = "FULL"                     -> Lock
      [] state \in {"PARTIAL", "PROXIMITY"} -> {"partial", "wifi"}
      [] state = "SLEEP"                    -> {}

setLockState(t) ==
    /\ Head(todo[t]) \in {"FULL", "PARTIAL", "SLEEP", "PROXIMITY"}
    /\ held' = Locks(Head(todo[t]))
    /\ todo' = [todo EXCEPT ![t] = Tail(@)]
    /\ UNCHANGED <<phone, keyguard, keyguardDisabled, orientation, listener>>

updateInCallLockState(t) ==
    /\ Head(todo[t]) = "updateInCallLockState"
    /\ todo' = [todo EXCEPT ![t] = <<InCallLockState>> \o Tail(@)]
    /\ UNCHANGED <<phone, locks, orientation, listener>>

Enable(t) ==
    /\ Head(todo[t]) = "enable"
    /\ registered' = TRUE
    /\ mOrientation' = "unknown"
    /\ mPendingOrientation' = "unknown"
    /\ todo' = [todo EXCEPT ![t] = Tail(@)]
    /\ UNCHANGED <<phone, locks, orientation, loaded, message>>

(* Mutant: the messages are not removed.                                   *)
RemoveMessages == FALSE

Disable(t) ==
    /\ Head(todo[t]) = "disable"
    /\ registered' = FALSE
    /\ message' = RemoveMessages
    /\ todo' = [todo EXCEPT ![t] = Tail(@)]
    /\ UNCHANGED <<phone, locks, orientation, mOrientation, mPendingOrientation, loaded>>

(* disableKeyguard and maybeEnableKeyguard: test, call, note.  A keyguard  *)
(* that is not locked is left alone.                                       *)
Keyguard(t) ==
    /\ \/ /\ Head(todo[t]) = "disableKeyguard"
          /\ todo' = [todo EXCEPT ![t] = Tail(@)]
          /\ UNCHANGED locks
       \/ /\ Head(todo[t]) = "disableKeyguard"
          /\ keyguard' = FALSE
          /\ todo' = [todo EXCEPT ![t] = <<"noteDisabled">> \o Tail(@)]
          /\ UNCHANGED <<held, keyguardDisabled>>
       \/ /\ Head(todo[t]) = "testKeyguard"
          /\ todo' = [todo EXCEPT ![t] = IF keyguardDisabled
                                         THEN <<"reenable", "noteEnabled">> \o Tail(@)
                                         ELSE Tail(@)]
          /\ UNCHANGED locks
       \/ /\ Head(todo[t]) = "reenable"
          /\ keyguard' = TRUE
          /\ todo' = [todo EXCEPT ![t] = Tail(@)]
          /\ UNCHANGED <<held, keyguardDisabled>>
       \/ /\ Head(todo[t]) \in {"noteDisabled", "noteEnabled"}
          /\ keyguardDisabled' = (Head(todo[t]) = "noteDisabled")
          /\ todo' = [todo EXCEPT ![t] = Tail(@)]
          /\ UNCHANGED <<held, keyguard>>
    /\ UNCHANGED <<phone, orientation, listener>>

(* setOrientation: whether the listener is enabled is not asked again.     *)
(* Mutant: a posture that came and went stays the pending one.             *)
StillPending(p) == mPendingOrientation
Pending(p)      == IF mOrientation # p THEN p ELSE "unknown"

setOrientation ==
    /\ Head(todo["main"]) \in Posture
    /\ LET p == Head(todo["main"]) IN
       IF mPendingOrientation = p
       THEN UNCHANGED <<mPendingOrientation, message>>
       ELSE /\ message' = (mOrientation # p)
            /\ mPendingOrientation' = Pending(p)
    /\ todo' = [todo EXCEPT !["main"] = Tail(@)]
    /\ UNCHANGED <<phone, locks, orientation, registered, mOrientation, loaded>>

(* The handler locks itself, not the listener.                             *)
Handler ==
    /\ \/ /\ Head(todo["main"]) = "load"
          /\ loaded' = mPendingOrientation
          /\ UNCHANGED <<mOrientation, orientation>>
       \/ /\ Head(todo["main"]) = "store"
          /\ mOrientation' = loaded
          /\ loaded' = "unknown"
          /\ UNCHANGED orientation
       \/ /\ Head(todo["main"]) = "orientationChanged"
          /\ orientation' = mOrientation
          /\ UNCHANGED <<loaded, mOrientation>>
    /\ todo' = [todo EXCEPT !["main"] = Tail(@)]
    /\ UNCHANGED <<phone, locks, registered, mPendingOrientation, message>>

Step(t) ==
    /\ ~AtRest(t)
    /\ setLockState(t) \/ updateInCallLockState(t) \/ Enable(t) \/ Disable(t) \/ Keyguard(t)

MainStep == ~AtRest("main") /\ (setOrientation \/ Handler)

Next ==
    \/ BeginCall \/ ResetState \/ Terminate \/ TerminateEnds \/ CallTells \/ CallSkips
    \/ \E p \in Posture : MoveTo(p)
    \/ onSensorEvent \/ handleMessage
    \/ \E t \in Thread : Step(t)
    \/ MainStep

Spec == Init /\ [][Next]_vars

(* The threads run, a terminate() that was begun goes on, the sensor       *)
(* delivers while it is registered, and the main thread's queue is in the  *)
(* order of time, so that events do not keep a message waiting.            *)
FairSpec ==
    /\ Spec
    /\ \A t \in Thread : WF_vars(Step(t))
    /\ WF_vars(MainStep)
    /\ WF_vars(TerminateEnds)
    /\ WF_vars(onSensorEvent)
    /\ SF_vars(handleMessage)

-----------------------------------------------------------------------------
(* Properties.                                                             *)

(* The steps that a thread may have left to do.                            *)
LockState == {"FULL", "PARTIAL", "SLEEP", "PROXIMITY"}
OnMain    == Posture \cup LockState
             \cup {"load", "store", "orientationChanged", "updateInCallLockState"}
StepName  == OnMain \cup {"IDLE", "enable", "disable", "disableKeyguard", "testKeyguard",
                         "reenable", "noteDisabled", "noteEnabled"}

TypeOK ==
    /\ calls \in 0..MaxCalls
    /\ open \in BOOLEAN
    /\ told \in {"IDLE", "PROCESSING", "INTERACTIVE", "IN_CALL"}
    /\ toTell \in Seq({"INTERACTIVE", "IN_CALL"})
    /\ todo \in [Thread -> Seq(StepName)]
    /\ held \subseteq Lock
    /\ orientation \in Posture \cup {"unknown"}
    /\ mOrientation \in Posture \cup {"unknown"}
    /\ mPendingOrientation \in Posture \cup {"unknown"}
    /\ loaded \in Posture \cup {"unknown"}
    /\ posture \in Posture
    /\ {keyguard, keyguardDisabled, registered, message, alone, overlapped} \subseteq BOOLEAN

(* A phone that was told to be idle while nothing else was going on sleeps *)
(* for good: no lock is held, the accelerometer is off, no message that    *)
(* was left in the queue will take the locks again, and the keyguard is    *)
(* back, if the two updating threads have kept out of each other's way.    *)
SleepsWhenIdle ==
    told = "IDLE" /\ alone /\ (\A t \in Thread : AtRest(t))
        => held = {} /\ ~registered /\ ~message /\ (keyguard \/ overlapped)

(* The types, and the phone that rests.                                    *)
LockInvariant == TypeOK /\ SleepsWhenIdle

(* In a call that nothing else overlaps, the locks come to fit the way the *)
(* phone is held, whatever the postures before it and however short they   *)
(* were: the debounce loses no change.                                     *)
Steady(p) == told = "IN_CALL" /\ alone /\ posture = p /\ AtRest("call") /\ AtRest("service")
Fits(p)   == /\ orientation = p
             /\ held = IF p = "vertical" /\ wifiLockEnforced
                       THEN {"partial", "wifi"} ELSE Lock

PostureApplied == \A p \in Posture : <>[]Steady(p) => <>[]Fits(p)
==================================================================================
