---------------------------- MODULE CallServiceProofs ----------------------------
(***************************************************************************)
(* The service and its calls, for any number of calls, of times the screen *)
(* comes to the front, and of busy signals.                                *)
(***************************************************************************)
EXTENDS CallService, TLAPS

(* What the fields of a call manager say of each other.                    *)
ManagersKept ==
    \A c \in Call :
        /\ pc[c] = "none" => ~terminated[c] /\ signals[c] = "none" /\ answer[c] = "none"
        /\ pc[c] # "none" => role[c] \in {"initiator", "responder"}
        /\ answer[c] # "none" => role[c] = "responder"

(* The current call has begun, and nobody has terminated it.               *)
CurrentGoesOn == current # None => pc[current] # "none" /\ ~terminated[current]

(* Unless a dropped call interfered, the live call is the current one, and *)
(* the state is not reset under it.                                        *)
LiveIsCurrent ==
    late = {} =>
      /\ \A c \in Call : Live(c) => c = current
      /\ current # None /\ state = "IDLE" /\ ~crashed => ~Live(current)

ServiceIInv ==
    TypeOK /\ RestingState /\ PeerTold /\ ManagersKept /\ CurrentGoesOn /\ LiveIsCurrent

LEMMA NoMessages == <<>> \in Seq(Message_)
  OBVIOUS

LEMMA InitInvariant == Init => ServiceIInv
<1> SUFFICES ASSUME Init PROVE ServiceIInv
  OBVIOUS
<1>1. buffered \in Seq(Message_) /\ queue \in Seq(Message_)
  BY NoMessages DEF Init
<1>2. /\ role \in [Call -> {"initiator", "responder", None}]
      /\ terminated \in [Call -> BOOLEAN] /\ hangup \in [Call -> BOOLEAN]
      /\ timers \in 0..MaxTimers /\ binds \in 0..MaxBinds
  BY ServiceAssumption DEF Init
<1>3. TypeOK
  BY <1>1, <1>2 DEF Init, TypeOK
<1>4. QED
  BY <1>3 DEF Init, ServiceIInv, RestingState, PeerTold, ManagersKept, CurrentGoesOn,
              LiveIsCurrent, Live

-----------------------------------------------------------------------------
(* The steps keep what is not about types.                                 *)

Rest == RestingState /\ PeerTold /\ ManagersKept /\ CurrentGoesOn /\ LiveIsCurrent

LEMMA NewCallStep ==
    ASSUME ServiceIInv, ~crashed, NEW c \in Call, NEW r \in {"initiator", "responder"},
           NewCall(c, r), state' \in {"RINGING", "DIALING"},
           current = None \/ state = "IDLE"
    PROVE  Rest'
<1> USE ServiceAssumption DEF ServiceIInv, TypeOK, NewCall
<1>1. RestingState'
  BY DEF RestingState
<1>2. PeerTold'
  BY DEF PeerTold
<1>3. ManagersKept'
  <2>1. ASSUME NEW d \in Call, d # c
        PROVE  /\ pc'[d] = pc[d] /\ role'[d] = role[d] /\ signals' = signals
               /\ terminated' = terminated /\ answer' = answer
    BY <2>1
  <2>2. pc'[c] = "signaling" /\ role'[c] = r /\ answer'[c] = "none"
    BY DEF ManagersKept
  <2>3. QED
    BY <2>1, <2>2 DEF ManagersKept
<1>4. CurrentGoesOn'
  BY DEF CurrentGoesOn, ManagersKept
<1>5. LiveIsCurrent'
  <2>1. ASSUME late = {}, NEW d \in Call, Live(d)' PROVE d = c
    <3>1. CASE d # c
      <4>1. Live(d)
        BY <2>1, <3>1 DEF Live
      <4>2. ~Live(d)
        BY <2>1, <4>1 DEF LiveIsCurrent
      <4>3. QED
        BY <4>1, <4>2
    <3>2. QED
      BY <3>1
  <2>2. QED
    BY <2>1 DEF LiveIsCurrent
<1>6. QED
  BY <1>1, <1>2, <1>3, <1>4, <1>5 DEF Rest

(* RedPhoneService.terminate, whoever calls it and wherever that thread    *)
(* goes: no call becomes live, and no signals start.                       *)
LEMMA TerminateStep ==
    ASSUME ServiceIInv, terminate, UNCHANGED <<role, late, crashed>>,
           \A c \in Call :
             /\ Live(c)' => Live(c)
             /\ pc'[c] = "none" <=> pc[c] = "none"
             /\ signals'[c] = "none" <=> signals[c] = "none"
             /\ signals'[c] = "over" <=> signals[c] = "over"
    PROVE  Rest'
<1> USE DEF ServiceIInv
<1>1. current' = None /\ state' = "IDLE" /\ phoneState' = "IDLE"
  BY DEF terminate, ManagerDropped, LocksReleased
<1>2. RestingState' /\ CurrentGoesOn'
  BY <1>1 DEF RestingState, CurrentGoesOn
<1>3. current \in Call \/ current = None
  BY DEF TypeOK
<1>4. ASSUME NEW c \in Call
      PROVE  /\ terminated'[c] = (terminated[c] \/ c = current)
             /\ hangup'[c] = IF c = current THEN signals[c] # "none" ELSE hangup[c]
             /\ answer'[c] = IF c = current /\ role[c] = "responder" /\ answer[c] = "none"
                             THEN "denied" ELSE answer[c]
  <2>1. terminated \in [Call -> BOOLEAN] /\ terminated[c] \in BOOLEAN
    BY DEF TypeOK
  <2>2. hangup \in [Call -> BOOLEAN] /\ answer \in [Call -> {"none", "accepted", "denied"}]
    BY DEF TypeOK
  <2>3. None \notin Call
    BY ServiceAssumption
  <2>4. CASE current = None
    BY <2>1, <2>2, <2>3, <2>4 DEF terminate
  <2>5. CASE current \in Call
    <3>1. /\ terminated' = [terminated EXCEPT ![current] = TRUE]
          /\ answer' = Unanswered(current) /\ hangup' = HangupOf(current)
      BY <2>3, <2>5 DEF terminate
    <3>2. terminated'[c] = (terminated[c] \/ c = current)
      BY <2>1, <2>5, <3>1
    <3>3. hangup'[c] = IF c = current THEN signals[c] # "none" ELSE hangup[c]
      BY <2>2, <2>5, <3>1 DEF HangupOf
    <3>4. answer'[c] = IF c = current /\ role[c] = "responder" /\ answer[c] = "none"
                      THEN "denied" ELSE answer[c]
      BY <2>2, <2>5, <3>1 DEF Unanswered
    <3>5. QED
      BY <3>2, <3>3, <3>4
  <2>6. QED
    BY <1>3, <2>4, <2>5
<1>5. PeerTold'
  BY <1>4 DEF PeerTold
<1>6. ManagersKept'
  <2>1. ASSUME NEW c \in Call, pc'[c] = "none"
        PROVE  ~terminated'[c] /\ signals'[c] = "none" /\ answer'[c] = "none"
    <3>1. pc[c] = "none" /\ c # None
      BY <2>1, ServiceAssumption
    <3>2. c # current
      BY <3>1 DEF CurrentGoesOn
    <3>3. QED
      BY <1>4, <3>1, <3>2 DEF ManagersKept
  <2>2. ASSUME NEW c \in Call
        PROVE  /\ pc'[c] # "none" => role'[c] \in {"initiator", "responder"}
               /\ answer'[c] # "none" => role'[c] = "responder"
    BY <1>4 DEF ManagersKept
  <2>3. QED
    BY <2>1, <2>2 DEF ManagersKept
<1>7. LiveIsCurrent'
  <2>1. ASSUME late = {}, NEW c \in Call, Live(c)' PROVE FALSE
    <3>1. Live(c) /\ ~terminated'[c]
      BY <2>1 DEF Live
    <3>2. c = current
      BY <2>1, <3>1 DEF LiveIsCurrent
    <3>3. QED
      BY <1>4, <3>1, <3>2
  <2>2. QED
    BY <1>1, <2>1 DEF LiveIsCurrent
<1>8. QED
  BY <1>2, <1>5, <1>6, <1>7 DEF Rest

LEMMA StaysTerminated ==
    ASSUME ServiceIInv, terminate, NEW c \in Call, terminated[c] PROVE terminated'[c]
<1>1. terminated' = terminated \/ terminated' = [terminated EXCEPT ![current] = TRUE]
  BY DEF terminate
<1>2. QED
  BY <1>1 DEF ServiceIInv, TypeOK

(* The two that come from outside a call's threads.                        *)
LEMMA HangupStep == ASSUME ServiceIInv, HangupCall \/ BusyTimer PROVE Rest'
<1>1. terminate /\ UNCHANGED <<role, pc, signals, late, crashed>>
  BY DEF HangupCall, BusyTimer
<1>2. ASSUME NEW c \in Call, Live(c)' PROVE Live(c)
  BY <1>1, <1>2, StaysTerminated DEF Live
<1>3. QED
  BY <1>1, <1>2, TerminateStep

LEMMA DenyStep == ASSUME ServiceIInv, ~crashed, DenyCall PROVE Rest'
<1> USE ServiceAssumption DEF ServiceIInv, TypeOK, DenyCall, Received
<1>1. CASE CastFails
  BY <1>1 DEF Rest, RestingState, PeerTold, ManagersKept, CurrentGoesOn, LiveIsCurrent, Live,
              callVars, CastFails
<1>2. CASE ~CastFails
  <2>1. RestingState' /\ CurrentGoesOn'
    BY <1>2 DEF RestingState, CurrentGoesOn, ManagerDropped, LocksReleased
  <2>2. PeerTold'
    BY <1>2 DEF PeerTold, HangupOf
  <2>3. ManagersKept'
    BY <1>2 DEF ManagersKept, CurrentGoesOn, CastFails
  <2>4. ASSUME late = {}, NEW c \in Call, Live(c)' PROVE FALSE
    <3>1. pc'[c] = pc[c] /\ terminated'[c] = (terminated[c] \/ c = current)
      BY <1>2
    <3>2. Live(c) /\ c # current
      BY <2>4, <3>1 DEF Live
    <3>3. QED
      BY <2>4, <3>2 DEF LiveIsCurrent
  <2>5. LiveIsCurrent'
    <3>1. UNCHANGED late /\ current' = None
      BY <1>2 DEF ManagerDropped
    <3>2. QED
      BY <2>4, <3>1 DEF LiveIsCurrent
  <2>6. QED
    BY <2>1, <2>2, <2>3, <2>5 DEF Rest
<1>3. QED
  BY <1>1, <1>2

LEMMA AnswerStep == ASSUME ServiceIInv, ~crashed, AnswerCall PROVE Rest'
<1> USE ServiceAssumption DEF ServiceIInv, TypeOK, AnswerCall, Received, CastFails
<1>1. RestingState' /\ CurrentGoesOn'
  BY DEF RestingState, CurrentGoesOn
<1>2. PeerTold'
  BY DEF PeerTold
<1>3. ManagersKept'
  BY DEF ManagersKept, CurrentGoesOn
<1>4. LiveIsCurrent'
  BY DEF LiveIsCurrent, Live
<1>5. QED
  BY <1>1, <1>2, <1>3, <1>4 DEF Rest

LEMMA IntentStep == ASSUME ServiceIInv, ~crashed, Intent PROVE Rest'
<1>1. ASSUME NEW c \in Call, IncomingCall(c) PROVE Rest'
  BY <1>1, NewCallStep DEF IncomingCall, isBusy
<1>2. ASSUME NEW c \in Call, OutgoingCall(c) PROVE Rest'
  BY <1>2, NewCallStep DEF OutgoingCall, isIdle
<1>3. CASE AnswerCall
  BY <1>3, AnswerStep
<1>4. CASE DenyCall
  BY <1>4, DenyStep
<1>5. CASE HangupCall
  BY <1>5, HangupStep
<1>6. QED
  BY <1>1, <1>2, <1>3, <1>4, <1>5 DEF Intent

LEMMA FailStep == ASSUME ServiceIInv, NEW c \in Call, Fail(c) PROVE Rest'
<1>1. /\ terminate /\ UNCHANGED <<role, late, crashed, signals>>
      /\ pc[c] = "failing" /\ pc' = [pc EXCEPT ![c] = "ended"]
  BY DEF Fail, Moves
<1>2. ASSUME NEW d \in Call
      PROVE  /\ Live(d)' => Live(d)
             /\ pc'[d] = "none" <=> pc[d] = "none"
  <2>1. pc'[d] = IF d = c THEN "ended" ELSE pc[d]
    BY <1>1 DEF ServiceIInv, TypeOK
  <2>2. QED
    BY <1>1, <2>1, StaysTerminated DEF Live
<1>3. QED
  BY <1>1, <1>2, TerminateStep

LEMMA CallThreadStep ==
    ASSUME ServiceIInv, ~crashed, NEW c \in Call, CallThread(c) PROVE Rest'
<1> USE ServiceAssumption
    DEF ServiceIInv, TypeOK, Rest, RestingState, PeerTold, ManagersKept, CurrentGoesOn,
        LiveIsCurrent, Live, Moves, serviceVars, callVars, callRest, serviceRest, mainRest
<1>1. CASE CallFresh(c)
  <2> USE <1>1 DEF CallFresh, GoesOn
  <2>1. RestingState' /\ CurrentGoesOn'
    BY DEF RestingState
  <2>2. PeerTold' /\ ManagersKept'
    OBVIOUS
  <2>3. LiveIsCurrent'
    OBVIOUS
  <2>4. QED
    BY <2>1, <2>2, <2>3
<1>2. CASE ProcessSignals(c)
  BY <1>2 DEF ProcessSignals, GoesOn
<1>3. CASE Answered(c)
  BY <1>3 DEF Answered
<1>4. CASE Agree(c)
  BY <1>4 DEF Agree
<1>5. CASE HoldLocks(c)
  BY <1>5 DEF HoldLocks, GoesOn
<1>6. CASE Connected(c)
  BY <1>6 DEF Connected, GoesOn, StateConnected
<1>7. CASE Announce(c)
  BY <1>7 DEF Announce
<1>8. CASE FindNoHandler(c)
  BY <1>8 DEF FindNoHandler
<1>9. CASE BufferEvent(c)
  BY <1>9 DEF BufferEvent
<1>10. CASE Resume(c)
  BY <1>10 DEF Resume
<1>11. CASE AudioStops(c)
  BY <1>11 DEF AudioStops
<1>12. CASE Report(c)
  BY <1>12 DEF Report, GoesOn
<1>13. CASE Disconnect(c)
  BY <1>13 DEF Disconnect
<1>14. CASE Fail(c)
  BY <1>14, FailStep
<1>15. QED
  BY <1>1, <1>2, <1>3, <1>4, <1>5, <1>6, <1>7, <1>8, <1>9, <1>10, <1>11, <1>12, <1>13,
     <1>14
  DEF CallThread

LEMMA DisconnectedStep ==
    ASSUME ServiceIInv, NEW c \in Call, DisconnectedBySignal(c) PROVE Rest'
<1>1. terminate /\ UNCHANGED <<role, pc, late, crashed>>
  BY DEF DisconnectedBySignal
<1>2. ASSUME NEW d \in Call
      PROVE  /\ signals'[d] = "none" <=> signals[d] = "none"
             /\ signals'[d] = "over" <=> signals[d] = "over"
  BY DEF DisconnectedBySignal, ServiceIInv, TypeOK
<1>3. ASSUME NEW d \in Call, Live(d)' PROVE Live(d)
  BY <1>1, <1>3, StaysTerminated DEF Live
<1>4. QED
  BY <1>1, <1>2, <1>3, TerminateStep

LEMMA SignalThreadStep ==
    ASSUME ServiceIInv, ~crashed, NEW c \in Call, SignalThread(c) PROVE Rest'
<1> USE ServiceAssumption
    DEF ServiceIInv, TypeOK, Rest, RestingState, PeerTold, ManagersKept, CurrentGoesOn,
        LiveIsCurrent, Live, Moves, serviceVars, callVars, callRest, serviceRest, mainRest
<1>1. CASE PeerHangsUp(c)
  BY <1>1 DEF PeerHangsUp, Listens
<1>2. CASE SignalsFail(c)
  BY <1>2 DEF SignalsFail, Listens
<1>3. CASE PeerBusy(c)
  BY <1>3 DEF PeerBusy, Listens
<1>4. CASE Reply(c)
  BY <1>4 DEF Reply
<1>5. CASE ReplyFails(c)
  BY <1>5 DEF ReplyFails
<1>6. CASE DisconnectedBySignal(c)
  BY <1>6, DisconnectedStep
<1>7. CASE SendHangup(c)
  BY <1>7 DEF SendHangup
<1>8. QED
  BY <1>1, <1>2, <1>3, <1>4, <1>5, <1>6, <1>7
  DEF SignalThread

LEMMA MainThreadStep ==
    ASSUME ServiceIInv, ~crashed,
           MainThread \/ Bind \/ FlushFails \/ BusyTimer \/ Press("answer") \/ Press("deny")
    PROVE  Rest'
<1> USE ServiceAssumption
    DEF ServiceIInv, TypeOK, Rest, RestingState, PeerTold, ManagersKept, CurrentGoesOn,
        LiveIsCurrent, Live, Moves, serviceVars, callVars, callRest, serviceRest, mainRest
<1>1. CASE ClearBuffer
  BY <1>1 DEF ClearBuffer
<1>2. CASE LookAtState
  BY <1>2 DEF LookAtState
<1>3. CASE HandleMessage
  BY <1>3 DEF HandleMessage
<1>4. CASE Notify
  BY <1>4 DEF Notify, Waiting
<1>5. CASE Bind
  BY <1>5 DEF Bind
<1>6. CASE BusyTimer
  BY <1>6, HangupStep
<1>7. CASE Press("answer") \/ Press("deny")
  BY <1>7 DEF Press
<1>8. CASE FlushFails
  BY <1>8 DEF FlushFails
<1>9. QED
  BY <1>1, <1>2, <1>3, <1>4, <1>5, <1>6, <1>7, <1>8
  DEF MainThread
-----------------------------------------------------------------------------
(* Types.                                                                  *)

ScreenTyped ==
    /\ handler \in BOOLEAN
    /\ buffered \in Seq(Message_)
    /\ queue \in Seq(Message_)
    /\ main \in {"looper", "flushed", "bound", "notifying"}
    /\ screen \in {"incoming", "other"}
    /\ pressed \subseteq {"answer", "deny"}
    /\ binds \in 0..MaxBinds

CallsTyped ==
    /\ role \in [Call -> {"initiator", "responder", None}]
    /\ pc \in [Call -> {"none", "signaling", "fresh", "ringing", "connecting", "agreed",
                        "unlocked", "announcing", "buffering", "waiting", "woken",
                        "audio", "failing", "ended"}]
    /\ terminated \in [Call -> BOOLEAN]
    /\ answer \in [Call -> {"none", "accepted", "denied"}]
    /\ signals \in [Call -> {"none", "listening", "hungup", "replying", "failed", "idle",
                             "over"}]
    /\ hangup \in [Call -> BOOLEAN]

ServiceTyped ==
    /\ state \in {"IDLE", "RINGING", "DIALING", "ANSWERING", "CONNECTED"}
    /\ current \in Call \cup {None}
    /\ phoneState \in {"IDLE", "PROCESSING", "INTERACTIVE", "IN_CALL"}
    /\ monitor \in Call \cup {None}
    /\ timers \in 0..MaxTimers
    /\ late \subseteq Call
    /\ crashed \in BOOLEAN

Typed == ScreenTyped /\ CallsTyped /\ ServiceTyped

LEMMA MessageTyped ==
    ASSUME ScreenTyped, NEW m \in Message_, Message(m) PROVE ScreenTyped'
<1>1. ASSUME NEW messages \in Seq(Message_) PROVE Added(messages, m) \in Seq(Message_)
  BY DEF Added
<1>2. CASE handler
  BY <1>1, <1>2 DEF Message, ScreenTyped
<1>3. CASE ~handler
  BY <1>1, <1>3 DEF Message, ScreenTyped
<1>4. QED
  BY <1>2, <1>3

LEMMA ScreenKept == ASSUME ScreenTyped, UNCHANGED screenVars PROVE ScreenTyped'
  BY DEF ScreenTyped, screenVars

(* The messages there are.                                                 *)
LEMMA Messages == "incoming" \in Message_ /\ "notice" \in Message_ /\ "connected" \in Message_
  BY DEF Message_

LEMMA TerminateTyped ==
    ASSUME CallsTyped, ServiceTyped, terminate
    PROVE  /\ state' = "IDLE" /\ current' = None /\ phoneState' = "IDLE"
           /\ terminated' \in [Call -> BOOLEAN] /\ hangup' \in [Call -> BOOLEAN]
           /\ answer' \in [Call -> {"none", "accepted", "denied"}]
<1>1. state' = "IDLE" /\ current' = None /\ phoneState' = "IDLE"
  BY DEF terminate, ManagerDropped, LocksReleased
<1>2. CASE current = None
  BY <1>1, <1>2 DEF terminate, CallsTyped
<1>3. CASE current # None
  <2>1. current \in Call
    BY <1>3 DEF ServiceTyped
  <2>2. terminated' \in [Call -> BOOLEAN] /\ hangup' \in [Call -> BOOLEAN]
    BY <1>3, <2>1 DEF terminate, HangupOf, CallsTyped
  <2>3. answer' \in [Call -> {"none", "accepted", "denied"}]
    BY <1>3, <2>1 DEF terminate, Unanswered, CallsTyped
  <2>4. QED
    BY <1>1, <2>2, <2>3
<1>4. QED
  BY <1>2, <1>3

LEMMA IntentTyped == ASSUME Typed, Intent PROVE Typed'
<1> USE DEF Typed, CallsTyped, ServiceTyped
<1>1. ASSUME NEW c \in Call, IncomingCall(c) PROVE Typed'
  BY <1>1, ScreenKept DEF IncomingCall, NewCall
<1>2. ASSUME NEW c \in Call, OutgoingCall(c) PROVE Typed'
  BY <1>2, MessageTyped, Messages DEF OutgoingCall, NewCall
<1>3. CASE AnswerCall
  <2>1. ScreenTyped'
    BY <1>3 DEF AnswerCall, Received, ScreenTyped
  <2>2. answer' \in [Call -> {"none", "accepted", "denied"}]
    BY <1>3 DEF AnswerCall
  <2>3. crashed' \in BOOLEAN
    BY <1>3 DEF AnswerCall, CastFails
  <2>4. QED
    BY <1>3, <2>1, <2>2, <2>3 DEF AnswerCall, Received
<1>4. CASE DenyCall
  <2>1. ScreenTyped'
    BY <1>4 DEF DenyCall, Received, ScreenTyped
  <2>2. CASE CastFails
    BY <1>4, <2>1, <2>2 DEF DenyCall, Received, callVars
  <2>3. CASE ~CastFails
    <3>1. /\ terminated' = [c \in Call |-> terminated[c] \/ c = current]
          /\ answer' = [c \in Call |-> IF c = current THEN "denied" ELSE answer[c]]
          /\ hangup' = IF current = None THEN hangup ELSE HangupOf(current)
      BY <1>4, <2>3 DEF DenyCall
    <3>2. /\ terminated' \in [Call -> BOOLEAN]
          /\ answer' \in [Call -> {"none", "accepted", "denied"}]
      BY <3>1
    <3>3. hangup' \in [Call -> BOOLEAN]
      BY <3>1 DEF HangupOf
    <3>4. QED
      BY <1>4, <2>1, <2>3, <3>2, <3>3 DEF DenyCall, Received, ManagerDropped, LocksReleased
  <2>4. QED
    BY <2>2, <2>3
<1>5. CASE HangupCall
  BY <1>5, TerminateTyped, ScreenKept DEF HangupCall
<1>6. QED
  BY <1>1, <1>2, <1>3, <1>4, <1>5 DEF Intent

LEMMA LateTyped ==
    ASSUME ServiceTyped, NEW c \in Call, GoesOn(c) PROVE late' \subseteq Call
  BY DEF GoesOn, ServiceTyped

LEMMA CallThreadTyped == ASSUME Typed, NEW c \in Call, CallThread(c) PROVE Typed'
<1> USE DEF Typed, CallsTyped, ServiceTyped, Moves, serviceVars, callRest, serviceRest
<1>1. CASE CallFresh(c)
  BY <1>1, MessageTyped, Messages, LateTyped DEF CallFresh
<1>2. CASE ProcessSignals(c)
  BY <1>2, ScreenKept, LateTyped DEF ProcessSignals
<1>3. CASE Answered(c) \/ Agree(c)
  BY <1>3, ScreenKept DEF Answered, Agree
<1>4. CASE HoldLocks(c)
  BY <1>4, ScreenKept, LateTyped DEF HoldLocks
<1>5. CASE Connected(c)
  BY <1>5, ScreenKept, LateTyped DEF Connected, StateConnected
<1>6. CASE Announce(c)
  BY <1>6, MessageTyped, Messages DEF Announce
<1>7. CASE FindNoHandler(c)
  BY <1>7, ScreenKept DEF FindNoHandler
<1>8. CASE BufferEvent(c)
  <2>1. ScreenTyped'
    BY <1>8, Messages DEF BufferEvent, ScreenTyped
  <2>2. QED
    BY <1>8, <2>1 DEF BufferEvent
<1>9. CASE Resume(c) \/ AudioStops(c)
  BY <1>9, ScreenKept DEF Resume, AudioStops
<1>10. CASE Report(c)
  BY <1>10, MessageTyped, Messages, LateTyped DEF Report
<1>11. CASE Disconnect(c)
  BY <1>11, MessageTyped, Messages DEF Disconnect
<1>12. CASE Fail(c)
  BY <1>12, ScreenKept, TerminateTyped DEF Fail
<1>13. QED
  BY <1>1, <1>2, <1>3, <1>4, <1>5, <1>6, <1>7, <1>8, <1>9, <1>10, <1>11, <1>12
  DEF CallThread

LEMMA SignalThreadTyped == ASSUME Typed, NEW c \in Call, SignalThread(c) PROVE Typed'
<1> USE DEF Typed, CallsTyped, ServiceTyped, serviceVars, callRest, serviceRest
<1>1. CASE PeerHangsUp(c) \/ SignalsFail(c)
  BY <1>1, MessageTyped, Messages DEF PeerHangsUp, SignalsFail, Listens
<1>2. CASE PeerBusy(c)
  BY <1>2, MessageTyped, Messages, ServiceAssumption DEF PeerBusy, Listens
<1>3. CASE Reply(c)
  BY <1>3, ScreenKept DEF Reply
<1>4. CASE ReplyFails(c)
  BY <1>4, MessageTyped, Messages DEF ReplyFails
<1>5. CASE DisconnectedBySignal(c)
  BY <1>5, ScreenKept, TerminateTyped DEF DisconnectedBySignal
<1>6. CASE SendHangup(c)
  BY <1>6, ScreenKept DEF SendHangup
<1>7. QED
  BY <1>1, <1>2, <1>3, <1>4, <1>5, <1>6 DEF SignalThread

LEMMA MainThreadTyped ==
    ASSUME Typed,
           MainThread \/ Bind \/ FlushFails \/ BusyTimer \/ Press("answer") \/ Press("deny")
    PROVE  Typed'
<1> USE DEF Typed, CallsTyped, ServiceTyped, serviceVars, callVars, callRest, serviceRest,
                  mainRest
<1>1. CASE Bind
  <2>1. binds' \in 0..MaxBinds
    BY <1>1, ServiceAssumption DEF Bind, ScreenTyped
  <2>2. queue' \in Seq(Message_)
    BY <1>1 DEF Bind, ScreenTyped
  <2>3. QED
    BY <1>1, <2>1, <2>2 DEF Bind, ScreenTyped
<1>2. CASE ClearBuffer
  BY <1>2, NoMessages DEF ClearBuffer, ScreenTyped
<1>3. CASE LookAtState
  BY <1>3 DEF LookAtState, ScreenTyped
<1>4. CASE HandleMessage
  <2>1. queue' \in Seq(Message_)
    BY <1>4 DEF HandleMessage, ScreenTyped
  <2>2. QED
    BY <1>4, <2>1 DEF HandleMessage, ScreenTyped
<1>5. CASE Notify
  <2>1. ScreenTyped'
    BY <1>5 DEF Notify, ScreenTyped
  <2>2. QED
    BY <1>5, <2>1 DEF Notify, Waiting
<1>6. CASE BusyTimer
  BY <1>6, ScreenKept, TerminateTyped, ServiceAssumption DEF BusyTimer
<1>7. CASE Press("answer") \/ Press("deny")
  BY <1>7 DEF Press, ScreenTyped
<1>8. CASE FlushFails
  BY <1>8, ScreenKept DEF FlushFails
<1>9. QED
  BY <1>1, <1>2, <1>3, <1>4, <1>5, <1>6, <1>7, <1>8 DEF MainThread

-----------------------------------------------------------------------------
(* Theorems.                                                               *)

LEMMA InvariantStep == ServiceIInv /\ [Next]_vars => ServiceIInv'
<1> SUFFICES ASSUME ServiceIInv, [Next]_vars PROVE ServiceIInv'
  OBVIOUS
<1>1. CASE Next
  <2>1. Typed
    BY DEF ServiceIInv, Typed, TypeOK, ScreenTyped, CallsTyped, ServiceTyped
  <2>2. Typed'
    BY <1>1, <2>1, IntentTyped, CallThreadTyped, SignalThreadTyped, MainThreadTyped DEF Next
  <2>3. TypeOK'
    BY <2>2 DEF Typed, TypeOK, ScreenTyped, CallsTyped, ServiceTyped
  <2>4. Rest'
    BY <1>1, IntentStep, CallThreadStep, SignalThreadStep, MainThreadStep DEF Next
  <2>5. QED
    BY <2>3, <2>4 DEF Rest, ServiceIInv
<1>2. CASE UNCHANGED vars
  <2>1. TypeOK'
    BY <1>2 DEF vars, serviceVars, screenVars, callVars, TypeOK, ServiceIInv
  <2>2. Rest'
    BY <1>2 DEF vars, serviceVars, callVars, Rest, ServiceIInv, RestingState, PeerTold,
                ManagersKept, CurrentGoesOn, LiveIsCurrent, Live
  <2>3. QED
    BY <2>1, <2>2 DEF Rest, ServiceIInv
<1>3. QED
  BY <1>1, <1>2

(* The invariant holds in every reachable state.                           *)
THEOREM ServiceInvariance == Spec => []ServiceIInv
  BY InitInvariant, InvariantStep, PTL DEF Spec

(* The monitor and isBusy keep a second call out: two calls never go on    *)
(* together, unless a dropped call has reset the state.                    *)
THEOREM NeverTwoLiveCalls == Spec => []OneLiveCall
<1>1. ServiceIInv => OneLiveCall
  BY DEF ServiceIInv, LiveIsCurrent, OneLiveCall
<1>2. QED
  BY <1>1, ServiceInvariance, PTL

(* When RedPhoneService.terminate has dropped the call, the locks are      *)
(* released and the state is one from which the phone can be called.       *)
THEOREM AlwaysComesToRest == Spec => []ServiceInvariant
<1>1. ServiceIInv => ServiceInvariant
  BY DEF ServiceIInv, ServiceInvariant
<1>2. QED
  BY <1>1, ServiceInvariance, PTL

(* SignalManager.terminate is called for every call that has signals.      *)
THEOREM PeerAlwaysTold == Spec => []PeerTold
<1>1. ServiceIInv => PeerTold
  BY DEF ServiceIInv
<1>2. QED
  BY <1>1, ServiceInvariance, PTL

(* ResponderCallManager.answer: an answer that comes too late does not     *)
(* bring a refused call back.                                              *)
THEOREM RefusalStays == Spec => RefusedStaysRefused
<1> DEFINE Kept == \A c \in Call :
                      /\ pc[c] \in {"signaling", "fresh", "ringing"}
                      /\ terminated[c]
                      /\ answer[c] = "denied"
                      => answer'[c] = "denied" /\ pc'[c] # "connecting"
<1>1. ASSUME ServiceIInv, Next, NEW c \in Call,
             pc[c] \in {"signaling", "fresh", "ringing"}, terminated[c], answer[c] = "denied"
      PROVE  answer'[c] = "denied" /\ pc'[c] # "connecting"
  <2>1. TypeOK /\ c # current /\ role[c] = "responder"
    BY <1>1, ServiceAssumption DEF ServiceIInv, CurrentGoesOn, ManagersKept
  <2> USE <1>1, <2>1 DEF TypeOK, Moves
  <2>2. CASE Intent
    BY <2>2, ServiceAssumption
    DEF Intent, IncomingCall, OutgoingCall, NewCall, AnswerCall, DenyCall, Received, HangupCall,
        terminate, Unanswered, CastFails, callVars
  <2>3. ASSUME NEW d \in Call, CallThread(d) PROVE answer'[c] = "denied" /\ pc'[c] # "connecting"
    <3> USE <2>3 DEF callRest
    <3>1. CASE Fail(d)
      BY <3>1 DEF Fail, terminate, Unanswered
    <3>2. CASE CallFresh(d) \/ ProcessSignals(d) \/ Answered(d) \/ Agree(d)
      BY <3>2 DEF CallFresh, ProcessSignals, Answered, Agree
    <3>3. CASE HoldLocks(d) \/ Connected(d) \/ Announce(d) \/ FindNoHandler(d) \/ BufferEvent(d)
      BY <3>3 DEF HoldLocks, Connected, Announce, FindNoHandler, BufferEvent
    <3>4. CASE Resume(d) \/ AudioStops(d) \/ Report(d) \/ Disconnect(d)
      BY <3>4 DEF Resume, AudioStops, Report, Disconnect
    <3>5. QED
      BY <3>1, <3>2, <3>3, <3>4 DEF CallThread
  <2>4. ASSUME NEW d \in Call, SignalThread(d)
        PROVE  answer'[c] = "denied" /\ pc'[c] # "connecting"
    BY <2>4
    DEF SignalThread, PeerHangsUp, SignalsFail, PeerBusy, Listens, Reply, ReplyFails,
        DisconnectedBySignal, SendHangup, terminate, Unanswered, callRest
  <2>5. CASE MainThread \/ Bind \/ FlushFails \/ BusyTimer \/ Press("answer") \/ Press("deny")
    <3>1. CASE Notify
      BY <3>1 DEF Notify, Waiting, callRest
    <3>2. CASE BusyTimer
      BY <3>2 DEF BusyTimer, terminate, Unanswered
    <3>3. CASE ClearBuffer \/ LookAtState \/ HandleMessage \/ Bind \/ FlushFails
               \/ Press("answer") \/ Press("deny")
      BY <3>3
      DEF ClearBuffer, LookAtState, HandleMessage, Bind, FlushFails, Press, callVars, mainRest
    <3>4. QED
      BY <2>5, <3>1, <3>2, <3>3 DEF MainThread
  <2>6. QED
    BY <2>2, <2>3, <2>4, <2>5 DEF Next
<1>2. ServiceIInv /\ [Next]_vars => [Kept]_vars
  BY <1>1
<1>3. QED
  BY <1>2, ServiceInvariance, PTL DEF Spec, RefusedStaysRefused
================================================================================
