------------------------------ MODULE CallService ------------------------------
(***************************************************************************)
(* RedPhoneService with its call managers and the call screen.  Every      *)
(* intent runs on a thread of its own, every call manager is a thread and  *)
(* has another one that listens for signals, and the screen's main thread  *)
(* handles messages and the termination posted after a busy signal.  They  *)
(* meet in the service's fields, some of which its monitor protects.       *)
(*                                                                         *)
(* Code: RedPhoneService.java, RedPhone.java, call/CallManager.java,       *)
(* InitiatingCallManager.java, ResponderCallManager.java and               *)
(* SignalManager.java.                                                     *)
(*                                                                         *)
(* Memory is sequentially consistent, and what is synchronized on the      *)
(* service is one step, but for notifyCallConnected.  Ringers,             *)
(* notifications, the call log and calls of the system's own phone are     *)
(* left out.  Calls are numbered as their managers are created.            *)
(***************************************************************************)
EXTENDS Naturals, Sequences

CONSTANTS
    MaxCalls,   \* how many call managers are created
    MaxBinds,   \* how often the screen is brought to the front
    MaxTimers,  \* how many terminations are posted at a time
    Failing,    \* the calls that may fail, or that their peers may hang up
    None        \* Java's null, and a monitor nobody holds

Call == 1..MaxCalls

ASSUME ServiceAssumption ==
    MaxCalls \in Nat /\ MaxBinds \in Nat /\ MaxTimers \in Nat
    /\ Failing \subseteq Call /\ None \notin Call

VARIABLES
    state,       \* RedPhoneService.state
    current,     \* RedPhoneService.currentCallManager
    phoneState,  \* what LockManager was told last
    monitor,     \* the call whose thread holds the service's monitor
    timers,      \* terminations posted by notifyBusy
    handler,     \* RedPhoneService.handler # null
    buffered,    \* RedPhoneService.bufferedEvents
    queue,       \* the messages of the main thread
    main,        \* where the main thread is
    screen,      \* what the call screen shows
    pressed,     \* buttons whose intents have not been received yet
    binds,       \* how often the screen came to the front
    role,        \* "initiator" or "responder"
    pc,          \* where the call thread is
    terminated,  \* CallManager.terminated
    answer,      \* ResponderCallManager.answer
    signals,     \* where the SignalManager's thread is
    hangup,      \* the hangup task is in the SignalManager's queue
    late,        \* calls that changed the service after it had dropped them
    crashed      \* an uncaught exception has ended the process

serviceVars == <<state, current, phoneState>>
screenVars  == <<handler, buffered, queue, main, screen, pressed, binds>>
callVars    == <<role, pc, terminated, answer, signals, hangup>>
vars == <<serviceVars, monitor, timers, screenVars, callVars, late, crashed>>

-----------------------------------------------------------------------------
Init ==
    /\ state = "IDLE"
    /\ current = None
    /\ phoneState = "IDLE"
    /\ monitor = None
    /\ timers = 0
    /\ handler = FALSE
    /\ buffered = <<>>
    /\ queue = <<>>
    /\ main = "looper"
    /\ screen = "other"
    /\ pressed = {}
    /\ binds = 0
    /\ role = [c \in Call |-> None]
    /\ pc = [c \in Call |-> "none"]
    /\ terminated = [c \in Call |-> FALSE]
    /\ answer = [c \in Call |-> "none"]
    /\ signals = [c \in Call |-> "none"]
    /\ hangup = [c \in Call |-> FALSE]
    /\ late = {}
    /\ crashed = FALSE

Moves(c, from, to) == pc[c] = from /\ pc' = [pc EXCEPT ![c] = to]

(* sendMessage: to the screen, or into the buffer until there is one.      *)
(* "notice" is any message that takes the screen off an incoming call, and *)
(* after anything but "incoming" it has no effect of its own.              *)
Added(messages, m) ==
    IF m = "notice" /\ messages # <<>> /\ messages[Len(messages)] # "incoming"
    THEN messages
    ELSE Append(messages, m)

Message(m) ==
    /\ IF handler THEN queue' = Added(queue, m) /\ UNCHANGED buffered
                  ELSE buffered' = Added(buffered, m) /\ UNCHANGED queue
    /\ UNCHANGED <<handler, main, screen, pressed, binds>>

(* A call manager changes the service, whether its call is the current one *)
(* or not.                                                                 *)
GoesOn(c) == late' = IF current = c THEN late ELSE late \cup {c}

(* CallManager.terminate: a responder stops waiting, and a hangup is       *)
(* queued if there are signals already.                                    *)
(* Mutants: a responder that waits for an answer is left alone; the        *)
(* signals go on.                                                          *)
LeavesAnswer(c) == answer
Unanswered(c) ==
    IF role[c] = "responder" /\ answer[c] = "none"
    THEN [answer EXCEPT ![c] = "denied"]
    ELSE answer

NoHangup(c) == hangup
HangupOf(c) == [hangup EXCEPT ![c] = (signals[c] # "none")]

(* Mutants: terminate() leaves the locks as they are, or keeps the call    *)
(* manager.                                                                *)
LocksKept     == phoneState
LocksReleased == "IDLE"

ManagerKept    == current
ManagerDropped == None

(* RedPhoneService.terminate, which ends whatever call is the current one. *)
terminate ==
    /\ monitor = None
    /\ IF current = None
       THEN UNCHANGED <<terminated, answer, hangup>>
       ELSE /\ terminated' = [terminated EXCEPT ![current] = TRUE]
            /\ answer' = Unanswered(current)
            /\ hangup' = HangupOf(current)
    /\ current' = ManagerDropped
    /\ state' = "IDLE"
    /\ phoneState' = LocksReleased

-----------------------------------------------------------------------------
(* Intents: onIntentReceived is synchronized.                              *)

(* Mutant: a call that rings does not make the phone busy.                 *)
InConversation == current # None /\ state \in {"ANSWERING", "CONNECTED"}
isBusy == current # None /\ state # "IDLE"
isIdle == state = "IDLE"

NewCall(c, r) ==
    /\ monitor = None
    /\ pc[c] = "none"
    /\ \A d \in 1..(c - 1) : pc[d] # "none"
    /\ role' = [role EXCEPT ![c] = r]
    /\ pc' = [pc EXCEPT ![c] = "signaling"]
    /\ current' = c
    /\ UNCHANGED <<terminated, answer, signals, hangup, monitor, timers, late, crashed>>

IncomingCall(c) ==
    /\ ~isBusy
    /\ NewCall(c, "responder")
    /\ state' = "RINGING"
    /\ phoneState' = "PROCESSING"
    /\ UNCHANGED screenVars

OutgoingCall(c) ==
    /\ isIdle
    /\ NewCall(c, "initiator")
    /\ Message("notice")
    /\ state' = "DIALING"
    /\ phoneState' = "INTERACTIVE"

Received(button) ==
    /\ monitor = None
    /\ button \in pressed
    /\ pressed' = pressed \ {button}
    /\ UNCHANGED <<handler, buffered, queue, main, screen, binds, timers, monitor, late>>

(* The current call manager is cast to a responder.                        *)
CastFails == current # None /\ role[current] = "initiator"

AnswerCall ==
    /\ Received("answer")
    /\ state' = "ANSWERING"
    /\ crashed' = CastFails
    /\ answer' = IF current = None \/ CastFails THEN answer
                 ELSE [answer EXCEPT ![current] = "accepted"]
    /\ UNCHANGED <<current, phoneState, role, pc, terminated, signals, hangup>>

(* answer(false) leaves nothing for terminate() to deny.                   *)
DenyCall ==
    /\ Received("deny")
    /\ IF CastFails
       THEN /\ crashed' = TRUE
            /\ state' = "IDLE"
            /\ UNCHANGED <<current, phoneState, callVars>>
       ELSE /\ state' = "IDLE"
            /\ terminated' = [c \in Call |-> terminated[c] \/ c = current]
            /\ answer' = [c \in Call |-> IF c = current THEN "denied" ELSE answer[c]]
            /\ hangup' = IF current = None THEN hangup ELSE HangupOf(current)
            /\ current' = ManagerDropped
            /\ phoneState' = LocksReleased
            /\ UNCHANGED <<role, pc, signals, crashed>>

HangupCall ==
    /\ terminate
    /\ UNCHANGED <<role, pc, signals, monitor, timers, screenVars, late, crashed>>

Intent ==
    \/ \E c \in Call : IncomingCall(c) \/ OutgoingCall(c)
    \/ AnswerCall \/ DenyCall \/ HangupCall

-----------------------------------------------------------------------------
(* The call threads.                                                       *)

serviceRest == <<monitor, timers, crashed>>
callRest    == <<role, terminated, answer, hangup>>

(* notifyCallFresh, once the server knows that this phone rings.           *)
CallFresh(c) ==
    /\ role[c] = "responder"
    /\ Moves(c, "signaling", "fresh")
    /\ Message("incoming")
    /\ phoneState' = "INTERACTIVE"
    /\ GoesOn(c)
    /\ UNCHANGED <<state, current, signals, callRest, serviceRest>>

(* processSignals; the initiator has its session and its relay by then.    *)
ProcessSignals(c) ==
    /\ IF role[c] = "responder" THEN Moves(c, "fresh", "ringing")
                                ELSE Moves(c, "signaling", "connecting")
    /\ signals' = [signals EXCEPT ![c] = "listening"]
    /\ GoesOn(c)
    /\ UNCHANGED <<serviceVars, screenVars, callRest, serviceRest>>

(* waitForAnswer.                                                          *)
Answered(c) ==
    /\ answer[c] # "none"
    /\ Moves(c, "ringing", IF answer[c] = "accepted" THEN "connecting" ELSE "ended")
    /\ UNCHANGED <<serviceVars, screenVars, signals, callRest, late, serviceRest>>

(* CallManager.run: the handshake is done and "terminated" is looked at.   *)
Agree(c) ==
    /\ Moves(c, "connecting", IF terminated[c] THEN "ended" ELSE "agreed")
    /\ UNCHANGED <<serviceVars, screenVars, signals, callRest, late, serviceRest>>

(* notifyCallConnected: the locks, the state, and then the message and the *)
(* wait for the screen inside the monitor.                                 *)
HoldLocks(c) ==
    /\ Moves(c, "agreed", "unlocked")
    /\ phoneState' = "IN_CALL"
    /\ GoesOn(c)
    /\ UNCHANGED <<state, current, screenVars, signals, callRest, serviceRest>>

(* Mutant: the state is not set before the screen is told.                 *)
StateKept      == state
StateConnected == "CONNECTED"

Connected(c) ==
    /\ Moves(c, "unlocked", "announcing")
    /\ state' = StateConnected
    /\ GoesOn(c)
    /\ UNCHANGED <<current, phoneState, screenVars, signals, callRest, serviceRest>>

(* There is a handler: the message is sent and the monitor given up.       *)
Announce(c) ==
    /\ monitor = None
    /\ handler
    /\ Moves(c, "announcing", "waiting")
    /\ Message("connected")
    /\ UNCHANGED <<serviceVars, signals, callRest, late, serviceRest>>

(* There is none yet: the monitor does not keep one from being set.        *)
FindNoHandler(c) ==
    /\ monitor = None
    /\ ~handler
    /\ Moves(c, "announcing", "buffering")
    /\ monitor' = c
    /\ UNCHANGED <<serviceVars, screenVars, signals, callRest, late, timers, crashed>>

BufferEvent(c) ==
    /\ Moves(c, "buffering", "waiting")
    /\ monitor' = None
    /\ buffered' = Append(buffered, "connected")
    /\ UNCHANGED <<serviceVars, handler, queue, main, screen, pressed, binds, signals,
                   callRest, late, timers, crashed>>

(* wait() returns, and "terminated" is looked at before the audio starts.  *)
Resume(c) ==
    /\ monitor = None
    /\ Moves(c, "woken", IF terminated[c] THEN "ended" ELSE "audio")
    /\ UNCHANGED <<serviceVars, screenVars, signals, callRest, late, serviceRest>>

AudioStops(c) ==
    /\ terminated[c]
    /\ Moves(c, "audio", "ended")
    /\ UNCHANGED <<serviceVars, screenVars, signals, callRest, late, serviceRest>>

(* notifyServerFailure, LoginFailed, ClientFailure, HandshakeFailed and    *)
(* RecipientUnavailable: the state is reset at once and outside the        *)
(* monitor, by whichever call it is.  The last two look at "terminated"    *)
(* first, but it may be set between the look and the reset.                *)
Report(c) ==
    /\ c \in Failing
    /\ pc[c] \in {"signaling", "connecting"}
    /\ pc' = [pc EXCEPT ![c] = "failing"]
    /\ state' = "IDLE"
    /\ Message("notice")
    /\ GoesOn(c)
    /\ UNCHANGED <<current, phoneState, signals, callRest, serviceRest>>

(* notifyCallStale, NoSuchUser, ServerMessage, CallDisconnected and        *)
(* ClientError do not reset it.                                            *)
Disconnect(c) ==
    /\ c \in Failing
    /\ pc[c] \in {"signaling", "connecting", "audio"}
    /\ pc' = [pc EXCEPT ![c] = "failing"]
    /\ Message("notice")
    /\ UNCHANGED <<serviceVars, signals, callRest, late, serviceRest>>

(* All of them end in terminate().                                         *)
Fail(c) ==
    /\ Moves(c, "failing", "ended")
    /\ terminate
    /\ UNCHANGED <<role, signals, monitor, timers, screenVars, late, crashed>>

CallThread(c) ==
    \/ CallFresh(c) \/ ProcessSignals(c) \/ Answered(c) \/ Agree(c)
    \/ HoldLocks(c) \/ Connected(c) \/ Announce(c) \/ FindNoHandler(c) \/ BufferEvent(c)
    \/ Resume(c) \/ AudioStops(c) \/ Report(c) \/ Disconnect(c) \/ Fail(c)

-----------------------------------------------------------------------------
(* The SignalManager's thread: a listener that replies to each signal and  *)
(* is queued again, and the hangup task.                                   *)
Listens(c, to) ==
    /\ signals[c] = "listening"
    /\ ~hangup[c]
    /\ signals' = [signals EXCEPT ![c] = to]
    /\ UNCHANGED <<serviceVars, role, pc, terminated, answer, hangup, late, monitor, crashed>>

(* The peer hung up or the socket failed: notifyCallDisconnected.          *)
PeerHangsUp(c) ==
    c \in Failing /\ Listens(c, "hungup") /\ Message("notice") /\ UNCHANGED timers
SignalsFail(c) ==
    c \in Failing /\ Listens(c, "failed") /\ Message("notice") /\ UNCHANGED timers

DisconnectedBySignal(c) ==
    /\ signals[c] \in {"hungup", "failed"}
    /\ signals' = [signals EXCEPT ![c] = IF @ = "hungup" THEN "replying" ELSE "idle"]
    /\ terminate
    /\ UNCHANGED <<role, pc, monitor, timers, screenVars, late, crashed>>

PeerBusy(c) ==
    /\ role[c] = "initiator"
    /\ timers < MaxTimers
    /\ timers' = timers + 1
    /\ Listens(c, "replying")
    /\ Message("notice")

(* sendOkResponse, whose failure is reported as a disconnected call too.   *)
Reply(c) ==
    /\ signals[c] = "replying"
    /\ signals' = [signals EXCEPT ![c] = "listening"]
    /\ UNCHANGED <<serviceVars, screenVars, pc, callRest, late, serviceRest>>

ReplyFails(c) ==
    /\ c \in Failing
    /\ signals[c] = "replying"
    /\ signals' = [signals EXCEPT ![c] = "failed"]
    /\ Message("notice")
    /\ UNCHANGED <<serviceVars, pc, callRest, late, serviceRest>>

SendHangup(c) ==
    /\ hangup[c]
    /\ signals[c] \in {"listening", "idle"}
    /\ signals' = [signals EXCEPT ![c] = "over"]
    /\ hangup' = [hangup EXCEPT ![c] = FALSE]
    /\ UNCHANGED <<serviceVars, screenVars, role, pc, terminated, answer, late, serviceRest>>

SignalThread(c) ==
    \/ PeerHangsUp(c) \/ SignalsFail(c) \/ PeerBusy(c)
    \/ Reply(c) \/ ReplyFails(c) \/ DisconnectedBySignal(c) \/ SendHangup(c)

-----------------------------------------------------------------------------
(* The main thread.                                                        *)
mainRest == <<serviceVars, callVars, late, serviceRest>>

(* setCallStateHandler: what was buffered is sent and then cleared.        *)
Bind ==
    /\ main = "looper"
    /\ binds < MaxBinds
    /\ binds' = binds + 1
    /\ handler' = TRUE
    /\ queue' = queue \o buffered
    /\ main' = "flushed"
    /\ UNCHANGED <<buffered, screen, pressed, mainRest>>

(* Nothing keeps a thread that found no handler from adding its message    *)
(* meanwhile: the iteration throws, which ends the process.                *)
Sending(c) ==
    \/ pc[c] \in {"signaling", "connecting", "buffering", "audio"}
    \/ signals[c] \in {"listening", "replying"}

FlushFails ==
    /\ main = "flushed"
    /\ binds = 1
    /\ \E c \in Call : Sending(c)
    /\ crashed' = TRUE
    /\ UNCHANGED <<serviceVars, screenVars, callVars, late, monitor, timers>>

ClearBuffer ==
    /\ main = "flushed"
    /\ main' = "bound"
    /\ buffered' = <<>>
    /\ UNCHANGED <<handler, queue, screen, pressed, binds, mainRest>>

(* onServiceConnected looks at the state it has missed the messages of; an *)
(* answer that was being handled is sent once more.                        *)
LookAtState ==
    /\ main = "bound"
    /\ main' = IF state = "CONNECTED" THEN "notifying" ELSE "looper"
    /\ screen' = IF state = "RINGING" THEN "incoming" ELSE "other"
    /\ pressed' = IF state = "ANSWERING" THEN pressed \cup {"answer"} ELSE pressed
    /\ UNCHANGED <<handler, buffered, queue, binds, mainRest>>

HandleMessage ==
    /\ main = "looper"
    /\ queue # <<>>
    /\ queue' = Tail(queue)
    /\ screen' = IF Head(queue) = "incoming" THEN "incoming" ELSE "other"
    /\ main' = IF Head(queue) = "connected" THEN "notifying" ELSE "looper"
    /\ UNCHANGED <<handler, buffered, pressed, binds, mainRest>>

(* notifyCallConnectionUIUpdateComplete: notify() wakes one thread.        *)
Waiting == {c \in Call : pc[c] = "waiting"}

Notify ==
    /\ main = "notifying"
    /\ monitor = None
    /\ main' = "looper"
    /\ IF Waiting = {} THEN UNCHANGED pc
                       ELSE \E c \in Waiting : pc' = [pc EXCEPT ![c] = "woken"]
    /\ UNCHANGED <<serviceVars, handler, buffered, queue, screen, pressed, binds, signals,
                   callRest, late, serviceRest>>

(* notifyBusy's posted Runnable.                                           *)
BusyTimer ==
    /\ main = "looper"
    /\ timers > 0
    /\ timers' = timers - 1
    /\ terminate
    /\ UNCHANGED <<role, pc, signals, monitor, screenVars, late, crashed>>

Press(button) ==
    /\ main = "looper"
    /\ screen = "incoming"
    /\ screen' = "other"
    /\ pressed' = pressed \cup {button}
    /\ UNCHANGED <<handler, buffered, queue, main, binds, mainRest>>

MainThread == ClearBuffer \/ LookAtState \/ HandleMessage \/ Notify

Next ==
    /\ ~crashed
    /\ \/ Intent
       \/ \E c \in Call : CallThread(c) \/ SignalThread(c)
       \/ MainThread \/ Bind \/ FlushFails \/ BusyTimer \/ Press("answer") \/ Press("deny")

Spec == Init /\ [][Next]_vars

(* Call threads run; the screen of a call comes to the front once; queued  *)
(* tasks are executed.                                                     *)
FairSpec ==
    /\ Spec
    /\ \A c \in Call :
         /\ WF_vars(~crashed /\ CallThread(c))
         /\ WF_vars(~crashed /\ (Reply(c) \/ DisconnectedBySignal(c) \/ SendHangup(c)))
    /\ WF_vars(~crashed /\ MainThread)
    /\ WF_vars(~crashed /\ ~handler /\ Bind)

-----------------------------------------------------------------------------
(* Properties.                                                             *)

Message_ == {"incoming", "notice", "connected"}

TypeOK ==
    /\ state \in {"IDLE", "RINGING", "DIALING", "ANSWERING", "CONNECTED"}
    /\ current \in Call \cup {None}
    /\ phoneState \in {"IDLE", "PROCESSING", "INTERACTIVE", "IN_CALL"}
    /\ monitor \in Call \cup {None}
    /\ timers \in 0..MaxTimers
    /\ handler \in BOOLEAN
    /\ buffered \in Seq(Message_)
    /\ queue \in Seq(Message_)
    /\ main \in {"looper", "flushed", "bound", "notifying"}
    /\ screen \in {"incoming", "other"}
    /\ pressed \subseteq {"answer", "deny"}
    /\ binds \in 0..MaxBinds
    /\ role \in [Call -> {"initiator", "responder", None}]
    /\ pc \in [Call -> {"none", "signaling", "fresh", "ringing", "connecting", "agreed",
                        "unlocked", "announcing", "buffering", "waiting", "woken",
                        "audio", "failing", "ended"}]
    /\ terminated \in [Call -> BOOLEAN]
    /\ answer \in [Call -> {"none", "accepted", "denied"}]
    /\ signals \in [Call -> {"none", "listening", "hungup", "replying", "failed", "idle",
                             "over"}]
    /\ hangup \in [Call -> BOOLEAN]
    /\ late \subseteq Call
    /\ crashed \in BOOLEAN

(* At most one call goes on at a time: a new one begins only when the one  *)
(* before was terminated or is failing.  Not so if a call that was dropped *)
(* has reset the state under the next one.                                 *)
Live(c) == pc[c] \notin {"none", "failing", "ended"} /\ ~terminated[c]

OneLiveCall ==
    late = {} => \A c, d \in Call : Live(c) /\ Live(d) => c = d

(* Without a call the locks are released and the phone can be called, and  *)
(* can call unless an answer came when the call was over.                  *)
RestingState ==
    current = None /\ late = {} =>
        /\ phoneState = "IDLE"
        /\ state \in {"IDLE", "ANSWERING"}

(* The types, and the service at rest.                                     *)
ServiceInvariant == TypeOK /\ RestingState

(* The peer of a terminated call is told: the hangup is queued or sent.    *)
(* Only signals that were started after the call was dropped are not.      *)
PeerTold ==
    \A c \in Call :
        terminated[c] /\ signals[c] \notin {"none", "over"} => hangup[c] \/ c \in late

(* A call that was denied, or terminated before it was answered, is not    *)
(* answered and not connected any more, whatever is pressed later.         *)
RefusedStaysRefused ==
    [][\A c \in Call :
         /\ pc[c] \in {"signaling", "fresh", "ringing"}
         /\ terminated[c]
         /\ answer[c] = "denied"
         => answer'[c] = "denied" /\ pc'[c] # "connecting"]_vars

(* A call that waits for the screen is woken, even if its message was lost *)
(* in the buffer, or it is terminated.                                     *)
ScreenWakesCall ==
    \A c \in Call : pc[c] = "waiting" ~> pc[c] # "waiting" \/ terminated[c] \/ crashed

(* The thread of a terminated call ends, or has come to wait for a screen  *)
(* (which may have seen neither the message nor the state).                *)
TerminatedCallsEnd ==
    \A c \in Call : terminated[c] ~> pc[c] \in {"ended", "waiting"} \/ crashed
================================================================================
