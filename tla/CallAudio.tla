------------------------------- MODULE CallAudio -------------------------------
(***************************************************************************)
(* The audio of the calls of one phone: the call thread that creates and   *)
(* starts the native CallAudioManager and then receives packets in it, the *)
(* thread that terminates the call, the microphone and the player, and the *)
(* thread of each jitter buffer that logs statistics every 30 seconds.     *)
(*                                                                         *)
(* Code: call/CallManager.java, runAudio of its subclasses,                *)
(* audio/CallAudioManager.java, jni/redphone/CallAudioManager.cpp,         *)
(* MicrophoneReader.cpp, AudioPlayer.cpp and WebRtcJitterBuffer.cpp.       *)
(*                                                                         *)
(* Memory is sequentially consistent, but nobody waits for a statistics    *)
(* thread: its read of a freed jitter buffer is undefined behaviour, which *)
(* has no effect on the state here.  The sleep in stop() is assumed to     *)
(* outlast a callback of the devices it has stopped.  The calls follow one *)
(* another: a new one reaches its audio only after the one before was      *)
(* terminated.                                                             *)
(***************************************************************************)
EXTENDS Naturals

CONSTANTS
    MaxCalls,   \* how many calls follow one another
    Muting,     \* the calls in which the mute button is pressed
    Failures    \* the stages of native start() that fail

Call == 1..MaxCalls

(* The stages of start() after each of which a call of it may return -1.   *)
Stages == {"starting", "keyed", "buffered", "recording"}

ASSUME CallAssumption ==
    MaxCalls \in Nat /\ Muting \subseteq Call /\ Failures \subseteq Stages \cup {"creating"}

VARIABLES
    pc,             \* where the call thread is
    terminator,     \* where the thread in CallManager.terminate is
    terminated,     \* CallManager.terminated
    assigned,       \* CallManager.callAudioManager # null
    socketOpen,     \* the DatagramSocket
    muteEnabled,    \* CallManager.muteEnabled
    muteArgument,   \* the muteEnabled runAudio was called with
    callConnected,  \* CallManager.callConnected
    native,         \* the native object: "none", "live" or "freed"
    running,        \* CallAudioManager::running
    finished,       \* CallAudioManager::finished
    nativeMute,     \* MicrophoneReader::muteEnabled
    srtpReady,      \* both SrtpStreams are initialized
    devices,        \* which of the microphone and the player are open
    stats,          \* where the statistics thread of the jitter buffer is
    jitterRunning,  \* the static running of WebRtcJitterBuffer.cpp
    gap             \* what the service did while the audio was being set up

javaVars   == <<terminated, assigned, socketOpen, callConnected>>
muteVars   == <<muteEnabled, muteArgument, nativeMute>>
nativeVars == <<native, running, finished, srtpReady, devices>>
vars == <<pc, terminator, javaVars, muteVars, nativeVars, stats, jitterRunning, gap>>

-----------------------------------------------------------------------------
(* The call thread between the check of "terminated" and the loop of       *)
(* start().                                                                *)
SettingUp == {"checked", "constructed", "created", "assigned"} \cup Stages
InNative  == Stages \cup {"assigned", "looping", "leaving"}

ServiceFree == \A c \in Call : terminator[c] \in {"none", "done"}

Moves(thread, c, from, to) == thread[c] = from /\ thread' = [thread EXCEPT ![c] = to]

Init ==
    /\ pc = [c \in Call |-> "negotiating"]
    /\ terminator = [c \in Call |-> "none"]
    /\ terminated = [c \in Call |-> FALSE]
    /\ assigned = [c \in Call |-> FALSE]
    /\ socketOpen = [c \in Call |-> TRUE]
    /\ muteEnabled = [c \in Call |-> FALSE]
    /\ muteArgument = [c \in Call |-> FALSE]
    /\ callConnected = [c \in Call |-> FALSE]
    /\ native = [c \in Call |-> "none"]
    /\ running = [c \in Call |-> FALSE]
    /\ finished = [c \in Call |-> 1]
    /\ nativeMute = [c \in Call |-> FALSE]
    /\ srtpReady = [c \in Call |-> FALSE]
    /\ devices = [c \in Call |-> {}]
    /\ stats = [c \in Call |-> "none"]
    /\ jitterRunning = FALSE
    /\ gap = [c \in Call |-> {}]

-----------------------------------------------------------------------------
(* The call thread.                                                        *)

(* CallManager.run: the last check of "terminated", callConnected, and the *)
(* evaluation of runAudio's arguments.                                     *)
RunAudio(c) ==
    /\ \A d \in 1..(c - 1) : terminator[d] = "done"
    /\ IF terminated[c]
       THEN /\ Moves(pc, c, "negotiating", "ended")
            /\ UNCHANGED <<callConnected, muteArgument>>
       ELSE /\ Moves(pc, c, "negotiating", "checked")
            /\ callConnected' = [callConnected EXCEPT ![c] = TRUE]
            /\ muteArgument' = [muteArgument EXCEPT ![c] = muteEnabled[c]]
    /\ UNCHANGED <<terminator, terminated, assigned, socketOpen, muteEnabled, nativeMute,
                   nativeVars, stats, jitterRunning, gap>>

(* getFileDescriptor on a closed socket: the thread reports a disconnected *)
(* call and ends.                                                          *)
SocketClosed(c) ==
    /\ ~socketOpen[c]
    /\ Moves(pc, c, "checked", "ended")
    /\ UNCHANGED <<terminator, javaVars, muteVars, nativeVars, stats, jitterRunning, gap>>

(* WebRtcJitterBuffer::stop.  Mutant: a stop that leaves the flag raised.   *)
KeepsFlag    == jitterRunning
FlagWhenDone == FALSE

(* native create() without an address of the relay: no object is made.     *)
NoAddress(c) ==
    /\ "creating" \in Failures
    /\ socketOpen[c]
    /\ Moves(pc, c, "checked", "failed")
    /\ UNCHANGED <<terminator, javaVars, muteVars, nativeVars, stats, jitterRunning, gap>>

(* The constructor of the jitter buffer raises the flag that all jitter    *)
(* buffers share.                                                          *)
Construct(c) ==
    /\ socketOpen[c]
    /\ Moves(pc, c, "checked", "constructed")
    /\ native' = [native EXCEPT ![c] = "live"]
    /\ jitterRunning' = TRUE
    /\ UNCHANGED <<terminator, javaVars, muteVars, running, finished, srtpReady, devices,
                   stats, gap>>

Create(c) ==
    /\ Moves(pc, c, "constructed", "created")
    /\ UNCHANGED <<terminator, javaVars, muteVars, nativeVars, stats, jitterRunning, gap>>

(* No mutex: the destructor lowers the flag again.                         *)
CreateFails(c) ==
    /\ "creating" \in Failures
    /\ Moves(pc, c, "constructed", "failed")
    /\ native' = [native EXCEPT ![c] = "freed"]
    /\ jitterRunning' = FlagWhenDone
    /\ UNCHANGED <<terminator, javaVars, muteVars, running, finished, srtpReady, devices,
                   stats, gap>>

Assign(c) ==
    /\ Moves(pc, c, "created", "assigned")
    /\ assigned' = [assigned EXCEPT ![c] = TRUE]
    /\ UNCHANGED <<terminator, terminated, socketOpen, callConnected, muteVars, nativeVars,
                   stats, jitterRunning, gap>>

(* runAudio's setMute, and the first two assignments of start().           *)
Start(c) ==
    /\ Moves(pc, c, "assigned", "starting")
    /\ nativeMute' = [nativeMute EXCEPT ![c] = muteArgument[c]]
    /\ running' = [running EXCEPT ![c] = TRUE]
    /\ finished' = [finished EXCEPT ![c] = 0]
    /\ UNCHANGED <<terminator, javaVars, muteEnabled, muteArgument, native, srtpReady,
                   devices, stats, jitterRunning, gap>>

(* The engine, the codec and the two SRTP streams.                         *)
InitStreams(c) ==
    /\ Moves(pc, c, "starting", "keyed")
    /\ srtpReady' = [srtpReady EXCEPT ![c] = TRUE]
    /\ UNCHANGED <<terminator, javaVars, muteVars, native, running, finished, devices,
                   stats, jitterRunning, gap>>

InitJitterBuffer(c) ==
    /\ Moves(pc, c, "keyed", "buffered")
    /\ stats' = [stats EXCEPT ![c] = "awake"]
    /\ UNCHANGED <<terminator, javaVars, muteVars, nativeVars, jitterRunning, gap>>

StartDevice(c, device, from, to) ==
    /\ Moves(pc, c, from, to)
    /\ devices' = [devices EXCEPT ![c] = @ \cup {device}]
    /\ UNCHANGED <<terminator, javaVars, muteVars, native, running, finished, srtpReady,
                   stats, jitterRunning, gap>>

StartMicrophone(c) == StartDevice(c, "microphone", "buffered", "recording")
StartPlayer(c)     == StartDevice(c, "player", "recording", "looping")

(* start() returns -1, and with "finished" left as it is.                  *)
StartFails(c) ==
    /\ pc[c] \in Failures \cap Stages
    /\ pc' = [pc EXCEPT ![c] = "failed"]
    /\ UNCHANGED <<terminator, javaVars, muteVars, nativeVars, stats, jitterRunning, gap>>

(* The socket has a receive timeout, so the loop looks at "running" again. *)
LeaveLoop(c) ==
    /\ ~running[c]
    /\ Moves(pc, c, "looping", "leaving")
    /\ UNCHANGED <<terminator, javaVars, muteVars, nativeVars, stats, jitterRunning, gap>>

(* Mutant: the end of start() without "finished".                          *)
FinishSilently(c) ==
    /\ Moves(pc, c, "leaving", "ended")
    /\ UNCHANGED <<terminator, javaVars, muteVars, nativeVars, stats, jitterRunning, gap>>

Finish(c) ==
    /\ Moves(pc, c, "leaving", "ended")
    /\ finished' = [finished EXCEPT ![c] = 1]
    /\ UNCHANGED <<terminator, javaVars, muteVars, native, running, srtpReady, devices,
                   stats, jitterRunning, gap>>

CallThread(c) ==
    \/ RunAudio(c) \/ SocketClosed(c)
    \/ NoAddress(c) \/ Construct(c) \/ Create(c) \/ CreateFails(c) \/ Assign(c)
    \/ Start(c) \/ InitStreams(c) \/ InitJitterBuffer(c)
    \/ StartMicrophone(c) \/ StartPlayer(c) \/ StartFails(c)
    \/ LeaveLoop(c) \/ Finish(c)

-----------------------------------------------------------------------------
(* The thread in RedPhoneService.terminate: of the service, or the call    *)
(* thread itself when its audio has failed.                                *)

Terminate(c) ==
    /\ ServiceFree
    /\ Moves(terminator, c, "none", "flagged")
    /\ \A d \in 1..(c - 1) : terminator[d] = "done"
    /\ terminated' = [terminated EXCEPT ![c] = TRUE]
    /\ UNCHANGED <<pc, assigned, socketOpen, callConnected, muteVars, nativeVars, stats,
                   jitterRunning, gap>>

Noted(c, what) == [gap EXCEPT ![c] = IF pc[c] \in SettingUp THEN @ \cup {what} ELSE @]

(* callAudioManager is null, or stop() is called and clears "running".     *)
Lower(c) ==
    /\ terminator[c] = "flagged"
    /\ IF assigned[c]
       THEN /\ terminator' = [terminator EXCEPT ![c] = "lowered"]
            /\ running' = [running EXCEPT ![c] = FALSE]
       ELSE /\ terminator' = [terminator EXCEPT ![c] = "closing"]
            /\ UNCHANGED running
    /\ gap' = Noted(c, "terminate")
    /\ UNCHANGED <<pc, javaVars, muteVars, native, finished, srtpReady, devices, stats,
                   jitterRunning>>

(* Mutant: the microphone is left to the destructor of the engine.         *)
PlayerOnly == {"player"}
Stopped    == {"microphone", "player"}

StopDevices(c) ==
    /\ Moves(terminator, c, "lowered", "silent")
    /\ devices' = [devices EXCEPT ![c] = @ \ Stopped]
    /\ UNCHANGED <<pc, javaVars, muteVars, native, running, finished, srtpReady, stats,
                   jitterRunning, gap>>

StopJitterBuffer(c) ==
    /\ Moves(terminator, c, "silent", "waiting")
    /\ jitterRunning' = FlagWhenDone
    /\ UNCHANGED <<pc, javaVars, muteVars, nativeVars, stats, gap>>

(* Mutant: stop() does not wait for the loop.                              *)
NoWait(c)       == TRUE
LoopFinished(c) == finished[c] # 0

(* pthread_cond_wait, and the sleep that outlasts a callback.              *)
Awaited(c) ==
    /\ LoopFinished(c)
    /\ Moves(terminator, c, "waiting", "sleeping")
    /\ UNCHANGED <<pc, javaVars, muteVars, nativeVars, stats, jitterRunning, gap>>

(* dispose(): the destructor stops everything once more.  It does not ask  *)
(* where the statistics thread is.                                         *)
Dispose(c) ==
    /\ Moves(terminator, c, "sleeping", "closing")
    /\ native' = [native EXCEPT ![c] = "freed"]
    /\ devices' = [devices EXCEPT ![c] = @ \ Stopped]
    /\ jitterRunning' = FlagWhenDone
    /\ UNCHANGED <<pc, javaVars, muteVars, running, finished, srtpReady, stats, gap>>

(* ZRTPSocket.close.                                                       *)
CloseSocket(c) ==
    /\ Moves(terminator, c, "closing", "done")
    /\ socketOpen' = [socketOpen EXCEPT ![c] = FALSE]
    /\ UNCHANGED <<pc, terminated, assigned, callConnected, muteVars, nativeVars, stats,
                   jitterRunning, gap>>

Terminator(c) ==
    \/ Lower(c) \/ StopDevices(c) \/ StopJitterBuffer(c) \/ Awaited(c) \/ Dispose(c)
    \/ CloseSocket(c)

(* CallManager.setMute, under the service's monitor and for its current    *)
(* call only.                                                              *)
(* Mutant: the native object is told only when it is created.              *)
StoredOnly(c, enabled) == nativeMute

Forwarded(c, enabled) ==
    IF assigned[c] THEN [nativeMute EXCEPT ![c] = enabled] ELSE nativeMute

SetMute(c, enabled) ==
    /\ c \in Muting
    /\ ServiceFree
    /\ terminator[c] = "none"
    /\ \A d \in 1..(c - 1) : terminator[d] = "done"
    /\ muteEnabled[c] # enabled
    /\ muteEnabled' = [muteEnabled EXCEPT ![c] = enabled]
    /\ nativeMute' = Forwarded(c, enabled)
    /\ gap' = Noted(c, "mute")
    /\ UNCHANGED <<pc, terminator, javaVars, muteArgument, nativeVars, stats, jitterRunning>>

-----------------------------------------------------------------------------
(* The statistics thread: test the flag, read, sleep for 30 seconds.       *)
TestFlag(c) ==
    /\ stats[c] = "awake"
    /\ stats' = [stats EXCEPT ![c] = IF jitterRunning THEN "reading" ELSE "ended"]
    /\ UNCHANGED <<pc, terminator, javaVars, muteVars, nativeVars, jitterRunning, gap>>

Read(c) ==
    /\ Moves(stats, c, "reading", "asleep")
    /\ UNCHANGED <<pc, terminator, javaVars, muteVars, nativeVars, jitterRunning, gap>>

WakeUp(c) ==
    /\ Moves(stats, c, "asleep", "awake")
    /\ UNCHANGED <<pc, terminator, javaVars, muteVars, nativeVars, jitterRunning, gap>>

StatsThread(c) == TestFlag(c) \/ Read(c) \/ WakeUp(c)

Next ==
    \E c \in Call :
        \/ CallThread(c) \/ Terminate(c) \/ Terminator(c) \/ StatsThread(c)
        \/ \E enabled \in BOOLEAN : SetMute(c, enabled)

Spec == Init /\ [][Next]_vars

(* The threads run; a call whose audio failed terminates itself.           *)
FairSpec ==
    /\ Spec
    /\ \A c \in Call :
         /\ WF_vars(CallThread(c))
         /\ WF_vars(Terminator(c))
         /\ WF_vars(StatsThread(c))
         /\ WF_vars(pc[c] = "failed" /\ Terminate(c))

-----------------------------------------------------------------------------
(* Properties.                                                             *)

TypeOK ==
    /\ pc \in [Call -> {"negotiating", "checked", "constructed", "created", "assigned",
                        "looping", "leaving", "failed", "ended"} \cup Stages]
    /\ terminator \in [Call -> {"none", "flagged", "lowered", "silent", "waiting",
                                "sleeping", "closing", "done"}]
    /\ terminated \in [Call -> BOOLEAN]
    /\ assigned \in [Call -> BOOLEAN]
    /\ socketOpen \in [Call -> BOOLEAN]
    /\ muteEnabled \in [Call -> BOOLEAN]
    /\ muteArgument \in [Call -> BOOLEAN]
    /\ callConnected \in [Call -> BOOLEAN]
    /\ native \in [Call -> {"none", "live", "freed"}]
    /\ running \in [Call -> BOOLEAN]
    /\ finished \in [Call -> {0, 1}]
    /\ nativeMute \in [Call -> BOOLEAN]
    /\ srtpReady \in [Call -> BOOLEAN]
    /\ devices \in [Call -> SUBSET {"microphone", "player"}]
    /\ stats \in [Call -> {"none", "awake", "reading", "asleep", "ended"}]
    /\ jitterRunning \in BOOLEAN
    /\ gap \in [Call -> SUBSET {"terminate", "mute"}]

(* dispose() frees nothing the call thread is in, or an open device calls  *)
(* back into; unless the call was terminated while start() was on its way  *)
(* to its loop, which stop() does not notice.                              *)
NothingFreedInUse ==
    \A c \in Call :
        native[c] = "freed" /\ "terminate" \notin gap[c]
            => pc[c] \notin InNative /\ devices[c] = {}

(* The types, and the life of the native objects.                          *)
CallAudioInvariant == TypeOK /\ NothingFreedInUse

(* A terminated call records and plays nothing; with the same exception.   *)
SilentWhenDone ==
    \A c \in Call :
        terminator[c] = "done" /\ "terminate" \notin gap[c]
            => devices[c] = {} /\ pc[c] \notin SettingUp \cup {"looping"}

(* A press of mute reaches the microphone, unless it came while the audio  *)
(* was being set up with the value from before.                            *)
MuteHonoured ==
    \A c \in Call :
        pc[c] = "looping" /\ "mute" \notin gap[c] => nativeMute[c] = muteEnabled[c]

(* Once the jitter buffer of a call was stopped, and ever after it was     *)
(* freed, its statistics thread begins no further read, unless a later     *)
(* call has raised the shared flag again.  A read that was begun before    *)
(* the stop may go on beyond dispose().                                    *)
BufferStopped(c) == terminator[c] \in {"waiting", "sleeping"} \/ native[c] = "freed"
LaterCall(c)     == \E d \in (c + 1)..MaxCalls : native[d] # "none"

NoReadAfterStop ==
    [][\A c \in Call :
         BufferStopped(c) /\ stats[c] # "reading" /\ stats'[c] = "reading"
         => LaterCall(c)]_vars

(* stop() returns, and the service's monitor with it: the loop sees that   *)
(* it is to end.  Not so when the audio was terminated while it was set up *)
(* or start() has failed and left "finished" at 0.                         *)
StopReturns ==
    \A c \in Call :
        terminator[c] = "waiting" /\ "terminate" \notin gap[c] /\ pc[c] # "failed"
            ~> terminator[c] = "done"

(* "Did this call ever successfully complete SRTP setup": what the comment *)
(* on CallManager.callConnected says of its result.                        *)
CallConnectedAsDocumented ==
    \A c \in Call : callConnected[c] /\ pc[c] \in {"failed", "ended"} => srtpReady[c]
================================================================================
