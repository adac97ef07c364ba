---------------------------- MODULE CallAudioProofs ----------------------------
(***************************************************************************)
(* The audio of the calls, for any number of them, any failures of start() *)
(* and any calls that are muted.                                           *)
(***************************************************************************)
EXTENDS CallAudio, TLAPS

(* What the two threads of a call, its flags and its devices say of each   *)
(* other.                                                                  *)
ThreadsAgree(c) ==
    /\ terminator[c] # "none" => terminated[c]
    /\ pc[c] \in {"negotiating", "checked", "constructed", "created"} => ~assigned[c]
    /\ pc[c] \in InNative => assigned[c]
    /\ devices[c] # {} => assigned[c]
    /\ terminator[c] \in {"lowered", "silent", "waiting", "sleeping"} => assigned[c]
    /\ native[c] = "freed" =>
         \/ assigned[c] /\ terminator[c] \in {"closing", "done"}
         \/ ~assigned[c] /\ pc[c] = "failed"
    /\ terminator[c] = "done" => ~socketOpen[c]
    /\ pc[c] \in Stages \cup {"looping", "leaving"} => finished[c] = 0

(* Where a call that was not terminated in the gap is.                     *)
StopInOrder(c) ==
    "terminate" \notin gap[c] =>
      /\ terminator[c] \notin {"none", "flagged"} => pc[c] \notin SettingUp
      /\ terminator[c] \in {"sleeping", "closing", "done"} => pc[c] \notin {"looping", "leaving"}
      /\ terminator[c] \in {"silent", "waiting", "sleeping", "closing", "done"}
           => devices[c] = {}

(* Where the last press of mute has come to.                               *)
MuteOnItsWay(c) ==
    "mute" \notin gap[c] =>
      /\ pc[c] \in SettingUp => muteArgument[c] = muteEnabled[c]
      /\ pc[c] \in Stages \cup {"looping"} => nativeMute[c] = muteEnabled[c]

Local(c) == ThreadsAgree(c) /\ StopInOrder(c) /\ MuteOnItsWay(c)

(* The calls follow one another, and only a later one raises the flag of   *)
(* the jitter buffers again.                                               *)
Successive(c) ==
    /\ pc[c] # "negotiating" => \A d \in 1..(c - 1) : terminator[d] = "done"
    /\ BufferStopped(c) /\ jitterRunning => LaterCall(c)

CallAudioIInv == TypeOK /\ \A c \in Call : Local(c) /\ Successive(c)

LEMMA InitInvariant == Init => CallAudioIInv
<1> SUFFICES ASSUME Init PROVE CallAudioIInv
  OBVIOUS
<1>1. TypeOK
  BY DEF Init, TypeOK
<1>2. ASSUME NEW c \in Call PROVE Local(c) /\ Successive(c)
  BY DEF Init, Local, ThreadsAgree, StopInOrder, MuteOnItsWay, Successive, BufferStopped, InNative,
         SettingUp, Stages
<1>3. QED
  BY <1>1, <1>2 DEF CallAudioIInv

-----------------------------------------------------------------------------
(* Types.                                                                  *)

LEMMA CallThreadTyped == ASSUME TypeOK, NEW c \in Call, CallThread(c) PROVE TypeOK'
<1> USE DEF TypeOK, Moves, javaVars, muteVars, nativeVars, Stages
<1>1. CASE RunAudio(c)
  <2>1. CASE terminated[c]
    BY <1>1, <2>1 DEF RunAudio
  <2>2. CASE ~terminated[c]
    <3>1. muteEnabled[c] \in BOOLEAN
      OBVIOUS
    <3>2. /\ callConnected' = [callConnected EXCEPT ![c] = TRUE]
          /\ muteArgument' = [muteArgument EXCEPT ![c] = muteEnabled[c]]
          /\ pc' = [pc EXCEPT ![c] = "checked"]
      BY <1>1, <2>2 DEF RunAudio
    <3>3. callConnected' \in [Call -> BOOLEAN]
      BY <3>2
    <3>4. muteArgument' \in [Call -> BOOLEAN]
      BY <3>1, <3>2
    <3>5. QED
      BY <1>1, <3>2, <3>3, <3>4 DEF RunAudio
  <2>3. QED
    BY <2>1, <2>2
<1>2. CASE SocketClosed(c)
  BY <1>2 DEF SocketClosed
<1>3. CASE NoAddress(c) \/ Construct(c) \/ Create(c)
  <2>1. CASE NoAddress(c)
    BY <2>1 DEF NoAddress
  <2>2. CASE Construct(c)
    BY <2>2 DEF Construct
  <2>3. CASE Create(c)
    BY <2>3 DEF Create
  <2>4. QED
    BY <1>3, <2>1, <2>2, <2>3
<1>4. CASE CreateFails(c)
  BY <1>4 DEF CreateFails, FlagWhenDone
<1>5. CASE Assign(c)
  BY <1>5 DEF Assign
<1>6. CASE Start(c)
  BY <1>6 DEF Start
<1>7. CASE InitStreams(c)
  BY <1>7 DEF InitStreams
<1>8. CASE InitJitterBuffer(c)
  BY <1>8 DEF InitJitterBuffer
<1>9. CASE StartFails(c)
  BY <1>9 DEF StartFails
<1>10. CASE StartMicrophone(c) \/ StartPlayer(c)
  BY <1>10 DEF StartMicrophone, StartPlayer, StartDevice
<1>11. CASE LeaveLoop(c) \/ Finish(c)
  BY <1>11 DEF LeaveLoop, Finish
<1>12. QED
  BY <1>1, <1>2, <1>3, <1>4, <1>5, <1>6, <1>7, <1>8, <1>9, <1>10, <1>11 DEF CallThread

LEMMA TerminatorTyped ==
    ASSUME TypeOK, NEW c \in Call, Terminate(c) \/ Terminator(c) PROVE TypeOK'
<1> USE DEF TypeOK, Moves, javaVars, muteVars, nativeVars
<1>1. CASE Terminate(c)
  BY <1>1 DEF Terminate
<1>2. CASE Lower(c)
  <2>1. gap' \in [Call -> SUBSET {"terminate", "mute"}]
    BY <1>2 DEF Lower, Noted
  <2>2. terminator' \in [Call -> {"none", "flagged", "lowered", "silent", "waiting",
                                  "sleeping", "closing", "done"}]
    BY <1>2 DEF Lower
  <2>3. running' \in [Call -> BOOLEAN]
    BY <1>2 DEF Lower
  <2>4. QED
    BY <1>2, <2>1, <2>2, <2>3 DEF Lower
<1>3. CASE StopDevices(c)
  BY <1>3 DEF StopDevices
<1>4. CASE StopJitterBuffer(c)
  BY <1>4 DEF StopJitterBuffer, FlagWhenDone
<1>5. CASE Awaited(c)
  BY <1>5 DEF Awaited
<1>6. CASE Dispose(c)
  BY <1>6 DEF Dispose, FlagWhenDone
<1>7. CASE CloseSocket(c)
  BY <1>7 DEF CloseSocket
<1>8. QED
  BY <1>1, <1>2, <1>3, <1>4, <1>5, <1>6, <1>7 DEF Terminator

LEMMA OthersTyped ==
    ASSUME TypeOK, NEW c \in Call,
           StatsThread(c) \/ \E enabled \in BOOLEAN : SetMute(c, enabled)
    PROVE  TypeOK'
<1> USE DEF TypeOK, Moves, javaVars, muteVars, nativeVars
<1>1. CASE StatsThread(c)
  BY <1>1 DEF StatsThread, TestFlag, Read, WakeUp
<1>2. ASSUME NEW enabled \in BOOLEAN, SetMute(c, enabled) PROVE TypeOK'
  <2>1. gap' \in [Call -> SUBSET {"terminate", "mute"}]
    BY <1>2 DEF SetMute, Noted
  <2>2. nativeMute' \in [Call -> BOOLEAN]
    BY <1>2 DEF SetMute, Forwarded
  <2>3. QED
    BY <1>2, <2>1, <2>2 DEF SetMute
<1>3. QED
  BY <1>1, <1>2

LEMMA NextTyped == ASSUME TypeOK, [Next]_vars PROVE TypeOK'
<1>1. CASE Next
  BY <1>1, CallThreadTyped, TerminatorTyped, OthersTyped DEF Next
<1>2. CASE UNCHANGED vars
  BY <1>2 DEF vars, javaVars, muteVars, nativeVars, TypeOK
<1>3. QED
  BY <1>1, <1>2
-----------------------------------------------------------------------------
(* A step of the threads of call c.                                        *)

Step(c) ==
    \/ CallThread(c) \/ Terminate(c) \/ Terminator(c) \/ StatsThread(c)
    \/ \E enabled \in BOOLEAN : SetMute(c, enabled)

(* What it leaves alone of another call.                                   *)
Same(d) ==
    /\ pc'[d] = pc[d] /\ terminator'[d] = terminator[d] /\ terminated'[d] = terminated[d]
    /\ assigned'[d] = assigned[d] /\ socketOpen'[d] = socketOpen[d]
    /\ muteEnabled'[d] = muteEnabled[d] /\ muteArgument'[d] = muteArgument[d]
    /\ nativeMute'[d] = nativeMute[d] /\ native'[d] = native[d]
    /\ finished'[d] = finished[d] /\ devices'[d] = devices[d]
    /\ stats'[d] = stats[d] /\ gap'[d] = gap[d]

LEMMA OtherCallsSame ==
    ASSUME TypeOK, NEW c \in Call, Step(c), NEW d \in Call, d # c PROVE Same(d)
<1> USE DEF TypeOK, Same, Moves, javaVars, muteVars, nativeVars
<1>1. CASE RunAudio(c)
  BY <1>1 DEF RunAudio
<1>2. CASE SocketClosed(c)
  BY <1>2 DEF SocketClosed
<1>3. CASE NoAddress(c) \/ Construct(c) \/ Create(c)
  <2>1. CASE NoAddress(c)
    BY <2>1 DEF NoAddress
  <2>2. CASE Construct(c)
    BY <2>2 DEF Construct
  <2>3. CASE Create(c)
    BY <2>3 DEF Create
  <2>4. QED
    BY <1>3, <2>1, <2>2, <2>3
<1>4. CASE CreateFails(c)
  BY <1>4 DEF CreateFails, FlagWhenDone
<1>5. CASE Assign(c)
  BY <1>5 DEF Assign
<1>6. CASE Start(c)
  BY <1>6 DEF Start
<1>7. CASE InitStreams(c)
  BY <1>7 DEF InitStreams
<1>8. CASE InitJitterBuffer(c)
  BY <1>8 DEF InitJitterBuffer
<1>9. CASE StartMicrophone(c)
  BY <1>9 DEF StartMicrophone, StartDevice
<1>10. CASE StartPlayer(c)
  BY <1>10 DEF StartPlayer, StartDevice
<1>11. CASE StartFails(c)
  BY <1>11 DEF StartFails
<1>12. CASE LeaveLoop(c)
  BY <1>12 DEF LeaveLoop
<1>13. CASE Finish(c)
  BY <1>13 DEF Finish
<1>14. CASE Terminate(c)
  BY <1>14 DEF Terminate
<1>15. CASE Lower(c)
  BY <1>15 DEF Lower, Noted
<1>16. CASE StopDevices(c)
  BY <1>16 DEF StopDevices, Stopped
<1>17. CASE StopJitterBuffer(c)
  BY <1>17 DEF StopJitterBuffer, FlagWhenDone
<1>18. CASE Awaited(c)
  BY <1>18 DEF Awaited, LoopFinished
<1>19. CASE Dispose(c)
  BY <1>19 DEF Dispose, Stopped, FlagWhenDone
<1>20. CASE CloseSocket(c)
  BY <1>20 DEF CloseSocket
<1>21. CASE TestFlag(c)
  BY <1>21 DEF TestFlag
<1>22. CASE Read(c)
  BY <1>22 DEF Read
<1>23. CASE WakeUp(c)
  BY <1>23 DEF WakeUp
<1>24. CASE \E enabled \in BOOLEAN : SetMute(c, enabled)
  BY <1>24 DEF SetMute, Forwarded, Noted
<1>25. QED
  BY <1>1, <1>2, <1>3, <1>4, <1>5, <1>6, <1>7, <1>8, <1>9, <1>10, <1>11, <1>12, <1>13,
     <1>14, <1>15, <1>16, <1>17, <1>18, <1>19, <1>20, <1>21, <1>22, <1>23, <1>24
  DEF Step, CallThread, Terminator, StatsThread

LEMMA LocalStays ==
    ASSUME NEW d \in Call, Local(d), Same(d) PROVE Local(d)'
  BY DEF Same, Local, ThreadsAgree, StopInOrder, MuteOnItsWay

LEMMA LocalStep ==
    ASSUME TypeOK, NEW c \in Call, Local(c), Step(c) PROVE Local(c)'
<1> USE DEF TypeOK, Local, ThreadsAgree, StopInOrder, MuteOnItsWay, SettingUp, InNative, Stages,
            Moves, javaVars, muteVars, nativeVars
<1>1. CASE RunAudio(c)
  BY <1>1 DEF RunAudio
<1>2. CASE SocketClosed(c)
  BY <1>2 DEF SocketClosed
<1>3. CASE NoAddress(c) \/ Construct(c) \/ Create(c)
  <2>1. CASE NoAddress(c)
    BY <2>1 DEF NoAddress
  <2>2. CASE Construct(c)
    BY <2>2 DEF Construct
  <2>3. CASE Create(c)
    BY <2>3 DEF Create
  <2>4. QED
    BY <1>3, <2>1, <2>2, <2>3
<1>4. CASE CreateFails(c)
  BY <1>4 DEF CreateFails, FlagWhenDone
<1>5. CASE Assign(c)
  BY <1>5 DEF Assign
<1>6. CASE Start(c)
  BY <1>6 DEF Start
<1>7. CASE InitStreams(c)
  BY <1>7 DEF InitStreams
<1>8. CASE InitJitterBuffer(c)
  BY <1>8 DEF InitJitterBuffer
<1>9. CASE StartMicrophone(c)
  BY <1>9 DEF StartMicrophone, StartDevice
<1>10. CASE StartPlayer(c)
  BY <1>10 DEF StartPlayer, StartDevice
<1>11. CASE StartFails(c)
  BY <1>11 DEF StartFails
<1>12. CASE LeaveLoop(c)
  BY <1>12 DEF LeaveLoop
<1>13. CASE Finish(c)
  BY <1>13 DEF Finish
<1>14. CASE Terminate(c)
  BY <1>14 DEF Terminate
<1>15. CASE Lower(c)
  BY <1>15 DEF Lower, Noted
<1>16. CASE StopDevices(c)
  BY <1>16 DEF StopDevices, Stopped
<1>17. CASE StopJitterBuffer(c)
  BY <1>17 DEF StopJitterBuffer, FlagWhenDone
<1>18. CASE Awaited(c)
  BY <1>18 DEF Awaited, LoopFinished
<1>19. CASE Dispose(c)
  BY <1>19 DEF Dispose, Stopped, FlagWhenDone
<1>20. CASE CloseSocket(c)
  BY <1>20 DEF CloseSocket
<1>21. CASE TestFlag(c)
  BY <1>21 DEF TestFlag
<1>22. CASE Read(c)
  BY <1>22 DEF Read
<1>23. CASE WakeUp(c)
  BY <1>23 DEF WakeUp
<1>24. CASE \E enabled \in BOOLEAN : SetMute(c, enabled)
  BY <1>24 DEF SetMute, Forwarded, Noted
<1>25. QED
  BY <1>1, <1>2, <1>3, <1>4, <1>5, <1>6, <1>7, <1>8, <1>9, <1>10, <1>11, <1>12, <1>13,
     <1>14, <1>15, <1>16, <1>17, <1>18, <1>19, <1>20, <1>21, <1>22, <1>23, <1>24
  DEF Step, CallThread, Terminator, StatsThread

-----------------------------------------------------------------------------
(* The calls among each other.                                             *)

(* What a step of call c does to what the calls share.                     *)
Passes(c) ==
    /\ terminator[c] = "done" => terminator'[c] = "done"
    /\ pc'[c] # "negotiating" =>
         pc[c] # "negotiating" \/ \A d \in 1..(c - 1) : terminator[d] = "done"
    /\ native[c] # "none" => native'[c] # "none"
    /\ BufferStopped(c)' => BufferStopped(c) \/ jitterRunning' = FALSE
    /\ stats'[c] = "reading" => stats[c] = "reading" \/ jitterRunning
    /\ jitterRunning' =>
         \/ jitterRunning
         \/ pc[c] = "checked" /\ socketOpen[c] /\ native'[c] = "live"

LEMMA StepPasses ==
    ASSUME TypeOK, NEW c \in Call, Step(c) PROVE Passes(c)
<1> USE DEF TypeOK, Passes, BufferStopped, Moves, javaVars, muteVars, nativeVars, Stages
<1>1. CASE RunAudio(c)
  BY <1>1 DEF RunAudio
<1>2. CASE SocketClosed(c)
  BY <1>2 DEF SocketClosed
<1>3. CASE NoAddress(c) \/ Construct(c) \/ Create(c)
  <2>1. CASE NoAddress(c)
    BY <2>1 DEF NoAddress
  <2>2. CASE Construct(c)
    BY <2>2 DEF Construct
  <2>3. CASE Create(c)
    BY <2>3 DEF Create
  <2>4. QED
    BY <1>3, <2>1, <2>2, <2>3
<1>4. CASE CreateFails(c)
  BY <1>4 DEF CreateFails, FlagWhenDone
<1>5. CASE Assign(c)
  BY <1>5 DEF Assign
<1>6. CASE Start(c)
  BY <1>6 DEF Start
<1>7. CASE InitStreams(c)
  BY <1>7 DEF InitStreams
<1>8. CASE InitJitterBuffer(c)
  BY <1>8 DEF InitJitterBuffer
<1>9. CASE StartMicrophone(c)
  BY <1>9 DEF StartMicrophone, StartDevice
<1>10. CASE StartPlayer(c)
  BY <1>10 DEF StartPlayer, StartDevice
<1>11. CASE StartFails(c)
  BY <1>11 DEF StartFails
<1>12. CASE LeaveLoop(c)
  BY <1>12 DEF LeaveLoop
<1>13. CASE Finish(c)
  BY <1>13 DEF Finish
<1>14. CASE Terminate(c)
  BY <1>14 DEF Terminate
<1>15. CASE Lower(c)
  BY <1>15 DEF Lower, Noted
<1>16. CASE StopDevices(c)
  BY <1>16 DEF StopDevices, Stopped
<1>17. CASE StopJitterBuffer(c)
  BY <1>17 DEF StopJitterBuffer, FlagWhenDone
<1>18. CASE Awaited(c)
  BY <1>18 DEF Awaited, LoopFinished
<1>19. CASE Dispose(c)
  BY <1>19 DEF Dispose, Stopped, FlagWhenDone
<1>20. CASE CloseSocket(c)
  BY <1>20 DEF CloseSocket
<1>21. CASE TestFlag(c)
  BY <1>21 DEF TestFlag
<1>22. CASE Read(c)
  BY <1>22 DEF Read
<1>23. CASE WakeUp(c)
  BY <1>23 DEF WakeUp
<1>24. CASE \E enabled \in BOOLEAN : SetMute(c, enabled)
  BY <1>24 DEF SetMute, Forwarded, Noted
<1>25. QED
  BY <1>1, <1>2, <1>3, <1>4, <1>5, <1>6, <1>7, <1>8, <1>9, <1>10, <1>11, <1>12, <1>13,
     <1>14, <1>15, <1>16, <1>17, <1>18, <1>19, <1>20, <1>21, <1>22, <1>23, <1>24
  DEF Step, CallThread, Terminator, StatsThread

LEMMA SuccessiveStep ==
    ASSUME CallAudioIInv, NEW c \in Call, Step(c), NEW e \in Call
    PROVE  Successive(e)'
<1>1. TypeOK /\ Local(c) /\ Local(e) /\ Successive(c) /\ Successive(e)
  BY DEF CallAudioIInv
<1>2. Passes(c)
  BY <1>1, StepPasses
<1>3. \A d \in Call : d # c => Same(d)
  BY <1>1, OtherCallsSame
<1>4. ASSUME NEW d \in Call
      PROVE  /\ terminator[d] = "done" => terminator'[d] = "done"
             /\ native[d] # "none" => native'[d] # "none"
  <2>1. CASE d = c
    BY <1>2, <2>1 DEF Passes
  <2>2. CASE d # c
    BY <1>3, <2>2 DEF Same
  <2>3. QED
    BY <2>1, <2>2
<1>5. c \in Nat /\ e \in Nat /\ c <= MaxCalls /\ MaxCalls \in Nat
  BY CallAssumption DEF Call
<1>6. LaterCall(e) => LaterCall(e)'
  BY <1>4, <1>5 DEF LaterCall, Call
<1>7. pc'[e] # "negotiating" => \A d \in 1..(e - 1) : terminator'[d] = "done"
  <2>1. pc'[e] # "negotiating" => \A d \in 1..(e - 1) : terminator[d] = "done"
    <3>1. CASE e = c
      BY <1>1, <1>2, <3>1 DEF Passes, Successive
    <3>2. CASE e # c
      BY <1>1, <1>3, <3>2 DEF Same, Successive
    <3>3. QED
      BY <3>1, <3>2
  <2>2. QED
    BY <2>1, <1>4, <1>5 DEF Call
<1>8. ASSUME BufferStopped(e), jitterRunning' PROVE LaterCall(e)'
  <2>1. CASE jitterRunning
    BY <1>1, <1>6, <1>8, <2>1 DEF Successive
  <2>2. CASE ~jitterRunning
    <3>1. pc[c] = "checked" /\ socketOpen[c] /\ native'[c] = "live"
      BY <1>2, <1>8, <2>2 DEF Passes
    <3>2. e # c
      BY <1>1, <1>8, <3>1 DEF Local, ThreadsAgree, BufferStopped
    <3>3. pc[e] # "negotiating"
      BY <1>1, <1>8 DEF Local, ThreadsAgree, BufferStopped
    <3>4. terminator[c] # "done"
      BY <1>1, <3>1 DEF Local, ThreadsAgree
    <3>5. ~(c < e)
      BY <1>1, <1>5, <3>3, <3>4 DEF Successive, Call
    <3>6. c \in (e + 1)..MaxCalls
      BY <1>5, <3>2, <3>5
    <3>7. QED
      BY <3>1, <3>6 DEF LaterCall
  <2>3. QED
    BY <2>1, <2>2
<1>9. BufferStopped(e)' => BufferStopped(e) \/ ~jitterRunning'
  BY <1>2, <1>3 DEF Passes, Same, BufferStopped
<1>10. QED
  BY <1>7, <1>8, <1>9 DEF Successive

LEMMA InvariantStep == CallAudioIInv /\ [Next]_vars => CallAudioIInv'
<1> SUFFICES ASSUME CallAudioIInv, [Next]_vars PROVE CallAudioIInv'
  OBVIOUS
<1>1. TypeOK'
  BY NextTyped DEF CallAudioIInv
<1>2. ASSUME NEW c \in Call, Step(c), NEW e \in Call PROVE Local(e)' /\ Successive(e)'
  <2>1. Local(e)'
    BY <1>2, LocalStep, OtherCallsSame, LocalStays DEF CallAudioIInv
  <2>2. QED
    BY <1>2, <2>1, SuccessiveStep
<1>3. ASSUME UNCHANGED vars, NEW e \in Call PROVE Local(e)' /\ Successive(e)'
  <2>1. Same(e)
    BY <1>3 DEF Same, vars, javaVars, muteVars, nativeVars
  <2>2. Local(e)'
    BY <2>1, LocalStays DEF CallAudioIInv
  <2>3. Successive(e)'
    BY <1>3 DEF CallAudioIInv, Successive, BufferStopped, LaterCall, vars, nativeVars
  <2>4. QED
    BY <2>2, <2>3
<1>4. CASE UNCHANGED vars
  BY <1>1, <1>3, <1>4 DEF CallAudioIInv
<1>5. CASE Next
  <2>1. PICK c \in Call : Step(c)
    BY <1>5 DEF Next, Step
  <2>2. QED
    BY <1>1, <1>2, <2>1 DEF CallAudioIInv
<1>6. QED
  BY <1>4, <1>5

-----------------------------------------------------------------------------
(* Theorems.                                                               *)

(* The invariant holds in every reachable state.                           *)
THEOREM CallAudioInvariance == Spec => []CallAudioIInv
  BY InitInvariant, InvariantStep, PTL DEF Spec

(* dispose() frees nothing that the call thread or a device is in, unless  *)
(* the call was terminated while start() was on its way to its loop.       *)
THEOREM NeverFreedInUse == Spec => []CallAudioInvariant
<1>1. CallAudioIInv => CallAudioInvariant
  BY DEF CallAudioIInv, CallAudioInvariant, NothingFreedInUse, Local, ThreadsAgree, StopInOrder,
         InNative, SettingUp, Stages
<1>2. QED
  BY <1>1, CallAudioInvariance, PTL

(* CallManager.terminate leaves a call silent, with the same exception.    *)
THEOREM AlwaysSilentWhenDone == Spec => []SilentWhenDone
<1>1. CallAudioIInv => SilentWhenDone
  BY DEF CallAudioIInv, SilentWhenDone, Local, ThreadsAgree, StopInOrder
<1>2. QED
  BY <1>1, CallAudioInvariance, PTL

(* CallManager.setMute reaches the microphone, unless the audio was being  *)
(* set up.                                                                 *)
THEOREM MuteAlwaysHonoured == Spec => []MuteHonoured
<1>1. CallAudioIInv => MuteHonoured
  BY DEF CallAudioIInv, MuteHonoured, Local, MuteOnItsWay
<1>2. QED
  BY <1>1, CallAudioInvariance, PTL

(* After its buffer was stopped, a statistics thread begins another read   *)
(* only because a later call has raised the flag all jitter buffers share. *)
THEOREM ReadsEndWithStop == Spec => NoReadAfterStop
<1>1. ASSUME CallAudioIInv, [Next]_vars, NEW c \in Call,
             BufferStopped(c), stats[c] # "reading", stats'[c] = "reading"
      PROVE  LaterCall(c)
  <2>1. jitterRunning
    <3>1. CASE UNCHANGED vars
      BY <1>1, <3>1 DEF vars
    <3>2. CASE Next
      <4>1. PICK d \in Call : Step(d)
        BY <3>2 DEF Next, Step
      <4>2. d = c
        BY <1>1, <4>1, OtherCallsSame DEF CallAudioIInv, Same
      <4>3. QED
        BY <1>1, <4>1, <4>2, StepPasses DEF CallAudioIInv, Passes
    <3>3. QED
      BY <1>1, <3>1, <3>2
  <2>2. QED
    BY <1>1, <2>1 DEF CallAudioIInv, Successive
<1>2. CallAudioIInv /\ [Next]_vars
        => [\A c \in Call :
              BufferStopped(c) /\ stats[c] # "reading" /\ stats'[c] = "reading"
              => LaterCall(c)]_vars
  BY <1>1
<1>3. QED
  BY <1>2, CallAudioInvariance, PTL DEF Spec, NoReadAfterStop
================================================================================
