---------------------------- MODULE LockManagerProofs ----------------------------
(***************************************************************************)
(* The locks and the keyguard, for any number of calls and any device.     *)
(***************************************************************************)
EXTENDS LockManager, SequenceTheorems, TLAPS

(* A thread notes that the keyguard is enabled right after it enabled it.  *)
NotesInOrder(steps) ==
    \A i \in 1..Len(steps) : i > 1 /\ steps[i] = "noteEnabled" => steps[i - 1] = "reenable"

(* The main thread never turns to the keyguard.                            *)
Shapes ==
    /\ \A t \in Thread : NotesInOrder(todo[t])
    /\ todo["main"] \in Seq(OnMain)

At(t, step) == ~AtRest(t) /\ Head(todo[t]) = step

(* While the updating threads keep out of each other's way, the flag and   *)
(* the keyguard differ only until a thread has noted what it did.          *)
KeyguardNoted ==
    ~overlapped =>
      /\ AtRest("service") \/ AtRest("call")
      /\ ~keyguard /\ ~keyguardDisabled => \E t \in Thread : At(t, "noteDisabled")
      /\ \A t \in Thread : At(t, "noteEnabled") => keyguard

(* The update to IDLE that nothing overlaps, step by step.                 *)
Disabling == {ToIdle, <<"disable", "testKeyguard">>}
Enabling  == {<<"testKeyguard">>, <<"reenable", "noteEnabled">>, <<"noteEnabled">>, <<>>}

IdleInOrder ==
    told = "IDLE" /\ alone =>
      /\ AtRest("call") /\ AtRest("main")
      /\ todo["service"] \in Disabling \cup Enabling
      /\ todo["service"] # ToIdle => held = {}
      /\ todo["service"] \in Enabling => ~registered /\ ~message
      /\ todo["service"] = <<>> => ~keyguardDisabled

LockIInv == TypeOK /\ Shapes /\ KeyguardNoted /\ IdleInOrder

-----------------------------------------------------------------------------
(* The lists of steps.                                                     *)

LEMMA TailInOrder ==
    ASSUME NEW S, NEW q \in Seq(S), q # <<>>, NotesInOrder(q)
    PROVE  /\ Tail(q) \in Seq(S) /\ NotesInOrder(Tail(q))
           /\ Head(q) # "reenable" /\ Tail(q) # <<>> => Head(Tail(q)) # "noteEnabled"
<1>1. /\ Tail(q) \in Seq(S) /\ Len(q) \in Nat \ {0} /\ Len(Tail(q)) = Len(q) - 1
      /\ \A i \in 1..Len(q) - 1 : Tail(q)[i] = q[i + 1]
      OBVIOUS
<1>2. NotesInOrder(Tail(q))
  <2>1. \A i \in 1..Len(q) - 1 : i > 1 => i + 1 \in 1..Len(q) /\ i - 1 \in 1..Len(q) - 1
        BY <1>1
  <2>   QED  BY <1>1, <2>1 DEF NotesInOrder
<1>3. ASSUME Tail(q) # <<>>, Head(q) # "reenable"
      PROVE  Head(Tail(q)) # "noteEnabled"
  <2>1. Len(q) > 1 /\ Head(Tail(q)) = q[2] /\ Head(q) = q[1]
        BY <1>1, <1>3
  <2>   QED  BY <1>1, <1>3, <2>1 DEF NotesInOrder
<1> QED  BY <1>1, <1>2, <1>3

LEMMA PushInOrder ==
    ASSUME NEW S, NEW q \in Seq(S), q # <<>>, NotesInOrder(q), Head(q) # "reenable",
           NEW step \in S
    PROVE  LET p == <<step>> \o Tail(q) IN
           p \in Seq(S) /\ NotesInOrder(p) /\ p # <<>> /\ Head(p) = step
<1> DEFINE p == <<step>> \o Tail(q)
<1>1. /\ Tail(q) \in Seq(S) /\ Len(q) \in Nat \ {0} /\ Len(Tail(q)) = Len(q) - 1
      /\ \A i \in 1..Len(q) - 1 : Tail(q)[i] = q[i + 1]
      OBVIOUS
<1>2. p \in Seq(S) /\ Len(p) = Len(q) /\ p[1] = step
      /\ \A i \in 2..Len(q) : p[i] = q[i]
  <2>1. \A i \in 2..Len(q) : i - 1 \in 1..Len(q) - 1 /\ (i - 1) + 1 = i
        BY <1>1
  <2>   QED  BY <1>1, <2>1
<1>3. p # <<>> /\ Head(p) = step /\ Head(q) = q[1]
      BY <1>1, <1>2
<1>   HIDE DEF p
<1>4. NotesInOrder(p)
  <2> SUFFICES ASSUME NEW i \in 1..Len(p), i > 1, p[i] = "noteEnabled"
               PROVE  p[i - 1] = "reenable"
      BY DEF NotesInOrder
  <2>1. q[i - 1] = "reenable"
        BY <1>1, <1>2 DEF NotesInOrder
  <2>2. i # 2
        BY <1>3, <2>1
  <2>   QED  BY <1>1, <1>2, <2>1, <2>2
<1> QED  BY <1>2, <1>3, <1>4 DEF p

LEMMA TwoBefore ==
    ASSUME NEW S, NEW a \in S, NEW b \in S, NEW q \in Seq(S)
    PROVE  LET p == <<a, b>> \o q IN
           /\ p \in Seq(S) /\ Len(p) = Len(q) + 2 /\ p[1] = a /\ p[2] = b
           /\ \A i \in 1..Len(q) : p[i + 2] = q[i]
<1>1. <<a, b>> \in Seq(S) /\ Len(<<a, b>>) = 2 /\ <<a, b>>[1] = a /\ <<a, b>>[2] = b
      OBVIOUS
<1>2. PICK r \in Seq(S) : r = <<a, b>>
      BY <1>1
<1>3. Len(r) = 2 /\ r[1] = a /\ r[2] = b
      BY <1>1, <1>2
<1>4. /\ r \o q \in Seq(S) /\ Len(r \o q) = Len(r) + Len(q)
      /\ \A i \in 1..Len(r) + Len(q) :
           (r \o q)[i] = IF i <= Len(r) THEN r[i] ELSE q[i - Len(r)]
      BY ConcatProperties, Zenon
<1>5. Len(q) \in Nat
      OBVIOUS
<1>6. /\ r \o q \in Seq(S) /\ Len(r \o q) = Len(q) + 2
      /\ (r \o q)[1] = a /\ (r \o q)[2] = b
      BY <1>3, <1>4, <1>5
<1>7. \A i \in 1..Len(q) : (r \o q)[i + 2] = q[i]
  <2> TAKE i \in 1..Len(q)
  <2>1. i + 2 \in 1..Len(r) + Len(q) /\ ~(i + 2 <= Len(r)) /\ i + 2 - Len(r) = i
        BY <1>3, <1>5
  <2>   QED  BY <1>4, <2>1
<1> QED  BY <1>2, <1>6, <1>7, Zenon

LEMMA ReenableInOrder ==
    ASSUME NEW q \in Seq(StepName), q # <<>>, NotesInOrder(q), Head(q) # "reenable"
    PROVE  LET p == <<"reenable", "noteEnabled">> \o Tail(q) IN
           p \in Seq(StepName) /\ NotesInOrder(p) /\ p # <<>> /\ Head(p) = "reenable"
<1> DEFINE p == <<"reenable", "noteEnabled">> \o Tail(q)
<1>1. /\ Tail(q) \in Seq(StepName) /\ Len(q) \in Nat \ {0} /\ Len(Tail(q)) = Len(q) - 1
      /\ \A i \in 1..Len(q) - 1 : Tail(q)[i] = q[i + 1]
      OBVIOUS
<1>2. /\ p \in Seq(StepName) /\ Len(p) = Len(q) + 1
      /\ p[1] = "reenable" /\ p[2] = "noteEnabled"
      /\ \A i \in 3..Len(q) + 1 : p[i] = q[i - 1]
  <2>1. "reenable" \in StepName /\ "noteEnabled" \in StepName
        BY DEF StepName
  <2>2. /\ p \in Seq(StepName) /\ Len(p) = Len(Tail(q)) + 2
        /\ p[1] = "reenable" /\ p[2] = "noteEnabled"
        /\ \A i \in 1..Len(Tail(q)) : p[i + 2] = Tail(q)[i]
        BY <1>1, <2>1, TwoBefore
  <2>   HIDE DEF p
  <2>3. ASSUME NEW i \in 3..Len(q) + 1
        PROVE  p[i] = q[i - 1]
    <3>1. /\ i - 2 \in 1..Len(Tail(q)) /\ i - 2 \in 1..Len(q) - 1
          /\ (i - 2) + 2 = i /\ (i - 2) + 1 = i - 1
          BY <1>1
    <3>2. p[(i - 2) + 2] = Tail(q)[i - 2] /\ Tail(q)[i - 2] = q[(i - 2) + 1]
          BY <1>1, <2>2, <3>1
    <3>   QED  BY <3>1, <3>2
  <2>   QED  BY <1>1, <2>2, <2>3
<1>3. p # <<>> /\ Head(p) = "reenable" /\ Head(q) = q[1]
      BY <1>1, <1>2
<1>   HIDE DEF p
<1>4. NotesInOrder(p)
  <2> SUFFICES ASSUME NEW i \in 1..Len(p), i > 1, p[i] = "noteEnabled"
               PROVE  p[i - 1] = "reenable"
      BY DEF NotesInOrder
  <2>1. CASE i = 2
        BY <1>2, <2>1
  <2>2. CASE i # 2
    <3>1. i - 1 \in 1..Len(q) /\ i - 1 > 1 /\ q[i - 1] = "noteEnabled"
          BY <1>1, <1>2, <2>2
    <3>2. q[i - 2] = "reenable"
          BY <3>1 DEF NotesInOrder
    <3>3. i - 2 # 1
          BY <1>3, <3>2
    <3>   QED  BY <1>1, <1>2, <2>2, <3>2, <3>3
  <2>   QED  BY <2>1, <2>2
<1> QED  BY <1>2, <1>3, <1>4 DEF p

LEMMA ThreeInOrder ==
    ASSUME NEW a \in StepName, NEW b \in StepName, NEW c \in StepName,
           b # "noteEnabled", c # "noteEnabled"
    PROVE  LET q == <<a, b, c>> IN
           q \in Seq(StepName) /\ NotesInOrder(q) /\ q # <<>> /\ Head(q) = a
<1> DEFINE q == <<a, b, c>>
<1>1. /\ q \in Seq(StepName) /\ Len(q) = 3 /\ Head(q) = a /\ q # <<>>
      /\ q[2] # "noteEnabled" /\ q[3] # "noteEnabled"
      OBVIOUS
<1>   HIDE DEF q
<1>2. NotesInOrder(q)
      BY <1>1 DEF NotesInOrder
<1> QED  BY <1>1, <1>2 DEF q

LEMMA StepsInOrder ==
    ASSUME NEW state \in {"IDLE", "PROCESSING", "INTERACTIVE", "IN_CALL"}
    PROVE  /\ Steps(state) \in Seq(StepName) /\ NotesInOrder(Steps(state))
           /\ Steps(state) # <<>> /\ Head(Steps(state)) \notin {"noteDisabled", "noteEnabled"}
<1> USE DEF StepName, OnMain, LockState
<1>1. CASE state = "IDLE"
  <2>1. Steps(state) = <<"SLEEP", "disable", "testKeyguard">>
        BY <1>1 DEF Steps, ToIdle
  <2>2. /\ Steps(state) \in Seq(StepName) /\ NotesInOrder(Steps(state))
        /\ Steps(state) # <<>> /\ Head(Steps(state)) = "SLEEP"
        BY <2>1, ThreeInOrder
  <2>   QED  BY <2>2
<1>2. CASE state = "PROCESSING"
  <2>1. Steps(state) = <<"PARTIAL", "disable", "testKeyguard">>
        BY <1>2 DEF Steps
  <2>2. /\ Steps(state) \in Seq(StepName) /\ NotesInOrder(Steps(state))
        /\ Steps(state) # <<>> /\ Head(Steps(state)) = "PARTIAL"
        BY <2>1, ThreeInOrder
  <2>   QED  BY <2>2
<1>3. CASE state = "INTERACTIVE"
  <2>1. Steps(state) = <<"FULL", "disable", "disableKeyguard">>
        BY <1>3 DEF Steps
  <2>2. /\ Steps(state) \in Seq(StepName) /\ NotesInOrder(Steps(state))
        /\ Steps(state) # <<>> /\ Head(Steps(state)) = "FULL"
        BY <2>1, ThreeInOrder
  <2>   QED  BY <2>2
<1>4. CASE state = "IN_CALL"
  <2>1. Steps(state) = <<"enable", "updateInCallLockState", "disableKeyguard">>
        BY <1>4 DEF Steps
  <2>2. /\ Steps(state) \in Seq(StepName) /\ NotesInOrder(Steps(state))
        /\ Steps(state) # <<>> /\ Head(Steps(state)) = "enable"
        BY <2>1, ThreeInOrder
  <2>   QED  BY <2>2
<1> QED  BY <1>1, <1>2, <1>3, <1>4

LEMMA TerminateInOrder ==
    LET q == Steps("PROCESSING") \o <<"IDLE">> IN
    /\ q \in Seq(StepName) /\ NotesInOrder(q)
    /\ q # <<>> /\ Head(q) \notin {"noteDisabled", "noteEnabled"}
<1> DEFINE q == <<"PARTIAL", "disable", "testKeyguard", "IDLE">>
<1>1. q = Steps("PROCESSING") \o <<"IDLE">>
      BY DEF Steps
<1>2. /\ q \in Seq(StepName) /\ Len(q) = 4 /\ Head(q) = "PARTIAL" /\ q # <<>>
      /\ q[2] # "noteEnabled" /\ q[3] # "noteEnabled" /\ q[4] # "noteEnabled"
      BY DEF StepName, LockState, OnMain
<1>   HIDE DEF q
<1>3. NotesInOrder(q)
      BY <1>2 DEF NotesInOrder
<1> QED  BY <1>1, <1>2, <1>3

-----------------------------------------------------------------------------
(* Types and shapes.                                                       *)

(* The list that thread t has left, when it has taken a step of it.        *)
Continued(t, steps) ==
    /\ todo' = [todo EXCEPT ![t] = steps]
    /\ steps \in Seq(StepName) /\ NotesInOrder(steps)
    /\ t = "main" => steps \in Seq(OnMain)
    /\ Head(todo[t]) # "reenable" /\ steps # <<>> => Head(steps) # "noteEnabled"

LEMMA ThreadContinues ==
    ASSUME TypeOK, Shapes, NEW t \in Thread, Step(t) \/ (t = "main" /\ MainStep)
    PROVE  \E steps : Continued(t, steps)
<1> DEFINE q == todo[t]
<1>1. /\ q \in Seq(StepName) /\ q # <<>> /\ NotesInOrder(q)
      /\ t = "main" => q \in Seq(OnMain)
      BY DEF TypeOK, Shapes, Step, MainStep, AtRest
<1>2. /\ Tail(q) \in Seq(StepName) /\ NotesInOrder(Tail(q))
      /\ t = "main" => Tail(q) \in Seq(OnMain)
      /\ Head(q) # "reenable" /\ Tail(q) # <<>> => Head(Tail(q)) # "noteEnabled"
      BY <1>1, TailInOrder
<1>3. CASE todo' = [todo EXCEPT ![t] = Tail(@)]
      BY <1>2, <1>3 DEF Continued
<1>4. CASE updateInCallLockState(t)
  <2>1. Head(q) # "reenable" /\ InCallLockState \in OnMain /\ InCallLockState \in StepName
        BY <1>4 DEF updateInCallLockState, InCallLockState, OnMain, StepName, LockState
  <2>2. LET p == <<InCallLockState>> \o Tail(q) IN
        /\ p \in Seq(StepName) /\ NotesInOrder(p) /\ Head(p) = InCallLockState
        /\ t = "main" => p \in Seq(OnMain)
        BY <1>1, <2>1, PushInOrder
  <2>3. InCallLockState # "noteEnabled"
        BY DEF InCallLockState
  <2>4. todo' = [todo EXCEPT ![t] = <<InCallLockState>> \o Tail(q)]
        BY <1>4 DEF updateInCallLockState
  <2>   QED  BY <2>2, <2>3, <2>4 DEF Continued
<1>5. ASSUME t # "main", Head(q) = "disableKeyguard",
             todo' = [todo EXCEPT ![t] = <<"noteDisabled">> \o Tail(@)]
      PROVE  \E steps : Continued(t, steps)
  <2>1. "noteDisabled" \in StepName
        BY DEF StepName
  <2>2. LET p == <<"noteDisabled">> \o Tail(q) IN
        p \in Seq(StepName) /\ NotesInOrder(p) /\ Head(p) = "noteDisabled"
        BY <1>1, <1>5, <2>1, PushInOrder
  <2>   QED  BY <1>5, <2>2 DEF Continued
<1>6. ASSUME t # "main", Head(q) = "testKeyguard",
             todo' = [todo EXCEPT ![t] = <<"reenable", "noteEnabled">> \o Tail(@)]
      PROVE  \E steps : Continued(t, steps)
  <2>1. LET p == <<"reenable", "noteEnabled">> \o Tail(q) IN
        p \in Seq(StepName) /\ NotesInOrder(p) /\ Head(p) = "reenable"
        BY <1>1, <1>6, ReenableInOrder
  <2>   QED  BY <1>6, <2>1 DEF Continued
<1>7. t = "main" => Head(q) \in OnMain
      BY <1>1
<1>8. CASE Keyguard(t)
  <2>1. t # "main"
        BY <1>7, <1>8 DEF Keyguard, OnMain, LockState, Posture
  <2>2. \/ todo' = [todo EXCEPT ![t] = Tail(@)]
        \/ /\ Head(q) = "disableKeyguard"
           /\ todo' = [todo EXCEPT ![t] = <<"noteDisabled">> \o Tail(@)]
        \/ /\ Head(q) = "testKeyguard"
           /\ todo' = [todo EXCEPT ![t] = <<"reenable", "noteEnabled">> \o Tail(@)]
        BY <1>8 DEF Keyguard
  <2>   QED  BY <1>3, <1>5, <1>6, <2>1, <2>2
<1>9. CASE setLockState(t) \/ Enable(t) \/ Disable(t) \/ (t = "main" /\ MainStep)
      BY <1>3, <1>9 DEF setLockState, Enable, Disable, MainStep, setOrientation, Handler
<1> QED  BY <1>4, <1>8, <1>9 DEF Step

(* The list that a thread begins with: it does not turn to the keyguard at *)
(* once.                                                                   *)
Begun(t, steps) ==
    /\ AtRest(t)
    /\ todo' = [todo EXCEPT ![t] = steps]
    /\ steps \in Seq(StepName) /\ NotesInOrder(steps)
    /\ t = "main" => steps \in Seq(OnMain)
    /\ Head(steps) \notin {"noteDisabled", "noteEnabled"}

LEMMA TellBegins ==
    ASSUME NEW t \in {"service", "call"},
           NEW state \in {"IDLE", "PROCESSING", "INTERACTIVE", "IN_CALL"}, Tell(t, state)
    PROVE  Begun(t, Steps(state))
BY StepsInOrder DEF Tell, Begun

LEMMA UpdaterBegins ==
    ASSUME TypeOK, BeginCall \/ Terminate \/ CallTells
    PROVE  \E t \in {"service", "call"} : \E steps : Begun(t, steps) /\ Begins(t)
<1>1. CASE BeginCall
      BY <1>1, TellBegins DEF BeginCall, Tell
<1>2. CASE Terminate
      BY <1>2, TerminateInOrder DEF Terminate, Begun
<1>3. CASE CallTells
  <2>1. Head(toTell) \in {"INTERACTIVE", "IN_CALL"}
        BY <1>3 DEF CallTells, TypeOK
  <2>   QED  BY <1>3, <2>1, TellBegins DEF CallTells, Tell
<1> QED  BY <1>1, <1>2, <1>3

LEMMA OrientationOnMain == \A p \in Posture : <<p>> \in Seq(OnMain)
BY DEF OnMain

LEMMA MessageOnMain ==
    <<"load", "store", "orientationChanged", "updateInCallLockState">> \in Seq(OnMain)
BY DEF OnMain

LEMMA MainInOrder ==
    ASSUME NEW q \in Seq(OnMain)
    PROVE  q \in Seq(StepName) /\ NotesInOrder(q)
<1>1. OnMain \subseteq StepName
      BY DEF StepName
<1>2. q \in Seq(StepName)
      BY <1>1
<1>3. \A i \in 1..Len(q) : q[i] # "noteEnabled"
      BY DEF OnMain, LockState, Posture
<1> QED  BY <1>2, <1>3 DEF NotesInOrder

LEMMA MainIsBegun ==
    ASSUME NEW q \in Seq(OnMain), q # <<>>, MainBegins(q)
    PROVE  Begun("main", q)
<1>1. Head(q) \in OnMain
      OBVIOUS
<1> QED  BY <1>1, MainInOrder DEF MainBegins, Begun, OnMain, LockState, Posture

LEMMA MainThreadBegins ==
    ASSUME TypeOK, onSensorEvent \/ handleMessage
    PROVE  \E steps : Begun("main", steps) /\ MainBegins(steps)
<1>1. CASE onSensorEvent
  <2>1. <<posture>> \in Seq(OnMain) /\ <<posture>> # <<>>
        BY OrientationOnMain DEF TypeOK
  <2>   QED  BY <1>1, <2>1, MainIsBegun DEF onSensorEvent
<1>2. CASE handleMessage
  <2> DEFINE q == <<"load", "store", "orientationChanged", "updateInCallLockState">>
  <2>1. q \in Seq(OnMain) /\ q # <<>>
        BY MessageOnMain
  <2>2. MainBegins(q)
        BY <1>2 DEF handleMessage
  <2>   HIDE DEF q
  <2>   QED  BY <2>1, <2>2, MainIsBegun
<1> QED  BY <1>1, <1>2

LEMMA ShapesStep ==
    ASSUME TypeOK, Shapes, [Next]_vars
    PROVE  todo' \in [Thread -> Seq(StepName)] /\ Shapes'
<1>1. ASSUME NEW t \in Thread, NEW steps, Begun(t, steps) \/ Continued(t, steps)
      PROVE  todo' \in [Thread -> Seq(StepName)] /\ Shapes'
  <2>1. /\ todo' = [todo EXCEPT ![t] = steps]
        /\ steps \in Seq(StepName) /\ NotesInOrder(steps)
        /\ t = "main" => steps \in Seq(OnMain)
        BY <1>1 DEF Begun, Continued
  <2>2. \A u \in Thread : todo'[u] = IF u = t THEN steps ELSE todo[u]
        BY <2>1 DEF TypeOK
  <2>3. todo' \in [Thread -> Seq(StepName)]
        BY <2>1 DEF TypeOK
  <2>4. \A u \in Thread : NotesInOrder(todo'[u])
        BY <2>1, <2>2 DEF Shapes
  <2>5. todo'["main"] \in Seq(OnMain)
        BY <2>1, <2>2 DEF Shapes, Thread
  <2>   QED  BY <2>3, <2>4, <2>5 DEF Shapes
<1>2. CASE \/ \E p \in Posture : MoveTo(p)
           \/ CallSkips \/ ResetState \/ UNCHANGED vars
      BY <1>2 DEF TypeOK, Shapes, MoveTo, CallSkips, ResetState, vars
<1>3. CASE TerminateEnds
  <2>1. todo' = [todo EXCEPT !["service"] = Steps("IDLE")]
        BY <1>3 DEF TerminateEnds
  <2>   QED  BY <2>1, StepsInOrder DEF TypeOK, Shapes, Thread
<1>4. CASE BeginCall \/ Terminate \/ CallTells
  <2>0. PICK t \in {"service", "call"} : \E steps : Begun(t, steps)
        BY <1>4, UpdaterBegins
  <2>1. PICK steps : Begun(t, steps)
        BY <2>0
  <2>   QED  BY <1>1, <2>1 DEF Thread
<1>5. CASE onSensorEvent \/ handleMessage
      BY <1>1, <1>5, MainThreadBegins DEF Thread
<1>6. CASE (\E t \in Thread : Step(t)) \/ MainStep
  <2>1. PICK t \in Thread : Step(t) \/ (t = "main" /\ MainStep)
        BY <1>6 DEF Thread
  <2>   QED  BY <1>1, <2>1, ThreadContinues
<1> QED  BY <1>2, <1>3, <1>4, <1>5, <1>6 DEF Next

LEMMA LocksTyped == \A state : state \in LockState => Locks(state) \subseteq Lock
BY DEF Locks, Lock, LockState

LEMMA ToTellTyped ==
    ASSUME NEW q \in Seq({"INTERACTIVE", "IN_CALL"})
    PROVE  /\ q \o <<"INTERACTIVE", "IN_CALL">> \in Seq({"INTERACTIVE", "IN_CALL"})
           /\ Append(q, "IN_CALL") \in Seq({"INTERACTIVE", "IN_CALL"})
           /\ q # <<>> => /\ Tail(q) \in Seq({"INTERACTIVE", "IN_CALL"})
                          /\ Head(q) \in {"INTERACTIVE", "IN_CALL"}
OBVIOUS

LEMMA TypeStep ==
    ASSUME TypeOK, Shapes, [Next]_vars
    PROVE  TypeOK'
<1>1. todo' \in [Thread -> Seq(StepName)]
      BY ShapesStep
<1>2. CASE BeginCall
  <2>1. calls' \in 0..MaxCalls
        BY <1>2, LockAssumption DEF TypeOK, BeginCall
  <2>2. toTell' \in Seq({"INTERACTIVE", "IN_CALL"})
        BY <1>2, ToTellTyped DEF TypeOK, BeginCall
  <2>3. /\ open' \in BOOLEAN /\ {alone', overlapped'} \subseteq BOOLEAN
        /\ told' \in {"IDLE", "PROCESSING", "INTERACTIVE", "IN_CALL"}
        BY <1>2 DEF TypeOK, BeginCall, Tell, Begins
  <2>4. UNCHANGED <<posture, locks, orientation, listener>>
        BY <1>2 DEF BeginCall, Tell
  <2>   QED  BY <1>1, <2>1, <2>2, <2>3, <2>4 DEF TypeOK, locks, listener
<1>3. CASE Terminate \/ TerminateEnds
      BY <1>1, <1>3 DEF TypeOK, Terminate, TerminateEnds, Begins, locks, listener
<1>4. CASE CallTells \/ CallSkips
      BY <1>1, <1>4, ToTellTyped
      DEF TypeOK, CallTells, CallSkips, Tell, Begins, locks, listener
<1>5. CASE ResetState \/ onSensorEvent \/ handleMessage \/ (\E p \in Posture : MoveTo(p))
      BY <1>1, <1>5
      DEF TypeOK, ResetState, onSensorEvent, handleMessage, MoveTo, MainBegins, locks, listener
<1>6. ASSUME NEW t \in Thread, Step(t)
      PROVE  TypeOK'
  <2>1. CASE setLockState(t)
        BY <1>1, <2>1, LocksTyped DEF TypeOK, setLockState, phone, listener, LockState
  <2>2. CASE updateInCallLockState(t) \/ Enable(t) \/ Disable(t)
        BY <1>1, <2>2 DEF TypeOK, updateInCallLockState, Enable, Disable, RemoveMessages,
           phone, locks, listener
  <2>3. CASE Keyguard(t)
        BY <1>1, <2>3 DEF TypeOK, Keyguard, phone, locks, listener
  <2>   QED  BY <1>6, <2>1, <2>2, <2>3 DEF Step
<1>7. CASE MainStep
  <2>1. CASE setOrientation
        BY <1>1, <2>1 DEF TypeOK, setOrientation, Pending, phone, locks
  <2>2. CASE Handler
        BY <1>1, <2>2 DEF TypeOK, Handler, phone, locks
  <2>   QED  BY <1>7, <2>1, <2>2 DEF MainStep
<1>8. CASE UNCHANGED vars
      BY <1>1, <1>8 DEF TypeOK, vars, phone, locks, listener
<1> QED  BY <1>2, <1>3, <1>4, <1>5, <1>6, <1>7, <1>8 DEF Next

-----------------------------------------------------------------------------
(* The keyguard.                                                           *)

LEMMA MainNotes ==
    ASSUME Shapes
    PROVE  ~ At("main", "noteDisabled") /\ ~ At("main", "noteEnabled")
<1>1. todo["main"] # <<>> => Head(todo["main"]) \in OnMain
      BY DEF Shapes
<1> QED  BY <1>1 DEF At, AtRest, OnMain, LockState, Posture

(* A thread that neither is at a note nor comes to one.                    *)
LEMMA SameNotes ==
    ASSUME TypeOK, NEW t \in Thread, NEW steps, todo' = [todo EXCEPT ![t] = steps],
           NEW note, ~ At(t, note), steps = <<>> \/ Head(steps) # note
    PROVE  \A u \in Thread : At(u, note)' <=> At(u, note)
<1>1. \A u \in Thread : todo'[u] = IF u = t THEN steps ELSE todo[u]
      BY DEF TypeOK
<1> QED  BY <1>1 DEF At, AtRest

LEMMA NotesKept ==
    ASSUME KeyguardNoted, UNCHANGED <<keyguard, keyguardDisabled>>,
           overlapped => overlapped',
           ~ overlapped' => (AtRest("service") \/ AtRest("call"))',
           \A u \in Thread : At(u, "noteDisabled")' <=> At(u, "noteDisabled"),
           \A u \in Thread : At(u, "noteEnabled")' <=> At(u, "noteEnabled")
    PROVE  KeyguardNoted'
BY DEF KeyguardNoted

LEMMA NotedWhenBegun ==
    ASSUME TypeOK, Shapes, KeyguardNoted, Next,
           ~ (\E t \in Thread : Step(t)), ~ MainStep
    PROVE  KeyguardNoted'
<1>1. UNCHANGED locks
      BY DEF Next, BeginCall, ResetState, Terminate, TerminateEnds, CallTells, CallSkips, MoveTo,
         onSensorEvent, handleMessage, Tell, MainBegins
<1>2. CASE CallSkips \/ ResetState \/ \E p \in Posture : MoveTo(p)
  <2>1. UNCHANGED <<todo, overlapped>>
        BY <1>2 DEF CallSkips, ResetState, MoveTo
  <2>   QED  BY <1>1, <2>1 DEF KeyguardNoted, At, AtRest, locks
<1>3. ASSUME NEW t \in Thread, NEW steps, Begun(t, steps)
      PROVE  \A u \in Thread : /\ At(u, "noteDisabled")' <=> At(u, "noteDisabled")
                               /\ At(u, "noteEnabled")' <=> At(u, "noteEnabled")
  <2>1. /\ ~ At(t, "noteDisabled") /\ ~ At(t, "noteEnabled")
        /\ todo' = [todo EXCEPT ![t] = steps]
        /\ Head(steps) # "noteDisabled" /\ Head(steps) # "noteEnabled"
        BY <1>3 DEF Begun, At
  <2>   QED  BY <2>1, SameNotes
<1>4. CASE BeginCall \/ Terminate \/ CallTells
  <2>0. PICK t \in {"service", "call"} : \E steps : Begun(t, steps) /\ Begins(t)
        BY <1>4, UpdaterBegins
  <2>1. PICK steps : Begun(t, steps) /\ Begins(t)
        BY <2>0
  <2>2. \A u \in Thread \ {t} : todo'[u] = todo[u]
        BY <2>1 DEF Begun, TypeOK
  <2>3. /\ overlapped => overlapped'
        /\ ~ overlapped' => \A u \in Thread \ {t, "main"} : AtRest(u)
        BY <2>1 DEF Begins
  <2>4. ~ overlapped' => (AtRest("service") \/ AtRest("call"))'
        BY <2>1, <2>2, <2>3 DEF AtRest, Thread
  <2>   QED  BY <1>1, <1>3, <2>1, <2>3, <2>4, NotesKept DEF Thread, locks
<1>5. CASE TerminateEnds
  <2>1. /\ todo["service"] = <<"IDLE">>
        /\ todo' = [todo EXCEPT !["service"] = Steps("IDLE")]
        /\ Begins("service")
        BY <1>5 DEF TerminateEnds
  <2>2. Head(todo["service"]) = "IDLE"
        BY <2>1
  <2>3. /\ ~ At("service", "noteDisabled") /\ ~ At("service", "noteEnabled")
        /\ Head(Steps("IDLE")) # "noteDisabled" /\ Head(Steps("IDLE")) # "noteEnabled"
        BY <2>2, StepsInOrder DEF At
  <2>4. /\ \A u \in Thread : At(u, "noteDisabled")' <=> At(u, "noteDisabled")
        /\ \A u \in Thread : At(u, "noteEnabled")' <=> At(u, "noteEnabled")
        BY <2>1, <2>3, SameNotes DEF Thread
  <2>5. todo'["call"] = todo["call"]
        BY <2>1 DEF TypeOK, Thread
  <2>6. /\ overlapped => overlapped'
        /\ ~ overlapped' => AtRest("call")
        BY <2>1 DEF Begins, Thread
  <2>   QED  BY <1>1, <2>4, <2>5, <2>6, NotesKept DEF AtRest, locks
<1>6. CASE onSensorEvent \/ handleMessage
  <2>1. PICK steps : Begun("main", steps) /\ MainBegins(steps)
        BY <1>6, MainThreadBegins
  <2>2. /\ todo'["service"] = todo["service"] /\ todo'["call"] = todo["call"]
        /\ overlapped' = overlapped
        BY <2>1 DEF MainBegins, TypeOK, Thread
  <2>3. ~ overlapped' => (AtRest("service") \/ AtRest("call"))'
        BY <2>2 DEF KeyguardNoted, AtRest
  <2>   QED  BY <1>1, <1>3, <2>1, <2>2, <2>3, NotesKept DEF Thread, locks
<1> QED  BY <1>2, <1>4, <1>5, <1>6 DEF Next

LEMMA NotedByMain ==
    ASSUME TypeOK, Shapes, KeyguardNoted, Step("main") \/ MainStep
    PROVE  KeyguardNoted'
<1>1. PICK steps : Continued("main", steps)
      BY ThreadContinues DEF Thread
<1>2. Head(todo["main"]) \in OnMain
      BY DEF Shapes, Step, MainStep, AtRest
<1>3. UNCHANGED <<keyguard, keyguardDisabled, overlapped>>
  <2>1. CASE Step("main")
    <3>1. ~ Keyguard("main")
          BY <1>2 DEF Keyguard, OnMain, LockState, Posture
    <3>   QED  BY <2>1, <3>1 DEF Step, setLockState, updateInCallLockState, Enable, Disable,
               phone, locks
  <2>2. CASE MainStep
        BY <2>2 DEF MainStep, setOrientation, Handler, phone, locks
  <2>   QED  BY <2>1, <2>2
<1>4. /\ todo' = [todo EXCEPT !["main"] = steps]
      /\ steps = <<>> \/ Head(steps) \in OnMain
      BY <1>1 DEF Continued
<1>5. steps = <<>> \/ (Head(steps) # "noteDisabled" /\ Head(steps) # "noteEnabled")
      BY <1>4 DEF OnMain, LockState, Posture
<1>6. /\ \A u \in Thread : At(u, "noteDisabled")' <=> At(u, "noteDisabled")
      /\ \A u \in Thread : At(u, "noteEnabled")' <=> At(u, "noteEnabled")
      BY <1>4, <1>5, MainNotes, SameNotes DEF Thread
<1>7. todo'["service"] = todo["service"] /\ todo'["call"] = todo["call"]
      BY <1>4 DEF TypeOK, Thread
<1>8. ~ overlapped' => (AtRest("service") \/ AtRest("call"))'
      BY <1>3, <1>7 DEF KeyguardNoted, AtRest
<1> QED  BY <1>3, <1>6, <1>8, NotesKept

LEMMA NotedByUpdater ==
    ASSUME TypeOK, Shapes, KeyguardNoted, NEW t \in {"service", "call"}, Step(t)
    PROVE  KeyguardNoted'
<1>1. PICK steps : Continued(t, steps)
      BY ThreadContinues DEF Thread
<1>2. overlapped' = overlapped
      BY DEF Step, setLockState, updateInCallLockState, Enable, Disable, Keyguard, phone
<1>   SUFFICES ASSUME ~ overlapped PROVE KeyguardNoted'
      BY <1>2 DEF KeyguardNoted
<1>3. ~ AtRest(t) /\ \A u \in {"service", "call"} : u # t => AtRest(u)
      BY DEF KeyguardNoted, Step
<1>4. todo' = [todo EXCEPT ![t] = steps] /\ \A u \in Thread : u # t => todo'[u] = todo[u]
      BY <1>1 DEF Continued, TypeOK
<1>5. todo'[t] = steps
      BY <1>4 DEF TypeOK, Thread
<1>6. \A u \in Thread : u # t => /\ ~ At(u, "noteDisabled") /\ ~ At(u, "noteDisabled")'
                                 /\ ~ At(u, "noteEnabled") /\ ~ At(u, "noteEnabled")'
      BY <1>3, <1>4, MainNotes DEF At, AtRest, Thread
<1>7. (AtRest("service") \/ AtRest("call"))'
      BY <1>3, <1>4 DEF AtRest, Thread
<1>8. /\ ~ keyguard /\ ~ keyguardDisabled => At(t, "noteDisabled")
      /\ At(t, "noteEnabled") => keyguard
      BY <1>6 DEF KeyguardNoted, Thread
<1>9. Head(todo[t]) # "reenable" => ~ At(t, "noteEnabled")'
      BY <1>1, <1>5 DEF Continued, At, AtRest
<1>10. /\ ~ keyguard' /\ ~ keyguardDisabled' => At(t, "noteDisabled")'
       /\ At(t, "noteEnabled")' => keyguard'
  <2>1. CASE /\ Head(todo[t]) \notin {"reenable", "noteDisabled", "noteEnabled"}
             /\ UNCHANGED <<keyguard, keyguardDisabled>>
        BY <1>8, <1>9, <2>1 DEF At
  <2>2. CASE setLockState(t) \/ updateInCallLockState(t) \/ Enable(t) \/ Disable(t)
        BY <2>1, <2>2 DEF setLockState, updateInCallLockState, Enable, Disable, locks
  <2>3. CASE Keyguard(t) /\ Head(todo[t]) = "disableKeyguard" /\ ~ UNCHANGED locks
    <3>1. /\ todo' = [todo EXCEPT ![t] = <<"noteDisabled">> \o Tail(todo[t])]
          /\ Head(todo[t]) # "reenable"
          BY <2>3 DEF Keyguard
    <3>2. steps = <<"noteDisabled">> \o Tail(todo[t])
          BY <1>5, <3>1 DEF TypeOK, Thread
    <3>3. todo[t] \in Seq(StepName) /\ todo[t] # <<>> /\ NotesInOrder(todo[t])
          BY <1>3 DEF TypeOK, Shapes, AtRest, Thread
    <3>4. "noteDisabled" \in StepName
          BY DEF StepName
    <3>5. steps # <<>> /\ Head(steps) = "noteDisabled"
          BY <3>1, <3>2, <3>3, <3>4, PushInOrder
    <3>   QED  BY <1>5, <3>5 DEF At, AtRest
  <2>4. CASE Keyguard(t) /\ Head(todo[t]) \in {"reenable", "noteDisabled", "noteEnabled"}
    <3>1. CASE Head(todo[t]) = "reenable"
          BY <2>4, <3>1 DEF Keyguard
    <3>2. CASE Head(todo[t]) = "noteDisabled"
          BY <1>9, <2>4, <3>2 DEF Keyguard
    <3>3. CASE Head(todo[t]) = "noteEnabled"
      <4>1. keyguard /\ keyguard' = keyguard
            BY <1>3, <1>8, <2>4, <3>3 DEF Keyguard, At
      <4>   QED  BY <4>1
    <3>   QED  BY <2>4, <3>1, <3>2, <3>3
  <2>5. CASE Keyguard(t) /\ UNCHANGED locks
             /\ Head(todo[t]) \notin {"reenable", "noteDisabled", "noteEnabled"}
        BY <2>1, <2>5 DEF locks
  <2>6. CASE Keyguard(t) /\ Head(todo[t]) = "testKeyguard"
        BY <2>5, <2>6 DEF Keyguard
  <2>7. Keyguard(t) => Head(todo[t]) \in {"disableKeyguard", "testKeyguard", "reenable",
                                        "noteDisabled", "noteEnabled"}
        BY DEF Keyguard
  <2>   QED  BY <2>2, <2>3, <2>4, <2>5, <2>6, <2>7 DEF Step
<1> QED  BY <1>6, <1>7, <1>10 DEF KeyguardNoted, Thread

-----------------------------------------------------------------------------
(* The phone that comes to rest.                                           *)

LEMMA IdleLists ==
    /\ ToIdle # <<>> /\ Head(ToIdle) = "SLEEP"
    /\ Tail(ToIdle) = <<"disable", "testKeyguard">>
    /\ <<"disable", "testKeyguard">> # <<>> /\ Head(<<"disable", "testKeyguard">>) = "disable"
    /\ Tail(<<"disable", "testKeyguard">>) = <<"testKeyguard">>
    /\ <<"testKeyguard">> # <<>> /\ Head(<<"testKeyguard">>) = "testKeyguard"
    /\ Tail(<<"testKeyguard">>) = <<>>
    /\ <<"reenable", "noteEnabled">> \o Tail(<<"testKeyguard">>) = <<"reenable", "noteEnabled">>
    /\ <<"reenable", "noteEnabled">> # <<>> /\ Head(<<"reenable", "noteEnabled">>) = "reenable"
    /\ Tail(<<"reenable", "noteEnabled">>) = <<"noteEnabled">>
    /\ <<"noteEnabled">> # <<>> /\ Head(<<"noteEnabled">>) = "noteEnabled"
    /\ Tail(<<"noteEnabled">>) = <<>>
BY DEF ToIdle

LEMMA DisablingApart == ToIdle \notin Enabling /\ <<"disable", "testKeyguard">> \notin Enabling
                        /\ <<"disable", "testKeyguard">> # ToIdle
<1>1. \A q \in Enabling : q = <<>> \/ Head(q) \in {"testKeyguard", "reenable", "noteEnabled"}
      BY IdleLists DEF Enabling
<1> QED  BY <1>1, IdleLists

(* Each step of the update, from a list to the next.                       *)
LEMMA IdleStep ==
    ASSUME TypeOK, IdleInOrder, told = "IDLE", alone, Step("service"),
           todo'["call"] = todo["call"], todo'["main"] = todo["main"]
    PROVE  IdleInOrder'
<1> DEFINE q == todo["service"]
<1>1. /\ AtRest("call")' /\ AtRest("main")'
      /\ q \in Disabling \cup Enabling /\ q # <<>>
      BY DEF IdleInOrder, AtRest, Step
<1>2. \A new : todo' = [todo EXCEPT !["service"] = new] => todo'["service"] = new
      BY DEF TypeOK, Thread
<1>3. CASE q = ToIdle
  <2>1. setLockState("service") /\ Head(q) = "SLEEP"
        BY <1>3, IdleLists
        DEF Step, setLockState, updateInCallLockState, Enable, Disable, Keyguard
  <2>2. held' = {} /\ todo'["service"] = Tail(q)
        BY <1>2, <2>1 DEF setLockState, Locks
  <2>3. todo'["service"] = <<"disable", "testKeyguard">>
        BY <1>3, <2>2, IdleLists
  <2>   QED  BY <1>1, <2>2, <2>3, DisablingApart, IdleLists DEF IdleInOrder, Disabling
<1>4. CASE q = <<"disable", "testKeyguard">>
  <2>1. Disable("service")
        BY <1>4, IdleLists
        DEF Step, setLockState, updateInCallLockState, Enable, Disable, Keyguard
  <2>2. ~ registered' /\ ~ message' /\ held' = held /\ todo'["service"] = Tail(q)
        BY <1>2, <2>1 DEF Disable, RemoveMessages, locks
  <2>3. todo'["service"] = <<"testKeyguard">> /\ held = {}
        BY <1>4, <2>2, DisablingApart, IdleLists DEF IdleInOrder
  <2>   QED  BY <1>1, <2>2, <2>3, IdleLists DEF IdleInOrder, Enabling
<1>5. CASE q \in Enabling
  <2>1. Keyguard("service") /\ Head(q) \in {"testKeyguard", "reenable", "noteEnabled"}
        BY <1>1, <1>5, IdleLists
        DEF Enabling, Step, setLockState, updateInCallLockState, Enable, Disable, Keyguard
  <2>2. /\ held' = held /\ registered' = registered /\ message' = message
        /\ held = {} /\ ~ registered /\ ~ message
        BY <1>5, <2>1, DisablingApart DEF Keyguard, IdleInOrder, listener, locks
  <2>3. CASE q = <<"testKeyguard">>
    <3>1. \/ keyguardDisabled /\ todo'["service"] = <<"reenable", "noteEnabled">> \o Tail(q)
          \/ ~ keyguardDisabled' /\ todo'["service"] = Tail(q)
          BY <1>2, <2>1, <2>3, IdleLists DEF Keyguard, locks
    <3>2. \/ todo'["service"] = <<"reenable", "noteEnabled">>
          \/ ~ keyguardDisabled' /\ todo'["service"] = <<>>
          BY <2>3, <3>1, IdleLists
    <3>   QED  BY <1>1, <2>2, <3>2, IdleLists DEF IdleInOrder, Enabling
  <2>4. CASE q = <<"reenable", "noteEnabled">>
    <3>1. todo'["service"] = Tail(q)
          BY <1>2, <2>1, <2>4, IdleLists DEF Keyguard
    <3>2. todo'["service"] = <<"noteEnabled">>
          BY <2>4, <3>1, IdleLists
    <3>   QED  BY <1>1, <2>2, <3>2, IdleLists DEF IdleInOrder, Enabling
  <2>5. CASE q = <<"noteEnabled">>
    <3>1. todo'["service"] = Tail(q) /\ ~ keyguardDisabled'
          BY <1>2, <2>1, <2>5, IdleLists DEF Keyguard
    <3>2. todo'["service"] = <<>>
          BY <2>5, <3>1, IdleLists
    <3>   QED  BY <1>1, <2>2, <3>1, <3>2 DEF IdleInOrder, Enabling
  <2>   QED  BY <1>1, <1>5, <2>3, <2>4, <2>5 DEF Enabling
<1> QED  BY <1>1, <1>3, <1>4, <1>5 DEF Disabling

LEMMA IdleInOrderStep ==
    ASSUME TypeOK, Shapes, IdleInOrder, [Next]_vars
    PROVE  IdleInOrder'
<1> SUFFICES ASSUME told' = "IDLE", alone' PROVE IdleInOrder'
    BY DEF IdleInOrder
<1>1. CASE BeginCall \/ Terminate \/ CallTells
  <2>1. CASE CallTells
    <3>1. told' \in {"INTERACTIVE", "IN_CALL"}
          BY <2>1, ToTellTyped DEF CallTells, Tell, TypeOK
    <3>   QED  BY <3>1
  <2>   QED  BY <1>1, <2>1 DEF BeginCall, Terminate, Tell
<1>2. CASE TerminateEnds
  <2>1. /\ todo'["service"] = ToIdle /\ todo'["call"] = todo["call"]
        /\ todo'["main"] = todo["main"] /\ AtRest("call") /\ AtRest("main")
        BY <1>2 DEF TerminateEnds, Begins, Steps, TypeOK, Thread
  <2>   QED  BY <2>1, DisablingApart, IdleLists DEF IdleInOrder, AtRest, Disabling
<1>3. CASE onSensorEvent \/ handleMessage
  <2>1. alone /\ AtRest("service") /\ told = "IDLE" /\ (registered \/ message)
        BY <1>3 DEF onSensorEvent, handleMessage, MainBegins, Thread
  <2>   QED  BY <2>1 DEF IdleInOrder, AtRest, Enabling
<1>4. CASE \/ CallSkips \/ ResetState \/ (\E p \in Posture : MoveTo(p)) \/ UNCHANGED vars
      BY <1>4 DEF IdleInOrder, AtRest, CallSkips, ResetState, MoveTo, vars, phone, locks, listener
<1>5. CASE (\E t \in Thread : Step(t)) \/ MainStep
  <2>1. told = "IDLE" /\ alone
        BY <1>5 DEF Step, setLockState, updateInCallLockState, Enable, Disable, Keyguard,
           MainStep, setOrientation, Handler, phone
  <2>2. Step("service")
        BY <1>5, <2>1 DEF IdleInOrder, Step, MainStep, Thread
  <2>3. PICK steps : Continued("service", steps)
        BY <2>2, ThreadContinues DEF Thread
  <2>4. todo'["call"] = todo["call"] /\ todo'["main"] = todo["main"]
        BY <2>3 DEF Continued, TypeOK, Thread
  <2>   QED  BY <2>1, <2>2, <2>4, IdleStep
<1> QED  BY <1>1, <1>2, <1>3, <1>4, <1>5 DEF Next

-----------------------------------------------------------------------------
(* The invariant.                                                          *)

LEMMA InitLock == Init => LockIInv
<1> SUFFICES ASSUME Init PROVE LockIInv
    OBVIOUS
<1>1. /\ toTell \in Seq({"INTERACTIVE", "IN_CALL"})
      /\ todo \in [Thread -> Seq(StepName)] /\ calls \in 0..MaxCalls
      BY LockAssumption DEF Init
<1>2. TypeOK
      BY <1>1 DEF Init, TypeOK
<1>3. Shapes
      BY DEF Init, Shapes, NotesInOrder, Thread
<1>4. KeyguardNoted /\ IdleInOrder
      BY IdleLists DEF Init, KeyguardNoted, IdleInOrder, At, AtRest, Enabling, Thread
<1> QED  BY <1>2, <1>3, <1>4 DEF LockIInv

LEMMA LockStep == LockIInv /\ [Next]_vars => LockIInv'
<1> SUFFICES ASSUME LockIInv, [Next]_vars PROVE LockIInv'
    OBVIOUS
<1>1. TypeOK' /\ Shapes' /\ IdleInOrder'
      BY TypeStep, ShapesStep, IdleInOrderStep DEF LockIInv
<1>2. KeyguardNoted'
  <2>1. CASE UNCHANGED vars
        BY <2>1 DEF LockIInv, KeyguardNoted, At, AtRest, vars, phone, locks
  <2>2. CASE Step("main") \/ MainStep
        BY <2>2, NotedByMain DEF LockIInv
  <2>3. CASE \E t \in {"service", "call"} : Step(t)
        BY <2>3, NotedByUpdater DEF LockIInv
  <2>4. CASE Next /\ ~ MainStep /\ ~ \E t \in Thread : Step(t)
        BY <2>4, NotedWhenBegun DEF LockIInv
  <2>   QED  BY <2>1, <2>2, <2>3, <2>4 DEF Thread
<1> QED  BY <1>1, <1>2 DEF LockIInv

LEMMA LockInvariantFollows == LockIInv => LockInvariant
<1> SUFFICES ASSUME LockIInv PROVE LockInvariant
    OBVIOUS
<1>1. ASSUME told = "IDLE", alone, \A t \in Thread : AtRest(t)
      PROVE  held = {} /\ ~registered /\ ~message /\ (keyguard \/ overlapped)
  <2>1. todo["service"] = <<>> /\ <<>> \in Enabling
        BY <1>1 DEF AtRest, Thread, Enabling
  <2>2. held = {} /\ ~registered /\ ~message /\ ~keyguardDisabled
        BY <1>1, <2>1, IdleLists DEF LockIInv, IdleInOrder
  <2>3. keyguard \/ overlapped
        BY <1>1, <2>2 DEF LockIInv, KeyguardNoted, At
  <2>   QED  BY <2>2, <2>3
<1> QED  BY <1>1 DEF LockIInv, LockInvariant, SleepsWhenIdle

(* The types are kept, and a phone that was told to be idle while nothing  *)
(* else went on comes to rest without a lock, with the accelerometer off,  *)
(* no message queued and the keyguard back (updatePhoneState's case IDLE), *)
(* however many calls there are and whatever the policy of the Wifi.       *)
THEOREM LocksReleased == Spec => []LockInvariant
<1>1. Init => LockIInv
      BY InitLock
<1>2. LockIInv /\ [Next]_vars => LockIInv'
      BY LockStep
<1>3. LockIInv => LockInvariant
      BY LockInvariantFollows
<1> QED  BY <1>1, <1>2, <1>3, PTL DEF Spec
==================================================================================
