--------------------------- MODULE RegistrationProofs ---------------------------
(***************************************************************************)
(* No challenge is lost, and a registration the user has left is over, for *)
(* any number of attempts, edits and deaths of the process.                *)
(***************************************************************************)
EXTENDS Registration, TLAPS

(* Where an attempt by SMS is from startService to its end, and while its  *)
(* receiver is registered; what comes before the account is created.       *)
BySms     == {"queued", "listen", "connect", "create", "created", "sent", "wait",
              "answer", "store", "finish"}
Early     == {"none", "queued", "listen", "connect", "create"}
Listening == {"connect", "create", "created", "sent", "wait"}

(* Attempts and instances are used in their order.                         *)
InOrder ==
    /\ instances \in Nat /\ instances <= attempts
    /\ current <= instances
    /\ \A a \in Attempt : service[a] <= instances
    /\ \A a \in Attempt : a > attempts => pc[a] = "none"
    /\ \A a \in Attempt : pc[a] \in Asked => current # Nobody
    /\ stopped # Nobody => current = Nobody

(* An instance of the service serves a single attempt by SMS: an attempt   *)
(* never finds another one's listener or challenge.                        *)
OwnInstance ==
    /\ \A a \in Attempt : pc[a] \in BySms => service[a] # Nobody
    /\ \A a, b \in Attempt :
         a # b /\ pc[a] \in BySms /\ pc[b] \in BySms => service[a] # service[b]

(* Unless it was left, an attempt is heard from before the account is      *)
(* created until its wait is over.                                         *)
Hears ==
    /\ \A a \in Attempt :
         pc[a] \in Listening /\ a \notin overtaken => service[a] \in receiver
    /\ \A a \in Attempt :
         stopped # Nobody /\ service[a] = stopped /\ pc[a] \notin Over => a \in overtaken
    /\ \A a \in challenged : pc[a] \notin Early
    /\ \A a \in challenged :
         pc[a] \in {"created", "sent", "wait"} => challenge[service[a]] # Nobody

(* An attempt that was left in its wait can only time out or die.          *)
GoneDeaf ==
    /\ \A a \in gaveUp :
         /\ pc[a] \in {"wait", "timeout", "dead"}
         /\ pc[a] = "wait" => /\ challenge[service[a]] = Nobody
                              /\ service[a] \notin receiver
    /\ registered # Nobody => pc[registered] \in {"finish", "complete", "dead"}
    /\ LeftMeansEnded

RegistrationInvariant ==
    /\ TypeOK
    /\ InOrder
    /\ OwnInstance
    /\ Hears
    /\ GoneDeaf
    /\ NoChallengeLost

(* Nothing has happened yet.                                               *)
LEMMA InitRegistration == Init => RegistrationInvariant
<1> SUFFICES ASSUME Init PROVE RegistrationInvariant
  OBVIOUS
<1> USE RegistrationAssumption
    DEF Init, Attempt, Instance, Nobody, Over, Asked, BySms, Early, Listening
<1>1. TypeOK
  <2>1. /\ pc \in [Attempt -> Phases] /\ service \in [Attempt -> Instance \cup {Nobody}]
        /\ state \in [Instance -> States]
        /\ challenge \in [Instance -> Attempt \cup {Nobody}]
        /\ taken \in [Attempt -> Attempt \cup {Nobody}]
    BY DEF Phases, States
  <2>2. /\ attempts \in 0..MaxAttempts
        /\ current \in Instance \cup {Nobody} /\ stopped \in Instance \cup {Nobody}
        /\ receiver = {} /\ sms = {} /\ challenged = {} /\ gaveUp = {} /\ overtaken = {}
        /\ pending = Nobody /\ verified = Nobody /\ registered = Nobody
        /\ verifying = FALSE
    OBVIOUS
  <2>3. QED
    BY <2>1, <2>2, Zenon DEF TypeOK
<1>2. InOrder
  BY DEF InOrder
<1>3. OwnInstance
  BY DEF OwnInstance
<1>4. Hears /\ GoneDeaf /\ NoChallengeLost
  BY DEF Hears, GoneDeaf, LeftMeansEnded, NoChallengeLost
<1>5. QED
  BY <1>1, <1>2, <1>3, <1>4 DEF RegistrationInvariant

(* The activity starts an attempt in a fresh instance, or leaves one; what *)
(* is left loses its receiver but not its executor.                        *)
LEMMA UserStep ==
  ASSUME RegistrationInvariant, Register \/ AskForCall \/ Edit \/ onDestroy \/ Die
  PROVE  RegistrationInvariant'
<1> USE RegistrationAssumption
    DEF Attempt, Instance, Nobody, Over, Asked, BySms, Early, Listening, Goto, SetState,
        user, instance, server, stored, history
<1>1. TypeOK
  BY DEF RegistrationInvariant
<1>2. InOrder
  BY DEF RegistrationInvariant
<1>3. OwnInstance
  BY DEF RegistrationInvariant
<1>4. Hears
  BY DEF RegistrationInvariant
<1>5. GoneDeaf
  BY DEF RegistrationInvariant
<1>6. NoChallengeLost
  BY DEF RegistrationInvariant
<1>7. CASE Register
  <2> USE <1>7 DEF Register, InService
  <2>0. /\ attempts + 1 \in Attempt /\ instances + 1 \in Instance
        /\ instances' = instances + 1 /\ current' = instances + 1
        /\ service' = [service EXCEPT ![attempts + 1] = instances + 1]
    BY <1>1, <1>2 DEF TypeOK, InOrder
  <2>1. TypeOK'
    <3>1. pc' \in [Attempt -> Phases]
      BY <2>0, <1>1 DEF TypeOK, Phases
    <3>2. QED
      BY <2>0, <3>1, <1>1 DEF TypeOK
  <2>2. InOrder'
    BY <2>0, <1>1, <1>2 DEF TypeOK, InOrder
  <2>3. OwnInstance'
    BY <1>1, <1>2, <1>3 DEF TypeOK, InOrder, OwnInstance
  <2>4. Hears'
    BY <1>1, <1>2, <1>4 DEF TypeOK, InOrder, Hears
  <2>5. GoneDeaf'
    BY <2>0, <1>1, <1>2, <1>5 DEF TypeOK, InOrder, GoneDeaf, LeftMeansEnded
  <2>6. NoChallengeLost'
    BY <1>1, <1>6 DEF TypeOK, NoChallengeLost
  <2>7. QED
    BY <2>1, <2>2, <2>3, <2>4, <2>5, <2>6 DEF RegistrationInvariant
<1>8. CASE AskForCall
  <2>a. /\ attempts < MaxAttempts /\ current # Nobody
        /\ attempts' = attempts + 1 /\ pc' = [pc EXCEPT ![attempts + 1] = "asked"]
        /\ UNCHANGED <<service, instances, current, stopped, state, receiver, challenge,
                       taken, sms, pending, verified, verifying, registered,
                       challenged, gaveUp, overtaken>>
    BY <1>8 DEF AskForCall
  <2>b. attempts + 1 \in Attempt
    BY <2>a, <1>1 DEF TypeOK
  <2>1. TypeOK'
    <3>1. pc' \in [Attempt -> Phases]
      BY <2>a, <2>b, <1>1 DEF TypeOK, Phases
    <3>2. QED
      BY <2>a, <2>b, <3>1, <1>1 DEF TypeOK
  <2>2. InOrder'
    BY <2>a, <2>b, <1>1, <1>2 DEF TypeOK, InOrder
  <2>3. OwnInstance'
    BY <2>a, <2>b, <1>1, <1>3 DEF TypeOK, OwnInstance
  <2>4. Hears'
    BY <2>a, <2>b, <1>1, <1>2, <1>4 DEF TypeOK, InOrder, Hears
  <2>5. GoneDeaf'
    BY <2>a, <2>b, <1>1, <1>2, <1>5 DEF TypeOK, InOrder, GoneDeaf, LeftMeansEnded
  <2>6. NoChallengeLost'
    BY <2>a, <2>b, <1>1, <1>6 DEF TypeOK, NoChallengeLost
  <2>7. QED
    BY <2>1, <2>2, <2>3, <2>4, <2>5, <2>6 DEF RegistrationInvariant
<1>9. CASE Edit
  <2> USE <1>9 DEF Edit, NoDialog, shutdown, Unregistered, In, CallDropped
  <2>1. TypeOK'
    BY <1>1 DEF TypeOK, Phases, States
  <2>2. InOrder'
    BY <1>1, <1>2 DEF TypeOK, InOrder
  <2>3. OwnInstance'
    BY <1>1, <1>3 DEF TypeOK, OwnInstance
  <2>4. Hears'
    BY <1>1, <1>4 DEF TypeOK, Hears
  <2>5. GoneDeaf'
    BY <1>1, <1>5 DEF TypeOK, GoneDeaf, LeftMeansEnded
  <2>6. NoChallengeLost'
    BY <1>1, <1>6 DEF TypeOK, NoChallengeLost
  <2>7. QED
    BY <2>1, <2>2, <2>3, <2>4, <2>5, <2>6 DEF RegistrationInvariant
<1>10. CASE onDestroy
  <2> USE <1>10 DEF onDestroy, shutdown, Unregistered, In
  <2>1. TypeOK'
    BY <1>1 DEF TypeOK, Phases, States
  <2>2. InOrder'
    BY <1>1, <1>2 DEF TypeOK, InOrder
  <2>3. OwnInstance'
    BY <1>1, <1>3 DEF TypeOK, OwnInstance
  <2>4. Hears'
    BY <1>1, <1>4 DEF TypeOK, Hears
  <2>5. GoneDeaf'
    BY <1>1, <1>5 DEF TypeOK, GoneDeaf, LeftMeansEnded
  <2>6. NoChallengeLost'
    BY <1>1, <1>6 DEF TypeOK, NoChallengeLost
  <2>7. QED
    BY <2>1, <2>2, <2>3, <2>4, <2>5, <2>6 DEF RegistrationInvariant
<1>11. CASE Die
  <2> USE <1>11 DEF Die
  <2>1. TypeOK'
    BY <1>1 DEF TypeOK, Phases, States
  <2>2. InOrder'
    BY <1>1, <1>2 DEF TypeOK, InOrder
  <2>3. OwnInstance'
    BY <1>1, <1>3 DEF TypeOK, OwnInstance
  <2>4. Hears'
    BY <1>1, <1>4 DEF TypeOK, Hears
  <2>5. GoneDeaf'
    BY <1>1, <1>5 DEF TypeOK, GoneDeaf, LeftMeansEnded
  <2>6. NoChallengeLost'
    BY <1>1, <1>6 DEF TypeOK, NoChallengeLost
  <2>7. QED
    BY <2>1, <2>2, <2>3, <2>4, <2>5, <2>6 DEF RegistrationInvariant
<1>12. QED
  BY <1>7, <1>8, <1>9, <1>10, <1>11

(* handleRegistrationIntent: the receiver is registered before the account *)
(* is created and unregistered only when the attempt is decided.           *)
LEMMA ExecutorStep ==
  ASSUME RegistrationInvariant, NEW a \in Attempt, Executor(a)
  PROVE  RegistrationInvariant'
<1> USE RegistrationAssumption
    DEF Attempt, Instance, Nobody, Over, Asked, BySms, Early, Listening, Goto, SetState,
        user, instance, server, stored, history
<1>1. TypeOK
  BY DEF RegistrationInvariant
<1>2. InOrder
  BY DEF RegistrationInvariant
<1>3. OwnInstance
  BY DEF RegistrationInvariant
<1>4. Hears
  BY DEF RegistrationInvariant
<1>5. GoneDeaf
  BY DEF RegistrationInvariant
<1>6. NoChallengeLost
  BY DEF RegistrationInvariant
<1>7. CASE Take(a)
  <2> USE <1>7 DEF Take
  <2>1. TypeOK'
    BY <1>1 DEF TypeOK, Phases, States
  <2>2. InOrder'
    BY <1>1, <1>2 DEF TypeOK, InOrder
  <2>3. OwnInstance'
    BY <1>1, <1>3 DEF TypeOK, OwnInstance
  <2>4. Hears'
    BY <1>1, <1>4 DEF TypeOK, Hears
  <2>5. GoneDeaf'
    BY <1>1, <1>5 DEF TypeOK, GoneDeaf, LeftMeansEnded
  <2>6. NoChallengeLost'
    BY <1>1, <1>6 DEF TypeOK, NoChallengeLost
  <2>7. QED
    BY <2>1, <2>2, <2>3, <2>4, <2>5, <2>6 DEF RegistrationInvariant
<1>8. CASE initializeChallengeListener(a)
  <2> USE <1>8 DEF initializeChallengeListener
  <2>1. TypeOK'
    BY <1>1, <1>3, <1>4 DEF TypeOK, OwnInstance, Hears, Phases, States
  <2>2. InOrder'
    BY <1>1, <1>2 DEF TypeOK, InOrder
  <2>3. OwnInstance'
    BY <1>1, <1>3 DEF TypeOK, OwnInstance
  <2>4. Hears'
    BY <1>1, <1>3, <1>4 DEF TypeOK, OwnInstance, Hears
  <2>5. GoneDeaf'
    BY <1>1, <1>3, <1>5 DEF TypeOK, OwnInstance, GoneDeaf, LeftMeansEnded
  <2>6. NoChallengeLost'
    BY <1>1, <1>6 DEF TypeOK, NoChallengeLost
  <2>7. QED
    BY <2>1, <2>2, <2>3, <2>4, <2>5, <2>6 DEF RegistrationInvariant
<1>9. CASE SetConnecting(a)
  <2> USE <1>9 DEF SetConnecting
  <2>1. TypeOK'
    BY <1>1 DEF TypeOK, Phases, States
  <2>2. InOrder'
    BY <1>1, <1>2 DEF TypeOK, InOrder
  <2>3. OwnInstance'
    BY <1>1, <1>3 DEF TypeOK, OwnInstance
  <2>4. Hears'
    BY <1>1, <1>4 DEF TypeOK, Hears
  <2>5. GoneDeaf'
    BY <1>1, <1>5 DEF TypeOK, GoneDeaf, LeftMeansEnded
  <2>6. NoChallengeLost'
    BY <1>1, <1>6 DEF TypeOK, NoChallengeLost
  <2>7. QED
    BY <2>1, <2>2, <2>3, <2>4, <2>5, <2>6 DEF RegistrationInvariant
<1>10. CASE CreateAccount(a)
  <2> USE <1>10 DEF CreateAccount, createAccount
  <2>1. TypeOK'
    BY <1>1 DEF TypeOK, Phases, States
  <2>2. InOrder'
    BY <1>1, <1>2 DEF TypeOK, InOrder
  <2>3. OwnInstance'
    BY <1>1, <1>3 DEF TypeOK, OwnInstance
  <2>4. Hears'
    BY <1>1, <1>2, <1>3, <1>4, <1>5 DEF TypeOK, InOrder, OwnInstance, Hears, GoneDeaf
  <2>5. GoneDeaf'
    BY <1>1, <1>5 DEF TypeOK, GoneDeaf, LeftMeansEnded
  <2>6. NoChallengeLost'
    BY <1>1, <1>6 DEF TypeOK, NoChallengeLost
  <2>7. QED
    BY <2>1, <2>2, <2>3, <2>4, <2>5, <2>6 DEF RegistrationInvariant
<1>11. CASE AccountCreated(a)
  <2> USE <1>11 DEF AccountCreated
  <2>1. TypeOK'
    BY <1>1 DEF TypeOK, Phases, States
  <2>2. InOrder'
    BY <1>1, <1>2 DEF TypeOK, InOrder
  <2>3. OwnInstance'
    BY <1>1, <1>3 DEF TypeOK, OwnInstance
  <2>4. Hears'
    BY <1>1, <1>4 DEF TypeOK, Hears
  <2>5. GoneDeaf'
    BY <1>1, <1>5 DEF TypeOK, GoneDeaf, LeftMeansEnded
  <2>6. NoChallengeLost'
    BY <1>1, <1>6 DEF TypeOK, NoChallengeLost
  <2>7. QED
    BY <2>1, <2>2, <2>3, <2>4, <2>5, <2>6 DEF RegistrationInvariant
<1>12. CASE CreateFails(a)
  <2> USE <1>12 DEF CreateFails
  <2>1. TypeOK'
    BY <1>1 DEF TypeOK, Phases, States
  <2>2. InOrder'
    BY <1>1, <1>2 DEF TypeOK, InOrder
  <2>3. OwnInstance'
    BY <1>1, <1>3 DEF TypeOK, OwnInstance
  <2>4. Hears'
    BY <1>1, <1>3, <1>4 DEF TypeOK, OwnInstance, Hears
  <2>5. GoneDeaf'
    BY <1>1, <1>5 DEF TypeOK, GoneDeaf, LeftMeansEnded
  <2>6. NoChallengeLost'
    BY <1>1, <1>6 DEF TypeOK, NoChallengeLost
  <2>7. QED
    BY <2>1, <2>2, <2>3, <2>4, <2>5, <2>6 DEF RegistrationInvariant
<1>13. CASE BeginWait(a)
  <2> USE <1>13 DEF BeginWait, AsReceived
  <2>1. TypeOK'
    BY <1>1 DEF TypeOK, Phases, States
  <2>2. InOrder'
    BY <1>1, <1>2 DEF TypeOK, InOrder
  <2>3. OwnInstance'
    BY <1>1, <1>3 DEF TypeOK, OwnInstance
  <2>4. Hears'
    BY <1>1, <1>4 DEF TypeOK, Hears
  <2>5. GoneDeaf'
    BY <1>1, <1>5 DEF TypeOK, GoneDeaf, LeftMeansEnded
  <2>6. NoChallengeLost'
    BY <1>1, <1>6 DEF TypeOK, NoChallengeLost
  <2>7. QED
    BY <2>1, <2>2, <2>3, <2>4, <2>5, <2>6 DEF RegistrationInvariant
<1>14. CASE ChallengeTaken(a)
  <2> USE <1>14 DEF ChallengeTaken
  <2>1. TypeOK'
    BY <1>1, <1>3 DEF TypeOK, OwnInstance, Phases, States
  <2>2. InOrder'
    BY <1>1, <1>2 DEF TypeOK, InOrder
  <2>3. OwnInstance'
    BY <1>1, <1>3 DEF TypeOK, OwnInstance
  <2>4. Hears'
    BY <1>1, <1>4 DEF TypeOK, Hears
  <2>5. GoneDeaf'
    BY <1>1, <1>5 DEF TypeOK, GoneDeaf, LeftMeansEnded
  <2>6. NoChallengeLost'
    BY <1>1, <1>6 DEF TypeOK, NoChallengeLost
  <2>7. QED
    BY <2>1, <2>2, <2>3, <2>4, <2>5, <2>6 DEF RegistrationInvariant
<1>15. CASE ChallengeTimesOut(a)
  <2> USE <1>15 DEF ChallengeTimesOut, TimeIsOver
  <2>1. TypeOK'
    BY <1>1 DEF TypeOK, Phases, States
  <2>2. InOrder'
    BY <1>1, <1>2 DEF TypeOK, InOrder
  <2>3. OwnInstance'
    BY <1>1, <1>3 DEF TypeOK, OwnInstance
  <2>4. Hears'
    BY <1>1, <1>3, <1>4 DEF TypeOK, OwnInstance, Hears
  <2>5. GoneDeaf'
    BY <1>1, <1>5 DEF TypeOK, GoneDeaf, LeftMeansEnded
  <2>6. NoChallengeLost'
    BY <1>1, <1>4, <1>6 DEF TypeOK, Hears, NoChallengeLost
  <2>7. QED
    BY <2>1, <2>2, <2>3, <2>4, <2>5, <2>6 DEF RegistrationInvariant
<1>16. CASE VerifyAccount(a)
  <2> USE <1>16 DEF VerifyAccount, verifyAccount
  <2>1. TypeOK'
    BY <1>1 DEF TypeOK, Phases, States
  <2>2. InOrder'
    BY <1>1, <1>2 DEF TypeOK, InOrder
  <2>3. OwnInstance'
    BY <1>1, <1>3 DEF TypeOK, OwnInstance
  <2>4. Hears'
    BY <1>1, <1>4 DEF TypeOK, Hears
  <2>5. GoneDeaf'
    BY <1>1, <1>5 DEF TypeOK, GoneDeaf, LeftMeansEnded
  <2>6. NoChallengeLost'
    BY <1>1, <1>6 DEF TypeOK, NoChallengeLost
  <2>7. QED
    BY <2>1, <2>2, <2>3, <2>4, <2>5, <2>6 DEF RegistrationInvariant
<1>17. CASE VerifyFails(a)
  <2> USE <1>17 DEF VerifyFails, verifyAccount
  <2>1. TypeOK'
    BY <1>1 DEF TypeOK, Phases, States
  <2>2. InOrder'
    BY <1>1, <1>2 DEF TypeOK, InOrder
  <2>3. OwnInstance'
    BY <1>1, <1>3 DEF TypeOK, OwnInstance
  <2>4. Hears'
    BY <1>1, <1>3, <1>4 DEF TypeOK, OwnInstance, Hears
  <2>5. GoneDeaf'
    BY <1>1, <1>5 DEF TypeOK, GoneDeaf, LeftMeansEnded
  <2>6. NoChallengeLost'
    BY <1>1, <1>6 DEF TypeOK, NoChallengeLost
  <2>7. QED
    BY <2>1, <2>2, <2>3, <2>4, <2>5, <2>6 DEF RegistrationInvariant
<1>18. CASE markAsVerified(a)
  <2> USE <1>18 DEF markAsVerified
  <2>1. TypeOK'
    BY <1>1 DEF TypeOK, Phases, States
  <2>2. InOrder'
    BY <1>1, <1>2 DEF TypeOK, InOrder
  <2>3. OwnInstance'
    BY <1>1, <1>3 DEF TypeOK, OwnInstance
  <2>4. Hears'
    BY <1>1, <1>4 DEF TypeOK, Hears
  <2>5. GoneDeaf'
    BY <1>1, <1>5 DEF TypeOK, GoneDeaf, LeftMeansEnded
  <2>6. NoChallengeLost'
    BY <1>1, <1>6 DEF TypeOK, NoChallengeLost
  <2>7. QED
    BY <2>1, <2>2, <2>3, <2>4, <2>5, <2>6 DEF RegistrationInvariant
<1>19. CASE Complete(a)
  <2> USE <1>19 DEF Complete
  <2>1. TypeOK'
    BY <1>1 DEF TypeOK, Phases, States
  <2>2. InOrder'
    BY <1>1, <1>2 DEF TypeOK, InOrder
  <2>3. OwnInstance'
    BY <1>1, <1>3 DEF TypeOK, OwnInstance
  <2>4. Hears'
    BY <1>1, <1>3, <1>4 DEF TypeOK, OwnInstance, Hears
  <2>5. GoneDeaf'
    BY <1>1, <1>5 DEF TypeOK, GoneDeaf, LeftMeansEnded
  <2>6. NoChallengeLost'
    BY <1>1, <1>6 DEF TypeOK, NoChallengeLost
  <2>7. QED
    BY <2>1, <2>2, <2>3, <2>4, <2>5, <2>6 DEF RegistrationInvariant
<1>20. QED
  BY <1>7, <1>8, <1>9, <1>10, <1>11, <1>12, <1>13, <1>14, <1>15, <1>16, <1>17, <1>18, <1>19
  DEF Executor

(* Attempts by voice use no receiver; a challenge reaches every receiver.  *)
LEMMA VoiceStep ==
  ASSUME RegistrationInvariant, NEW a \in Attempt, Voice(a) \/ ChallengeArrives(a)
  PROVE  RegistrationInvariant'
<1> USE RegistrationAssumption
    DEF Attempt, Instance, Nobody, Over, Asked, BySms, Early, Listening, Goto, SetState,
        user, instance, server, stored, history
<1>1. TypeOK
  BY DEF RegistrationInvariant
<1>2. InOrder
  BY DEF RegistrationInvariant
<1>3. OwnInstance
  BY DEF RegistrationInvariant
<1>4. Hears
  BY DEF RegistrationInvariant
<1>5. GoneDeaf
  BY DEF RegistrationInvariant
<1>6. NoChallengeLost
  BY DEF RegistrationInvariant
<1>7. CASE CallRequested(a)
  <2> USE <1>7 DEF CallRequested, CallDropped, createAccount
  <2>1. TypeOK'
    <3>1. pc' \in [Attempt -> Phases]
      BY <1>1 DEF TypeOK, Phases
    <3>2. state' \in [Instance -> States]
      BY <1>1 DEF TypeOK, States
    <3>3. UNCHANGED <<receiver, challenge>> /\ pending' = a /\ sms' = sms \cup {a}
      OBVIOUS
    <3>4. QED
      BY <1>1, <3>1, <3>2, <3>3 DEF TypeOK
  <2>2. InOrder'
    BY <1>1, <1>2 DEF TypeOK, InOrder
  <2>3. OwnInstance'
    <3>1. ASSUME NEW b \in Attempt, pc'[b] \in BySms PROVE pc[b] \in BySms
      BY <1>1, <3>1 DEF TypeOK
    <3>2. UNCHANGED service
      OBVIOUS
    <3>3. ASSUME NEW b \in Attempt, pc'[b] \in BySms PROVE service'[b] # Nobody
      BY <1>3, <3>1, <3>2, <3>3 DEF OwnInstance
    <3>4. ASSUME NEW b \in Attempt, NEW c \in Attempt, b # c,
                 pc'[b] \in BySms, pc'[c] \in BySms
          PROVE  service'[b] # service'[c]
      <4>1. pc[b] \in BySms /\ pc[c] \in BySms
        BY <3>1, <3>4
      <4>2. QED
        BY <1>3, <3>2, <3>4, <4>1 DEF OwnInstance
    <3>5. QED
      BY <3>3, <3>4 DEF OwnInstance
  <2>4. Hears'
    BY <1>1, <1>4 DEF TypeOK, Hears
  <2>5. GoneDeaf'
    BY <1>1, <1>5 DEF TypeOK, GoneDeaf, LeftMeansEnded
  <2>6. NoChallengeLost'
    BY <1>1, <1>6 DEF TypeOK, NoChallengeLost
  <2>7. QED
    BY <2>1, <2>2, <2>3, <2>4, <2>5, <2>6 DEF RegistrationInvariant
<1>8. CASE CallFails(a)
  <2> USE <1>8 DEF CallFails, createAccount
  <2>1. TypeOK'
    BY <1>1 DEF TypeOK, Phases, States
  <2>2. InOrder'
    BY <1>1, <1>2 DEF TypeOK, InOrder
  <2>3. OwnInstance'
    BY <1>1, <1>3 DEF TypeOK, OwnInstance
  <2>4. Hears'
    BY <1>1, <1>4 DEF TypeOK, Hears
  <2>5. GoneDeaf'
    BY <1>1, <1>5 DEF TypeOK, GoneDeaf, LeftMeansEnded
  <2>6. NoChallengeLost'
    BY <1>1, <1>6 DEF TypeOK, NoChallengeLost
  <2>7. QED
    BY <2>1, <2>2, <2>3, <2>4, <2>5, <2>6 DEF RegistrationInvariant
<1>9. CASE CodeTyped(a)
  <2> USE <1>9 DEF CodeTyped, verifyAccount
  <2>1. TypeOK'
    BY <1>1, <1>2 DEF TypeOK, InOrder, Phases, States
  <2>2. InOrder'
    BY <1>1, <1>2 DEF TypeOK, InOrder
  <2>3. OwnInstance'
    BY <1>1, <1>3 DEF TypeOK, OwnInstance
  <2>4. Hears'
    BY <1>1, <1>4 DEF TypeOK, Hears
  <2>5. GoneDeaf'
    BY <1>1, <1>5 DEF TypeOK, GoneDeaf, LeftMeansEnded
  <2>6. NoChallengeLost'
    BY <1>1, <1>6 DEF TypeOK, NoChallengeLost
  <2>7. QED
    BY <2>1, <2>2, <2>3, <2>4, <2>5, <2>6 DEF RegistrationInvariant
<1>10. CASE VoiceRegister(a)
  <2> USE <1>10 DEF VoiceRegister, InService
  <2>1. TypeOK'
    BY <1>1, <1>2 DEF TypeOK, InOrder, Phases, States
  <2>2. InOrder'
    BY <1>1, <1>2 DEF TypeOK, InOrder
  <2>3. OwnInstance'
    BY <1>1, <1>3 DEF TypeOK, OwnInstance
  <2>4. Hears'
    BY <1>1, <1>4 DEF TypeOK, Hears
  <2>5. GoneDeaf'
    BY <1>1, <1>5 DEF TypeOK, GoneDeaf, LeftMeansEnded
  <2>6. NoChallengeLost'
    BY <1>1, <1>6 DEF TypeOK, NoChallengeLost
  <2>7. QED
    BY <2>1, <2>2, <2>3, <2>4, <2>5, <2>6 DEF RegistrationInvariant
<1>11. CASE VoiceRegistered(a)
  <2> USE <1>11 DEF VoiceRegistered
  <2>1. TypeOK'
    <3>1. pc' \in [Attempt -> Phases]
      BY <1>1 DEF TypeOK, Phases
    <3>2. state' \in [Instance -> States]
      BY <1>1 DEF TypeOK, States
    <3>3. QED
      BY <1>1, <3>1, <3>2 DEF TypeOK
  <2>2. InOrder'
    BY <1>1, <1>2 DEF TypeOK, InOrder
  <2>3. OwnInstance'
    BY <1>1, <1>2, <1>3 DEF TypeOK, InOrder, OwnInstance
  <2>4. Hears'
    BY <1>1, <1>4 DEF TypeOK, Hears
  <2>5. GoneDeaf'
    BY <1>1, <1>5 DEF TypeOK, GoneDeaf, LeftMeansEnded
  <2>6. NoChallengeLost'
    BY <1>1, <1>6 DEF TypeOK, NoChallengeLost
  <2>7. QED
    BY <2>1, <2>2, <2>3, <2>4, <2>5, <2>6 DEF RegistrationInvariant
<1>12. CASE ChallengeArrives(a)
  <2> USE <1>12 DEF ChallengeArrives
  <2>1. TypeOK'
    BY <1>1 DEF TypeOK, Phases, States
  <2>2. InOrder'
    BY <1>1, <1>2 DEF TypeOK, InOrder
  <2>3. OwnInstance'
    BY <1>1, <1>3 DEF TypeOK, OwnInstance
  <2>4. Hears'
    BY <1>1, <1>3, <1>4 DEF TypeOK, OwnInstance, Hears
  <2>5. GoneDeaf'
    BY <1>1, <1>3, <1>5 DEF TypeOK, OwnInstance, GoneDeaf, LeftMeansEnded
  <2>6. NoChallengeLost'
    BY <1>1, <1>6 DEF TypeOK, NoChallengeLost
  <2>7. QED
    BY <2>1, <2>2, <2>3, <2>4, <2>5, <2>6 DEF RegistrationInvariant
<1>13. QED
  BY <1>7, <1>8, <1>9, <1>10, <1>11, <1>12 DEF Voice

(* The invariant is inductive.                                             *)
LEMMA RegistrationStep == RegistrationInvariant /\ [Next]_vars => RegistrationInvariant'
<1> SUFFICES ASSUME RegistrationInvariant, [Next]_vars PROVE RegistrationInvariant'
  OBVIOUS
<1>1. CASE Register \/ AskForCall \/ Edit \/ onDestroy \/ Die
  BY <1>1, UserStep
<1>2. ASSUME NEW a \in Attempt, Executor(a) PROVE RegistrationInvariant'
  BY <1>2, ExecutorStep
<1>3. ASSUME NEW a \in Attempt, Voice(a) \/ ChallengeArrives(a) PROVE RegistrationInvariant'
  BY <1>3, VoiceStep
<1>4. CASE UNCHANGED vars
  BY <1>4
  DEF vars, user, instance, server, stored, history, RegistrationInvariant, TypeOK, InOrder,
      OwnInstance, Hears, GoneDeaf, LeftMeansEnded, NoChallengeLost
<1>5. QED
  BY <1>1, <1>2, <1>3, <1>4 DEF Next

(* The invariant holds in every reachable state.                           *)
THEOREM RegistrationInvariance == Spec => []RegistrationInvariant
  BY InitRegistration, RegistrationStep, PTL DEF Spec

(* Every variable keeps to its type.                                       *)
THEOREM RegistrationTyped == Spec => []TypeOK
<1>1. RegistrationInvariant => TypeOK
  BY DEF RegistrationInvariant
<1>2. QED
  BY <1>1, RegistrationInvariance, PTL

(* waitForChallenge: a challenge that was received since the listener was  *)
(* initialized ends the wait, and no attempt that was challenged times out.*)
THEOREM NoChallengeEverLost == Spec => []NoChallengeLost
<1>1. RegistrationInvariant => NoChallengeLost
  BY DEF RegistrationInvariant
<1>2. QED
  BY <1>1, RegistrationInvariance, PTL

(* shutdown: an attempt that was left waiting never registers.             *)
THEOREM LeftAlwaysEnded == Spec => []LeftMeansEnded
<1>1. RegistrationInvariant => LeftMeansEnded
  BY DEF RegistrationInvariant, GoneDeaf
<1>2. QED
  BY <1>1, RegistrationInvariance, PTL

-----------------------------------------------------------------------------
(* The credentials.                                                        *)

(* An attempt that has not ended and was not left.                         *)
Going(a) == pc[a] \notin Over /\ a \notin overtaken

(* It runs in the current instance, or is asking for a call.               *)
GoingInCurrent ==
    \A a \in Attempt : Going(a) => current # Nobody /\ (pc[a] \in Asked \/ service[a] = current)

(* Attempts that were left are those of the instances of before.           *)
LeftBehind ==
    /\ \A a \in overtaken : a <= attempts /\ service[a] # Nobody /\ service[a] # current
    /\ \A a \in overtaken : pc[a] \notin Asked
    /\ \A b \in overtaken, a \in Attempt : a < b => ~ Going(a)

(* The dialogs and the drop of the last call leave one call to go on with. *)
OneCall ==
    \A a, b \in Attempt : pc[a] \in Asked /\ a < b =>
        /\ pc[b] \in {"none", "asked", "failed", "dead"}
        /\ pc[b] = "asked" => pc[a] = "called"

(* An attempt by SMS has the service for itself, and no call can be asked  *)
(* for before it has timed out.                                            *)
SmsAlone ==
    /\ \A a, b \in Attempt : pc[a] \in BySms /\ Going(a) /\ a # b => ~ Going(b)
    /\ \A a \in Attempt : pc[a] \in BySms /\ Going(a) =>
         state[current] \notin {"timeout", "voice_requested"}
    /\ \A i \in Instance : i > instances => state[i] = "idle"

(* Only calls come later than an attempt that goes on, and the executor    *)
(* does not get to them before.                                            *)
LaterByVoice ==
    \A a, b \in Attempt : Going(a) /\ a < b =>
        pc[b] \in {"none", "asked", "called", "typed", "voice", "failed", "dead"}

(* The account that is verified is the one an attempt has stored or is     *)
(* about to store, or its attempt has failed.                              *)
VerifiedPhases == {"store", "finish", "typed", "voice", "complete", "failed", "dead"}

StoredFollows ==
    /\ verified # Nobody => pc[verified] \in VerifiedPhases
    /\ \A a \in Attempt : pc[a] \in {"store", "typed", "voice"} /\ a \notin overtaken =>
         verified >= a \/ verified \in overtaken
    /\ \/ registered = verified
       \/ registered \in overtaken \/ verified \in overtaken
       \/ /\ verified # Nobody
          /\ pc[verified] \in {"failed", "dead", "store", "typed", "voice"}

CredentialsInvariant ==
    /\ GoingInCurrent
    /\ LeftBehind
    /\ OneCall
    /\ SmsAlone
    /\ LaterByVoice
    /\ StoredFollows

(* What a step of handleRegistrationIntent does to an attempt.             *)
Moved(a) ==
    /\ UNCHANGED <<user, overtaken>>
    /\ pc[a] \in BySms /\ pc'[a] \in BySms \cup {"complete", "timeout", "failed"}
    /\ \A b \in Attempt : b # a => pc'[b] = pc[b]
    /\ \A i \in Instance : i # service[a] => state'[i] = state[i]
    /\ pc'[a] \in BySms => \A i \in Instance :
         state'[i] = state[i] \/ state'[i] \notin {"timeout", "voice_requested"}
    /\ \/ UNCHANGED <<verified, registered>> /\ pc[a] # "store"
       \/ pc[a] = "answer" /\ verified' = a /\ registered' = registered
       \/ pc[a] = "store" /\ verified' = verified /\ registered' = a
    /\ pc[a] \in {"finish", "store"} => pc'[a] \in {"finish", "complete"}
    /\ pc[a] = "answer" => pc'[a] \in {"store", "failed"}
    /\ pc'[a] = "store" => verified' = a

LEMMA OneMoves ==
    ASSUME TypeOK, NEW a \in Attempt, NEW v, Goto(a, v)
    PROVE  pc'[a] = v /\ \A b \in Attempt : b # a => pc'[b] = pc[b]
BY DEF TypeOK, Goto

LEMMA SameState == state' = state => \A i \in Instance : state'[i] = state[i]
OBVIOUS

LEMMA OneState ==
    ASSUME TypeOK, NEW a \in Attempt, NEW s, SetState(a, s)
    PROVE  /\ \A i \in Instance : i # service[a] => state'[i] = state[i]
           /\ s \notin {"timeout", "voice_requested"} => \A i \in Instance :
                state'[i] = state[i] \/ state'[i] \notin {"timeout", "voice_requested"}
<1>1. \A i \in Instance : i # service[a] => state'[i] = state[i]
      BY DEF TypeOK, SetState
<1>2. \A i \in Instance : state'[i] = state[i] \/ state'[i] = s
      BY DEF TypeOK, SetState
<1> QED  BY <1>1, <1>2

LEMMA ExecutorMoves ==
    ASSUME TypeOK, NEW a \in Attempt, Executor(a)
    PROVE  Moved(a)
<1>1. CASE Take(a)
  <2>1. Goto(a, "listen") /\ state' = state
        BY <1>1 DEF Take, instance
  <2>2. pc'[a] = "listen" /\ \A b \in Attempt : b # a => pc'[b] = pc[b]
        BY <2>1, OneMoves
  <2>3. /\ \A i \in Instance : i # service[a] => state'[i] = state[i]
        /\ pc'[a] \in BySms => \A i \in Instance :
             state'[i] = state[i] \/ state'[i] \notin {"timeout", "voice_requested"}
        BY <2>1, <2>2, SameState
  <2>4. UNCHANGED <<user, overtaken>>
        BY <1>1 DEF Take, history
  <2>5. /\ pc[a] \in BySms /\ pc'[a] \in BySms \cup {"complete", "timeout", "failed"}
        /\ \/ UNCHANGED <<verified, registered>> /\ pc[a] # "store"
           \/ pc[a] = "answer" /\ verified' = a /\ registered' = registered
           \/ pc[a] = "store" /\ verified' = verified /\ registered' = a
        /\ pc[a] \in {"finish", "store"} => pc'[a] \in {"finish", "complete"}
        /\ pc[a] = "answer" => pc'[a] \in {"store", "failed"}
        /\ pc'[a] = "store" => verified' = a
        BY <1>1, <2>2 DEF Take, BySms, server, stored
  <2>   QED  BY <2>2, <2>3, <2>4, <2>5 DEF Moved
<1>2. CASE initializeChallengeListener(a)
  <2>1. Goto(a, "connect") /\ state' = state
        BY <1>2 DEF initializeChallengeListener, instance
  <2>2. pc'[a] = "connect" /\ \A b \in Attempt : b # a => pc'[b] = pc[b]
        BY <2>1, OneMoves
  <2>3. /\ \A i \in Instance : i # service[a] => state'[i] = state[i]
        /\ pc'[a] \in BySms => \A i \in Instance :
             state'[i] = state[i] \/ state'[i] \notin {"timeout", "voice_requested"}
        BY <2>1, <2>2, SameState
  <2>4. UNCHANGED <<user, overtaken>>
        BY <1>2 DEF initializeChallengeListener, history
  <2>5. /\ pc[a] \in BySms /\ pc'[a] \in BySms \cup {"complete", "timeout", "failed"}
        /\ \/ UNCHANGED <<verified, registered>> /\ pc[a] # "store"
           \/ pc[a] = "answer" /\ verified' = a /\ registered' = registered
           \/ pc[a] = "store" /\ verified' = verified /\ registered' = a
        /\ pc[a] \in {"finish", "store"} => pc'[a] \in {"finish", "complete"}
        /\ pc[a] = "answer" => pc'[a] \in {"store", "failed"}
        /\ pc'[a] = "store" => verified' = a
        BY <1>2, <2>2 DEF initializeChallengeListener, BySms, server, stored
  <2>   QED  BY <2>2, <2>3, <2>4, <2>5 DEF Moved
<1>3. CASE SetConnecting(a)
  <2>1. Goto(a, "create") /\ SetState(a, "connecting")
        BY <1>3 DEF SetConnecting, instance
  <2>2. pc'[a] = "create" /\ \A b \in Attempt : b # a => pc'[b] = pc[b]
        BY <2>1, OneMoves
  <2>3. /\ \A i \in Instance : i # service[a] => state'[i] = state[i]
        /\ pc'[a] \in BySms => \A i \in Instance :
             state'[i] = state[i] \/ state'[i] \notin {"timeout", "voice_requested"}
        BY <2>1, <2>2, OneState
  <2>4. UNCHANGED <<user, overtaken>>
        BY <1>3 DEF SetConnecting, history
  <2>5. /\ pc[a] \in BySms /\ pc'[a] \in BySms \cup {"complete", "timeout", "failed"}
        /\ \/ UNCHANGED <<verified, registered>> /\ pc[a] # "store"
           \/ pc[a] = "answer" /\ verified' = a /\ registered' = registered
           \/ pc[a] = "store" /\ verified' = verified /\ registered' = a
        /\ pc[a] \in {"finish", "store"} => pc'[a] \in {"finish", "complete"}
        /\ pc[a] = "answer" => pc'[a] \in {"store", "failed"}
        /\ pc'[a] = "store" => verified' = a
        BY <1>3, <2>2 DEF SetConnecting, BySms, server, stored
  <2>   QED  BY <2>2, <2>3, <2>4, <2>5 DEF Moved
<1>4. CASE CreateAccount(a)
  <2>1. Goto(a, "created") /\ state' = state
        BY <1>4 DEF CreateAccount, instance
  <2>2. pc'[a] = "created" /\ \A b \in Attempt : b # a => pc'[b] = pc[b]
        BY <2>1, OneMoves
  <2>3. /\ \A i \in Instance : i # service[a] => state'[i] = state[i]
        /\ pc'[a] \in BySms => \A i \in Instance :
             state'[i] = state[i] \/ state'[i] \notin {"timeout", "voice_requested"}
        BY <2>1, <2>2, SameState
  <2>4. UNCHANGED <<user, overtaken>>
        BY <1>4 DEF CreateAccount, history
  <2>5. /\ pc[a] \in BySms /\ pc'[a] \in BySms \cup {"complete", "timeout", "failed"}
        /\ \/ UNCHANGED <<verified, registered>> /\ pc[a] # "store"
           \/ pc[a] = "answer" /\ verified' = a /\ registered' = registered
           \/ pc[a] = "store" /\ verified' = verified /\ registered' = a
        /\ pc[a] \in {"finish", "store"} => pc'[a] \in {"finish", "complete"}
        /\ pc[a] = "answer" => pc'[a] \in {"store", "failed"}
        /\ pc'[a] = "store" => verified' = a
        BY <1>4, <2>2 DEF CreateAccount, createAccount, BySms, server, stored
  <2>   QED  BY <2>2, <2>3, <2>4, <2>5 DEF Moved
<1>5. CASE AccountCreated(a)
  <2>1. Goto(a, "sent") /\ SetState(a, "verifying")
        BY <1>5 DEF AccountCreated, instance
  <2>2. pc'[a] = "sent" /\ \A b \in Attempt : b # a => pc'[b] = pc[b]
        BY <2>1, OneMoves
  <2>3. /\ \A i \in Instance : i # service[a] => state'[i] = state[i]
        /\ pc'[a] \in BySms => \A i \in Instance :
             state'[i] = state[i] \/ state'[i] \notin {"timeout", "voice_requested"}
        BY <2>1, <2>2, OneState
  <2>4. UNCHANGED <<user, overtaken>>
        BY <1>5 DEF AccountCreated, history
  <2>5. /\ pc[a] \in BySms /\ pc'[a] \in BySms \cup {"complete", "timeout", "failed"}
        /\ \/ UNCHANGED <<verified, registered>> /\ pc[a] # "store"
           \/ pc[a] = "answer" /\ verified' = a /\ registered' = registered
           \/ pc[a] = "store" /\ verified' = verified /\ registered' = a
        /\ pc[a] \in {"finish", "store"} => pc'[a] \in {"finish", "complete"}
        /\ pc[a] = "answer" => pc'[a] \in {"store", "failed"}
        /\ pc'[a] = "store" => verified' = a
        BY <1>5, <2>2 DEF AccountCreated, BySms, server, stored
  <2>   QED  BY <2>2, <2>3, <2>4, <2>5 DEF Moved
<1>6. CASE CreateFails(a)
  <2>1. Goto(a, "failed") /\ SetState(a, "network_error")
        BY <1>6 DEF CreateFails, instance
  <2>2. pc'[a] = "failed" /\ \A b \in Attempt : b # a => pc'[b] = pc[b]
        BY <2>1, OneMoves
  <2>3. /\ \A i \in Instance : i # service[a] => state'[i] = state[i]
        /\ pc'[a] \in BySms => \A i \in Instance :
             state'[i] = state[i] \/ state'[i] \notin {"timeout", "voice_requested"}
        BY <2>1, <2>2, OneState DEF BySms
  <2>4. UNCHANGED <<user, overtaken>>
        BY <1>6 DEF CreateFails, history
  <2>5. /\ pc[a] \in BySms /\ pc'[a] \in BySms \cup {"complete", "timeout", "failed"}
        /\ \/ UNCHANGED <<verified, registered>> /\ pc[a] # "store"
           \/ pc[a] = "answer" /\ verified' = a /\ registered' = registered
           \/ pc[a] = "store" /\ verified' = verified /\ registered' = a
        /\ pc[a] \in {"finish", "store"} => pc'[a] \in {"finish", "complete"}
        /\ pc[a] = "answer" => pc'[a] \in {"store", "failed"}
        /\ pc'[a] = "store" => verified' = a
        BY <1>6, <2>2 DEF CreateFails, BySms, server, stored
  <2>   QED  BY <2>2, <2>3, <2>4, <2>5 DEF Moved
<1>7. CASE BeginWait(a)
  <2>1. Goto(a, "wait") /\ state' = state
        BY <1>7 DEF BeginWait, instance
  <2>2. pc'[a] = "wait" /\ \A b \in Attempt : b # a => pc'[b] = pc[b]
        BY <2>1, OneMoves
  <2>3. /\ \A i \in Instance : i # service[a] => state'[i] = state[i]
        /\ pc'[a] \in BySms => \A i \in Instance :
             state'[i] = state[i] \/ state'[i] \notin {"timeout", "voice_requested"}
        BY <2>1, <2>2, SameState
  <2>4. UNCHANGED <<user, overtaken>>
        BY <1>7 DEF BeginWait, history
  <2>5. /\ pc[a] \in BySms /\ pc'[a] \in BySms \cup {"complete", "timeout", "failed"}
        /\ \/ UNCHANGED <<verified, registered>> /\ pc[a] # "store"
           \/ pc[a] = "answer" /\ verified' = a /\ registered' = registered
           \/ pc[a] = "store" /\ verified' = verified /\ registered' = a
        /\ pc[a] \in {"finish", "store"} => pc'[a] \in {"finish", "complete"}
        /\ pc[a] = "answer" => pc'[a] \in {"store", "failed"}
        /\ pc'[a] = "store" => verified' = a
        BY <1>7, <2>2 DEF BeginWait, BySms, server, stored
  <2>   QED  BY <2>2, <2>3, <2>4, <2>5 DEF Moved
<1>8. CASE ChallengeTaken(a)
  <2>1. Goto(a, "answer") /\ state' = state
        BY <1>8 DEF ChallengeTaken, instance
  <2>2. pc'[a] = "answer" /\ \A b \in Attempt : b # a => pc'[b] = pc[b]
        BY <2>1, OneMoves
  <2>3. /\ \A i \in Instance : i # service[a] => state'[i] = state[i]
        /\ pc'[a] \in BySms => \A i \in Instance :
             state'[i] = state[i] \/ state'[i] \notin {"timeout", "voice_requested"}
        BY <2>1, <2>2, SameState
  <2>4. UNCHANGED <<user, overtaken>>
        BY <1>8 DEF ChallengeTaken, history
  <2>5. /\ pc[a] \in BySms /\ pc'[a] \in BySms \cup {"complete", "timeout", "failed"}
        /\ \/ UNCHANGED <<verified, registered>> /\ pc[a] # "store"
           \/ pc[a] = "answer" /\ verified' = a /\ registered' = registered
           \/ pc[a] = "store" /\ verified' = verified /\ registered' = a
        /\ pc[a] \in {"finish", "store"} => pc'[a] \in {"finish", "complete"}
        /\ pc[a] = "answer" => pc'[a] \in {"store", "failed"}
        /\ pc'[a] = "store" => verified' = a
        BY <1>8, <2>2 DEF ChallengeTaken, BySms, server, stored
  <2>   QED  BY <2>2, <2>3, <2>4, <2>5 DEF Moved
<1>9. CASE ChallengeTimesOut(a)
  <2>1. Goto(a, "timeout") /\ SetState(a, "timeout")
        BY <1>9 DEF ChallengeTimesOut, instance
  <2>2. pc'[a] = "timeout" /\ \A b \in Attempt : b # a => pc'[b] = pc[b]
        BY <2>1, OneMoves
  <2>3. /\ \A i \in Instance : i # service[a] => state'[i] = state[i]
        /\ pc'[a] \in BySms => \A i \in Instance :
             state'[i] = state[i] \/ state'[i] \notin {"timeout", "voice_requested"}
        BY <2>1, <2>2, OneState DEF BySms
  <2>4. UNCHANGED <<user, overtaken>>
        BY <1>9 DEF ChallengeTimesOut, history
  <2>5. /\ pc[a] \in BySms /\ pc'[a] \in BySms \cup {"complete", "timeout", "failed"}
        /\ \/ UNCHANGED <<verified, registered>> /\ pc[a] # "store"
           \/ pc[a] = "answer" /\ verified' = a /\ registered' = registered
           \/ pc[a] = "store" /\ verified' = verified /\ registered' = a
        /\ pc[a] \in {"finish", "store"} => pc'[a] \in {"finish", "complete"}
        /\ pc[a] = "answer" => pc'[a] \in {"store", "failed"}
        /\ pc'[a] = "store" => verified' = a
        BY <1>9, <2>2 DEF ChallengeTimesOut, BySms, server, stored
  <2>   QED  BY <2>2, <2>3, <2>4, <2>5 DEF Moved
<1>10. CASE VerifyAccount(a)
  <2>1. Goto(a, "store") /\ state' = state
        BY <1>10 DEF VerifyAccount, instance
  <2>2. pc'[a] = "store" /\ \A b \in Attempt : b # a => pc'[b] = pc[b]
        BY <2>1, OneMoves
  <2>3. /\ \A i \in Instance : i # service[a] => state'[i] = state[i]
        /\ pc'[a] \in BySms => \A i \in Instance :
             state'[i] = state[i] \/ state'[i] \notin {"timeout", "voice_requested"}
        BY <2>1, <2>2, SameState
  <2>4. UNCHANGED <<user, overtaken>>
        BY <1>10 DEF VerifyAccount, history
  <2>5. /\ pc[a] \in BySms /\ pc'[a] \in BySms \cup {"complete", "timeout", "failed"}
        /\ \/ UNCHANGED <<verified, registered>> /\ pc[a] # "store"
           \/ pc[a] = "answer" /\ verified' = a /\ registered' = registered
           \/ pc[a] = "store" /\ verified' = verified /\ registered' = a
        /\ pc[a] \in {"finish", "store"} => pc'[a] \in {"finish", "complete"}
        /\ pc[a] = "answer" => pc'[a] \in {"store", "failed"}
        /\ pc'[a] = "store" => verified' = a
        BY <1>10, <2>2 DEF VerifyAccount, verifyAccount, Status200, BySms, server, stored
  <2>   QED  BY <2>2, <2>3, <2>4, <2>5 DEF Moved
<1>11. CASE VerifyFails(a)
  <2>1. Goto(a, "failed") /\ SetState(a, "network_error")
        BY <1>11 DEF VerifyFails, instance
  <2>2. pc'[a] = "failed" /\ \A b \in Attempt : b # a => pc'[b] = pc[b]
        BY <2>1, OneMoves
  <2>3. /\ \A i \in Instance : i # service[a] => state'[i] = state[i]
        /\ pc'[a] \in BySms => \A i \in Instance :
             state'[i] = state[i] \/ state'[i] \notin {"timeout", "voice_requested"}
        BY <2>1, <2>2, OneState DEF BySms
  <2>4. UNCHANGED <<user, overtaken>>
        BY <1>11 DEF VerifyFails, history
  <2>5. /\ pc[a] \in BySms /\ pc'[a] \in BySms \cup {"complete", "timeout", "failed"}
        /\ \/ UNCHANGED <<verified, registered>> /\ pc[a] # "store"
           \/ pc[a] = "answer" /\ verified' = a /\ registered' = registered
           \/ pc[a] = "store" /\ verified' = verified /\ registered' = a
        /\ pc[a] \in {"finish", "store"} => pc'[a] \in {"finish", "complete"}
        /\ pc[a] = "answer" => pc'[a] \in {"store", "failed"}
        /\ pc'[a] = "store" => verified' = a
        BY <1>11, <2>2 DEF VerifyFails, verifyAccount, BySms, server, stored
  <2>   QED  BY <2>2, <2>3, <2>4, <2>5 DEF Moved
<1>12. CASE markAsVerified(a)
  <2>1. Goto(a, "finish") /\ state' = state
        BY <1>12 DEF markAsVerified, instance
  <2>2. pc'[a] = "finish" /\ \A b \in Attempt : b # a => pc'[b] = pc[b]
        BY <2>1, OneMoves
  <2>3. /\ \A i \in Instance : i # service[a] => state'[i] = state[i]
        /\ pc'[a] \in BySms => \A i \in Instance :
             state'[i] = state[i] \/ state'[i] \notin {"timeout", "voice_requested"}
        BY <2>1, <2>2, SameState
  <2>4. UNCHANGED <<user, overtaken>>
        BY <1>12 DEF markAsVerified, history
  <2>5. /\ pc[a] \in BySms /\ pc'[a] \in BySms \cup {"complete", "timeout", "failed"}
        /\ \/ UNCHANGED <<verified, registered>> /\ pc[a] # "store"
           \/ pc[a] = "answer" /\ verified' = a /\ registered' = registered
           \/ pc[a] = "store" /\ verified' = verified /\ registered' = a
        /\ pc[a] \in {"finish", "store"} => pc'[a] \in {"finish", "complete"}
        /\ pc[a] = "answer" => pc'[a] \in {"store", "failed"}
        /\ pc'[a] = "store" => verified' = a
        BY <1>12, <2>2 DEF markAsVerified, BySms, server, stored
  <2>   QED  BY <2>2, <2>3, <2>4, <2>5 DEF Moved
<1>13. CASE Complete(a)
  <2>1. Goto(a, "complete") /\ SetState(a, "complete")
        BY <1>13 DEF Complete, instance
  <2>2. pc'[a] = "complete" /\ \A b \in Attempt : b # a => pc'[b] = pc[b]
        BY <2>1, OneMoves
  <2>3. /\ \A i \in Instance : i # service[a] => state'[i] = state[i]
        /\ pc'[a] \in BySms => \A i \in Instance :
             state'[i] = state[i] \/ state'[i] \notin {"timeout", "voice_requested"}
        BY <2>1, <2>2, OneState DEF BySms
  <2>4. UNCHANGED <<user, overtaken>>
        BY <1>13 DEF Complete, history
  <2>5. /\ pc[a] \in BySms /\ pc'[a] \in BySms \cup {"complete", "timeout", "failed"}
        /\ \/ UNCHANGED <<verified, registered>> /\ pc[a] # "store"
           \/ pc[a] = "answer" /\ verified' = a /\ registered' = registered
           \/ pc[a] = "store" /\ verified' = verified /\ registered' = a
        /\ pc[a] \in {"finish", "store"} => pc'[a] \in {"finish", "complete"}
        /\ pc[a] = "answer" => pc'[a] \in {"store", "failed"}
        /\ pc'[a] = "store" => verified' = a
        BY <1>13, <2>2 DEF Complete, BySms, server, stored
  <2>   QED  BY <2>2, <2>3, <2>4, <2>5 DEF Moved
<1> QED  BY <1>1, <1>2, <1>3, <1>4, <1>5, <1>6, <1>7, <1>8, <1>9, <1>10, <1>11, <1>12, <1>13 DEF Executor

(* The argument for a stored password, for SMS and for a call: the account *)
(* of a later attempt that was verified belongs to a call.                 *)
LEMMA StoredByGoing ==
    ASSUME TypeOK, CredentialsInvariant, NEW a \in Attempt, pc[a] \in {"store", "voice"},
           verified # a, a \notin overtaken, verified \notin overtaken
    PROVE  /\ verified # Nobody /\ verified \in Attempt
           /\ pc[verified] \in {"failed", "dead", "typed", "voice"}
<1>1. verified >= a
      BY DEF CredentialsInvariant, StoredFollows
<1>2. verified # Nobody /\ verified \in Attempt /\ a < verified
      BY <1>1 DEF Nobody, Attempt, TypeOK
<1>3. Going(a)
      BY DEF Going, Over
<1>4. pc[verified] \in {"none", "asked", "called", "typed", "voice", "failed", "dead"}
      BY <1>2, <1>3 DEF CredentialsInvariant, LaterByVoice
<1>5. pc[verified] \in VerifiedPhases
      BY <1>2 DEF CredentialsInvariant, StoredFollows
<1> QED  BY <1>2, <1>4, <1>5 DEF VerifiedPhases

(* Its attempt alone moves, and stays one by SMS or ends.                  *)
LEMMA ExecutorKeeps ==
    ASSUME TypeOK, InOrder, CredentialsInvariant, NEW a \in Attempt, Moved(a)
    PROVE  CredentialsInvariant'
<1>1. /\ UNCHANGED <<attempts, service, instances, current, overtaken>>
      /\ pc[a] \in BySms /\ pc'[a] \in BySms \cup {"complete", "timeout", "failed"}
      /\ \A b \in Attempt : b # a => pc'[b] = pc[b]
      /\ pc[a] \notin Over \cup Asked /\ pc'[a] \notin Asked
      BY DEF Moved, user, BySms, Over, Asked
<1>2. \A b \in Attempt : /\ Going(b)' => Going(b)
                         /\ pc'[b] \in Asked <=> pc[b] \in Asked
                         /\ pc'[b] \in BySms => pc[b] \in BySms
      BY <1>1 DEF Going
<1>3. GoingInCurrent'
      BY <1>1, <1>2 DEF CredentialsInvariant, GoingInCurrent
<1>4. LeftBehind'
      BY <1>1, <1>2 DEF CredentialsInvariant, LeftBehind, TypeOK
<1>5. OneCall'
  <2> SUFFICES ASSUME NEW b \in Attempt, NEW c \in Attempt, pc'[b] \in Asked, b < c
               PROVE  /\ pc'[c] \in {"none", "asked", "failed", "dead"}
                      /\ pc'[c] = "asked" => pc'[b] = "called"
      BY DEF OneCall
  <2>1. /\ pc[c] \in {"none", "asked", "failed", "dead"}
        /\ pc[c] = "asked" => pc[b] = "called"
        BY <1>2 DEF CredentialsInvariant, OneCall
  <2>2. pc'[b] = pc[b] /\ pc'[c] = pc[c]
        BY <1>1, <1>2, <2>1 DEF BySms
  <2>   QED  BY <2>1, <2>2
<1>6. SmsAlone'
  <2>1. \A b, c \in Attempt : pc'[b] \in BySms /\ Going(b)' /\ b # c => ~ Going(c)'
        BY <1>2 DEF CredentialsInvariant, SmsAlone
  <2>2. ASSUME NEW b \in Attempt, pc'[b] \in BySms, Going(b)'
        PROVE  state'[current] \notin {"timeout", "voice_requested"}
    <3>1. /\ pc[b] \in BySms /\ Going(b)
          /\ state[current] \notin {"timeout", "voice_requested"}
          BY <1>2, <2>2 DEF CredentialsInvariant, SmsAlone
    <3>2. current \in Instance /\ service[b] = current
          BY <3>1 DEF CredentialsInvariant, GoingInCurrent, TypeOK, BySms, Asked
    <3>3. CASE a = b
          BY <2>2, <3>1, <3>2, <3>3 DEF Moved
    <3>4. CASE a # b
      <4>1. a \in overtaken
            BY <1>1, <3>1, <3>4 DEF CredentialsInvariant, SmsAlone, Going
      <4>2. service[a] # current
            BY <4>1 DEF CredentialsInvariant, LeftBehind
      <4>   QED  BY <3>1, <3>2, <4>2 DEF Moved
    <3>   QED  BY <3>3, <3>4
  <2>3. \A i \in Instance : i > instances => state'[i] = "idle"
    <3>1. service[a] <= instances /\ instances \in Nat /\ service[a] \in Nat
          BY DEF InOrder, TypeOK, Instance, Nobody
    <3>2. \A i \in Instance : i > instances => i # service[a]
          BY <3>1 DEF Instance
    <3>   QED  BY <3>2 DEF CredentialsInvariant, SmsAlone, Moved
  <2>   QED  BY <1>1, <2>1, <2>2, <2>3 DEF SmsAlone
<1>7. LaterByVoice'
  <2> SUFFICES ASSUME NEW b \in Attempt, NEW c \in Attempt, Going(b)', b < c
               PROVE  pc'[c] \in {"none", "asked", "called", "typed", "voice", "failed", "dead"}
      BY DEF LaterByVoice
  <2>1. pc[c] \in {"none", "asked", "called", "typed", "voice", "failed", "dead"}
        BY <1>2 DEF CredentialsInvariant, LaterByVoice
  <2>2. c # a
        BY <1>1, <2>1 DEF BySms
  <2>   QED  BY <1>1, <2>1, <2>2
<1>8. StoredFollows'
  <2>1. verified' # Nobody => pc'[verified'] \in VerifiedPhases
    <3>1. CASE verified' = a /\ pc[a] = "answer"
          BY <3>1 DEF Moved, VerifiedPhases
    <3>2. CASE verified' = verified /\ verified # a
          BY <1>1, <3>2 DEF CredentialsInvariant, StoredFollows, TypeOK
    <3>3. CASE verified' = verified /\ verified = a
      <4>1. pc[a] \in VerifiedPhases
            BY <3>3 DEF CredentialsInvariant, StoredFollows, Nobody, Attempt
      <4>2. pc[a] \in {"store", "finish"}
            BY <1>1, <4>1 DEF VerifiedPhases, BySms
      <4>   QED  BY <3>3, <4>2 DEF Moved, VerifiedPhases
    <3>   QED  BY <3>1, <3>2, <3>3 DEF Moved
  <2>2. ASSUME NEW b \in Attempt, pc'[b] \in {"store", "typed", "voice"}, b \notin overtaken
        PROVE  verified' >= b \/ verified' \in overtaken
    <3>1. CASE b = a
      <4>1. verified' = a
            BY <1>1, <2>2, <3>1 DEF Moved, BySms
      <4>   QED  BY <3>1, <4>1 DEF Attempt
    <3>2. CASE b # a
      <4>1. pc[b] = pc'[b] /\ Going(b)
            BY <1>1, <2>2, <3>2 DEF Going, Over
      <4>2. verified >= b \/ verified \in overtaken
            BY <2>2, <4>1 DEF CredentialsInvariant, StoredFollows
      <4>3. CASE verified' = a
        <5>1. a \in overtaken
              BY <1>1, <3>2, <4>1 DEF CredentialsInvariant, SmsAlone, Going
        <5>   QED  BY <4>3, <5>1
      <4>   QED  BY <4>2, <4>3 DEF Moved
    <3>   QED  BY <3>1, <3>2
  <2>3. \/ registered' = verified'
        \/ registered' \in overtaken \/ verified' \in overtaken
        \/ /\ verified' # Nobody
           /\ pc'[verified'] \in {"failed", "dead", "store", "typed", "voice"}
    <3>1. CASE pc[a] = "answer" /\ verified' = a
          BY <3>1 DEF Moved, Nobody, Attempt
    <3>2. CASE pc[a] # "store" /\ UNCHANGED <<verified, registered>>
      <4>1. CASE verified = a
        <5>1. pc[a] \notin {"failed", "dead", "store", "typed", "voice"}
              BY <1>1, <3>2 DEF BySms
        <5>   QED  BY <3>2, <4>1, <5>1 DEF CredentialsInvariant, StoredFollows
      <4>2. CASE verified # a /\ verified # Nobody
        <5>1. pc'[verified] = pc[verified]
              BY <1>1, <4>2 DEF TypeOK
        <5>   QED  BY <3>2, <5>1 DEF CredentialsInvariant, StoredFollows
      <4>3. CASE verified = Nobody
            BY <3>2, <4>3 DEF CredentialsInvariant, StoredFollows
      <4>   QED  BY <4>1, <4>2, <4>3
    <3>3. CASE pc[a] = "store" /\ verified' = verified /\ registered' = a
      <4> SUFFICES ASSUME verified # a, a \notin overtaken, verified \notin overtaken
                   PROVE  /\ verified # Nobody
                          /\ pc'[verified] \in {"failed", "dead", "store", "typed", "voice"}
          BY <3>3
      <4>1. /\ verified # Nobody /\ verified \in Attempt
            /\ pc[verified] \in {"failed", "dead", "typed", "voice"}
            BY <3>3, StoredByGoing
      <4>   QED  BY <1>1, <3>3, <4>1
    <3>   QED  BY <3>1, <3>2, <3>3 DEF Moved
  <2>   QED  BY <1>1, <2>1, <2>2, <2>3 DEF StoredFollows
<1> QED  BY <1>3, <1>4, <1>5, <1>6, <1>7, <1>8 DEF CredentialsInvariant

(* The phases of a call: the tasks of the activity, and the two intents of *)
(* the service.                                                            *)
CallPhase(a) ==
    \/ /\ pc[a] = "asked" /\ pc'[a] = "called"
       /\ \A b \in Attempt : b # a => pc'[b] # "called"
       /\ UNCHANGED <<service, verified, registered>>
    \/ /\ pc[a] = "asked" /\ pc'[a] = "failed"
       /\ UNCHANGED <<service, verified, registered>>
    \/ /\ pc[a] = "called" /\ pc'[a] \in {"typed", "failed"}
       /\ NoDialog
       /\ verified' = a \/ (verified' = verified /\ pc'[a] = "failed")
       /\ UNCHANGED <<service, registered>>
    \/ /\ pc[a] = "typed" /\ pc'[a] = "voice"
       /\ service'[a] = current
       /\ UNCHANGED <<verified, registered>>
    \/ /\ pc[a] = "voice" /\ pc'[a] = "complete"
       /\ \A b \in 1..(a - 1) : service[b] = service[a] => pc[b] \in Over
       /\ \A i \in Instance : i # service[a] => state'[i] = state[i]
       /\ registered' = a
       /\ UNCHANGED <<service, verified>>

CallMoved(a) ==
    /\ UNCHANGED <<attempts, instances, current, overtaken>>
    /\ \A b \in Attempt : b # a =>
         /\ service'[b] = service[b]
         /\ pc'[b] = pc[b] \/ (pc[a] = "asked" /\ pc[b] = "called" /\ pc'[b] = "failed")
    /\ \A i \in Instance : i # current /\ i # service[a] => state'[i] = state[i]
    /\ CallPhase(a)

LEMMA CallMoves ==
    ASSUME TypeOK, InOrder, NEW a \in Attempt, Voice(a)
    PROVE  CallMoved(a)
<1>1. CASE CallRequested(a)
  <2>1. /\ pc[a] = "asked"
        /\ UNCHANGED <<user, overtaken, service, verified, registered>>
        /\ pc' = [CallDropped EXCEPT ![a] = "called"]
        /\ state' = state \/ state' = [state EXCEPT ![current] = "voice_requested"]
        BY <1>1 DEF CallRequested, createAccount, user, instance, stored, history
  <2>2. /\ pc'[a] = "called"
        /\ \A b \in Attempt : b # a =>
             pc'[b] = IF pc[b] = "called" THEN "failed" ELSE pc[b]
        BY <2>1 DEF CallDropped, TypeOK
  <2>3. \A i \in Instance : i # current => state'[i] = state[i]
        BY <2>1 DEF TypeOK
  <2>8. /\ UNCHANGED <<attempts, instances, current, overtaken>>
        /\ \A b \in Attempt : b # a =>
             /\ service'[b] = service[b]
             /\ pc'[b] = pc[b] \/ (pc[a] = "asked" /\ pc[b] = "called" /\ pc'[b] = "failed")
        /\ \A i \in Instance : i # current /\ i # service[a] => state'[i] = state[i]
        BY <2>1, <2>2, <2>3 DEF user
  <2>9. CallPhase(a)
        BY <2>1, <2>2, <2>3 DEF CallPhase, user
  <2>   QED  BY <2>8, <2>9 DEF CallMoved
<1>2. CASE CallFails(a)
  <2>1. /\ pc[a] = "asked" /\ Goto(a, "failed")
        /\ UNCHANGED <<user, overtaken, verified, registered, state>>
        BY <1>2 DEF CallFails, createAccount, instance, server, stored, history
  <2>2. pc'[a] = "failed" /\ \A b \in Attempt : b # a => pc'[b] = pc[b]
        BY <2>1, OneMoves
  <2>8. /\ UNCHANGED <<attempts, instances, current, overtaken>>
        /\ \A b \in Attempt : b # a =>
             /\ service'[b] = service[b]
             /\ pc'[b] = pc[b] \/ (pc[a] = "asked" /\ pc[b] = "called" /\ pc'[b] = "failed")
        /\ \A i \in Instance : i # current /\ i # service[a] => state'[i] = state[i]
        BY <2>1, <2>2 DEF user
  <2>9. CallPhase(a)
        BY <2>1, <2>2 DEF CallPhase, user
  <2>   QED  BY <2>8, <2>9 DEF CallMoved
<1>3. CASE CodeTyped(a)
  <2>1. /\ pc[a] = "called" /\ NoDialog
        /\ \/ verified' = a /\ Goto(a, "typed")
           \/ (verified' = a \/ verified' = verified) /\ Goto(a, "failed")
        /\ UNCHANGED <<user, overtaken, registered, state>>
        BY <1>3 DEF CodeTyped, verifyAccount, Status200, instance, stored, history
  <2>2. /\ \/ verified' = a /\ pc'[a] = "typed"
           \/ (verified' = a \/ verified' = verified) /\ pc'[a] = "failed"
        /\ \A b \in Attempt : b # a => pc'[b] = pc[b]
        BY <2>1, OneMoves
  <2>8. /\ UNCHANGED <<attempts, instances, current, overtaken>>
        /\ \A b \in Attempt : b # a =>
             /\ service'[b] = service[b]
             /\ pc'[b] = pc[b] \/ (pc[a] = "asked" /\ pc[b] = "called" /\ pc'[b] = "failed")
        /\ \A i \in Instance : i # current /\ i # service[a] => state'[i] = state[i]
        BY <2>1, <2>2 DEF user
  <2>9. CallPhase(a)
        BY <2>1, <2>2 DEF CallPhase, user
  <2>   QED  BY <2>8, <2>9 DEF CallMoved
<1>4. CASE VoiceRegister(a)
  <2>1. /\ pc[a] = "typed" /\ Goto(a, "voice") /\ InService(a)
        /\ UNCHANGED <<attempts, overtaken, verified, registered, state>>
        BY <1>4 DEF VoiceRegister, instance, server, stored, history
  <2>2. current # Nobody
        BY <2>1 DEF InOrder, Asked
  <2>3. /\ UNCHANGED <<instances, current>>
        /\ service' = [service EXCEPT ![a] = current]
        BY <2>1, <2>2 DEF InService
  <2>4. service'[a] = current /\ \A b \in Attempt : b # a => service'[b] = service[b]
        BY <2>3 DEF TypeOK
  <2>5. pc'[a] = "voice" /\ \A b \in Attempt : b # a => pc'[b] = pc[b]
        BY <2>1, OneMoves
  <2>8. /\ UNCHANGED <<attempts, instances, current, overtaken>>
        /\ \A b \in Attempt : b # a =>
             /\ service'[b] = service[b]
             /\ pc'[b] = pc[b] \/ (pc[a] = "asked" /\ pc[b] = "called" /\ pc'[b] = "failed")
        /\ \A i \in Instance : i # current /\ i # service[a] => state'[i] = state[i]
        BY <2>1, <2>3, <2>4, <2>5
  <2>9. CallPhase(a)
        BY <2>1, <2>3, <2>4, <2>5 DEF CallPhase
  <2>   QED  BY <2>8, <2>9 DEF CallMoved
<1>5. CASE VoiceRegistered(a)
  <2>1. /\ pc[a] = "voice" /\ Goto(a, "complete") /\ registered' = a
        /\ \A b \in 1..(a - 1) : service[b] = service[a] => pc[b] \in Over
        /\ UNCHANGED <<user, overtaken, verified>>
        /\ \E s \in {"complete", "network_error"} : SetState(a, s)
        BY <1>5 DEF VoiceRegistered, server, history
  <2>2. pc'[a] = "complete" /\ \A b \in Attempt : b # a => pc'[b] = pc[b]
        BY <2>1, OneMoves
  <2>3. \A i \in Instance : i # service[a] => state'[i] = state[i]
        BY <2>1, OneState
  <2>8. /\ UNCHANGED <<attempts, instances, current, overtaken>>
        /\ \A b \in Attempt : b # a =>
             /\ service'[b] = service[b]
             /\ pc'[b] = pc[b] \/ (pc[a] = "asked" /\ pc[b] = "called" /\ pc'[b] = "failed")
        /\ \A i \in Instance : i # current /\ i # service[a] => state'[i] = state[i]
        BY <2>1, <2>2, <2>3 DEF user
  <2>9. CallPhase(a)
        BY <2>1, <2>2, <2>3 DEF CallPhase, user
  <2>   QED  BY <2>8, <2>9 DEF CallMoved
<1> QED  BY <1>1, <1>2, <1>3, <1>4, <1>5 DEF Voice

LEMMA CallKeeps ==
    ASSUME TypeOK, InOrder, CredentialsInvariant, NEW a \in Attempt, CallMoved(a)
    PROVE  CredentialsInvariant'
<1>1. /\ UNCHANGED <<attempts, instances, current, overtaken>>
      /\ \A b \in Attempt : b # a => service'[b] = service[b]
      /\ \A b \in Attempt : b # a =>
           pc'[b] = pc[b] \/ (pc[a] = "asked" /\ pc[b] = "called" /\ pc'[b] = "failed")
      BY DEF CallMoved
<1>2. /\ pc[a] \in {"asked", "called", "typed", "voice"}
      /\ pc'[a] \in {"called", "typed", "failed", "voice", "complete"}
      /\ pc'[a] = "complete" => pc[a] = "voice"
      /\ pc[a] = "voice" => pc'[a] = "complete"
      /\ pc'[a] = "voice" => pc[a] = "typed"
      /\ pc'[a] \in Asked => pc[a] \in {"asked", "called"}
      BY DEF CallMoved, CallPhase, Asked
<1>3. \A b \in Attempt : /\ Going(b)' => Going(b)
                         /\ b # a /\ pc'[b] \in Asked => pc'[b] = pc[b]
                         /\ pc'[b] \in BySms => b # a /\ pc'[b] = pc[b]
      BY <1>1, <1>2 DEF Going, Over, Asked, BySms
<1>4. GoingInCurrent'
  <2> SUFFICES ASSUME NEW b \in Attempt, Going(b)'
               PROVE  current # Nobody /\ (pc'[b] \in Asked \/ service'[b] = current)
      BY <1>1 DEF GoingInCurrent
  <2>1. current # Nobody /\ (pc[b] \in Asked \/ service[b] = current)
        BY <1>3 DEF CredentialsInvariant, GoingInCurrent
  <2>2. CASE b = a
    <3>1. pc'[a] \in Asked \/ (pc'[a] = "voice" /\ pc[a] = "typed")
          BY <1>2, <2>2 DEF Going, Over, Asked
    <3>2. pc'[a] = "voice" => service'[a] = current
          BY <1>2 DEF CallMoved, CallPhase
    <3>   QED  BY <2>1, <2>2, <3>1, <3>2
  <2>3. CASE b # a
        BY <1>1, <2>1, <2>3 DEF Going, Over
  <2>   QED  BY <2>2, <2>3
<1>5. LeftBehind'
  <2>1. a \in overtaken => pc[a] = "voice"
        BY <1>2 DEF CredentialsInvariant, LeftBehind, Asked
  <2>2. pc[a] = "voice" => service'[a] = service[a] /\ pc'[a] \notin Asked
        BY <1>2 DEF CallMoved, CallPhase, Asked
  <2>3. \A b \in overtaken : b <= attempts /\ service'[b] # Nobody /\ service'[b] # current
        BY <1>1, <2>1, <2>2 DEF CredentialsInvariant, LeftBehind, TypeOK
  <2>4. \A b \in overtaken : pc'[b] \notin Asked
        BY <1>3, <2>1, <2>2 DEF CredentialsInvariant, LeftBehind, TypeOK
  <2>   QED  BY <1>1, <1>3, <2>3, <2>4 DEF CredentialsInvariant, LeftBehind
<1>6. OneCall'
  <2> SUFFICES ASSUME NEW b \in Attempt, NEW c \in Attempt, pc'[b] \in Asked, b < c
               PROVE  /\ pc'[c] \in {"none", "asked", "failed", "dead"}
                      /\ pc'[c] = "asked" => pc'[b] = "called"
      BY DEF OneCall
  <2>1. pc[b] \in Asked /\ b # c
        BY <1>2, <1>3 DEF Asked, Attempt
  <2>2. /\ pc[c] \in {"none", "asked", "failed", "dead"}
        /\ pc[c] = "asked" => pc[b] = "called"
        BY <2>1 DEF CredentialsInvariant, OneCall
  <2>3. CASE b # a /\ c # a
        BY <1>1, <1>3, <2>2, <2>3
  <2>4. CASE b = a
    <3>1. pc'[c] = pc[c]
          BY <1>1, <2>1, <2>2, <2>4
    <3>2. pc[c] # "asked"
          BY <1>2, <2>2, <2>4 DEF CallMoved, CallPhase, NoDialog, Asked
    <3>   QED  BY <2>2, <3>1, <3>2
  <2>5. CASE c = a
    <3>1. pc[a] = "asked" /\ pc[b] = "called" /\ pc'[b] = "called"
          BY <1>2, <1>3, <2>1, <2>2, <2>5
    <3>2. pc'[a] = "failed"
          BY <2>1, <2>5, <3>1 DEF CallMoved, CallPhase
    <3>   QED  BY <2>5, <3>2
  <2>   QED  BY <2>3, <2>4, <2>5
<1>7. SmsAlone'
  <2>1. \A b, c \in Attempt : pc'[b] \in BySms /\ Going(b)' /\ b # c => ~ Going(c)'
        BY <1>3 DEF CredentialsInvariant, SmsAlone
  <2>2. ASSUME NEW b \in Attempt, pc'[b] \in BySms, Going(b)'
        PROVE  state'[current] \notin {"timeout", "voice_requested"}
    <3>1. b # a /\ pc[b] \in BySms /\ Going(b)
          BY <1>3, <2>2
    <3>2. /\ state[current] \notin {"timeout", "voice_requested"}
          /\ ~ Going(a)
          /\ current # Nobody
          BY <3>1 DEF CredentialsInvariant, SmsAlone, GoingInCurrent
    <3>3. a \in overtaken
          BY <1>2, <3>2 DEF Going, Over
    <3>4. pc[a] = "voice" /\ service[a] # current
          BY <1>2, <3>3 DEF CredentialsInvariant, LeftBehind, Asked
    <3>5. current \in Instance
          BY <3>2 DEF TypeOK
    <3>   QED  BY <3>2, <3>4, <3>5 DEF CallMoved, CallPhase
  <2>3. \A i \in Instance : i > instances => state'[i] = "idle"
    <3>1. service[a] \in Nat /\ current \in Nat /\ instances \in Nat
          /\ service[a] <= instances /\ current <= instances
          BY DEF InOrder, TypeOK, Instance, Nobody
    <3>2. \A i \in Instance : i > instances => i # service[a] /\ i # current
          BY <3>1 DEF Instance
    <3>   QED  BY <3>2 DEF CredentialsInvariant, SmsAlone, CallMoved
  <2>   QED  BY <1>1, <2>1, <2>2, <2>3 DEF SmsAlone
<1>8. LaterByVoice'
  <2> SUFFICES ASSUME NEW b \in Attempt, NEW c \in Attempt, Going(b)', b < c
               PROVE  pc'[c] \in {"none", "asked", "called", "typed", "voice", "failed", "dead"}
      BY DEF LaterByVoice
  <2>1. /\ Going(b)
        /\ pc[c] \in {"none", "asked", "called", "typed", "voice", "failed", "dead"}
        BY <1>3 DEF CredentialsInvariant, LaterByVoice
  <2>2. CASE c # a
        BY <1>1, <2>1, <2>2
  <2>3. CASE c = a /\ pc'[a] = "complete"
    <3>1. pc[a] = "voice" /\ a \notin overtaken
          BY <1>2, <2>1, <2>3 DEF CredentialsInvariant, LeftBehind
    <3>2. service[a] = current
          BY <3>1 DEF CredentialsInvariant, GoingInCurrent, Going, Over, Asked
    <3>3. pc[b] \notin Asked
          BY <2>3, <3>1 DEF CredentialsInvariant, OneCall
    <3>4. service[b] = current
          BY <2>1, <3>3 DEF CredentialsInvariant, GoingInCurrent
    <3>5. b \in 1..(a - 1)
          BY <2>3 DEF Attempt
    <3>6. pc[b] \in Over
          BY <3>1, <3>2, <3>4, <3>5 DEF CallMoved, CallPhase
    <3>   QED  BY <2>1, <3>6 DEF Going
  <2>4. CASE c = a /\ pc'[a] # "complete"
        BY <1>2, <2>4
  <2>   QED  BY <2>2, <2>3, <2>4
<1>9. StoredFollows'
  <2>0. \/ verified' = a /\ pc[a] = "called" /\ pc'[a] \in {"typed", "failed"}
        \/ verified' = verified /\ (pc'[a] = "typed" => verified' = a)
        BY DEF CallMoved, CallPhase
  <2>1. ASSUME verified' = verified, verified # Nobody
        PROVE  /\ pc'[verified] \in VerifiedPhases
               /\ pc'[verified] = pc[verified]
                  \/ (verified = a /\ pc[a] \in {"typed", "voice"}
                     /\ pc'[a] \in {"voice", "complete"})
    <3>1. pc[verified] \in VerifiedPhases /\ verified \in Attempt
          BY <2>1 DEF CredentialsInvariant, StoredFollows, TypeOK
    <3>2. CASE verified # a
          BY <1>1, <3>1, <3>2 DEF VerifiedPhases
    <3>3. CASE verified = a
      <4>1. pc[a] \in {"typed", "voice"}
            BY <1>2, <3>1, <3>3 DEF VerifiedPhases
      <4>2. pc'[a] \in {"voice", "complete"}
            BY <4>1 DEF CallMoved, CallPhase
      <4>   QED  BY <3>3, <4>1, <4>2 DEF VerifiedPhases
    <3>   QED  BY <3>2, <3>3
  <2>2. verified' # Nobody => pc'[verified'] \in VerifiedPhases
        BY <2>0, <2>1 DEF VerifiedPhases
  <2>3. ASSUME NEW b \in Attempt, pc'[b] \in {"store", "typed", "voice"}, b \notin overtaken
        PROVE  verified' >= b \/ verified' \in overtaken
    <3>1. CASE pc[b] \in {"store", "typed", "voice"} /\ verified' = verified
          BY <2>3, <3>1 DEF CredentialsInvariant, StoredFollows
    <3>2. CASE b # a /\ verified' = a /\ pc[a] = "called"
      <4>1. pc[b] \in {"store", "typed", "voice"}
            BY <1>1, <2>3, <3>2
      <4>2. ~ (a < b)
            BY <3>2, <4>1 DEF CredentialsInvariant, OneCall, Asked
      <4>   QED  BY <3>2, <4>2 DEF Attempt
    <3>3. CASE b = a /\ verified' = a
          BY <3>3 DEF Attempt
    <3>4. CASE b # a /\ verified' = verified
          BY <1>1, <2>3, <3>1, <3>4
    <3>5. CASE b = a /\ verified' = verified
          BY <1>2, <2>0, <2>3, <3>1, <3>3, <3>5
    <3>   QED  BY <2>0, <3>2, <3>3, <3>4, <3>5
  <2>4. \/ registered' = verified'
        \/ registered' \in overtaken \/ verified' \in overtaken
        \/ /\ verified' # Nobody
           /\ pc'[verified'] \in {"failed", "dead", "store", "typed", "voice"}
    <3>1. CASE verified' = a /\ pc[a] = "called" /\ pc'[a] \in {"typed", "failed"}
          BY <3>1 DEF Nobody, Attempt
    <3>2. CASE verified' = verified /\ registered' = registered /\ pc[a] # "voice"
      <4>1. CASE registered = verified \/ registered \in overtaken \/ verified \in overtaken
            BY <3>2, <4>1
      <4>2. CASE /\ verified # Nobody
                 /\ pc[verified] \in {"failed", "dead", "store", "typed", "voice"}
        <5>1. pc'[verified] = pc[verified] \/ (verified = a /\ pc'[a] = "voice")
              BY <1>2, <2>1, <3>2, <4>2
        <5>   QED  BY <3>2, <4>2, <5>1
      <4>   QED  BY <4>1, <4>2 DEF CredentialsInvariant, StoredFollows
    <3>3. CASE pc[a] = "voice" /\ verified' = verified /\ registered' = a
      <4> SUFFICES ASSUME verified # a, a \notin overtaken, verified \notin overtaken
                   PROVE  /\ verified # Nobody
                          /\ pc'[verified] \in {"failed", "dead", "store", "typed", "voice"}
          BY <3>3
      <4>1. /\ verified # Nobody /\ verified \in Attempt
            /\ pc[verified] \in {"failed", "dead", "typed", "voice"}
            BY <3>3, StoredByGoing
      <4>   QED  BY <1>1, <3>3, <4>1
    <3>   QED  BY <1>2, <3>1, <3>2, <3>3 DEF CallMoved, CallPhase
  <2>   QED  BY <1>1, <2>2, <2>3, <2>4 DEF StoredFollows
<1> QED  BY <1>4, <1>5, <1>6, <1>7, <1>8, <1>9 DEF CredentialsInvariant

(* A step that moves no attempt.                                           *)
LEMMA NobodyMoves ==
    ASSUME CredentialsInvariant,
           UNCHANGED <<attempts, service, instances, current, pc, overtaken, verified, registered>>,
           \A i \in Instance : state'[i] = state[i] \/ state'[i] = "idle", TypeOK
    PROVE  CredentialsInvariant'
<1>1. \A b : Going(b)' <=> Going(b)
      BY DEF Going
<1>2. \A b \in Attempt : pc[b] \in BySms /\ Going(b) => current \in Instance
      BY DEF CredentialsInvariant, GoingInCurrent, TypeOK
<1>3. SmsAlone'
      BY <1>1, <1>2 DEF CredentialsInvariant, SmsAlone
<1> QED  BY <1>1, <1>3 DEF CredentialsInvariant, GoingInCurrent, LeftBehind, OneCall,
         LaterByVoice, StoredFollows

LEMMA RegisterKeeps ==
    ASSUME TypeOK, InOrder, CredentialsInvariant, Register
    PROVE  CredentialsInvariant'
<1> DEFINE n == attempts + 1
<1>1. /\ attempts \in Nat /\ n \in Attempt /\ instances \in Nat /\ instances + 1 \in Instance
      /\ pc[n] = "none" /\ n # Nobody
      BY RegistrationAssumption DEF Register, TypeOK, InOrder, Attempt, Instance, Nobody
<1>2. /\ current = Nobody /\ attempts' = n /\ instances' = instances + 1
      /\ current' = instances + 1 /\ service' = [service EXCEPT ![n] = instances + 1]
      /\ pc' = [pc EXCEPT ![n] = "queued"]
      /\ UNCHANGED <<state, verified, registered, overtaken>>
      BY DEF Register, InService, instance, server, stored, history
<1>   HIDE DEF n
<1>3. /\ pc'[n] = "queued" /\ \A b \in Attempt : b # n => pc'[b] = pc[b]
      /\ service'[n] = instances + 1
      /\ \A b \in Attempt : b # n => service'[b] = service[b]
      BY <1>1, <1>2 DEF TypeOK
<1>4. \A b \in Attempt : ~ Going(b) /\ pc[b] \notin Asked
      BY <1>2 DEF CredentialsInvariant, GoingInCurrent, InOrder
<1>5. \A b \in Attempt : /\ Going(b)' => b = n
                         /\ pc'[b] \notin Asked
      BY <1>2, <1>3, <1>4 DEF Going, Asked
<1>6. \A b \in overtaken : b \in Attempt /\ b <= attempts /\ b # n
      BY <1>1 DEF CredentialsInvariant, LeftBehind, TypeOK, Attempt, n
<1>7. \A b \in Attempt : b > n => pc[b] = "none"
      BY <1>1 DEF InOrder, Attempt, n
<1>8. GoingInCurrent'
  <2>1. current' # Nobody /\ service'[n] = current'
        BY <1>1, <1>2, <1>3 DEF Nobody
  <2>   QED  BY <1>5, <2>1 DEF GoingInCurrent
<1>9. LeftBehind'
  <2>1. \A b \in overtaken : b <= n
        BY <1>1, <1>6 DEF Attempt, n
  <2>2. \A b \in overtaken : service'[b] # Nobody /\ service'[b] # current'
    <3> TAKE b \in overtaken
    <3>1. service'[b] = service[b] /\ service[b] # Nobody
          BY <1>3, <1>6 DEF CredentialsInvariant, LeftBehind
    <3>2. service[b] <= instances /\ service[b] \in Nat
          BY <1>6 DEF InOrder, TypeOK, Instance, Nobody
    <3>   QED  BY <1>1, <1>2, <3>1, <3>2
  <2>3. \A b \in overtaken, c \in Attempt : c < b => ~ Going(c)'
        BY <1>1, <1>5, <1>6 DEF Attempt, n
  <2>   QED  BY <1>2, <1>5, <1>6, <2>1, <2>2, <2>3 DEF LeftBehind
<1>10. OneCall'
      BY <1>5 DEF OneCall
<1>11. SmsAlone'
  <2>1. \A i \in Instance : i > instances => state[i] = "idle"
        BY DEF CredentialsInvariant, SmsAlone
  <2>2. state'[current'] = "idle"
        BY <1>1, <1>2, <2>1
  <2>3. \A i \in Instance : i > instances' => state'[i] = "idle"
        BY <1>1, <1>2, <2>1 DEF Instance
  <2>   QED  BY <1>5, <2>2, <2>3 DEF SmsAlone
<1>12. LaterByVoice'
  <2> SUFFICES ASSUME NEW b \in Attempt, NEW c \in Attempt, Going(b)', b < c
               PROVE  pc'[c] = "none"
      BY DEF LaterByVoice
  <2>1. b = n /\ c > n /\ c # n
        BY <1>5 DEF Attempt
  <2>   QED  BY <1>3, <1>7, <2>1
<1>13. StoredFollows'
  <2>1. verified # Nobody => verified # n /\ pc'[verified] = pc[verified]
        BY <1>1, <1>3 DEF CredentialsInvariant, StoredFollows, VerifiedPhases, TypeOK
  <2>2. \A b \in Attempt : pc'[b] \in {"store", "typed", "voice"} => pc[b] = pc'[b]
        BY <1>3
  <2>3. \A b \in Attempt : pc'[b] \in {"store", "typed", "voice"} /\ b \notin overtaken =>
          verified >= b \/ verified \in overtaken
        BY <2>2 DEF CredentialsInvariant, StoredFollows
  <2>   QED  BY <1>2, <2>1, <2>3 DEF CredentialsInvariant, StoredFollows
<1> QED  BY <1>8, <1>9, <1>10, <1>11, <1>12, <1>13 DEF CredentialsInvariant

LEMMA AskForCallKeeps ==
    ASSUME TypeOK, InOrder, CredentialsInvariant, AskForCall
    PROVE  CredentialsInvariant'
<1> DEFINE n == attempts + 1
<1>1. attempts \in Nat /\ n \in Attempt /\ pc[n] = "none"
      BY RegistrationAssumption DEF AskForCall, TypeOK, InOrder, Attempt
<1>2. /\ current # Nobody /\ state[current] \in {"timeout", "voice_requested"} /\ NoDialog
      /\ attempts' = n /\ pc' = [pc EXCEPT ![n] = "asked"]
      /\ UNCHANGED <<service, instances, current, state, verified, registered, overtaken>>
      BY DEF AskForCall, instance, server, stored, history
<1>   HIDE DEF n
<1>3. pc'[n] = "asked" /\ \A b \in Attempt : b # n => pc'[b] = pc[b]
      BY <1>1, <1>2 DEF TypeOK
<1>4. \A b \in overtaken : b \in Attempt /\ b <= attempts /\ b < n
      BY <1>1 DEF CredentialsInvariant, LeftBehind, TypeOK, Attempt, n
<1>5. \A b \in Attempt : Going(b)' => Going(b) \/ b = n
      BY <1>2, <1>3 DEF Going
<1>6. \A b \in Attempt : b > n => pc'[b] = "none"
      BY <1>1, <1>3 DEF InOrder, Attempt, n
<1>7. GoingInCurrent'
  <2> SUFFICES ASSUME NEW b \in Attempt, Going(b)'
               PROVE  pc'[b] \in Asked \/ service[b] = current
      BY <1>2 DEF GoingInCurrent
  <2>1. CASE b = n
        BY <1>3, <2>1 DEF Asked
  <2>2. CASE b # n
        BY <1>3, <1>5, <2>2 DEF CredentialsInvariant, GoingInCurrent
  <2>   QED  BY <2>1, <2>2
<1>8. LeftBehind'
  <2>1. \A b \in overtaken : b <= n /\ pc'[b] \notin Asked
        BY <1>1, <1>3, <1>4 DEF CredentialsInvariant, LeftBehind, Attempt
  <2>2. \A b \in overtaken, c \in Attempt : c < b => c # n
        BY <1>1, <1>4 DEF Attempt
  <2>3. \A b \in overtaken, c \in Attempt : c < b => ~ Going(c)'
        BY <1>5, <2>2 DEF CredentialsInvariant, LeftBehind
  <2>   QED  BY <1>2, <2>1, <2>3 DEF CredentialsInvariant, LeftBehind
<1>9. OneCall'
  <2> SUFFICES ASSUME NEW b \in Attempt, NEW c \in Attempt, pc'[b] \in Asked, b < c
               PROVE  /\ pc'[c] \in {"none", "asked", "failed", "dead"}
                      /\ pc'[c] = "asked" => pc'[b] = "called"
      BY DEF OneCall
  <2>1. CASE b = n
        BY <1>6, <2>1 DEF Attempt
  <2>2. CASE c = n
    <3>1. b # n /\ pc'[b] = pc[b]
          BY <1>3, <2>2 DEF Attempt
    <3>2. pc[b] = "called"
          BY <1>2, <3>1 DEF NoDialog, Asked
    <3>   QED  BY <1>3, <2>2, <3>1, <3>2
  <2>3. CASE b # n /\ c # n
        BY <1>3, <2>3 DEF CredentialsInvariant, OneCall
  <2>   QED  BY <2>1, <2>2, <2>3
<1>10. SmsAlone'
  <2>1. \A b \in Attempt : ~ (pc'[b] \in BySms /\ Going(b)')
    <3> SUFFICES ASSUME NEW b \in Attempt, pc'[b] \in BySms, Going(b)' PROVE FALSE
        OBVIOUS
    <3>1. b # n
          BY <1>3 DEF BySms
    <3>2. pc[b] \in BySms /\ Going(b)
          BY <1>3, <1>5, <3>1
    <3>   QED  BY <1>2, <3>2 DEF CredentialsInvariant, SmsAlone
  <2>   QED  BY <1>2, <2>1 DEF CredentialsInvariant, SmsAlone
<1>11. LaterByVoice'
  <2> SUFFICES ASSUME NEW b \in Attempt, NEW c \in Attempt, Going(b)', b < c
               PROVE  pc'[c] \in {"none", "asked", "called", "typed", "voice", "failed", "dead"}
      BY DEF LaterByVoice
  <2>1. CASE b = n
        BY <1>6, <2>1 DEF Attempt
  <2>2. CASE c = n
        BY <1>3, <2>2
  <2>3. CASE b # n /\ c # n
        BY <1>3, <1>5, <2>3 DEF CredentialsInvariant, LaterByVoice
  <2>   QED  BY <2>1, <2>2, <2>3
<1>12. StoredFollows'
  <2>1. verified # Nobody => pc'[verified] = pc[verified]
        BY <1>1, <1>3 DEF CredentialsInvariant, StoredFollows, VerifiedPhases, TypeOK
  <2>2. \A b \in Attempt : pc'[b] \in {"store", "typed", "voice"} => pc[b] = pc'[b]
        BY <1>3
  <2>3. \A b \in Attempt : pc'[b] \in {"store", "typed", "voice"} /\ b \notin overtaken =>
          verified >= b \/ verified \in overtaken
        BY <2>2 DEF CredentialsInvariant, StoredFollows
  <2>   QED  BY <1>2, <2>1, <2>3 DEF CredentialsInvariant, StoredFollows
<1> QED  BY <1>7, <1>8, <1>9, <1>10, <1>11, <1>12 DEF CredentialsInvariant

(* Nobody goes on after an edit or the death of the process.               *)
LEMMA NobodyGoes ==
    ASSUME TypeOK, CredentialsInvariant, current' = Nobody,
           overtaken \subseteq overtaken', overtaken' \subseteq Attempt,
           UNCHANGED <<attempts, instances, service, verified, registered>>,
           \A b \in overtaken' : b <= attempts /\ service[b] # Nobody,
           \A b \in Attempt : ~ Going(b)' /\ pc'[b] \notin Asked,
           \A b \in Attempt : \/ pc'[b] = pc[b]
                              \/ pc'[b] = "dead" /\ pc[b] \notin Over
                              \/ pc'[b] = "failed" /\ pc[b] = "called",
           \A i \in Instance : state'[i] = state[i] \/ state'[i] = "idle"
    PROVE  CredentialsInvariant'
<1>1. GoingInCurrent' /\ OneCall' /\ LaterByVoice'
      BY DEF GoingInCurrent, OneCall, LaterByVoice
<1>2. LeftBehind'
      BY DEF LeftBehind
<1>3. SmsAlone'
      BY DEF CredentialsInvariant, SmsAlone
<1>4. StoredFollows'
  <2>1. ASSUME verified # Nobody
        PROVE  /\ pc[verified] \in VerifiedPhases
               /\ pc'[verified] = pc[verified] \/ pc'[verified] = "dead"
        BY <2>1 DEF CredentialsInvariant, StoredFollows, VerifiedPhases, TypeOK
  <2>2. verified # Nobody => pc'[verified] \in VerifiedPhases
        BY <2>1 DEF VerifiedPhases
  <2>3. ASSUME NEW b \in Attempt, pc'[b] \in {"store", "typed", "voice"}, b \notin overtaken'
        PROVE  verified >= b \/ verified \in overtaken'
    <3>1. pc[b] = pc'[b] /\ b \notin overtaken
          BY <2>3
    <3>   QED  BY <2>3, <3>1 DEF CredentialsInvariant, StoredFollows
  <2>4. \/ registered = verified \/ registered \in overtaken \/ verified \in overtaken
        \/ /\ verified # Nobody
           /\ pc[verified] \in {"failed", "dead", "store", "typed", "voice"}
        BY DEF CredentialsInvariant, StoredFollows
  <2>5. \/ registered = verified \/ registered \in overtaken' \/ verified \in overtaken'
        \/ /\ verified # Nobody
           /\ pc'[verified] \in {"failed", "dead", "store", "typed", "voice"}
    <3>1. CASE verified # Nobody
          BY <2>1, <2>4, <3>1
    <3>2. CASE verified = Nobody
          BY <2>4, <3>2
    <3>   QED  BY <3>1, <3>2
  <2>   QED  BY <2>2, <2>3, <2>5 DEF StoredFollows
<1> QED  BY <1>1, <1>2, <1>3, <1>4 DEF CredentialsInvariant

LEMMA EditKeeps ==
    ASSUME TypeOK, InOrder, CredentialsInvariant, Edit
    PROVE  CredentialsInvariant'
<1>1. /\ current # Nobody /\ NoDialog /\ current' = Nobody
      /\ overtaken' = overtaken \cup In(current)
      /\ pc' = CallDropped
      /\ state' = [state EXCEPT ![current] = "idle"]
      /\ UNCHANGED <<attempts, instances, service, verified, registered>>
      BY DEF Edit, shutdown, server
<1>2. \A b \in Attempt : pc'[b] = IF pc[b] = "called" THEN "failed" ELSE pc[b]
      BY <1>1 DEF CallDropped
<1>3. In(current) = {b \in Attempt : service[b] = current /\ pc[b] \notin Over}
      BY DEF In
<1>4. ASSUME NEW b \in Attempt
      PROVE  ~ Going(b)' /\ pc'[b] \notin Asked
  <2>1. pc'[b] \notin Asked
        BY <1>1, <1>2 DEF NoDialog, Asked
  <2>2. ASSUME Going(b)' PROVE FALSE
    <3>1. pc[b] \notin Over /\ b \notin overtaken /\ b \notin In(current) /\ pc[b] = pc'[b]
          BY <1>1, <1>2, <2>2 DEF Going, Over
    <3>2. service[b] = current
          BY <2>1, <3>1 DEF CredentialsInvariant, GoingInCurrent, Going
    <3>   QED  BY <1>3, <3>1, <3>2
  <2>   QED  BY <2>1, <2>2
<1>5. ASSUME NEW b \in overtaken'
      PROVE  b \in Attempt /\ b <= attempts /\ service[b] # Nobody
  <2>1. CASE b \in overtaken
        BY <2>1 DEF CredentialsInvariant, LeftBehind, TypeOK
  <2>2. CASE b \in In(current)
    <3>1. b \in Attempt /\ service[b] = current /\ pc[b] # "none"
          BY <1>3, <2>2 DEF Over
    <3>2. ~ (b > attempts)
          BY <3>1 DEF InOrder
    <3>   QED  BY <1>1, <3>1, <3>2 DEF Attempt, TypeOK
  <2>   QED  BY <1>1, <1>5, <2>1, <2>2
<1>6. \A i \in Instance : state'[i] = state[i] \/ state'[i] = "idle"
      BY <1>1 DEF TypeOK
<1>7. overtaken \subseteq overtaken' /\ overtaken' \subseteq Attempt
      BY <1>1, <1>5
<1> QED  BY <1>1, <1>2, <1>4, <1>5, <1>6, <1>7, NobodyGoes

LEMMA DieKeeps ==
    ASSUME TypeOK, InOrder, CredentialsInvariant, Die
    PROVE  CredentialsInvariant'
<1>1. /\ current' = Nobody /\ overtaken' = overtaken /\ state' = state
      /\ UNCHANGED <<attempts, instances, service, verified, registered>>
      BY DEF Die, server, stored, history
<1>2. \A b \in Attempt : pc'[b] = IF pc[b] \in Over THEN pc[b] ELSE "dead"
      BY DEF Die
<1>3. \A b \in Attempt : ~ Going(b)' /\ pc'[b] \notin Asked
      BY <1>2 DEF Going, Over, Asked
<1>4. \A b \in overtaken' : b \in Attempt /\ b <= attempts /\ service[b] # Nobody
      BY <1>1 DEF CredentialsInvariant, LeftBehind, TypeOK
<1>5. overtaken \subseteq overtaken' /\ overtaken' \subseteq Attempt
      BY <1>1, <1>4
<1> QED  BY <1>1, <1>2, <1>3, <1>4, <1>5, NobodyGoes

LEMMA InitCredentials == Init => CredentialsInvariant
<1> SUFFICES ASSUME Init PROVE CredentialsInvariant
    OBVIOUS
<1>1. \A a \in Attempt : pc[a] = "none"
      BY DEF Init
<1>2. \A a \in Attempt : ~ Going(a) /\ pc[a] \notin Asked /\ pc[a] \notin {"store", "typed", "voice"}
      BY <1>1 DEF Going, Over, Asked
<1>3. verified = Nobody /\ registered = Nobody /\ overtaken = {}
      BY DEF Init
<1>4. \A i \in Instance : state[i] = "idle"
      BY DEF Init
<1>5. GoingInCurrent /\ LeftBehind /\ OneCall /\ SmsAlone /\ LaterByVoice
      BY <1>2, <1>3, <1>4 DEF GoingInCurrent, LeftBehind, OneCall, SmsAlone, LaterByVoice
<1>6. StoredFollows
      BY <1>2, <1>3 DEF StoredFollows
<1> QED  BY <1>5, <1>6 DEF CredentialsInvariant

LEMMA CredentialsStep ==
    RegistrationInvariant /\ CredentialsInvariant /\ [Next]_vars => CredentialsInvariant'
<1> SUFFICES ASSUME RegistrationInvariant, CredentialsInvariant, [Next]_vars
             PROVE  CredentialsInvariant'
    OBVIOUS
<1>1. TypeOK /\ InOrder
      BY DEF RegistrationInvariant
<1>2. CASE Register
      BY <1>1, <1>2, RegisterKeeps
<1>3. CASE AskForCall
      BY <1>1, <1>3, AskForCallKeeps
<1>4. CASE Edit
      BY <1>1, <1>4, EditKeeps
<1>5. CASE Die
      BY <1>1, <1>5, DieKeeps
<1>6. CASE onDestroy
  <2>1. /\ state' = [state EXCEPT ![stopped] = "idle"]
        /\ UNCHANGED <<attempts, service, instances, current, pc, overtaken, verified,
                       registered>>
        BY <1>6 DEF onDestroy, shutdown, server
  <2>2. \A i \in Instance : state'[i] = state[i] \/ state'[i] = "idle"
        BY <1>1, <2>1 DEF TypeOK
  <2>   QED  BY <1>1, <2>1, <2>2, NobodyMoves
<1>7. CASE \E a \in Attempt : Executor(a)
      BY <1>1, <1>7, ExecutorMoves, ExecutorKeeps
<1>8. CASE \E a \in Attempt : Voice(a)
      BY <1>1, <1>8, CallMoves, CallKeeps
<1>9. CASE (\E a \in Attempt : ChallengeArrives(a)) \/ UNCHANGED vars
  <2>1. UNCHANGED <<attempts, service, instances, current, pc, overtaken, verified,
                    registered, state>>
        BY <1>9 DEF ChallengeArrives, vars, user, instance, server, stored, history
  <2>   QED  BY <1>1, <2>1, NobodyMoves
<1> QED  BY <1>2, <1>3, <1>4, <1>5, <1>6, <1>7, <1>8, <1>9 DEF Next

(* markAsVerified and handleVoiceRegistrationIntent: when every attempt is *)
(* over, the stored password is that of the number's account, except after *)
(* an attempt that failed behind the server's back or that was left.       *)
THEOREM CredentialsAlwaysValid == Spec => []CredentialsValid
<1>1. RegistrationInvariant /\ CredentialsInvariant => CredentialsValid
  <2> SUFFICES ASSUME TypeOK, CredentialsInvariant,
                      \A a \in Attempt : pc[a] \in Over
               PROVE  \/ registered = verified
                      \/ verified # Nobody /\ pc[verified] \in {"failed", "dead"}
                      \/ {registered, verified} \cap overtaken # {}
      BY DEF CredentialsValid, RegistrationInvariant
  <2>1. CASE registered = verified \/ registered \in overtaken \/ verified \in overtaken
        BY <2>1
  <2>2. CASE /\ verified # Nobody
             /\ pc[verified] \in {"failed", "dead", "store", "typed", "voice"}
    <3>1. verified \in Attempt
          BY <2>2 DEF TypeOK
    <3>   QED  BY <2>2, <3>1 DEF Over
  <2>   QED  BY <2>1, <2>2 DEF CredentialsInvariant, StoredFollows
<1>2. Init => CredentialsInvariant
      BY InitCredentials
<1>3. RegistrationInvariant /\ CredentialsInvariant /\ [Next]_vars => CredentialsInvariant'
      BY CredentialsStep
<1> QED  BY <1>1, <1>2, <1>3, RegistrationInvariance, PTL DEF Spec
=================================================================================
