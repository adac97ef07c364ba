------------------------------ MODULE Registration ------------------------------
(***************************************************************************)
(* The registration of a number: an attempt creates an account on the      *)
(* server, waits for the challenge that comes by SMS, verifies the account *)
(* with it and stores the password; if the SMS does not come, the user     *)
(* asks for a call and types the challenge.  The user may edit the number  *)
(* at any moment, which stops the service, but not an attempt its executor *)
(* has begun, and the process may die.                                     *)
(*                                                                         *)
(* Code: registration/RegistrationService.java, createAccount and          *)
(* verifyAccount of signaling/AccountCreationSocket.java, the buttons of   *)
(* ui/RegistrationProgressActivity.java and the broadcast of a challenge   *)
(* by sms/SMSListener.java.                                                *)
(*                                                                         *)
(* A screen that is created anew in the moment before the executor has     *)
(* begun, and registers once more, is left out.                            *)
(*                                                                         *)
(* All attempts are for one number, which is the hardest case, and are     *)
(* numbered; the password, the key and the challenge of an attempt are its *)
(* number.  The server is external: the last account that was created is   *)
(* pending, and the right challenge makes it the number's account.         *)
(***************************************************************************)
EXTENDS Naturals

CONSTANTS
    MaxAttempts,  \* bounds the attempts, by SMS or by voice
    MaxStops      \* bounds how often the user edits the number or the process dies

ASSUME RegistrationAssumption == MaxAttempts \in Nat /\ MaxStops \in Nat

Attempt  == 1..MaxAttempts
Instance == 1..MaxAttempts    \* successive instances of the service
Nobody   == 0

VARIABLES
    attempts,    \* how many attempts the user has made
    pc,          \* where an attempt is
    service,     \* the instance of the service an attempt runs in
    instances,   \* how many instances there were
    current,     \* the instance that was not stopped
    stopped,     \* the instance whose onDestroy is still to come
    state,       \* registrationState of each instance
    receiver,    \* the instances whose ChallengeReceiver is registered
    challenge,   \* the challenge each instance has received
    taken,       \* the challenge an attempt verifies its account with
    sms,         \* the challenges on their way
    pending,     \* the server's account that waits for its challenge
    verified,    \* the server's account of the number
    verifying,   \* VERIFYING_PREFERENCE
    registered,  \* PASSWORD_PREFERENCE, and the others markAsVerified writes
    stops,       \* how often the user has edited the number or the process died
    challenged,  \* history: attempts whose own challenge was broadcast in time
    gaveUp,      \* history: attempts that were left waiting for their challenge
    overtaken    \* history: attempts that were left but may still register

user     == <<attempts, service, instances, current, stopped, stops>>
instance == <<state, receiver, challenge>>
server   == <<sms, pending, verified>>
stored   == <<verifying, registered>>
history  == <<challenged, gaveUp, overtaken>>
vars     == <<user, pc, instance, taken, server, stored, history>>

Init ==
    /\ attempts = 0
    /\ pc = [a \in Attempt |-> "none"]
    /\ service = [a \in Attempt |-> Nobody]
    /\ instances = 0
    /\ current = Nobody
    /\ stopped = Nobody
    /\ state = [i \in Instance |-> "idle"]
    /\ receiver = {}
    /\ challenge = [i \in Instance |-> Nobody]
    /\ taken = [a \in Attempt |-> Nobody]
    /\ sms = {}
    /\ pending = Nobody
    /\ verified = Nobody
    /\ verifying = FALSE
    /\ registered = Nobody
    /\ stops = 0
    /\ challenged = {}
    /\ gaveUp = {}
    /\ overtaken = {}

Over    == {"none", "complete", "timeout", "failed", "dead"}
Asked   == {"asked", "called", "typed"}    \* in the activity, by voice

(* A dialog of the activity bars its buttons while it talks to the server. *)
NoDialog == \A a \in Attempt : pc[a] \notin {"asked", "typed"}

(* The call that was asked for is of no use any more.                      *)
CallDropped == [a \in Attempt |-> IF pc[a] = "called" THEN "failed" ELSE pc[a]]

-----------------------------------------------------------------------------
(* The user: RegistrationProgressActivity.                                 *)

(* startService creates an instance if there is none.                      *)
InService(a) ==
    /\ IF current = Nobody
       THEN instances' = instances + 1 /\ current' = instances + 1
       ELSE UNCHANGED <<instances, current>>
    /\ service' = [service EXCEPT ![a] = current']

(* handleStateIdle: the screen finds the service idle.                     *)
Register ==
    /\ attempts < MaxAttempts
    /\ stopped = Nobody
    /\ current = Nobody
    /\ attempts' = attempts + 1
    /\ InService(attempts + 1)
    /\ pc' = [pc EXCEPT ![attempts + 1] = "queued"]
    /\ UNCHANGED <<stopped, stops, instance, taken, server, stored, history>>

(* CallClickListener, after a timeout or another call.                     *)
AskForCall ==
    /\ attempts < MaxAttempts
    /\ current # Nobody
    /\ state[current] \in {"timeout", "voice_requested"}
    /\ NoDialog
    /\ attempts' = attempts + 1
    /\ pc' = [pc EXCEPT ![attempts + 1] = "asked"]
    /\ UNCHANGED <<service, instances, current, stopped, stops, instance, taken,
                   server, stored, history>>

(* The edit button: RegistrationService.shutdown, then stopService.        *)
(* Mutant: the receiver is not unregistered.                               *)
KeepsReceiver(i) == receiver
Unregistered(i)  == receiver \ {i}

shutdown(i) ==
    /\ receiver' = Unregistered(i)
    /\ verifying' = FALSE
    /\ state' = [state EXCEPT ![i] = "idle"]

In(i) == {a \in Attempt : service[a] = i /\ pc[a] \notin Over}

Edit ==
    /\ stops < MaxStops
    /\ current # Nobody
    /\ stopped = Nobody
    /\ NoDialog
    /\ stops' = stops + 1
    /\ shutdown(current)
    /\ stopped' = current
    /\ current' = Nobody
    /\ gaveUp' = gaveUp \cup
         {a \in In(current) : pc[a] = "wait" /\ challenge[current] = Nobody}
    /\ overtaken' = overtaken \cup In(current)
    /\ pc' = CallDropped
    /\ UNCHANGED <<attempts, service, instances, challenge, taken, server,
                   registered, challenged>>

(* onDestroy: the executor goes on with what it was given.                 *)
onDestroy ==
    /\ stopped # Nobody
    /\ shutdown(stopped)
    /\ stopped' = Nobody
    /\ gaveUp' = gaveUp \cup
         {a \in In(stopped) : pc[a] = "wait" /\ challenge[stopped] = Nobody}
    /\ UNCHANGED <<attempts, service, instances, current, stops, pc, challenge, taken,
                   server, registered, challenged, overtaken>>

(* The process dies; the preferences, the server and the SMS remain.       *)
Die ==
    /\ stops < MaxStops
    /\ stops' = stops + 1
    /\ pc' = [a \in Attempt |-> IF pc[a] \in Over THEN pc[a] ELSE "dead"]
    /\ current' = Nobody
    /\ stopped' = Nobody
    /\ receiver' = {}
    /\ UNCHANGED <<attempts, service, instances, state, challenge, taken, server,
                   stored, history>>

-----------------------------------------------------------------------------
(* The server, as AccountCreationSocket uses it.                           *)

createAccount(a) ==
    /\ pending' = a
    /\ sms' = sms \cup {a}
    /\ UNCHANGED verified

(* Mutant: the status of the response is not looked at.                    *)
AnyStatus(a, c) == TRUE
Status200(a, c) == pending = a /\ c = a

verifyAccount(a, c) ==
    /\ IF pending = a /\ c = a THEN verified' = a /\ pending' = Nobody
                               ELSE UNCHANGED <<verified, pending>>
    /\ UNCHANGED sms

-----------------------------------------------------------------------------
(* handleRegistrationIntent, on the instance's single thread.              *)

SetState(a, s) == state' = [state EXCEPT ![service[a]] = s]

Goto(a, to) == pc' = [pc EXCEPT ![a] = to]

(* The executor takes the attempt.                                         *)
Take(a) ==
    /\ pc[a] = "queued"
    /\ verifying' = TRUE
    /\ Goto(a, "listen")
    /\ UNCHANGED <<user, instance, taken, server, registered, history>>

initializeChallengeListener(a) ==
    /\ pc[a] = "listen"
    /\ challenge' = [challenge EXCEPT ![service[a]] = Nobody]
    /\ receiver' = receiver \cup {service[a]}
    /\ Goto(a, "connect")
    /\ UNCHANGED <<user, state, taken, server, stored, history>>

SetConnecting(a) ==
    /\ pc[a] = "connect"
    /\ SetState(a, "connecting")
    /\ Goto(a, "create")
    /\ UNCHANGED <<user, receiver, challenge, taken, server, stored, history>>

(* Mutant: what was received before the wait is forgotten.                 *)
Forgotten(a)    == [challenge EXCEPT ![service[a]] = Nobody]
AsReceived(a)   == challenge

CreateAccount(a) ==
    /\ pc[a] = "create"
    /\ createAccount(a)
    /\ Goto(a, "created")
    /\ UNCHANGED <<user, instance, taken, stored, history>>

AccountCreated(a) ==
    /\ pc[a] = "created"
    /\ SetState(a, "verifying")
    /\ Goto(a, "sent")
    /\ UNCHANGED <<user, receiver, challenge, taken, server, stored, history>>

(* The connect failed, the request or the response was lost, or the        *)
(* response is an error.                                                   *)
CreateFails(a) ==
    /\ pc[a] \in {"create", "created"}
    /\ SetState(a, "network_error")
    /\ receiver' = receiver \ {service[a]}
    /\ Goto(a, "failed")
    /\ UNCHANGED <<user, challenge, taken, server, stored, history>>

(* waitForChallenge begins.                                                *)
BeginWait(a) ==
    /\ pc[a] = "sent"
    /\ challenge' = AsReceived(a)
    /\ Goto(a, "wait")
    /\ UNCHANGED <<user, state, receiver, taken, server, stored, history>>

(* waitForChallenge returns.                                               *)
ChallengeTaken(a) ==
    /\ pc[a] = "wait"
    /\ challenge[service[a]] # Nobody
    /\ taken' = [taken EXCEPT ![a] = challenge[service[a]]]
    /\ Goto(a, "answer")
    /\ UNCHANGED <<user, instance, server, stored, history>>

(* Mutant: it waits without an end.                                        *)
WaitsForever(a) == FALSE
TimeIsOver(a)   == challenge[service[a]] = Nobody

ChallengeTimesOut(a) ==
    /\ pc[a] = "wait"
    /\ TimeIsOver(a)
    /\ SetState(a, "timeout")
    /\ receiver' = receiver \ {service[a]}
    /\ Goto(a, "timeout")
    /\ UNCHANGED <<user, challenge, taken, server, stored, history>>

VerifyAccount(a) ==
    /\ pc[a] = "answer"
    /\ verifyAccount(a, taken[a])
    /\ Status200(a, taken[a])
    /\ Goto(a, "store")
    /\ UNCHANGED <<user, instance, taken, stored, history>>

(* It was rejected, or the request or the response was lost.               *)
VerifyFails(a) ==
    /\ pc[a] = "answer"
    /\ verifyAccount(a, taken[a]) \/ UNCHANGED server
    /\ SetState(a, "network_error")
    /\ receiver' = receiver \ {service[a]}
    /\ Goto(a, "failed")
    /\ UNCHANGED <<user, challenge, taken, stored, history>>

(* A new password replaces the one of before, all preferences in a commit. *)
markAsVerified(a) ==
    /\ pc[a] = "store"
    /\ verifying' = FALSE
    /\ registered' = a
    /\ Goto(a, "finish")
    /\ UNCHANGED <<user, instance, taken, server, history>>

(* The directory, whose failure is ignored, and the end of the attempt.    *)
Complete(a) ==
    /\ pc[a] = "finish"
    /\ SetState(a, "complete")
    /\ receiver' = receiver \ {service[a]}
    /\ Goto(a, "complete")
    /\ UNCHANGED <<user, challenge, taken, server, stored, history>>

-----------------------------------------------------------------------------
(* By voice: two tasks of the activity and two intents of the service.     *)

CallRequested(a) ==
    /\ pc[a] = "asked"
    /\ createAccount(a)
    /\ pc' = [CallDropped EXCEPT ![a] = "called"]
    /\ IF current = Nobody THEN UNCHANGED instance
       ELSE /\ state' = [state EXCEPT ![current] = "voice_requested"]
            /\ UNCHANGED <<receiver, challenge>>
    /\ UNCHANGED <<user, taken, stored, history>>

(* A dialog tells the user; the button remains.                            *)
CallFails(a) ==
    /\ pc[a] = "asked"
    /\ createAccount(a) \/ UNCHANGED server
    /\ Goto(a, "failed")
    /\ UNCHANGED <<user, instance, taken, stored, history>>

(* The user has heard the challenge and types it; verifyAccount.  Wrong    *)
(* codes, which change nothing, are left out.                              *)
CodeTyped(a) ==
    /\ pc[a] = "called"
    /\ NoDialog
    /\ verifyAccount(a, a)
    /\ \/ /\ Status200(a, a)
          /\ Goto(a, "typed")
       \/ Goto(a, "failed")
    /\ UNCHANGED <<user, instance, taken, stored, history>>

VoiceRegister(a) ==
    /\ pc[a] = "typed"
    /\ stopped = Nobody
    /\ InService(a)
    /\ Goto(a, "voice")
    /\ UNCHANGED <<attempts, stopped, stops, instance, taken, server, stored, history>>

(* handleVoiceRegistrationIntent, when the thread of the executor is free: *)
(* the connection for the directory may fail when everything is stored.    *)
VoiceRegistered(a) ==
    /\ pc[a] = "voice"
    /\ \A b \in 1..(a - 1) : service[b] = service[a] => pc[b] \in Over
    /\ verifying' = FALSE
    /\ registered' = a
    /\ \E s \in {"complete", "network_error"} : SetState(a, s)
    /\ Goto(a, "complete")
    /\ UNCHANGED <<user, receiver, challenge, taken, server, history>>

-----------------------------------------------------------------------------
(* SMSListener broadcasts a challenge, and every receiver that is          *)
(* registered keeps it (challengeReceived).                                *)
ChallengeArrives(c) ==
    /\ c \in sms
    /\ sms' = sms \ {c}
    /\ challenge' = [i \in Instance |-> IF i \in receiver THEN c ELSE challenge[i]]
    /\ challenged' = IF pc[c] \in {"created", "sent", "wait"} /\ c \notin overtaken
                     THEN challenged \cup {c} ELSE challenged
    /\ UNCHANGED <<user, pc, state, receiver, taken, pending, verified, stored,
                   gaveUp, overtaken>>

Executor(a) ==
    \/ Take(a) \/ initializeChallengeListener(a) \/ SetConnecting(a)
    \/ CreateAccount(a) \/ AccountCreated(a) \/ CreateFails(a) \/ BeginWait(a)
    \/ ChallengeTaken(a) \/ ChallengeTimesOut(a)
    \/ VerifyAccount(a) \/ VerifyFails(a) \/ markAsVerified(a) \/ Complete(a)

Voice(a) == CallRequested(a) \/ CallFails(a) \/ CodeTyped(a)
            \/ VoiceRegister(a) \/ VoiceRegistered(a)

Next ==
    \/ Register \/ AskForCall \/ Edit \/ onDestroy \/ Die
    \/ \E a \in Attempt : Executor(a) \/ Voice(a) \/ ChallengeArrives(a)

Spec == Init /\ [][Next]_vars

(* The executors run, and the server answers or the connection breaks.     *)
FairSpec == Spec /\ \A a \in Attempt : WF_vars(Executor(a))

-----------------------------------------------------------------------------
(* Properties.                                                             *)

States == {"idle", "connecting", "verifying", "timeout", "network_error", "complete",
           "voice_requested"}

Phases == Over \cup Asked \cup
          {"queued", "listen", "connect", "create", "created", "sent", "wait", "answer",
           "store", "finish", "voice"}

TypeOK ==
    /\ attempts \in 0..MaxAttempts
    /\ pc \in [Attempt -> Phases]
    /\ service \in [Attempt -> Instance \cup {Nobody}]
    /\ current \in Instance \cup {Nobody} /\ stopped \in Instance \cup {Nobody}
    /\ state \in [Instance -> States]
    /\ receiver \subseteq Instance
    /\ challenge \in [Instance -> Attempt \cup {Nobody}]
    /\ taken \in [Attempt -> Attempt \cup {Nobody}]
    /\ sms \subseteq Attempt
    /\ pending \in Attempt \cup {Nobody}
    /\ verified \in Attempt \cup {Nobody}
    /\ registered \in Attempt \cup {Nobody}
    /\ verifying \in BOOLEAN
    /\ challenged \subseteq Attempt /\ gaveUp \subseteq Attempt
    /\ overtaken \subseteq Attempt

(* An attempt does not time out if its challenge has come, be it before    *)
(* createAccount() has returned or before the wait has begun.              *)
NoChallengeLost == \A a \in challenged : pc[a] # "timeout"

(* When everything has come to rest, the stored password is that of the    *)
(* number's account, unless the server has verified an account whose       *)
(* attempt could not store it, or an attempt that was left has gone on     *)
(* behind the back of a later one.                                         *)
CredentialsValid ==
    (\A a \in Attempt : pc[a] \in Over) =>
        \/ registered = verified
        \/ verified # Nobody /\ pc[verified] \in {"failed", "dead"}
        \/ {registered, verified} \cap overtaken # {}

(* Who edits the number while an attempt waits for its challenge has ended *)
(* that attempt: it never registers, even if the challenge comes.          *)
LeftMeansEnded == registered \notin gaveUp

(* Every attempt the service was given comes to an end.                    *)
RegistrationEnds == \A a \in Attempt : pc[a] = "queued" ~> pc[a] \in Over
=================================================================================
