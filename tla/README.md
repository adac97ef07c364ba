# A verification development of RedPhone

RedPhone is an Android client for encrypted calls. Two phones learn of a call
through a signaling server, meet at a UDP relay, agree on a key with ZRTP, and
then exchange audio over SRTP. This directory holds TLA+ models of that code
(`src/src/org/thoughtcrime/redphone`, Java, and `src/jni/redphone`, C++), the
TLC configurations that check them and proofs for TLAPS.

## 1. Inventory

| Component | State | Operations | What is hard |
|---|---|---|---|
| ZRTP handshake (`crypto/zrtp`) | `state`, `lastPacket`, `retransmitCount`, the peer's packets, the master secret | one handler per packet, retransmission, `close` | lost, repeated and late packets; termination from another thread; a shared receive buffer |
| Retained secrets (`crypto/zrtp/retained`, `RetainedSecretsDatabase`) | one row per peer: rs1, rs2, verified, expires | fetch, match, store, verify | two databases that drift apart; a death between acknowledgement and store |
| Call managers (`call/*CallManager`) | `terminated`, `callConnected`, their sockets | `run`, `terminate`, `answer` | a service thread ends the call while the manager's thread is anywhere in it |
| Call service and UI (`RedPhoneService`, `RedPhone`) | `state`, current call manager, locks, notification | intents on threads of their own, notifications of managers, delayed terminations | no check that a notification is about the current call |
| Signaling (`signaling`, `LineReader`, `LowLatencySocketConnector`, `SignalManager`) | sockets, buffered input | connect, read, ring, hang up, busy | a connect race with a monitor thread; buffered signals |
| Call audio (`audio/CallAudioManager`, `jni/.../CallAudioManager.cpp`, `WebRtcJitterBuffer.cpp`) | `running`, `finished`, the native handle | create, start, stop, dispose | start and stop on two threads, freed native state |
| RTP and SRTP (`RtpAudioSender`, `RtpAudioReceiver`, `SequenceCounter`, `SrtpStream`) | sequence numbers, keystream position | send, receive | 16-bit wrap with reordering |
| Registration, OTP (`registration`, `OtpCounterProvider`, `gcm`) | registration state, challenge, counter | register, await the challenge, retry | a challenge before, during or after the wait |
| Locks (`LockManager`, `AccelerometerListener`) | three locks, the keyguard, the sensor and its debounced message | phone states told by two threads, postures | unsynchronized updates; a message left in the queue |
| Directory (`directory`) | filter, schedule | refresh, membership | a filter that is replaced as a whole: no state several actors share |
| Contacts, dialer, ringtones, preferences | Android widgets | - | not modelled: presentation |
| OpenSSL, WebRTC, Speex and other vendored code (`jni`, outside `jni/redphone`) | - | - | not modelled: third party |

Components interact by calls and callbacks: `RedPhoneService` creates a call
manager thread, which talks to the server through a `SignalingSocket`, opens the
relay with `NetworkConnector`, creates a `ZRTPSocket` and drives it, and reports to
the service through `CallStateListener`. The service ends a call by calling
`terminate` on the manager from its own thread.

What makes each correct: the two phones hold the same key, or none; a negotiation
ends, and comes through if the network is good enough; the chain of retained
secrets is never cut between two phones that share one; a call shown as verified
has continuity; the service has at most one live call and returns to idle; a
native audio manager is not used after it was freed; a packet is decrypted with
the keystream it was encrypted with; a signaling socket that was returned stays open
and its signals are handled once and in order; no one-time password is made twice; a
challenge that came in time is not lost; a phone at rest holds no lock.

## 2. Modules

| Module | Models |
|---|---|
| `RetainedSecrets` | what a phone fetches, reveals, recognises and stores (pure operators) |
| `SecureSession` | what a handshake promises, without packets (abstract specification) |
| `ZrtpHandshake` | both endpoints of one call, the network between them, their databases, termination and death |
| `ZrtpHandshakeInvariant` | its inductive invariant |
| `MCZrtpHandshake` | instances for TLC |
| `AudioStream` | the encrypted audio of a call: sequence numbers, keystreams, MACs, both directions |
| `CallAudio` | the native audio of successive calls: call thread, terminating thread, devices, statistics threads |
| `CallService` | `RedPhoneService` with call managers, `SignalManager`s and the call screen |
| `SignalingConnect` | how a `SignalingSocket` is connected: the race of the addresses and the monitor of the TLS handshake |
| `SignalChannel` | the signals on that socket (extends `SignalingConnect`, and composes the two in `SignalingSpec`) |
| `OtpCounter` | the counter of the one-time passwords |
| `Registration` | registrations by SMS and by voice |
| `LockManager` | wake locks, keyguard and accelerometer |
| `MC...` | instances for TLC |
| `ZrtpHandshakeProofs`, `AudioStreamProofs`, `CallAudioProofs`, `CallServiceProofs`, `SignalingProofs`, `OtpCounterProofs`, `RegistrationProofs`, `LockManagerProofs` | the theorems |

### ZrtpHandshake

`state`, `lastPacket`, `retransmitCount`, `foreignHello`, `localDH`, `foreignDH`,
`commit` and `masterSecret` are the fields of `ZRTPSocket` and its two subclasses,
one value per endpoint. `retained` is what the retained-secrets calculator was built
from; `row` is the database. `pc` says where the call manager's thread is:
`negotiateStart` ("start"), inside a handler ("handle", "store"),
`negotiateFinish` ("finish"), or one of the ways out. `socket` says how far
`CallManager.terminate` has come on its own thread: TERMINATED is set ("marked")
before the socket is closed ("closed"), and a handler running meanwhile may
overwrite TERMINATED, as in the code.

Receiving and handling are two steps, so a termination can fall between them.
A handler's packet, state and fields change in one step: no other thread reads the
fields in between. The exception is `handleConfirmTwo`, split where the Conf2Ack
has left and the secret is not stored yet.

Digests, MACs and derived keys are records of what went into them. Whether an
HMAC under a hash chain's key verifies is whether the packets came from one chain.
`TypeOf` is `getType`: everything that does not look like ZRTP is a Conf2Ack, which
matters because the CRC is not checked in EXPECTING_CONFIRM_ACK. Two kinds of
datagram do not look like ZRTP: the responder's audio and a repeated answer of the
relay to OPEN (`Strays`). `cacheField` is the one effect of the receive buffer all
packets share: the cache time the initiator reads on the Conf2Ack may have been
overwritten by a later packet; the expiry is then arbitrary.

Not modelled in it: the formats of legacy clients, the RTP sequence numbers of
handshake packets, the Diffie-Hellman arithmetic, and packets nobody honest sent.

### AudioStream

`sequenceNumber` is the sender's 32-bit counter; `prevShortId` and `prevLongId` are
the fields of `SequenceCounter`. `Send` is `RtpAudioSender::send`, called by the
microphone callback; `Receive` is one `recv` of `RtpAudioReceiver::receive` with the
conversion, the MAC check and the decryption behind it. A datagram carries the low
bits of its counter; its `position` is known to the model only. A MAC verifies if
the keys are the same, and it does not cover the extended number, so nothing in the
code would notice a wrong extension: that it is never wrong is what is checked.
`Strays` are datagrams that fail their MAC and move the counter all the same.

The one assumption is `InWindow`: successive datagrams are less than half the range
(32768 packets, some 20 minutes) apart. `Clock` and the timestamps are not modelled.

### CallAudio

`pc` follows the call thread through `runAudio`, native `create` (no address, the
constructor that raises the shared flag, the mutex that may fail) and `start`, each
stage of which may fail; `terminator` follows the thread in `CallManager.terminate`
through `stop`, `dispose` and the closing of the socket. `assigned` is `callAudioManager
!= null`; `running` and `finished` are the native fields, `jitterRunning` the static
flag of `WebRtcJitterBuffer.cpp`, shared by all calls. `stats` is the thread that logs a
jitter buffer's statistics: nobody joins it, so `Dispose` does not ask where it is, and
a read of the freed buffer, undefined in C++, has no effect in the model. The one timing
assumption is that the 40 ms `stop()` sleeps outlast a callback of a device it has
stopped, which is what the sleep is for. `gap` is not in the code: it notes what the
service did between the call thread's last check of `terminated` and the loop of
`start`, the window in which the code has no protection (section 5). Conditions on `gap`
in the properties say exactly what holds in spite of it.

### CallService

The service's fields (`state`, `current`, the handler and the buffered messages) are
shared by intent threads, one call thread and one signal thread per call, and the main
thread. What is `synchronized` on the service is one step (`terminate`, the intent
handlers); what is not is split where another thread can come between: the reset of
the state and the `terminate` that follows it, the three steps of
`notifyCallConnected`, and `setCallStateHandler`, which sends what was buffered, then
clears the buffer, while a message may be added in between (or make the iteration
throw, which ends the process: `FlushFails`). `pc` is where the call
thread is, `signals` where the `SignalManager`'s single thread is. `late` is not in
the code: it names the calls that changed the service after it had dropped them,
which nothing in the code prevents.

The handshake is one step here (`ZrtpHandshake` has it), and so is the audio. Only the
message somebody waits for is ever lost in the buffer: the others change what the
screen shows, which `LookAtState` restores. Mute is in `CallAudio`; ringers, the call
log and the confirmation of the SAS are left out.

### SignalingConnect and SignalChannel

`channel` is the `SocketChannel` of each address, `selected` the keys a `select()` has
returned, `pc` the connecting thread through `LowLatencySocketConnector` and
`timeoutHackConnect`, `monitor` the `SocketConnectMonitor`. Each look at
`connectionAttemptComplete` is in the monitor of the socket, so it is one step with
what follows it. What Android's channels do (a `finishConnect` that throws closes the
channel) is assumed and named in the module.

`SignalChannel` goes on from the socket that was returned. `wire` and `buffer` are what
the server has sent and what `LineReader` holds; a message is two fragments, so a read
may end inside one, and so may the stream (`CloseEnd`). `reader` is the thread that
reads: the call thread for the response, then the `SignalManager`'s single thread, whose
tasks are in `queue`. `terminator` says which of the two statements of
`SignalManager.terminate` are done. `SignalingSpec` is the composition: first the steps
of the attempt, then, once it has returned, those of the channel, while the monitor of
the attempt may still run.

### OtpCounter

`monitor` is `getOtpCounter`'s, `read` what a thread inside it has read; the commit and
the request signed with the value are the next step, and `markAsVerified`, which does
not enter the monitor, may come between. `service` and `socket` keep the password the
service and each socket were built with, which may not be the stored one any more.

### Registration

`pc` follows each attempt through `handleRegistrationIntent` on the executor of its
instance of the service, or, by voice, through the tasks of the activity and
`handleVoiceRegistrationIntent`. `Edit` is the activity's button (`shutdown`, then
`stopService`, with `onDestroy` to come); the executor goes on with what it has begun.
`challenge`, `receiver` and `state` are the fields of each instance. The server is
external: an account is pending until the right challenge verifies it. `challenged`,
`gaveUp` and `overtaken` are history, for the properties.

### LockManager

`updatePhoneState` is not synchronized and the methods it calls are, so each of the
three threads has a list (`todo`) of the atomic steps it has left; steps of different
threads mix. A failed call resets the state before it calls `terminate` (`ResetState`),
so the next call may be told in between. The posture changes at will; the main thread
delivers sensor events and the one debounced message. `alone` and `overlapped` are
history: whether the last update, or any, met another one.

## 3. Runs

| Run | Instance | Shows |
|---|---|---|
| `handshake_safety` | nine pairs of rows, only the initiator offers EC25, repetition and reordering | the inductive invariant, the safety of keys, rows and the verified flag, and that `SecureSession` is implemented |
| `handshake_ends` | two phones in step that offer EC25, a repeated answer of the relay, fair threads | every negotiation ends, and the chain of secrets survives the initiator finishing too early |
| `handshake_loss` | up to three losses, `MaxRetransmit` 2 | retransmission gets the call through |
| `audio_stream` | two-bit sequence numbers, ten frames each way, two strays | the right keystream, and each keystream once, across two wraps |
| `call_audio` | two calls, the first muted at will, failure at any stage, fair threads | nothing freed is in use, silence after the end, mute honoured, no statistics read begun after a stop; `stop()` returns |
| `call_audio_documented` | one call | a violation: `callConnected()` is not what its comment says |
| `call_service_safety` | two calls of either kind of which the first may fail, one binding | one live call, rest, hangups, refusals |
| `call_service_wakes` | one call, three bindings, a busy timer, fair threads | a waiting call is woken; terminated calls end |
| `signaling` | three addresses, then two signals and keep-alives; fair threads | losers closed, the returned socket left open, signals once and in order, attempts end, hangups complete |
| `otp_counter` | two threads, three values, two registrations, deaths | no one-time password of the account is made twice |
| `lock_manager` | one call, any postures, fair threads | a phone at rest sleeps; the locks come to fit the posture |
| `registration` | three attempts, one edit or death, fair executors | no challenge is lost, the credentials fit, every registration ends |

Bounds. With `Duplicates` a datagram stays in the network once it was sent, may be
received at any time, any number of times, in any order, or never: loss, repetition
and reordering at once, so `MaxLoss` plays no part there and a small `MaxRetransmit` loses
nothing but length (the code's value is 45; the proofs hold for any). `MaxRetransmit`
matters in `handshake_loss` only, where losses are counted. Two secrets are
enough to make every pair of rows that can arise from one missed store, one lost or
restored database, or an expired row. A handshake stops, so deadlock is not checked.

`handshake_safety` lets one phone offer EC25, so both agree on DH3K over a
preference; `handshake_ends` has both offer it.

`audio_stream` scales 2^15 down to 2 and keeps the order of the ranges (header <
counter < IV); ten frames wrap twice and the theorems hold for any ranges. Two calls
are what the shared flag of the jitter buffers needs; mute concerns one call at a time
(`Muting`). Two calls are what the hazards of the service need as well (a call and the
next one), and the second meets a service the first one's failure (`Failing`) has left;
three bindings in `call_service_wakes` cover one before, during and after the wait. The
call screen's messages are bounded because two notices in a row count as one. The
theorems on both hold for any number of calls, and with every call failing.

Three addresses are a winner, one that is selected with it and one that comes later;
two signals are enough for one to be read together with a part of the other. Two
threads are a thread in `getOtpCounter` and one that comes meanwhile. Three attempts are
one that is left, one that follows it, and a call. In `lock_manager` one call suffices
for two updates to overlap: its thread may tell its states after the service has
terminated it.

`call_audio_documented` is a disagreement with the comment on
`CallManager.callConnected` ("Did this call ever successfully complete SRTP setup"):
the flag is set before `runAudio`, whose `create` or `start` may fail before the
streams are set up.

Fairness. In `ZrtpHandshake`, `FairSpec` lets every call manager thread take its next
step if it can (the loops never block: the socket has a timeout) and `terminate` finish
closing the socket it has marked. It does not assume that anything is delivered.
`TimelySpec` is the good network: nobody times out while something awaited is on its
way, the endpoint that has retransmitted less times out first (its interval is the
shorter one), no process dies and nobody hangs up. In `CallAudio`, `FairSpec` lets the
three kinds of thread run (`recv` has a timeout of five seconds, so the loop looks at
`running` again) and a call whose audio failed terminate itself, as `notifyClientError`
does. In `CallService`, `FairSpec` lets call threads, the main thread and queued tasks
run, and brings the screen to the front once: `notifyCallFresh` starts it for an
incoming call, and an outgoing one is started with it. It does not assume that anybody
answers, hangs up, or that the peer signals anything. In `signaling`, the connecting
thread and the monitor run (both waits have timeouts), a handshake on a closed socket
throws, the executor's thread runs, the server answers a hangup and sends keep-alives;
nothing is assumed of how soon, or of any signal. In `lock_manager`, threads go on with
what they have begun and the sensor delivers while it is registered; `handleMessage` has
strong fairness because the main thread's queue is in the order of time: a stream of
sensor events does not keep a message that is due from its turn. In `registration`, the
executors run and the server answers or the connection breaks.

## 4. Proofs

Assumed of the constants, in `ZrtpHandshake`: `NoSecret` is no secret, the initial rows
are rows, the two bounds are naturals, `Duplicates` is a Boolean, `None` is neither a
packet nor a key, `Strays` holds nothing but the relay's answer, and no secret of the
initial rows is one the handshake derives (`FreshAssumption`: its key comes from a new
Diffie-Hellman exchange). Any number of secrets, any rows and any bounds are covered. In
the other modules: bounds are naturals, `None` (null, nobody) is not one of the things
it stands beside, `Muting` and `Failing` are sets of calls, `Failures` of stages, and
`AudioStream` has no zero range, no more frames than the counter has values, and an IV
no shorter than the counter.

`S1Agreement` (`ZrtpHandshakeProofs`): for any two sets of secrets, the
initiator's and the responder's `getS1` choose the same secret, the one the class
comment describes.

`Invariance` (`ZrtpHandshakeProofs`): `TypeOK /\ HandshakeInvariant` is inductive.
`KeysAgree` alone is not: a step that derives a key would have to know that the DHPart
it was handed is the one the peer hashed. The idea of `HandshakeInvariant` is that
`lastPacket` measures progress (`Stage`, 0 to 4), that the initiator is level with
the responder or one ahead, and that every field and every packet anywhere is
determined by the two stages: `PacketsGenuine` says what can be in the network or in
a handler's hands, `InitiatorFields` and `ResponderFields` what has been set, and
`ThreadsInStep` what each thread can be waiting for. Steps that send nothing new
keep all of it by one lemma (`FrozenInvariant`); the eight that answer a packet
share `SentInvariant`.

From it follow `TypeCorrect`, `KeysAlwaysAgree`, `NeverRejected`, `NeverMutualWait`,
`S1AlwaysAsDocumented`, and `SessionImplemented`: every step is a step of
`SecureSession` or a stutter, if there are no strays. (With strays it is false: the
initiator may report a connected call before the responder has confirmed it.)

The rows are a second invariant on top of the first. `RowsKept` says that the latest
secret of a phone is one of its initial ones, or, after its last packet only, the key of
this call; that a verified flag which was kept with a new secret, or read back, belongs
to a call that was keyed with an earlier one; and that the responder has stored the key
unless it is about to, or dead. It needs `Stage`: a handler that stores has to know that
it is the only one that will (`RowsAlwaysKept`). Hence `VerifiedOnlyWithContinuity` and,
without strays, `StoredAlwaysInOrder` (a stray can pass for the Conf2Ack and make the
initiator store first, so `handshake_safety` has none either).
`ContinuityAlwaysSurvives` is about one pair of rows and all that follow: a secret both
phones hold in the first place, not expired (`BothHold`), is moved by the one
`storeSecret` each may still do to the second place at most, and `NotYet` says that
there is no other one.

`AudioInvariance` (`AudioStreamProofs`): `TypeOK`, `AudioInvariant` and the two
properties of `played` are inductive, for every `HalfRange`, every number of frames up
to the counter's range and every set of strays. `WindowConverted` is the arithmetic
it rests on: within half the range, `convertNext` of a position modulo the range is
the position. It needs facts on `%` that the SMT solver does not find by itself;
`Division`, `SmallRemainder`, `Multiples` and `Distributes` give them. From the
invariant follow `KeystreamAlwaysRight`, `GenuineAlwaysAccepted` and
`KeystreamNeverReused`.

`CallAudioInvariance` (`CallAudioProofs`): `ThreadsAgree` ties each call's two
threads to its flags, its devices and its native object; `StopInOrder` says where the
call thread can be at every stage of the termination; `MuteOnItsWay` where the last
press of mute has come to; `Successive` that calls follow one another, so that only a
later call raises the shared flag again. `NothingFreedInUse` needs all of the first
two: that the loop has ended is known to `dispose()` only through `finished`. A step of
one call leaves the fields of every other as they are (`OtherCallsSame`), so each
action is looked at for its own call. The theorems hold for any number of calls, any
failures, any calls muted: `NeverFreedInUse`, `AlwaysSilentWhenDone`,
`MuteAlwaysHonoured`, `ReadsEndWithStop` (the shared flag is down from the stop until a
later call's constructor).

`ServiceInvariance` (`CallServiceProofs`): `OneLiveCall` becomes inductive when it says
which call is live: the current one, never while the state is IDLE (`LiveIsCurrent`),
which is what `isBusy` and `isIdle` rely on. `CurrentGoesOn` (the current call is not
terminated) is what makes a hangup reach every call that has signals, and keeps a late
answer from a call that was refused: hence `NeverTwoLiveCalls`, `AlwaysComesToRest`,
`PeerAlwaysTold` and `RefusalStays`, for any number of calls, bindings, busy timers and
failing calls.

`SignalingProofs`: `ConnectInvariance` adds to the properties of the attempt that nobody
has won while it races and that the flag is set together with the result, which is what
keeps the monitor away (`LosersAlwaysClosed`, `ReturnedAlwaysOpen`);
`NeverGivenUpTooEarly` needs no invariant. A step of the channel is a stutter of the
attempt (`ConnectsAsAlone`), so both hold while the signals run (`SocketStaysOpen`).
`ListenerInvariance`: at most one listener and one hangup are queued or running
(`QueueShape`), and the flag stands while a listener comes before the hangup
(`FlagStands`); hence `TerminationSeen`, for any number of signals.
`SignalsHandledInOrder` looks at the stream as a whole: what `LineReader` holds and what
is still on the way is one sequence (`Left`), which a read leaves as it is. It consists
of whole messages, but for one that the end of the stream has cut (`Framed`), the
response comes before any signal (`ResponseFirst`), and the signals in it are exactly
those after the last one handled (`LeftInOrder`). These speak of indices and not of a
filtered sequence, so taking a message off the front or adding a fragment needs no
induction.

`CounterInvariance` (`OtpCounterProofs`): a thread that has read the counter is alone
in the monitor and its value is past every one used with the stored password, whatever a
registration does meanwhile; hence `PasswordsNeverReused` and `CounterAlwaysAhead`.

`RegistrationInvariance` (`RegistrationProofs`): an instance serves one attempt by SMS
(`OwnInstance`), which is heard from before its account is created until its wait is
over (`Hears`), and one left in its wait can only time out (`GoneDeaf`); hence
`NoChallengeEverLost` and `LeftAlwaysEnded`, for any number of attempts and edits.
`CredentialsAlwaysValid` needs to know which attempts can still store a password:
those that go on belong to the current instance (`GoingInCurrent`), those that were left
are older and never reach a call (`LeftBehind`); an attempt by SMS is alone
(`SmsAlone`), and of several calls, which only a timeout makes possible, all but one
have yet to be asked for (`OneCall`, `LaterByVoice`). So the account that is verified
is the one just stored, or about to be (`StoredFollows`).

`LocksReleased` (`LockManagerProofs`): `LockInvariant` speaks of a phone at rest, its
proof of all the steps on the way. `IdleInOrder` follows the update to IDLE step by step
and says what is released after each; `KeyguardNoted` says that, as long as no two
updates overlap, the flag and the keyguard differ only until the thread has noted what
it did; `Shapes` says that the note comes right after the deed and that the main thread
never touches the keyguard. The theorem holds for any number of calls.

The strengthened invariants were checked with TLC on the instances of section 3
before they were proved.

Every safety property of the passing runs is the conclusion of a theorem, or a conjunct of one.
Only model-checked is liveness (`EveryNegotiationEnds`, `EveryLossSurvived`,
`StopReturns`, `ScreenWakesCall`, `TerminatedCallsEnd`, `AttemptEnds`,
`HangupCompletes`, `KeepAlivesFlush`, `PostureApplied`, `RegistrationEnds`): it rests
on fairness, hence on ENABLED, which is outside the prover's reach.

## 5. Gaps the properties leave

`setRetainedSecret` returns at once when the expiry has passed, before it would clear
the verified flag. With the initiator's overwritten cache time (zero) a call without
continuity can therefore still be shown as verified. `VerifiedMeansContinuity` speaks
of calls whose secret was stored. A secret that is stored with such a foreign expiry may
expire long before, or after, its time: `ContinuitySurvives` is about this call's end,
when it has not.

An outage longer than half the range of the sequence numbers leaves the receiver
with a wrong index that no MAC check reveals; `InWindow` excludes it.

Audio terminated while it is being set up: before `callAudioManager` is assigned,
`terminate` passes over it and the audio runs on although the call is over (until
its socket fails, and then in a loop that nobody stops). Between the assignment and
the first line of `start`, `stop()` clears `running`, finds `finished` still 1 and
returns, `dispose()` frees the object, and `start` sets `running` again in it.

A `start` that fails after its first two lines leaves `finished` at 0. The call thread
then reports the failure through `notifyClientError`, whose `terminate` waits for
`finished` inside the service's monitor, on the only thread that could set it.

A mute pressed between the evaluation of `runAudio`'s arguments and its `setMute` is
stored but never reaches the microphone.

Nobody waits for the statistics thread of an ended call. If it is preempted between its
test of the flag and its read until `dispose()` is done, it reads its freed jitter buffer.
And the flag that tells it to stop is raised again by the next call: if it slept
meanwhile, it goes on reading. `NoReadAfterStop` says that no other read begins once the
jitter buffer was stopped.

The service does not ask whose notification it gets. A busy timer, a late signal or a
failure of an earlier call ends the current one. A call terminated just after its last
look at `terminated` still takes the locks, sets the state to CONNECTED and waits for
the screen; nothing resets the state until the next incoming call, and an outgoing one
is not possible (`late` in `RestingState`). If it is terminated before
`processSignals`, its listener is never stopped (`late` in `PeerTold`). An answer that
comes after its call leaves the state ANSWERING, with the same effect, or ends the
process if an outgoing call has begun (`crashed`). A terminated call may wait for a
screen for ever if its message was lost and the state reset (`TerminatedCallsEnd`
ends at the wait; `ScreenWakesCall` says that this never happens to a live call).
`setCallStateHandler` iterates the buffered messages while a thread that saw no handler
may add one: the iteration may throw on the main thread, which ends the process.

When the `select()` of a connection attempt times out, or an address has no route, the
attempt fails with its channels and its selector left open, and the addresses after
that one are not tried. `NotGivenUpTooEarly` speaks of the time after the connects were
begun and of connections that have come through.

A signal that was read together with another one waits in the buffer until more bytes
come (`KeepAlivesFlush` needs the keep-alives). The hangup task takes whatever is in
the buffer for its response. `readSignal` waits without a timeout for the rest of a
signal, and a hangup waits behind it (`HangupCompletes` relies on keep-alives or the
end of the stream there).

A service that was created before a re-registration goes on building sockets with the
old password (`NeverReused` speaks of the account's current one).

An attempt at a registration that is left before its wait, or after its challenge has
come, goes on, and may register. If the server verifies the account and its answer is
lost, or the process dies before the password is stored, the phone keeps another
password than the server. A challenge of an earlier attempt that comes late makes the
current one fail. `VERIFYING_PREFERENCE` stays set after an attempt that failed.

Updates of the LockManager by the service and by a call thread may overlap, and then
neither the locks nor the keyguard need to be those of the last state told; a sensor
event or message already being handled chooses locks for a call that is over. The
accelerometer's handler synchronizes on itself and not on the listener whose fields it
copies, so an `enable()` between may be undone. `SleepsWhenIdle` and
`PostureApplied` speak of updates that nothing overlaps (`alone`, `overlapped`).

## 6. Not modelled

- The bulk of the repository's lines is vendored: OpenSSL, WebRTC and Speex under `jni`
  (all but `jni/redphone`, some 1,700 lines). Nothing of RedPhone's own logic is in it.
- `NetworkConnector`, which opens the relay's port: one thread that resends a datagram
  until it is answered; what it leaves behind, a late answer, is in `ZrtpHandshake`.
- The directory: the filter is downloaded as a whole and read through a mapped file, on
  a schedule of one alarm.
- Formats: signals, requests, SMS and ZRTP headers of legacy clients are messages here.
- The codec, the contents of the jitter buffer and timestamps are data.
- Registration for push messages, ringers, notifications, the call log, contacts and
  preferences: presentation, or calls to the platform without a protocol of their own.

## 7. Plan

1. `RetainedCalls`: the two rows over many calls, with `setVerified`, hang-ups and
   losses of a database; the chain and the verified flag over a history.
2. `NetworkConnector` with the relay, and the membership test of the directory.
