------------------------------ MODULE SignalChannel ------------------------------
(***************************************************************************)
(* The TLS connection of one call to its signaling server: the response to *)
(* the request that set up the session, the signals and keep-alives the    *)
(* server pushes after it, and the hangup.  Responses and signals share    *)
(* one stream and one LineReader; the SignalManager reads it with a single *)
(* thread that runs a listener task again and again, until another thread  *)
(* queues the hangup task.                                                 *)
(*                                                                         *)
(* Code: call/SignalManager.java, signaling/SignalingSocket.java           *)
(* (waitForSignal, readSignal, readSignalResponse, setHangup, close),      *)
(* SignalReader.java, SignalResponseReader.java and util/LineReader.java.  *)
(*                                                                         *)
(* A message is two fragments, so that a read may return a part of one, or *)
(* one and a part of the next.  The socket's timeout of 1.5 seconds leads  *)
(* back to the look at "interrupted".                                      *)
(*                                                                         *)
(* The connection is the socket that SignalingConnect returns, whose       *)
(* monitor may still be about: SignalingSpec composes the two.  From then  *)
(* on the socket is closed by the hangup only.                             *)
(***************************************************************************)
EXTENDS SignalingConnect, Naturals, Sequences

CONSTANT MaxSignals   \* how many signals the server has for the call

ASSUME SignalAssumption == MaxSignals \in Nat

VARIABLES
    wire,         \* fragments the server has sent and nobody has read
    eof,          \* the server has closed its end
    sent,         \* how many whole signals the server has sent
    buffer,       \* LineReader.baos
    reader,           \* where the thread that reads the stream is
    queue,        \* the tasks of the SignalManager's executor
    interrupted,  \* SignalManager.interrupted
    terminator,   \* how far SignalManager.terminate has come
    handled       \* the signals whose callbacks were called

stream == <<wire, eof, sent>>
tasks  == <<queue, interrupted, terminator>>
channelVars == <<stream, buffer, reader, tasks, handled>>

ChannelInit ==
    /\ wire = <<>>
    /\ eof = FALSE
    /\ sent = 0
    /\ buffer = <<>>
    /\ reader = "request"
    /\ queue = <<>>
    /\ interrupted = FALSE
    /\ terminator = "none"
    /\ handled = <<>>

-----------------------------------------------------------------------------
(* The server.                                                             *)

Fragments(kind, n) ==
    <<[kind |-> kind, n |-> n, end |-> FALSE], [kind |-> kind, n |-> n, end |-> TRUE]>>

Pushes(kind, n) ==
    /\ ~eof
    /\ wire' = wire \o Fragments(kind, n)
    /\ UNCHANGED <<eof, buffer, reader, tasks, handled>>

(* The response to the request of the session, before any signal, and the  *)
(* one to the hangup.  n tells them apart.                                 *)
Responds(n) ==
    /\ reader = IF n = 0 THEN "request" ELSE "hanging"
    /\ \A i \in 1..Len(wire \o buffer) : (wire \o buffer)[i].kind # "response"
    /\ Pushes("response", n)
    /\ UNCHANGED sent

Established == reader # "request" \/ wire \o buffer # <<>>

PushSignal(kind) ==
    /\ Established
    /\ sent < MaxSignals
    /\ Pushes(kind, sent + 1)
    /\ sent' = sent + 1

KeepAlive ==
    /\ Established
    /\ wire = <<>>
    /\ reader # "closed"
    /\ Pushes("keepalive", 0)
    /\ UNCHANGED sent

(* Between two messages, or inside one that has begun to arrive: of which  *)
(* message the half was is never asked.                                    *)
Half == Head(Fragments("response", 0))

CloseEnd ==
    /\ ~eof
    /\ eof' = TRUE
    /\ wire' \in {wire, Append(wire, Half)}
    /\ UNCHANGED <<sent, buffer, reader, tasks, handled>>

Server ==
    \/ Responds(0) \/ Responds(1)
    \/ PushSignal("signal") \/ PushSignal("hangup") \/ KeepAlive \/ CloseEnd

-----------------------------------------------------------------------------
(* LineReader.                                                             *)

(* in.read: whatever has arrived.                                          *)
Read ==
    \E k \in 1..Len(wire) :
        /\ buffer' = buffer \o SubSeq(wire, 1, k)
        /\ wire' = SubSeq(wire, k + 1, Len(wire))
        /\ UNCHANGED <<eof, sent>>

HasMessage == \E i \in 1..Len(buffer) : buffer[i].end

(* What readLine and readFully leave behind when a message was read.       *)
(* Mutant: the rest of the buffer is thrown away.                          *)
DropsRest  == <<>>
Remaining  == SubSeq(buffer, 3, Len(buffer))

(* readLine and readFully wait for more without a timeout.                 *)
ReadMore ==
    /\ reader \in {"request", "reading", "hanging"}
    /\ ~HasMessage
    /\ Read
    /\ UNCHANGED <<reader, tasks, handled>>

StreamEnded == ~HasMessage /\ wire = <<>> /\ eof

-----------------------------------------------------------------------------
(* The request of the session, on the call thread, and its failure.        *)

ReadResponse ==
    /\ reader = "request"
    /\ HasMessage
    /\ buffer' = Remaining
    /\ reader' = "idle"
    /\ queue' = <<"listener">>
    /\ UNCHANGED <<stream, interrupted, terminator, handled>>

RequestFails ==
    /\ reader = "request"
    /\ StreamEnded
    /\ reader' = "closed"
    /\ UNCHANGED <<stream, buffer, tasks, handled>>

(* SignalManager.terminate, called once for a call.  Mutant: the flag is   *)
(* raised before the task is queued.                                       *)
FlagFirst ==
    \/ /\ terminator = "none"
       /\ interrupted' = TRUE
       /\ terminator' = "queued"
       /\ UNCHANGED queue
    \/ /\ terminator = "queued"
       /\ queue' = Append(queue, "hangup")
       /\ terminator' = "done"
       /\ UNCHANGED interrupted
QueueFirst ==
    \/ /\ terminator = "none"
       /\ queue' = Append(queue, "hangup")
       /\ terminator' = "queued"
       /\ UNCHANGED interrupted
    \/ /\ terminator = "queued"
       /\ interrupted' = TRUE
       /\ terminator' = "done"
       /\ UNCHANGED queue

Terminate ==
    /\ reader \notin {"request", "closed"}
    /\ QueueFirst
    /\ UNCHANGED <<stream, buffer, reader, handled>>

(* notifyCallDisconnected: the service terminates the call, on the thread  *)
(* of the signals, unless somebody else has begun to.                      *)
(* Mutant: the termination raises the flag only.                           *)
FlagOnly == queue
WithHangup == Append(queue, "hangup")

NotifyDisconnected ==
    IF terminator = "none"
    THEN /\ queue' = WithHangup
         /\ interrupted' = TRUE
         /\ terminator' = "done"
    ELSE UNCHANGED tasks

-----------------------------------------------------------------------------
(* The executor's thread.                                                  *)

NextTask ==
    /\ reader = "idle"
    /\ queue # <<>>
    /\ reader' = IF Head(queue) = "listener" THEN "waiting" ELSE "hangup"
    /\ queue' = Tail(queue)
    /\ UNCHANGED <<stream, buffer, interrupted, terminator, handled>>

(* waitForSignal reads the stream although the buffer may hold a message;  *)
(* at the end of the stream it says "nothing yet".                         *)
WaitForSignal ==
    /\ reader = "waiting"
    /\ ~interrupted
    /\ Read
    /\ reader' = "available"
    /\ UNCHANGED <<tasks, handled>>

(* waitForSignal throws.                                                   *)
WaitFails ==
    /\ reader = "waiting"
    /\ ~interrupted
    /\ eof
    /\ reader' = "idle"
    /\ NotifyDisconnected
    /\ UNCHANGED <<stream, buffer, handled>>

(* The look at "interrupted" before readSignal, and the one in the loop.   *)
LookAgain ==
    /\ reader = "available" \/ (reader = "waiting" /\ interrupted)
    /\ reader' = IF interrupted THEN "finishing" ELSE "reading"
    /\ UNCHANGED <<stream, buffer, tasks, handled>>

CallsBack(kind) == kind \in {"signal", "hangup"}

ReadSignal ==
    /\ reader = "reading"
    /\ HasMessage
    /\ buffer' = Remaining
    /\ reader' = "replying"
    /\ handled' = IF CallsBack(Head(buffer).kind)
                  THEN Append(handled, Head(buffer).n) ELSE handled
    /\ IF Head(buffer).kind = "hangup" THEN NotifyDisconnected ELSE UNCHANGED tasks
    /\ UNCHANGED stream

SendOkResponse ==
    /\ reader = "replying"
    /\ reader' = "finishing"
    /\ UNCHANGED <<stream, buffer, tasks, handled>>

(* readSignal or sendOkResponse throws, and the listener is not queued     *)
(* again.                                                                  *)
SignalingFails ==
    /\ \/ reader = "reading" /\ StreamEnded
       \/ reader = "replying" /\ eof
    /\ reader' = "idle"
    /\ NotifyDisconnected
    /\ UNCHANGED <<stream, buffer, handled>>

Finish ==
    /\ reader = "finishing"
    /\ reader' = "idle"
    /\ interrupted' = FALSE
    /\ queue' = Append(queue, "listener")
    /\ UNCHANGED <<stream, buffer, terminator, handled>>

(* The hangup task: whatever comes first is taken for the response.        *)
SendHangup ==
    /\ reader = "hangup"
    /\ reader' = "hanging"
    /\ UNCHANGED <<stream, buffer, tasks, handled>>

CloseSocket ==
    /\ reader = "hanging"
    /\ HasMessage \/ eof
    /\ reader' = "closed"
    /\ buffer' = IF HasMessage THEN Remaining ELSE buffer
    /\ queue' = <<>>
    /\ UNCHANGED <<stream, interrupted, terminator, handled>>

Executor ==
    \/ NextTask \/ WaitForSignal \/ WaitFails \/ LookAgain \/ ReadSignal
    \/ SendOkResponse \/ SignalingFails \/ Finish \/ SendHangup \/ CloseSocket

ChannelNext == Server \/ ReadMore \/ ReadResponse \/ RequestFails \/ Terminate \/ Executor

-----------------------------------------------------------------------------
(* The socket is connected first; then the monitor of that and the channel *)
(* take their steps side by side.                                          *)

SignalingInit == Init /\ ChannelInit

SignalingNext ==
    \/ Next /\ UNCHANGED channelVars
    \/ pc = "returned" /\ ChannelNext /\ UNCHANGED vars

SignalingSpec == SignalingInit /\ [][SignalingNext]_<<vars, channelVars>>

(* What was sent arrives, the threads run, the server answers a hangup and *)
(* sends keep-alives.                                                      *)
Goes(action) == pc = "returned" /\ action

ChannelFairness ==
    /\ WF_channelVars(Goes(ReadMore \/ ReadResponse))
    /\ WF_channelVars(Goes(NextTask \/ WaitForSignal \/ LookAgain \/ ReadSignal
                           \/ SendOkResponse \/ SignalingFails \/ Finish \/ SendHangup
                           \/ CloseSocket))
    /\ WF_channelVars(Goes(terminator = "queued" /\ Terminate))
    /\ WF_channelVars(Goes(Responds(1)))
    /\ WF_channelVars(Goes(KeepAlive))

FairSignalingSpec == SignalingSpec /\ Fairness /\ ChannelFairness

-----------------------------------------------------------------------------
(* Properties.                                                             *)

Fragment ==
    [kind : {"response", "keepalive"}, n : 0..1, end : BOOLEAN]
    \cup [kind : {"signal", "hangup"}, n : 1..MaxSignals, end : BOOLEAN]

ChannelTypeOK ==
    /\ wire \in Seq(Fragment)
    /\ eof \in BOOLEAN
    /\ sent \in 0..MaxSignals
    /\ buffer \in Seq(Fragment)
    /\ reader \in {"request", "idle", "waiting", "available", "reading", "replying",
               "finishing", "hangup", "hanging", "closed"}
    /\ queue \in Seq({"listener", "hangup"})
    /\ interrupted \in BOOLEAN
    /\ terminator \in {"none", "queued", "done"}
    /\ handled \in Seq(1..MaxSignals)

(* Until the hangup, the signals that were handled are the first ones in   *)
(* the order they were sent, and the others are in the buffer or on their  *)
(* way in that order: none is lost, handled twice or overtaken, however    *)
(* the stream is cut into reads.                                           *)
IsSignal(f) == f.end /\ f.kind \in {"signal", "hangup"}
Signals(s)  == {i \in 1..Len(s) : IsSignal(s[i])}

LeftInOrder(left, first, last) ==
    /\ {left[i].n : i \in Signals(left)} = first..last
    /\ \A i, j \in Signals(left) : i < j => left[i].n < left[j].n

HandledInOrder ==
    reader \notin {"hanging", "closed"} =>
        /\ Len(handled) <= sent /\ \A i \in 1..Len(handled) : handled[i] = i
        /\ LeftInOrder(buffer \o wire, Len(handled) + 1, sent)

(* When terminate() has returned, the listener is never left to wait for   *)
(* the server: the reset of "interrupted" at the end of a listener's run   *)
(* cannot undo a termination.                                              *)
NoWaitAfterTerminate == terminator = "done" /\ reader = "waiting" => interrupted

(* The types, and the state of the listener when terminate() has returned. *)
ChannelInvariant == ChannelTypeOK /\ NoWaitAfterTerminate

(* Every terminated call sends its hangup and closes the socket, even if   *)
(* its listener is in the middle of a signal.                              *)
HangupCompletes == terminator = "done" ~> reader = "closed"

(* A signal that came with another one is left in the buffer: nothing but  *)
(* further data from the server makes the listener look.  The keep-alives  *)
(* see to it that every signal is handled in the end.                      *)
KeepAlivesFlush ==
    \A n \in 1..MaxSignals :
        sent >= n ~> Len(handled) >= n \/ terminator # "none" \/ eof
==================================================================================
