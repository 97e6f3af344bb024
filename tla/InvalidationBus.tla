---------------------------- MODULE InvalidationBus ----------------------------
(***************************************************************************)
(* internal/cache/redis/invalidation.go: one process's subscription to Redis. *)
(*                                                                         *)
(* Two connections.  On the Pub/Sub one a goroutine (`rcv`) reads messages.   *)
(* On the tracking one a goroutine (`tr`; Subscribe itself before that)       *)
(* sends commands; Redis puts on it, ahead of the next reply, a push when     *)
(* somebody runs FLUSHDB or touches the marker key this connection has read.  *)
(* Pushes are read only while a reply is waited for.  Both goroutines feed    *)
(* bounded channels that Receive takes from, in any order.                   *)
(*                                                                         *)
(* Redis, its connections, the other processes and the tiered cache that      *)
(* calls Receive are modelled from how the code uses them.                    *)
(***************************************************************************)
EXTENDS Naturals, Sequences

CONSTANTS
    Key,            \* keys named by published invalidations
    Flush,          \* the flush event
    Error,          \* an error in the place of an event
    TrackingBuffer, \* invalidationTrackingBufferSize
    Faults,         \* what may fail
    MaxTurns        \* bound: failures, and what others do

AllFaults == {"command", "tracking", "pubsub", "restart", "garbage", "malformed", "stop"}

ASSUME BusAssumption ==
    /\ TrackingBuffer \in Nat \ {0}
    /\ Faults \subseteq AllFaults
    /\ MaxTurns \in Nat
    /\ Flush \notin Key /\ Error \notin Key /\ Flush # Error

VARIABLES
    marker,             \* the marker key exists
    tracking,           \* CLIENT TRACKING is on, on the tracking connection
    tracked,            \* Redis remembers that the connection has read the marker
    stream,             \* what Redis has sent on it: resets, errors, replies
    up,                 \* the tracking connection is not broken
    sameClient,         \* CLIENT ID answers trackingClientID
    restarted,          \* Redis has restarted since: it numbers clients from 1 again
    channel,            \* messages on the Pub/Sub connection
    pubsubUp,
    sub,                \* where the subscriber is
    trackingSub,        \* the slot of the bus is taken
    ctxDone,            \* the context of the subscription is cancelled
    stopped,            \* the context of the subscriber is cancelled
    tr, sent,           \* where the user of the tracking connection is
    rcv, out,           \* where receivePubSub is, and what it has to send
    rx,                 \* where Receive is
    refreshMarker, trackingMessages, trackingOverflow, trackingErrors, pubsubMessages,
    announced,          \* history: Redis announced a reset, and L1 was not emptied since
    missed,             \* history: keys cleared, this connection not told, L1 not emptied since
    turns

redisVars == <<marker, tracking, tracked, stream, up, sameClient, restarted>>
pubsubVars == <<channel, pubsubUp>>
subVars == <<sub, trackingSub, ctxDone, stopped>>
goVars == <<tr, sent, rcv, out, rx>>
chanVars == <<refreshMarker, trackingMessages, trackingOverflow, trackingErrors, pubsubMessages>>
historyVars == <<announced, missed>>

vars == <<redisVars, pubsubVars, subVars, goVars, chanVars, historyVars, turns>>

Commands == {"id", "track", "setnx", "get", "probe"}

Message == Key \cup {Error}     \* Error: a payload that is no valid event

Push == {[kind |-> "reset"], [kind |-> "malformed"]}
Reply == [kind : {"reply"}, ok : BOOLEAN]

Turn == turns < MaxTurns /\ turns' = turns + 1

Fault(f) == f \in Faults /\ Turn

CtxDone == ctxDone \/ stopped

--------------------------------------------------------------------------------
(* Commands on the tracking connection. *)

(* Redis runs the command: the reply follows the pushes already sent.  CLIENT *)
(* ID is remembered by Subscribe and compared by the probe; SETNX creates the  *)
(* marker; GET fails if it is gone and makes Redis track it.                   *)
Execute ==
    /\ tr \in Commands /\ ~sent /\ up
    /\ sent' = TRUE
    /\ stream' = Append(stream, [kind |-> "reply",
                                 ok   |-> CASE tr = "probe" -> sameClient
                                            [] tr = "get"   -> marker
                                            [] OTHER        -> TRUE])
    /\ tracking' = (tracking \/ tr = "track")
    /\ marker' = (marker \/ tr = "setnx")
    /\ tracked' = (tracked \/ (tr = "get" /\ tracking))
    /\ sameClient' = (sameClient \/ tr = "id")
    /\ restarted' = (restarted /\ tr # "id")
    /\ UNCHANGED <<up, pubsubVars, subVars, tr, rcv, out, rx, chanVars, historyVars, turns>>

(* A broken connection may be replaced by the client library: the new one has *)
(* another id, unless Redis was restarted, and tracks nothing.                 *)
Reconnect ==
    /\ tr \in Commands /\ ~up
    /\ up' = TRUE /\ sent' = FALSE
    /\ stream' = <<>> /\ tracking' = FALSE /\ tracked' = FALSE
    /\ sameClient' \in (IF restarted THEN BOOLEAN ELSE {FALSE})
    /\ UNCHANGED <<marker, restarted, pubsubVars, subVars, tr, rcv, out, rx, chanVars,
                   historyVars, turns>>

(* Mutant: the channel has no end. *)
EnqueueAlways(result) ==
    trackingMessages' = Append(trackingMessages, result) /\ UNCHANGED trackingOverflow

(* enqueueTracking *)
Enqueue(result) ==
    IF Len(trackingMessages) < TrackingBuffer
    THEN trackingMessages' = Append(trackingMessages, result) /\ UNCHANGED trackingOverflow
    ELSE trackingOverflow' = TRUE /\ UNCHANGED trackingMessages

(* Mutant: a push that finds the signal still waiting is taken for a repeat. *)
PushCoalesced ==
    /\ tr \in Commands /\ up
    /\ stream # <<>> /\ Head(stream).kind \in {"reset", "malformed"}
    /\ stream' = Tail(stream)
    /\ CASE Head(stream).kind = "malformed" -> Enqueue(Error) /\ UNCHANGED refreshMarker
         [] Head(stream).kind = "reset" /\ ~refreshMarker -> Enqueue(Flush) /\ refreshMarker' = TRUE
         [] OTHER -> UNCHANGED <<trackingMessages, trackingOverflow, refreshMarker>>
    /\ UNCHANGED <<marker, tracking, tracked, up, sameClient, restarted, pubsubVars, subVars, goVars,
                   trackingErrors, pubsubMessages, historyVars, turns>>

(* HandlePushNotification: the event first, then the signal, which is not    *)
(* repeated while one waits.                                                 *)
HandlePush ==
    /\ tr \in Commands /\ up
    /\ stream # <<>> /\ Head(stream).kind \in {"reset", "malformed"}
    /\ stream' = Tail(stream)
    /\ IF Head(stream).kind = "reset"
       THEN Enqueue(Flush) /\ refreshMarker' = TRUE
       ELSE Enqueue(Error) /\ UNCHANGED refreshMarker
    /\ UNCHANGED <<marker, tracking, tracked, up, sameClient, restarted, pubsubVars, subVars, goVars,
                   trackingErrors, pubsubMessages, historyVars, turns>>

(* Mutant: monitorTracking ends without a word. *)
EndsQuietly(reported) ==
    IF sub = "subscribing"
    THEN tr' = "off" /\ sub' = "closing" /\ UNCHANGED trackingErrors
    ELSE tr' = "done" /\ UNCHANGED <<sub, trackingErrors>>

(* The command failed: Subscribe gives up, monitorTracking ends and reports it, *)
(* unless a probe failed because the subscription is being closed.           *)
CommandFailed(reported) ==
    IF sub = "subscribing"
    THEN tr' = "off" /\ sub' = "closing" /\ UNCHANGED trackingErrors
    ELSE /\ tr' = "done" /\ UNCHANGED sub
         /\ trackingErrors' = (trackingErrors \/ reported)

(* Mutant: the probe takes the signal and does nothing about it. *)
SignalForgotten ==
    /\ tr' = CASE tr = "id"    -> "track"
               [] tr = "track" -> "setnx"
               [] tr = "setnx" -> "get"
               [] OTHER        -> "select"
    /\ refreshMarker' = (refreshMarker /\ tr # "probe")
    /\ IF sub = "subscribing" /\ tr = "get"
       THEN sub' = "subscribed" /\ rcv' = "read"
       ELSE UNCHANGED <<sub, rcv>>
    /\ UNCHANGED trackingErrors

(* The command did what it should: Subscribe returns after GET and starts    *)
(* the goroutines.                                                          *)
CommandDone ==
    /\ tr' = CASE tr = "id"    -> "track"
               [] tr = "track" -> "setnx"
               [] tr = "setnx" -> "get"
               [] tr = "get"   -> "select"
               [] tr = "probe" -> IF refreshMarker THEN "setnx" ELSE "select"
    /\ refreshMarker' = (refreshMarker /\ tr # "probe")
    /\ IF sub = "subscribing" /\ tr = "get"
       THEN sub' = "subscribed" /\ rcv' = "read"
       ELSE UNCHANGED <<sub, rcv>>
    /\ UNCHANGED trackingErrors

ReadReply ==
    /\ sent /\ up
    /\ stream # <<>> /\ Head(stream).kind = "reply"
    /\ stream' = Tail(stream) /\ sent' = FALSE
    /\ IF Head(stream).ok THEN CommandDone
       ELSE CommandFailed(TRUE) /\ UNCHANGED <<rcv, refreshMarker>>
    /\ UNCHANGED <<marker, tracking, tracked, up, sameClient, restarted, pubsubVars,
                   trackingSub, ctxDone, stopped, out, rx, trackingMessages, trackingOverflow,
                   pubsubMessages, historyVars, turns>>

(* The command times out, is refused, or finds its connection broken. *)
CommandError ==
    /\ tr \in Commands
    /\ \/ Fault("command")
       \/ (~up \/ CtxDone) /\ UNCHANGED turns
    /\ sent' = FALSE
    /\ CommandFailed(tr # "probe" \/ ~CtxDone)
    /\ up' = FALSE /\ stream' = <<>>    \* the connection is given up with its command
    /\ UNCHANGED <<marker, tracking, tracked, sameClient, restarted, pubsubVars, trackingSub, ctxDone,
                   stopped, rcv, out, rx, refreshMarker, trackingMessages, trackingOverflow,
                   pubsubMessages, historyVars>>

--------------------------------------------------------------------------------
(* monitorTracking: a signal, the ticker or the end, whichever select takes. *)

MonitorRest == UNCHANGED <<redisVars, pubsubVars, subVars, sent, rcv, out, rx, trackingMessages,
                           trackingOverflow, trackingErrors, pubsubMessages, historyVars, turns>>

MonitorRefresh ==
    /\ tr = "select" /\ refreshMarker
    /\ tr' = "setnx" /\ refreshMarker' = FALSE
    /\ MonitorRest

MonitorTick ==
    /\ tr = "select"
    /\ tr' = "probe" /\ UNCHANGED refreshMarker
    /\ MonitorRest

MonitorStop ==
    /\ tr = "select" /\ CtxDone
    /\ tr' = "done" /\ UNCHANGED refreshMarker
    /\ MonitorRest

--------------------------------------------------------------------------------
(* receivePubSub *)

ReceiverRest == UNCHANGED <<redisVars, pubsubUp, subVars, tr, sent, rx, refreshMarker,
                            trackingMessages, trackingOverflow, trackingErrors, historyVars, turns>>

PubSubRead ==
    /\ rcv = "read" /\ channel # <<>>
    /\ rcv' = "send" /\ out' = Head(channel) /\ channel' = Tail(channel)
    /\ UNCHANGED pubsubMessages
    /\ ReceiverRest

(* ReceiveMessage fails: reported, unless the subscription is being closed. *)
PubSubError ==
    /\ rcv = "read" /\ ((~pubsubUp /\ channel = <<>>) \/ CtxDone)
    /\ \/ ~CtxDone /\ rcv' = "send" /\ out' = Error
       \/ CtxDone /\ rcv' = "done" /\ UNCHANGED out
    /\ UNCHANGED <<channel, pubsubMessages>>
    /\ ReceiverRest

(* Mutant: what the channel has no room for is dropped. *)
SendOrDrop ==
    /\ rcv = "send"
    /\ pubsubMessages' = IF pubsubMessages = <<>> THEN <<out>> ELSE pubsubMessages
    /\ rcv' = IF out = Error THEN "done" ELSE "read"
    /\ out' = Error
    /\ UNCHANGED channel
    /\ ReceiverRest

(* sendPubSub: the channel holds one result; an error is the last. *)
PubSubSend ==
    /\ rcv = "send" /\ pubsubMessages = <<>>
    /\ pubsubMessages' = <<out>>
    /\ rcv' = IF out = Error THEN "done" ELSE "read"
    /\ out' = Error
    /\ UNCHANGED channel
    /\ ReceiverRest

(* Mutant: the sender waits for room whatever happens. *)
GivesUpNever == FALSE

GivesUp == CtxDone

PubSubGiveUp ==
    /\ rcv = "send" /\ GivesUp
    /\ rcv' = "done" /\ out' = Error
    /\ UNCHANGED <<channel, pubsubMessages>>
    /\ ReceiverRest

--------------------------------------------------------------------------------
(* Subscribe, Receive and Close, called by the subscriber of the tiered cache. *)

(* Pub/Sub is confirmed and the slot is free: the channels are empty still,   *)
(* and a connection is taken.                                                *)
Subscribe ==
    /\ sub = "out" /\ ~stopped /\ ~trackingSub
    /\ sub' = "subscribing" /\ trackingSub' = TRUE /\ ctxDone' = FALSE
    /\ pubsubUp' = TRUE
    /\ tr' = "id" /\ up' = TRUE
    /\ UNCHANGED <<marker, tracking, tracked, stream, sameClient, restarted, channel, stopped, sent,
                   rcv, out, rx, chanVars, historyVars, turns>>

(* The subscriber empties L1 once Subscribe has returned. *)
FlushL1 ==
    /\ sub = "subscribed"
    /\ sub' = "receiving" /\ rx' = "errors"
    /\ UNCHANGED <<redisVars, pubsubVars, trackingSub, ctxDone, stopped, tr, sent, rcv, out, chanVars,
                   historyVars, turns>>

ReceiveRest == UNCHANGED <<redisVars, pubsubVars, trackingSub, ctxDone, stopped, tr, sent, rcv, out,
                           refreshMarker, turns>>

(* Receive returns a result: a flush empties L1, an error ends the subscription. *)
Return(result) ==
    /\ IF result = Error THEN sub' = "closing" /\ rx' = "off"
       ELSE rx' = "errors" /\ UNCHANGED sub
    /\ announced' = (announced /\ result \in Key)
    /\ missed' = (missed /\ result \in Key)

(* A tracking error has precedence over what is queued. *)
ReceiveFirst ==
    /\ rx = "errors"
    /\ IF trackingErrors THEN Return(Error) /\ trackingErrors' = FALSE
       ELSE rx' = "select" /\ UNCHANGED <<sub, historyVars, trackingErrors>>
    /\ UNCHANGED <<trackingMessages, trackingOverflow, pubsubMessages>>
    /\ ReceiveRest

Receive ==
    /\ rx = "select"
    /\ \/ /\ pubsubMessages # <<>>
          /\ Return(Head(pubsubMessages)) /\ pubsubMessages' = Tail(pubsubMessages)
          /\ UNCHANGED <<trackingMessages, trackingOverflow, trackingErrors>>
       \/ /\ trackingMessages # <<>>
          /\ Return(Head(trackingMessages)) /\ trackingMessages' = Tail(trackingMessages)
          /\ UNCHANGED <<pubsubMessages, trackingOverflow, trackingErrors>>
       \/ /\ trackingOverflow
          /\ Return(Flush) /\ trackingOverflow' = FALSE
          /\ UNCHANGED <<pubsubMessages, trackingMessages, trackingErrors>>
       \/ /\ trackingErrors
          /\ Return(Error) /\ trackingErrors' = FALSE
          /\ UNCHANGED <<pubsubMessages, trackingMessages, trackingOverflow>>
       \/ /\ CtxDone
          /\ Return(Error)
          /\ UNCHANGED <<pubsubMessages, trackingMessages, trackingOverflow, trackingErrors>>
    /\ ReceiveRest

(* Close cancels the context and closes Pub/Sub ... *)
CloseBegin ==
    /\ sub = "closing"
    /\ sub' = "waiting" /\ ctxDone' = TRUE
    /\ pubsubUp' = FALSE /\ channel' = <<>>
    /\ UNCHANGED <<redisVars, trackingSub, stopped, goVars, chanVars, historyVars, turns>>

(* Mutant: the slot of the bus is not given back. *)
SlotKept == trackingSub

SlotFreed == FALSE

(* ... waits for both goroutines, closes the connection and frees the slot:  *)
(* what the channels still held is gone with the subscription.               *)
CloseEnd ==
    /\ sub = "waiting"
    /\ tr \in {"off", "done"} /\ rcv \in {"off", "done"}
    /\ sub' = "out" /\ trackingSub' = SlotFreed
    /\ tr' = "off" /\ sent' = FALSE /\ rcv' = "off" /\ out' = Error
    /\ up' = FALSE /\ stream' = <<>> /\ tracking' = FALSE /\ tracked' = FALSE
    /\ sameClient' = FALSE /\ restarted' = FALSE
    /\ refreshMarker' = FALSE /\ trackingMessages' = <<>> /\ trackingOverflow' = FALSE
    /\ trackingErrors' = FALSE /\ pubsubMessages' = <<>>
    /\ UNCHANGED <<marker, pubsubVars, ctxDone, stopped, rx, historyVars, turns>>

--------------------------------------------------------------------------------
(* What the others do, and failures. *)

SendPush(kind) == stream' = IF up THEN Append(stream, [kind |-> kind]) ELSE stream

WorldRest == UNCHANGED <<up, sameClient, restarted, pubsubVars, subVars, goVars, chanVars>>

(* FLUSHDB or FLUSHALL: every connection with tracking on is told. *)
ExternalFlush ==
    /\ Turn
    /\ marker' = FALSE /\ tracked' = FALSE
    /\ IF tracking THEN SendPush("reset") ELSE UNCHANGED stream
    /\ announced' = (announced \/ sub = "receiving")
    /\ UNCHANGED <<tracking, missed>> /\ WorldRest

(* The keys of the prefix are deleted, the marker among them if it exists, or *)
(* the marker is overwritten: Redis tells the connections that have read it    *)
(* since its last change, and nothing to one that has not read it again yet.  *)
MarkerChange ==
    /\ Turn
    /\ marker' \in {marker, FALSE} /\ tracked' = (tracked /\ ~marker)
    /\ IF tracked /\ marker
       THEN /\ SendPush("reset") /\ UNCHANGED missed
            /\ announced' = (announced \/ sub = "receiving")
       ELSE missed' = (missed \/ sub = "receiving") /\ UNCHANGED <<stream, announced>>
    /\ UNCHANGED tracking /\ WorldRest

(* Another process creates the marker again, which is a change as well. *)
PeerMarker ==
    /\ ~marker /\ marker' = TRUE /\ tracked' = FALSE
    /\ IF tracked THEN SendPush("reset") ELSE UNCHANGED stream
    /\ UNCHANGED <<tracking, historyVars, turns>> /\ WorldRest

(* A push that cannot be decoded. *)
MalformedPush ==
    /\ Fault("malformed") /\ tracking
    /\ SendPush("malformed")
    /\ UNCHANGED <<marker, tracking, tracked, historyVars>> /\ WorldRest

Publish ==
    /\ pubsubUp /\ Turn
    /\ \/ \E k \in Key : channel' = Append(channel, k)
       \/ "garbage" \in Faults /\ channel' = Append(channel, Error)
    /\ UNCHANGED <<redisVars, pubsubUp, subVars, goVars, chanVars, historyVars>>

(* A connection breaks; what was on its way may be lost. *)
LosePubSub ==
    /\ pubsubUp' = FALSE
    /\ \E n \in 0..Len(channel) : channel' = SubSeq(channel, 1, n)

BreakPubSub ==
    /\ pubsubUp /\ Fault("pubsub") /\ LosePubSub
    /\ UNCHANGED <<redisVars, subVars, goVars, chanVars, historyVars>>

BreakTracking ==
    /\ up /\ Fault("tracking")
    /\ up' = FALSE /\ stream' = <<>> /\ tracking' = FALSE /\ tracked' = FALSE
    /\ UNCHANGED <<marker, sameClient, restarted, pubsubVars, subVars, goVars, chanVars, historyVars>>

(* Redis restarts: both connections break, its data may be gone. *)
Restart ==
    /\ Fault("restart") /\ LosePubSub
    /\ up' = FALSE /\ stream' = <<>> /\ tracking' = FALSE /\ tracked' = FALSE
    /\ restarted' = TRUE
    /\ marker' \in {marker, FALSE}
    /\ UNCHANGED <<sameClient, subVars, goVars, chanVars, historyVars>>

(* The tiered cache is closed. *)
Stop ==
    /\ "stop" \in Faults /\ ~stopped /\ stopped' = TRUE
    /\ UNCHANGED <<redisVars, pubsubVars, sub, trackingSub, ctxDone, goVars, chanVars, historyVars,
                   turns>>

--------------------------------------------------------------------------------
Init ==
    /\ marker \in BOOLEAN
    /\ tracking = FALSE /\ tracked = FALSE /\ stream = <<>> /\ up = FALSE
    /\ sameClient = FALSE /\ restarted = FALSE
    /\ channel = <<>> /\ pubsubUp = FALSE
    /\ sub = "out" /\ trackingSub = FALSE /\ ctxDone = FALSE /\ stopped = FALSE
    /\ tr = "off" /\ sent = FALSE /\ rcv = "off" /\ out = Error /\ rx = "off"
    /\ refreshMarker = FALSE /\ trackingMessages = <<>> /\ trackingOverflow = FALSE
    /\ trackingErrors = FALSE /\ pubsubMessages = <<>>
    /\ announced = FALSE /\ missed = FALSE
    /\ turns = 0

CommandStep == Execute \/ Reconnect \/ HandlePush \/ ReadReply \/ CommandError
MonitorStep == MonitorRefresh \/ MonitorTick \/ MonitorStop
ReceiverStep == PubSubRead \/ PubSubError \/ PubSubSend \/ PubSubGiveUp
SubscriberStep == Subscribe \/ FlushL1 \/ ReceiveFirst \/ Receive \/ CloseBegin \/ CloseEnd
World == ExternalFlush \/ MarkerChange \/ PeerMarker \/ MalformedPush \/ Publish
         \/ BreakPubSub \/ BreakTracking \/ Restart \/ Stop

Next == CommandStep \/ MonitorStep \/ ReceiverStep \/ SubscriberStep \/ World

Spec == Init /\ [][Next]_vars

(* The goroutines run, Redis answers, and a select takes every ready case in  *)
(* the end: monitorTracking does not only ever see its ticker.                *)
Fairness ==
    /\ WF_vars(CommandStep) /\ WF_vars(MonitorStep) /\ SF_vars(MonitorStop)
    /\ WF_vars(ReceiverStep) /\ WF_vars(SubscriberStep)

FairSpec == Spec /\ Fairness

--------------------------------------------------------------------------------
(* Properties. *)

Result == Key \cup {Flush, Error}

TypeOK ==
    /\ marker \in BOOLEAN /\ tracking \in BOOLEAN /\ tracked \in BOOLEAN
    /\ stream \in Seq(Push \cup Reply)
    /\ up \in BOOLEAN /\ sameClient \in BOOLEAN /\ restarted \in BOOLEAN
    /\ channel \in Seq(Message) /\ pubsubUp \in BOOLEAN
    /\ sub \in {"out", "subscribing", "subscribed", "receiving", "closing", "waiting"}
    /\ trackingSub \in BOOLEAN /\ ctxDone \in BOOLEAN /\ stopped \in BOOLEAN
    /\ tr \in Commands \cup {"off", "select", "done"} /\ sent \in BOOLEAN
    /\ rcv \in {"off", "read", "send", "done"} /\ out \in Message
    /\ rx \in {"off", "errors", "select"}
    /\ refreshMarker \in BOOLEAN /\ trackingOverflow \in BOOLEAN /\ trackingErrors \in BOOLEAN
    /\ trackingMessages \in Seq({Flush, Error}) /\ Len(trackingMessages) <= TrackingBuffer
    /\ pubsubMessages \in Seq(Message) /\ Len(pubsubMessages) <= 1
    /\ announced \in BOOLEAN /\ missed \in BOOLEAN
    /\ turns \in 0..MaxTurns

Has(s, x) == \E i \in DOMAIN s : s[i] = x

IsOpen == sub \in {"subscribed", "receiving"}

ResetSent == Has(stream, [kind |-> "reset"])

FlushComing == ResetSent \/ trackingOverflow \/ Has(trackingMessages, Flush)

(* The Pub/Sub side is about to make Receive fail, or has an error for it. *)
PubSubBreaks ==
    \/ Has(pubsubMessages, Error)
    \/ rcv = "send" /\ (out = Error \/ ~pubsubUp \/ Has(channel, Error))
    \/ rcv = "read" /\ (~pubsubUp \/ Has(channel, Error))

(* The tracking side is: its next probe finds another connection, or none. *)
TrackingBreaks ==
    \/ trackingErrors \/ Has(trackingMessages, Error)
    \/ tr \in {"setnx", "get", "select", "probe"} /\ (~up \/ ~sameClient)

ErrorComing == PubSubBreaks \/ TrackingBreaks \/ stopped

(* Redis has announced a reset, or restarted, since L1 was last emptied.  A    *)
(* restart is behind L1 until the subscription has ended.                     *)
L1Behind == sub = "receiving" /\ (announced \/ restarted)

(* A reset that Redis announces to this connection, or a restart, since L1     *)
(* was last emptied is followed by a flush or by an error, which ends in one:  *)
(* whatever was dropped because a channel was full, lost with a connection or  *)
(* left unread, some signal is on its way (invalidation.go:153, 369).         *)
ResetIsOnItsWay == L1Behind => FlushComing \/ ErrorComing

(* architecture.md:57: deleting or changing the marker, and clearing the keys *)
(* of the prefix, empties L1 at the subscribers.  That holds of what Redis     *)
(* announces; between a delivered flush and the GET that has Redis track the   *)
(* marker again, the next change is announced to nobody (invalidation.go:279). *)
ClearingIsFollowed ==
    (sub = "receiving" /\ missed) => FlushComing \/ ErrorComing

(* Between the loss of the marker and the GET that has Redis track it again,  *)
(* the connection always has something that leads to that GET: the push is    *)
(* unread, the signal is set, or the commands are under way.  A signal taken  *)
(* or not repeated while one waits is never one too few (invalidation.go:173, *)
(* 319).                                                                      *)
MarkerIsWatched ==
    (IsOpen /\ ~tracked) =>
        \/ ResetSent \/ refreshMarker
        \/ tr = "setnx" \/ (tr = "get" /\ ~sent)
        \/ ErrorComing

(* The bus implements what the tiered cache relies on: what the channels, the *)
(* goroutines and the connections hold is what is due.                       *)
Due ==
    IF IsOpen
    THEN {k \in Key : Has(channel, k) \/ (rcv = "send" /\ out = k) \/ Has(pubsubMessages, k)}
         \cup (IF FlushComing \/ announced THEN {Flush} ELSE {})
    ELSE {}

Stream == INSTANCE EventStream WITH
    Event  <- Key \cup {Flush},
    open   <- IsOpen,
    broken <- IsOpen /\ ErrorComing,
    due    <- Due

(* Every step of the bus is a step of EventStream, or none of its business:   *)
(* no flush and no key is dropped unless an error follows, and no error comes *)
(* without a reason (invalidation.go:293-410).                                *)
ImplementsEventStream == Stream!StreamSpec

(* An announced reset reaches the tiered cache: L1 is emptied, or the          *)
(* subscription fails and the subscriber starts again, which empties it.       *)
(* After a restart of Redis the subscription does fail, whatever id the next   *)
(* connection is given (invalidation.go:153-410).                             *)
ResetArrives == L1Behind ~> ~L1Behind

(* Close returns although it waits for two goroutines that may be blocked on  *)
(* a channel nobody reads any more, or on Redis (invalidation.go:412).        *)
CloseReturns == (sub = "waiting") ~> (sub = "out")

(* However a subscription ends, the subscriber can have another: the slot of  *)
(* the bus is not held by a subscription that is gone (invalidation.go:118).  *)
Resubscribes == (sub # "receiving") ~> (sub = "receiving" \/ stopped)
================================================================================
