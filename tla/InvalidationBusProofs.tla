------------------------- MODULE InvalidationBusProofs -------------------------
(* Proofs about InvalidationBus, for every value of its constants. *)
EXTENDS InvalidationBus, TLAPS

(***************************************************************************)
(* The invariant.                                                          *)
(*                                                                         *)
(* That a reset is on its way, or the marker watched, depends on where the      *)
(* goroutines are: one that has ended has left an error behind, and a           *)
(* connection that is still the one Subscribe set up has tracking on.           *)
(***************************************************************************)

(* A command has been sent only when there is one. *)
SentOK == sent => tr \in Commands

(* Where the goroutines are while Subscribe runs and until Close; one that has *)
(* ended has left an error, unless the subscriber is stopped.                *)
Places ==
    /\ sub = "out" => tr = "off" /\ rcv = "off"
    /\ sub = "subscribing" =>
           tr \in {"id", "track", "setnx", "get"} /\ rcv = "off" /\ ~ctxDone
    /\ IsOpen =>
           /\ tr \in {"setnx", "get", "select", "probe", "done"} /\ ~ctxDone
           /\ rcv \in {"read", "send", "done"}
           /\ tr = "done" => trackingErrors \/ stopped
           /\ rcv = "done" => Has(pubsubMessages, Error) \/ stopped
    /\ sub # "receiving" => ~announced

(* After a restart Pub/Sub is broken, until a new subscription asks for its id. *)
Restarted ==
    restarted /\ pubsubUp =>
        \/ sub \in {"out", "closing", "waiting"}
        \/ sub = "subscribing" /\ tr = "id" /\ ~sent

(* The connection Subscribe has set up has tracking on.                      *)
Tracking ==
    /\ IsOpen \/ (sub = "subscribing" /\ tr \in {"setnx", "get"}) =>
           (up /\ sameClient /\ pubsubUp => tracking)
    /\ sub = "subscribing" /\ tr = "track" /\ sent /\ up => tracking

(* A connection is not the one that was set up.                             *)
Broken == ~up \/ ~sameClient \/ ~pubsubUp

(* MarkerIsWatched, from the first command of Subscribe on.                   *)
Watched ==
    (IsOpen \/ sub = "subscribing") /\ ~tracked =>
        \/ ResetSent \/ refreshMarker
        \/ tr \in {"id", "track", "setnx"} \/ (tr = "get" /\ ~sent)
        \/ Broken \/ (IsOpen /\ ErrorComing)

BusInv == TypeOK /\ SentOK /\ Places /\ Restarted /\ Tracking /\ Watched /\ ResetIsOnItsWay

(***************************************************************************)
(* What a sequence has after a step.                                        *)
(***************************************************************************)
LEMMA HasAppend ==
  ASSUME NEW S, NEW s \in Seq(S), NEW x
  PROVE  \A y : Has(Append(s, x), y) <=> Has(s, y) \/ x = y
<1> SUFFICES ASSUME NEW y PROVE Has(Append(s, x), y) <=> Has(s, y) \/ x = y
  OBVIOUS
<1>1. /\ Len(s) \in Nat /\ DOMAIN s = 1..Len(s)
      /\ DOMAIN Append(s, x) = 1..(Len(s) + 1) /\ Append(s, x)[Len(s) + 1] = x
      /\ \A i \in 1..Len(s) : Append(s, x)[i] = s[i]
  OBVIOUS
<1> QED BY <1>1 DEF Has

LEMMA HasTail ==
  ASSUME NEW S, NEW s \in Seq(S), s # <<>>
  PROVE  /\ \A y : Has(s, y) <=> Head(s) = y \/ Has(Tail(s), y)
         /\ Head(s) \in S /\ Tail(s) \in Seq(S) /\ Len(Tail(s)) = Len(s) - 1
<1>1. /\ Len(s) \in Nat \ {0} /\ DOMAIN s = 1..Len(s) /\ Head(s) = s[1]
      /\ DOMAIN Tail(s) = 1..(Len(s) - 1) /\ \A i \in 1..(Len(s) - 1) : Tail(s)[i] = s[i + 1]
      /\ Head(s) \in S /\ Tail(s) \in Seq(S) /\ Len(Tail(s)) = Len(s) - 1
  OBVIOUS
<1>2. ASSUME NEW y PROVE Has(s, y) <=> Head(s) = y \/ Has(Tail(s), y)
  <2>1. ASSUME NEW i \in 1..Len(s), s[i] = y PROVE Head(s) = y \/ Has(Tail(s), y)
    <3>1. CASE i = 1
      BY <1>1, <2>1, <3>1
    <3>2. CASE i # 1
      <4>1. i - 1 \in 1..(Len(s) - 1) /\ Tail(s)[i - 1] = y
        BY <1>1, <2>1, <3>2
      <4> QED BY <1>1, <4>1 DEF Has
    <3> QED BY <3>1, <3>2
  <2>2. ASSUME NEW i \in 1..(Len(s) - 1), Tail(s)[i] = y PROVE Has(s, y)
    <3>1. i + 1 \in 1..Len(s) /\ s[i + 1] = y
      BY <1>1, <2>2
    <3> QED BY <1>1, <3>1 DEF Has
  <2>3. Head(s) = y => Has(s, y)
    BY <1>1 DEF Has
  <2> QED BY <1>1, <2>1, <2>2, <2>3 DEF Has
<1> QED BY <1>1, <1>2

LEMMA HasFew == \A y : ~Has(<<>>, y) /\ \A x : Has(<<x>>, y) <=> x = y
  BY DEF Has

LEMMA Sequences ==
  ASSUME NEW S, NEW s \in Seq(S)
  PROVE  /\ \A x \in S : /\ Append(s, x) \in Seq(S) /\ Len(Append(s, x)) = Len(s) + 1
                         /\ <<x>> \in Seq(S)
         /\ <<>> \in Seq(S) /\ Len(s) \in Nat
         /\ \A n \in 0..Len(s) : SubSeq(s, 1, n) \in Seq(S)
  OBVIOUS

(***************************************************************************)
(* Typing.                                                                 *)
(***************************************************************************)
Flags ==
    /\ marker \in BOOLEAN /\ tracking \in BOOLEAN /\ tracked \in BOOLEAN
    /\ up \in BOOLEAN /\ sameClient \in BOOLEAN /\ restarted \in BOOLEAN
    /\ pubsubUp \in BOOLEAN /\ trackingSub \in BOOLEAN /\ ctxDone \in BOOLEAN
    /\ stopped \in BOOLEAN /\ sent \in BOOLEAN /\ refreshMarker \in BOOLEAN
    /\ trackingOverflow \in BOOLEAN /\ trackingErrors \in BOOLEAN
    /\ announced \in BOOLEAN /\ missed \in BOOLEAN

PlacesOK ==
    /\ sub \in {"out", "subscribing", "subscribed", "receiving", "closing", "waiting"}
    /\ tr \in Commands \cup {"off", "select", "done"}
    /\ rcv \in {"off", "read", "send", "done"}
    /\ rx \in {"off", "errors", "select"}
    /\ turns \in 0..MaxTurns

QueuesOK ==
    /\ stream \in Seq(Push \cup Reply)
    /\ channel \in Seq(Message) /\ out \in Message
    /\ trackingMessages \in Seq({Flush, Error}) /\ Len(trackingMessages) <= TrackingBuffer
    /\ pubsubMessages \in Seq(Message) /\ Len(pubsubMessages) <= 1

LEMMA Parts == TypeOK <=> Flags /\ PlacesOK /\ QueuesOK
  BY DEF TypeOK, Flags, PlacesOK, QueuesOK

LEMMA FlagsNext ==
  ASSUME Flags, Next
  PROVE  Flags'
<1> USE DEF Flags, redisVars, pubsubVars, subVars, goVars, chanVars, historyVars
<1>1. CASE Execute
  <2>1. /\ up' \in BOOLEAN /\ pubsubUp' \in BOOLEAN /\ trackingSub' \in BOOLEAN
        /\ ctxDone' \in BOOLEAN /\ stopped' \in BOOLEAN /\ refreshMarker' \in BOOLEAN
        /\ trackingOverflow' \in BOOLEAN /\ trackingErrors' \in BOOLEAN
        /\ announced' \in BOOLEAN /\ missed' \in BOOLEAN
    BY <1>1, SMT DEF Execute
  <2>2. /\ marker' \in BOOLEAN /\ tracking' \in BOOLEAN /\ tracked' \in BOOLEAN
        /\ sameClient' \in BOOLEAN /\ restarted' \in BOOLEAN /\ sent' \in BOOLEAN
    BY <1>1, Zenon DEF Execute
  <2> QED BY <2>1, <2>2
<1>2. CASE Reconnect
  <2>1. /\ marker' \in BOOLEAN /\ restarted' \in BOOLEAN /\ pubsubUp' \in BOOLEAN
        /\ trackingSub' \in BOOLEAN /\ ctxDone' \in BOOLEAN /\ stopped' \in BOOLEAN
        /\ refreshMarker' \in BOOLEAN /\ trackingOverflow' \in BOOLEAN /\ trackingErrors' \in BOOLEAN
        /\ announced' \in BOOLEAN /\ missed' \in BOOLEAN
    BY <1>2, SMT DEF Reconnect
  <2>2. /\ tracking' \in BOOLEAN /\ tracked' \in BOOLEAN /\ up' \in BOOLEAN
        /\ sameClient' \in BOOLEAN /\ sent' \in BOOLEAN
    BY <1>2, Zenon DEF Reconnect
  <2> QED BY <2>1, <2>2
<1>3. CASE HandlePush
  <2>1. /\ marker' \in BOOLEAN /\ tracking' \in BOOLEAN /\ tracked' \in BOOLEAN
        /\ up' \in BOOLEAN /\ sameClient' \in BOOLEAN /\ restarted' \in BOOLEAN
        /\ pubsubUp' \in BOOLEAN /\ trackingSub' \in BOOLEAN /\ ctxDone' \in BOOLEAN
        /\ stopped' \in BOOLEAN /\ sent' \in BOOLEAN /\ trackingErrors' \in BOOLEAN
        /\ announced' \in BOOLEAN /\ missed' \in BOOLEAN
    BY <1>3, SMT DEF HandlePush, Enqueue
  <2>2. /\ refreshMarker' \in BOOLEAN /\ trackingOverflow' \in BOOLEAN
    BY <1>3, Zenon DEF HandlePush, Enqueue
  <2> QED BY <2>1, <2>2
<1>4. CASE ReadReply
  <2>1. /\ marker' \in BOOLEAN /\ tracking' \in BOOLEAN /\ tracked' \in BOOLEAN
        /\ up' \in BOOLEAN /\ sameClient' \in BOOLEAN /\ restarted' \in BOOLEAN
        /\ pubsubUp' \in BOOLEAN /\ trackingSub' \in BOOLEAN /\ ctxDone' \in BOOLEAN
        /\ stopped' \in BOOLEAN /\ trackingOverflow' \in BOOLEAN
        /\ announced' \in BOOLEAN /\ missed' \in BOOLEAN
    BY <1>4, SMT DEF ReadReply, CommandDone, CommandFailed
  <2>2. /\ sent' \in BOOLEAN /\ refreshMarker' \in BOOLEAN /\ trackingErrors' \in BOOLEAN
    BY <1>4, Zenon DEF ReadReply, CommandDone, CommandFailed
  <2> QED BY <2>1, <2>2
<1>5. CASE CommandError
  <2>1. /\ marker' \in BOOLEAN /\ tracking' \in BOOLEAN /\ tracked' \in BOOLEAN
        /\ sameClient' \in BOOLEAN /\ restarted' \in BOOLEAN /\ pubsubUp' \in BOOLEAN
        /\ trackingSub' \in BOOLEAN /\ ctxDone' \in BOOLEAN /\ stopped' \in BOOLEAN
        /\ refreshMarker' \in BOOLEAN /\ trackingOverflow' \in BOOLEAN
        /\ announced' \in BOOLEAN /\ missed' \in BOOLEAN
    BY <1>5, SMT DEF CommandError, CommandFailed
  <2>2. /\ up' \in BOOLEAN /\ sent' \in BOOLEAN /\ trackingErrors' \in BOOLEAN
    BY <1>5, Zenon DEF CommandError, CommandFailed
  <2> QED BY <2>1, <2>2
<1>6. CASE MonitorRefresh \/ MonitorTick \/ MonitorStop
  <2>1. /\ marker' \in BOOLEAN /\ tracking' \in BOOLEAN /\ tracked' \in BOOLEAN
        /\ up' \in BOOLEAN /\ sameClient' \in BOOLEAN /\ restarted' \in BOOLEAN
        /\ pubsubUp' \in BOOLEAN /\ trackingSub' \in BOOLEAN /\ ctxDone' \in BOOLEAN
        /\ stopped' \in BOOLEAN /\ sent' \in BOOLEAN /\ trackingOverflow' \in BOOLEAN
        /\ trackingErrors' \in BOOLEAN
        /\ announced' \in BOOLEAN /\ missed' \in BOOLEAN
    BY <1>6, SMT DEF MonitorRefresh, MonitorRest, MonitorTick, MonitorStop
  <2>2. /\ refreshMarker' \in BOOLEAN
    BY <1>6, Zenon DEF MonitorRefresh, MonitorRest, MonitorTick, MonitorStop
  <2> QED BY <2>1, <2>2
<1>7. CASE PubSubRead \/ PubSubError
  BY <1>7 DEF PubSubRead, ReceiverRest, PubSubError
<1>8. CASE PubSubSend \/ PubSubGiveUp
  BY <1>8 DEF PubSubSend, ReceiverRest, PubSubGiveUp
<1>9. CASE Subscribe \/ FlushL1
  <2>1. /\ marker' \in BOOLEAN /\ tracking' \in BOOLEAN /\ tracked' \in BOOLEAN
        /\ sameClient' \in BOOLEAN /\ restarted' \in BOOLEAN /\ stopped' \in BOOLEAN
        /\ sent' \in BOOLEAN /\ refreshMarker' \in BOOLEAN /\ trackingOverflow' \in BOOLEAN
        /\ trackingErrors' \in BOOLEAN
        /\ announced' \in BOOLEAN /\ missed' \in BOOLEAN
    BY <1>9, SMT DEF Subscribe, FlushL1
  <2>2. /\ up' \in BOOLEAN /\ pubsubUp' \in BOOLEAN /\ trackingSub' \in BOOLEAN
        /\ ctxDone' \in BOOLEAN
    BY <1>9, Zenon DEF Subscribe, FlushL1
  <2> QED BY <2>1, <2>2
<1>10. CASE ReceiveFirst \/ Receive
  <2>1. /\ marker' \in BOOLEAN /\ tracking' \in BOOLEAN /\ tracked' \in BOOLEAN
        /\ up' \in BOOLEAN /\ sameClient' \in BOOLEAN /\ restarted' \in BOOLEAN
        /\ pubsubUp' \in BOOLEAN /\ trackingSub' \in BOOLEAN /\ ctxDone' \in BOOLEAN
        /\ stopped' \in BOOLEAN /\ sent' \in BOOLEAN /\ refreshMarker' \in BOOLEAN
    BY <1>10, SMT DEF ReceiveFirst, ReceiveRest, Return, Receive
  <2>2. /\ trackingOverflow' \in BOOLEAN /\ trackingErrors' \in BOOLEAN
      /\ announced' \in BOOLEAN /\ missed' \in BOOLEAN
    BY <1>10, Zenon DEF ReceiveFirst, ReceiveRest, Return, Receive
  <2> QED BY <2>1, <2>2
<1>11. CASE CloseBegin
  <2>1. /\ marker' \in BOOLEAN /\ tracking' \in BOOLEAN /\ tracked' \in BOOLEAN
        /\ up' \in BOOLEAN /\ sameClient' \in BOOLEAN /\ restarted' \in BOOLEAN
        /\ trackingSub' \in BOOLEAN /\ stopped' \in BOOLEAN /\ sent' \in BOOLEAN
        /\ refreshMarker' \in BOOLEAN /\ trackingOverflow' \in BOOLEAN /\ trackingErrors' \in BOOLEAN
        /\ announced' \in BOOLEAN /\ missed' \in BOOLEAN
    BY <1>11, SMT DEF CloseBegin
  <2>2. /\ pubsubUp' \in BOOLEAN /\ ctxDone' \in BOOLEAN
    BY <1>11, Zenon DEF CloseBegin
  <2> QED BY <2>1, <2>2
<1>12. CASE CloseEnd
  <2>1. /\ marker' \in BOOLEAN /\ pubsubUp' \in BOOLEAN /\ ctxDone' \in BOOLEAN
        /\ stopped' \in BOOLEAN
        /\ announced' \in BOOLEAN /\ missed' \in BOOLEAN
    BY <1>12, SMT DEF CloseEnd, SlotFreed
  <2>2. /\ tracking' \in BOOLEAN /\ tracked' \in BOOLEAN /\ up' \in BOOLEAN
        /\ sameClient' \in BOOLEAN /\ restarted' \in BOOLEAN /\ trackingSub' \in BOOLEAN
        /\ sent' \in BOOLEAN /\ refreshMarker' \in BOOLEAN /\ trackingOverflow' \in BOOLEAN
        /\ trackingErrors' \in BOOLEAN
    BY <1>12, Zenon DEF CloseEnd, SlotFreed
  <2> QED BY <2>1, <2>2
<1>13. CASE ExternalFlush \/ MarkerChange
  <2>1. UNCHANGED <<tracking, up, sameClient, restarted, pubsubUp, trackingSub, ctxDone, stopped,
                    sent, refreshMarker, trackingOverflow, trackingErrors>>
    BY <1>13 DEF ExternalFlush, WorldRest, MarkerChange
  <2>2. /\ marker' \in BOOLEAN /\ tracked' \in BOOLEAN
        /\ announced' \in BOOLEAN /\ missed' \in BOOLEAN
    <3>1. CASE ExternalFlush
      BY <3>1, Zenon DEF ExternalFlush
    <3>2. CASE MarkerChange
      <4>1. marker' \in BOOLEAN /\ tracked' \in BOOLEAN
        BY <3>2, Zenon DEF MarkerChange
      <4>2. /\ announced' \in {announced, announced \/ sub = "receiving"}
            /\ missed' \in {missed, missed \/ sub = "receiving"}
        BY <3>2, Zenon DEF MarkerChange
      <4> QED BY <4>1, <4>2
    <3> QED BY <1>13, <3>1, <3>2
  <2> QED BY <2>1, <2>2
<1>14. CASE PeerMarker \/ MalformedPush
  <2>1. /\ tracking' \in BOOLEAN /\ up' \in BOOLEAN /\ sameClient' \in BOOLEAN
        /\ restarted' \in BOOLEAN /\ pubsubUp' \in BOOLEAN /\ trackingSub' \in BOOLEAN
        /\ ctxDone' \in BOOLEAN /\ stopped' \in BOOLEAN /\ sent' \in BOOLEAN
        /\ refreshMarker' \in BOOLEAN /\ trackingOverflow' \in BOOLEAN /\ trackingErrors' \in BOOLEAN
        /\ announced' \in BOOLEAN /\ missed' \in BOOLEAN
    BY <1>14, SMT DEF PeerMarker, SendPush, WorldRest, MalformedPush
  <2>2. /\ marker' \in BOOLEAN /\ tracked' \in BOOLEAN
    BY <1>14, Zenon DEF PeerMarker, SendPush, WorldRest, MalformedPush
  <2> QED BY <2>1, <2>2
<1>15. CASE Publish \/ BreakPubSub
  <2>1. /\ marker' \in BOOLEAN /\ tracking' \in BOOLEAN /\ tracked' \in BOOLEAN
        /\ up' \in BOOLEAN /\ sameClient' \in BOOLEAN /\ restarted' \in BOOLEAN
        /\ trackingSub' \in BOOLEAN /\ ctxDone' \in BOOLEAN /\ stopped' \in BOOLEAN
        /\ sent' \in BOOLEAN /\ refreshMarker' \in BOOLEAN /\ trackingOverflow' \in BOOLEAN
        /\ trackingErrors' \in BOOLEAN
        /\ announced' \in BOOLEAN /\ missed' \in BOOLEAN
    BY <1>15, SMT DEF Publish, BreakPubSub, LosePubSub
  <2>2. /\ pubsubUp' \in BOOLEAN
    BY <1>15, Zenon DEF Publish, BreakPubSub, LosePubSub
  <2> QED BY <2>1, <2>2
<1>16. CASE BreakTracking \/ Stop
  <2>1. /\ marker' \in BOOLEAN /\ sameClient' \in BOOLEAN /\ restarted' \in BOOLEAN
        /\ pubsubUp' \in BOOLEAN /\ trackingSub' \in BOOLEAN /\ ctxDone' \in BOOLEAN
        /\ sent' \in BOOLEAN /\ refreshMarker' \in BOOLEAN /\ trackingOverflow' \in BOOLEAN
        /\ trackingErrors' \in BOOLEAN
        /\ announced' \in BOOLEAN /\ missed' \in BOOLEAN
    BY <1>16, SMT DEF BreakTracking, Stop
  <2>2. /\ tracking' \in BOOLEAN /\ tracked' \in BOOLEAN /\ up' \in BOOLEAN
        /\ stopped' \in BOOLEAN
    BY <1>16, Zenon DEF BreakTracking, Stop
  <2> QED BY <2>1, <2>2
<1>17. CASE Restart
  <2>1. /\ sameClient' \in BOOLEAN /\ trackingSub' \in BOOLEAN /\ ctxDone' \in BOOLEAN
        /\ stopped' \in BOOLEAN /\ sent' \in BOOLEAN /\ refreshMarker' \in BOOLEAN
        /\ trackingOverflow' \in BOOLEAN /\ trackingErrors' \in BOOLEAN
        /\ announced' \in BOOLEAN /\ missed' \in BOOLEAN
    BY <1>17, SMT DEF Restart, LosePubSub
  <2>2. /\ marker' \in BOOLEAN /\ tracking' \in BOOLEAN /\ tracked' \in BOOLEAN
        /\ up' \in BOOLEAN /\ restarted' \in BOOLEAN /\ pubsubUp' \in BOOLEAN
    BY <1>17, Zenon DEF Restart, LosePubSub
  <2> QED BY <2>1, <2>2
<1> QED BY <1>1, <1>2, <1>3, <1>4, <1>5, <1>6, <1>7, <1>8, <1>9, <1>10, <1>11, <1>12, <1>13,
    <1>14, <1>15, <1>16, <1>17
    DEF Next, CommandStep, MonitorStep, ReceiverStep, SubscriberStep, World

LEMMA PlacesNext ==
  ASSUME PlacesOK, SentOK, Next
  PROVE  PlacesOK' /\ SentOK'
<1> USE DEF PlacesOK, Commands, SentOK, redisVars, pubsubVars, subVars, goVars,
    chanVars, historyVars, Fault, Turn
<1>1. CASE Execute
  BY <1>1, BusAssumption DEF Execute
<1>2. CASE Reconnect
  BY <1>2, BusAssumption DEF Reconnect
<1>3. CASE HandlePush
  BY <1>3, BusAssumption DEF HandlePush, Enqueue
<1>4. CASE ReadReply
  <2>1. tr \in Commands
    BY <1>4 DEF ReadReply, SentOK
  <2>2. CASE CommandDone
    <3>1. /\ tr' \in {"track", "setnx", "get", "select"} /\ sub' \in {sub, "subscribed"}
          /\ rcv' \in {rcv, "read"}
      BY <2>1, <2>2 DEF CommandDone
    <3>2. sent' = FALSE /\ UNCHANGED <<rx, turns>>
      BY <1>4 DEF ReadReply
    <3> QED BY <3>1, <3>2 DEF SentOK
  <2>3. CASE CommandFailed(TRUE) /\ UNCHANGED <<rcv, refreshMarker>>
    <3>1. tr' \in {"off", "done"} /\ sub' \in {sub, "closing"}
      BY <2>3 DEF CommandFailed
    <3>2. sent' = FALSE /\ UNCHANGED <<rcv, rx, turns>>
      BY <1>4, <2>3 DEF ReadReply
    <3> QED BY <3>1, <3>2 DEF SentOK
  <2> QED BY <1>4, <2>2, <2>3 DEF ReadReply
<1>5. CASE CommandError
  BY <1>5, BusAssumption DEF CommandError, CommandFailed
<1>6. CASE MonitorRefresh \/ MonitorTick \/ MonitorStop
  BY <1>6, BusAssumption DEF MonitorRefresh, MonitorRest, MonitorTick, MonitorStop
<1>7. CASE PubSubRead \/ PubSubError
  BY <1>7, BusAssumption DEF PubSubRead, ReceiverRest, PubSubError
<1>8. CASE PubSubSend \/ PubSubGiveUp
  BY <1>8, BusAssumption DEF PubSubSend, ReceiverRest, PubSubGiveUp
<1>9. CASE Subscribe \/ FlushL1
  BY <1>9, BusAssumption DEF Subscribe, FlushL1
<1>10. CASE ReceiveFirst \/ Receive
  BY <1>10, BusAssumption DEF ReceiveFirst, ReceiveRest, Return, Receive
<1>11. CASE CloseBegin \/ CloseEnd
  BY <1>11, BusAssumption DEF CloseBegin, CloseEnd, SlotFreed
<1>12. CASE ExternalFlush \/ MarkerChange
  <2>1. Turn /\ UNCHANGED <<sub, tr, rcv, rx, sent, up>>
    BY <1>12 DEF ExternalFlush, WorldRest, MarkerChange
  <2>2. turns' \in 0..MaxTurns
    BY <2>1, BusAssumption DEF Turn
  <2> QED BY <2>1, <2>2
<1>13. CASE PeerMarker \/ MalformedPush
  BY <1>13, BusAssumption DEF PeerMarker, SendPush, WorldRest, MalformedPush
<1>14. CASE Publish \/ BreakPubSub
  BY <1>14, BusAssumption DEF Publish, BreakPubSub, LosePubSub
<1>15. CASE BreakTracking \/ Stop
  BY <1>15, BusAssumption DEF BreakTracking, Stop
<1>16. CASE Restart
  BY <1>16, BusAssumption DEF Restart, LosePubSub
<1> QED BY <1>1, <1>2, <1>3, <1>4, <1>5, <1>6, <1>7, <1>8, <1>9, <1>10, <1>11, <1>12, <1>13,
    <1>14, <1>15, <1>16
    DEF Next, CommandStep, MonitorStep, ReceiverStep, SubscriberStep, World

LEMMA QueuesNext ==
  ASSUME QueuesOK, Flags, Next
  PROVE  QueuesOK'
<1> USE DEF QueuesOK, Message, redisVars, pubsubVars, subVars, goVars, chanVars, historyVars
<1>1. CASE Execute
  <2>1. PICK ok \in BOOLEAN : stream' = Append(stream, [kind |-> "reply", ok |-> ok])
    BY <1>1 DEF Execute, Flags
  <2>2. [kind |-> "reply", ok |-> ok] \in Push \cup Reply
    BY DEF Reply
  <2>3. stream' \in Seq(Push \cup Reply)
    BY <2>1, <2>2, Sequences
  <2> QED BY <1>1, <2>3 DEF Execute
<1>2. CASE Reconnect
  BY <1>2, BusAssumption, Sequences, HasTail DEF Reconnect
<1>3. CASE HandlePush
  <2>1. stream' \in Seq(Push \cup Reply)
    BY <1>3, HasTail DEF HandlePush
  <2>2. ASSUME NEW x \in {Flush, Error}, Enqueue(x)
        PROVE  trackingMessages' \in Seq({Flush, Error}) /\ Len(trackingMessages') <= TrackingBuffer
    <3>1. CASE Len(trackingMessages) < TrackingBuffer
      <4>1. /\ Append(trackingMessages, x) \in Seq({Flush, Error}) /\ Len(trackingMessages) \in Nat
            /\ Len(Append(trackingMessages, x)) = Len(trackingMessages) + 1
        BY Sequences
      <4>2. trackingMessages' = Append(trackingMessages, x)
        BY <2>2, <3>1 DEF Enqueue
      <4> QED BY <3>1, <4>1, <4>2, BusAssumption
    <3>2. CASE ~(Len(trackingMessages) < TrackingBuffer)
      BY <2>2, <3>2 DEF Enqueue
    <3> QED BY <3>1, <3>2
  <2>3. Enqueue(Flush) \/ Enqueue(Error)
    BY <1>3 DEF HandlePush
  <2>4. UNCHANGED <<channel, out, pubsubMessages>>
    BY <1>3 DEF HandlePush
  <2> QED BY <2>1, <2>2, <2>3, <2>4
<1>4. CASE ReadReply
  BY <1>4, BusAssumption, Sequences, HasTail DEF ReadReply, CommandDone, CommandFailed
<1>5. CASE CommandError
  BY <1>5, BusAssumption, Sequences, HasTail DEF CommandError, CommandFailed
<1>6. CASE MonitorRefresh \/ MonitorTick \/ MonitorStop
  <2>1. UNCHANGED <<stream, channel, out, trackingMessages, pubsubMessages>>
    BY <1>6 DEF MonitorRefresh, MonitorTick, MonitorStop, MonitorRest
  <2> QED
    BY <2>1
<1>7. CASE PubSubRead \/ PubSubError
  <2>1. UNCHANGED <<stream, trackingMessages, pubsubMessages>>
    BY <1>7 DEF PubSubRead, ReceiverRest, PubSubError
  <2>2. channel' \in Seq(Message) /\ out' \in Message
    <3>1. CASE PubSubRead
      <4>1. Head(channel) \in Message /\ Tail(channel) \in Seq(Message)
        BY <3>1 DEF PubSubRead
      <4> QED
        BY <3>1, <4>1 DEF PubSubRead
    <3>2. CASE PubSubError
      BY <3>2 DEF PubSubError
    <3> QED
      BY <1>7, <3>1, <3>2
  <2> QED
    BY <2>1, <2>2
<1>8. CASE PubSubSend
  BY <1>8, BusAssumption, Sequences, HasTail DEF PubSubSend, ReceiverRest
<1>9. CASE PubSubGiveUp
  BY <1>9, BusAssumption, Sequences, HasTail DEF PubSubGiveUp, ReceiverRest
<1>10. CASE Subscribe \/ FlushL1
  BY <1>10, BusAssumption, Sequences, HasTail DEF Subscribe, FlushL1
<1>11. CASE ReceiveFirst
  BY <1>11, BusAssumption, Sequences, HasTail DEF ReceiveFirst, ReceiveRest, Return
<1>12. CASE Receive
  <2>1. UNCHANGED <<stream, channel, out>>
    BY <1>12 DEF Receive, ReceiveRest
  <2>2. pubsubMessages' = pubsubMessages
        \/ (pubsubMessages # <<>> /\ pubsubMessages' = Tail(pubsubMessages))
    BY <1>12 DEF Receive
  <2>3. trackingMessages' = trackingMessages
        \/ (trackingMessages # <<>> /\ trackingMessages' = Tail(trackingMessages))
    BY <1>12 DEF Receive
  <2>4. pubsubMessages' \in Seq(Message) /\ Len(pubsubMessages') <= 1
    BY <2>2, HasTail
  <2>5. ASSUME trackingMessages # <<>>
        PROVE  /\ Tail(trackingMessages) \in Seq({Flush, Error})
               /\ Len(Tail(trackingMessages)) <= TrackingBuffer
    <3>1. /\ Tail(trackingMessages) \in Seq({Flush, Error})
          /\ Len(Tail(trackingMessages)) = Len(trackingMessages) - 1
      BY <2>5, HasTail
    <3>2. Len(trackingMessages) \in Nat
      BY Sequences
    <3> QED BY <3>1, <3>2, BusAssumption
  <2>6. trackingMessages' \in Seq({Flush, Error}) /\ Len(trackingMessages') <= TrackingBuffer
    BY <2>3, <2>5
  <2> QED BY <2>1, <2>4, <2>6
<1>13. CASE CloseBegin
  BY <1>13, BusAssumption, Sequences, HasTail DEF CloseBegin
<1>14. CASE CloseEnd
  BY <1>14, BusAssumption, Sequences, HasTail DEF CloseEnd, SlotFreed
<1>15. CASE ExternalFlush
  <2>1. stream' = stream \/ stream' = Append(stream, [kind |-> "reset"])
    BY <1>15 DEF ExternalFlush, SendPush
  <2>2. stream' \in Seq(Push \cup Reply)
    BY <2>1, Sequences DEF Push
  <2> QED BY <1>15, <2>2 DEF ExternalFlush, WorldRest
<1>16. CASE MarkerChange
  <2>1. stream' = stream \/ stream' = Append(stream, [kind |-> "reset"])
    BY <1>16 DEF MarkerChange, SendPush
  <2>2. stream' \in Seq(Push \cup Reply)
    BY <2>1, Sequences DEF Push
  <2> QED BY <1>16, <2>2 DEF MarkerChange, WorldRest
<1>17. CASE PeerMarker
  <2>1. stream' = stream \/ stream' = Append(stream, [kind |-> "reset"])
    BY <1>17 DEF PeerMarker, SendPush
  <2>2. stream' \in Seq(Push \cup Reply)
    BY <2>1, Sequences DEF Push
  <2> QED BY <1>17, <2>2 DEF PeerMarker, WorldRest
<1>18. CASE MalformedPush
  <2>1. stream' = stream \/ stream' = Append(stream, [kind |-> "malformed"])
    BY <1>18 DEF MalformedPush, SendPush
  <2>2. stream' \in Seq(Push \cup Reply)
    BY <2>1, Sequences DEF Push
  <2> QED BY <1>18, <2>2 DEF MalformedPush, WorldRest
<1>19. CASE Publish
  <2>1. PICK m \in Message : channel' = Append(channel, m)
    BY <1>19 DEF Publish
  <2>2. channel' \in Seq(Message)
    BY <2>1, Sequences
  <2> QED BY <1>19, <2>2 DEF Publish
<1>20. CASE BreakPubSub
  BY <1>20, BusAssumption, Sequences, HasTail DEF BreakPubSub, LosePubSub
<1>21. CASE BreakTracking \/ Stop
  BY <1>21, BusAssumption, Sequences, HasTail DEF BreakTracking, Stop
<1>22. CASE Restart
  BY <1>22, BusAssumption, Sequences, HasTail DEF Restart, LosePubSub
<1> QED BY <1>1, <1>2, <1>3, <1>4, <1>5, <1>6, <1>7, <1>8, <1>9, <1>10, <1>11, <1>12, <1>13,
    <1>14, <1>15, <1>16, <1>17, <1>18, <1>19, <1>20, <1>21, <1>22
    DEF Next, CommandStep, MonitorStep, ReceiverStep, SubscriberStep, World

LEMMA TypeInit == Init => TypeOK /\ SentOK
<1> SUFFICES ASSUME Init PROVE TypeOK /\ SentOK
  OBVIOUS
<1>1. Flags
  <2>1. /\ marker \in BOOLEAN /\ tracking \in BOOLEAN /\ tracked \in BOOLEAN /\ up \in BOOLEAN
        /\ sameClient \in BOOLEAN /\ restarted \in BOOLEAN /\ pubsubUp \in BOOLEAN
    BY Zenon DEF Init
  <2>2. /\ trackingSub \in BOOLEAN /\ ctxDone \in BOOLEAN /\ stopped \in BOOLEAN /\ sent \in BOOLEAN
        /\ refreshMarker \in BOOLEAN /\ trackingOverflow \in BOOLEAN
        /\ trackingErrors \in BOOLEAN
        /\ announced \in BOOLEAN /\ missed \in BOOLEAN
    BY Zenon DEF Init
  <2> QED BY <2>1, <2>2 DEF Flags
<1>2. PlacesOK /\ SentOK
  BY BusAssumption DEF Init, PlacesOK, SentOK
<1>3. QueuesOK
  <2>1. stream \in Seq(Push \cup Reply) /\ channel \in Seq(Message) /\ out \in Message
    BY DEF Init, Message
  <2>2. /\ trackingMessages \in Seq({Flush, Error}) /\ Len(trackingMessages) <= TrackingBuffer
        /\ pubsubMessages \in Seq(Message) /\ Len(pubsubMessages) <= 1
    BY BusAssumption DEF Init
  <2> QED BY <2>1, <2>2 DEF QueuesOK
<1> QED BY <1>1, <1>2, <1>3, Parts

LEMMA TypeNext == TypeOK /\ SentOK /\ [Next]_vars => TypeOK' /\ SentOK'
<1>1. ASSUME TypeOK, SentOK, UNCHANGED vars PROVE TypeOK' /\ SentOK'
  BY <1>1 DEF TypeOK, SentOK, vars, redisVars, pubsubVars, subVars, goVars, chanVars, historyVars
<1>2. ASSUME TypeOK, SentOK, Next PROVE TypeOK' /\ SentOK'
  <2>1. Flags /\ PlacesOK /\ QueuesOK
    BY <1>2, Parts
  <2>2. Flags' /\ PlacesOK' /\ SentOK' /\ QueuesOK'
    BY <1>2, <2>1, FlagsNext, PlacesNext, QueuesNext
  <2> QED BY <2>2 DEF Flags, PlacesOK, QueuesOK, TypeOK
<1> QED BY <1>1, <1>2

(* Every channel stays within its buffer, every goroutine in its place. *)
THEOREM BusTyped == Spec => []TypeOK
<1>1. TypeOK /\ SentOK /\ [Next]_vars => (TypeOK /\ SentOK)'
  BY TypeNext
<1> QED BY TypeInit, <1>1, PTL DEF Spec

(***************************************************************************)
(* Signals.                                                                *)
(***************************************************************************)
LEMMA Dead == Places /\ IsOpen /\ (~up \/ ~sameClient \/ ~pubsubUp) => ErrorComing
  BY DEF Places, ErrorComing, PubSubBreaks, TrackingBreaks

LEMMA DeadNext ==
  Places' /\ IsOpen' /\ (~up' \/ ~sameClient' \/ ~pubsubUp' \/ tr' = "done") => ErrorComing'
  BY DEF Places, ErrorComing, PubSubBreaks, TrackingBreaks

LEMMA PlacesStay ==
  ASSUME TypeOK, SentOK, Places, Next
  PROVE  Places'
<1> USE DEF Places, IsOpen, redisVars, pubsubVars, subVars, goVars, chanVars, historyVars, CtxDone,
    GivesUp, Commands, PlacesOK
<1>1. CASE Execute
  BY <1>1, Parts DEF Execute
<1>2. CASE Reconnect
  BY <1>2, Parts DEF Reconnect
<1>3. CASE HandlePush
  BY <1>3, Parts DEF HandlePush, Enqueue
<1>4. CASE ReadReply
  <2>1. tr \in Commands
    BY <1>4 DEF ReadReply, SentOK
  <2>2. CASE CommandDone
    BY <1>4, <2>1, <2>2 DEF ReadReply, CommandDone
  <2>3. CASE CommandFailed(TRUE) /\ UNCHANGED <<rcv, refreshMarker>>
    BY <1>4, <2>1, <2>3 DEF ReadReply, CommandFailed
  <2> QED BY <1>4, <2>2, <2>3 DEF ReadReply
<1>5. CASE CommandError
  BY <1>5, Parts DEF CommandError, CommandFailed
<1>6. CASE MonitorRefresh \/ MonitorTick \/ MonitorStop
  BY <1>6, Parts DEF MonitorRefresh, MonitorRest, MonitorTick, MonitorStop
<1>7. CASE PubSubRead \/ PubSubError
  BY <1>7, Parts DEF PubSubRead, ReceiverRest, PubSubError
<1>8. CASE PubSubSend
  <2>1. Has(pubsubMessages', Error) <=> out = Error
    BY <1>8, HasFew DEF PubSubSend
  <2> QED BY <1>8, <2>1 DEF PubSubSend, ReceiverRest
<1>9. CASE PubSubGiveUp
  BY <1>9, Parts DEF PubSubGiveUp, ReceiverRest
<1>10. CASE Subscribe \/ FlushL1
  BY <1>10, Parts DEF Subscribe, FlushL1
<1>11. CASE ReceiveFirst
  <2>1. ASSUME trackingErrors PROVE sub' = "closing" /\ ~announced'
    BY <1>11, <2>1, BusAssumption DEF ReceiveFirst, Return
  <2> QED BY <1>11, <2>1 DEF ReceiveFirst, ReceiveRest
<1>12. CASE Receive
  <2>1. ASSUME Return(Error) PROVE sub' = "closing" /\ ~announced'
    BY <2>1, BusAssumption DEF Return
  <2>2. ASSUME NEW r, r # Error, Return(r) PROVE sub' = sub /\ (announced' => announced)
    BY <2>2 DEF Return
  <2>3. pubsubMessages # <<>> =>
            (Has(pubsubMessages, Error) <=>
                Head(pubsubMessages) = Error \/ Has(Tail(pubsubMessages), Error))
    BY HasTail, Parts DEF QueuesOK
  <2>4. Flush # Error
    BY BusAssumption
  <2>5. \/ sub' = "closing" /\ ~announced'
        \/ /\ sub' = sub /\ (announced' => announced)
           /\ (Has(pubsubMessages, Error) => Has(pubsubMessages', Error))
           /\ (trackingErrors => trackingErrors')
    BY <1>12, <2>1, <2>2, <2>3, <2>4 DEF Receive
  <2> QED BY <1>12, <2>5 DEF Receive, ReceiveRest
<1>13. CASE CloseBegin \/ CloseEnd
  BY <1>13, Parts DEF CloseBegin, CloseEnd, SlotFreed
<1>14. CASE ExternalFlush
  BY <1>14, Parts DEF ExternalFlush, SendPush, WorldRest
<1>15. CASE MarkerChange
  BY <1>15, Parts DEF MarkerChange, SendPush, WorldRest
<1>16. CASE PeerMarker \/ MalformedPush
  BY <1>16, Parts DEF PeerMarker, SendPush, WorldRest, MalformedPush
<1>17. CASE Publish \/ BreakPubSub
  BY <1>17, Parts DEF Publish, BreakPubSub, LosePubSub
<1>18. CASE BreakTracking \/ Stop
  BY <1>18, Parts DEF BreakTracking, Stop
<1>19. CASE Restart
  BY <1>19, Parts DEF Restart, LosePubSub
<1> QED BY <1>1, <1>2, <1>3, <1>4, <1>5, <1>6, <1>7, <1>8, <1>9, <1>10, <1>11, <1>12, <1>13,
    <1>14, <1>15, <1>16, <1>17, <1>18, <1>19
    DEF Next, CommandStep, MonitorStep, ReceiverStep, SubscriberStep, World

(* While the subscription is open an error that is coming stays so. *)
LEMMA ErrorStays ==
  ASSUME TypeOK, SentOK, Places, Places', Restarted, IsOpen, IsOpen', ErrorComing, Next
  PROVE  ErrorComing'
<1> USE DEF Places, IsOpen, ErrorComing, PubSubBreaks, TrackingBreaks, redisVars,
    pubsubVars, subVars, goVars, chanVars, historyVars, CtxDone, GivesUp
<1>1. CASE Execute
  BY <1>1 DEF Execute
<1>2. CASE Reconnect
  <2>1. ~sameClient' \/ ~pubsubUp'
    BY <1>2 DEF Reconnect, Restarted
  <2> QED BY <2>1, DeadNext
<1>3. CASE HandlePush
  <2>1. ASSUME NEW x, Enqueue(x), Has(trackingMessages, Error)
        PROVE  Has(trackingMessages', Error)
    <3>1. trackingMessages \in Seq({Flush, Error})
      BY Parts DEF QueuesOK
    <3>2. Has(Append(trackingMessages, x), Error)
      BY <2>1, <3>1, HasAppend
    <3> QED BY <2>1, <3>2 DEF Enqueue
  <2>2. Has(trackingMessages, Error) => Has(trackingMessages', Error)
    BY <1>3, <2>1 DEF HandlePush
  <2> QED BY <1>3, <2>2 DEF HandlePush
<1>4. CASE ReadReply
  <2>1. tr \in Commands
    BY <1>4 DEF ReadReply, SentOK
  <2>2. CASE CommandDone
    BY <1>4, <2>1, <2>2 DEF ReadReply, CommandDone
  <2>3. CASE CommandFailed(TRUE) /\ UNCHANGED <<rcv, refreshMarker>>
    BY <1>4, <2>1, <2>3 DEF ReadReply, CommandFailed
  <2> QED BY <1>4, <2>2, <2>3 DEF ReadReply
<1>5. CASE CommandError
  BY <1>5 DEF CommandError, CommandFailed
<1>6. CASE MonitorRefresh \/ MonitorTick \/ MonitorStop
  BY <1>6 DEF MonitorRefresh, MonitorRest, MonitorTick, MonitorStop
<1>7. CASE PubSubRead
  <2>1. Has(channel, Error) => out' = Error \/ Has(channel', Error)
    BY <1>7, HasTail, Parts DEF PubSubRead, QueuesOK
  <2> QED BY <1>7, <2>1 DEF PubSubRead, ReceiverRest
<1>8. CASE PubSubError
  BY <1>8 DEF PubSubError, ReceiverRest
<1>9. CASE PubSubSend
  <2>1. /\ Has(pubsubMessages', Error) <=> out = Error
        /\ ~Has(pubsubMessages, Error)
    BY <1>9, HasFew DEF PubSubSend
  <2> QED BY <1>9, <2>1 DEF PubSubSend, ReceiverRest
<1>10. CASE PubSubGiveUp
  BY <1>10 DEF PubSubGiveUp, ReceiverRest
<1>11. CASE Subscribe \/ FlushL1
  BY <1>11 DEF Subscribe, FlushL1
<1>12. CASE ReceiveFirst
  <2>1. trackingErrors => sub' = "closing"
    BY <1>12 DEF ReceiveFirst, Return
  <2> QED BY <1>12, <2>1 DEF ReceiveFirst, ReceiveRest
<1>13. CASE Receive
  <2>1. ASSUME Return(Error) PROVE sub' = "closing"
    BY <2>1 DEF Return
  <2>2. /\ pubsubMessages # <<>> =>
            (Has(pubsubMessages, Error) <=>
                Head(pubsubMessages) = Error \/ Has(Tail(pubsubMessages), Error))
        /\ trackingMessages # <<>> =>
            (Has(trackingMessages, Error) <=>
                Head(trackingMessages) = Error \/ Has(Tail(trackingMessages), Error))
    BY HasTail, Parts DEF QueuesOK
  <2>3. Has(pubsubMessages, Error) => Has(pubsubMessages', Error)
    BY <1>13, <2>1, <2>2 DEF Receive
  <2>4. Has(trackingMessages, Error) => Has(trackingMessages', Error)
    BY <1>13, <2>1, <2>2 DEF Receive
  <2>5. trackingErrors => trackingErrors'
    BY <1>13, <2>1 DEF Receive
  <2> QED BY <1>13, <2>3, <2>4, <2>5 DEF Receive, ReceiveRest
<1>14. CASE CloseBegin \/ CloseEnd
  BY <1>14 DEF CloseBegin, CloseEnd, SlotFreed
<1>15. CASE ExternalFlush \/ MarkerChange
  BY <1>15 DEF ExternalFlush, SendPush, WorldRest, MarkerChange
<1>16. CASE PeerMarker \/ MalformedPush
  BY <1>16 DEF PeerMarker, SendPush, WorldRest, MalformedPush
<1>17. CASE Publish
  <2>1. PICK m : channel' = Append(channel, m)
    BY <1>17 DEF Publish
  <2>2. channel \in Seq(Message)
    BY Parts DEF QueuesOK
  <2>3. Has(channel, Error) => Has(channel', Error)
    BY <2>1, <2>2, HasAppend
  <2> QED BY <1>17, <2>3 DEF Publish
<1>18. CASE BreakPubSub
  BY <1>18 DEF BreakPubSub, LosePubSub
<1>19. CASE BreakTracking \/ Stop
  BY <1>19 DEF BreakTracking, Stop
<1>20. CASE Restart
  BY <1>20 DEF Restart, LosePubSub
<1> QED BY <1>1, <1>2, <1>3, <1>4, <1>5, <1>6, <1>7, <1>8, <1>9, <1>10, <1>11, <1>12, <1>13,
    <1>14, <1>15, <1>16, <1>17, <1>18, <1>19, <1>20
    DEF Next, CommandStep, MonitorStep, ReceiverStep, SubscriberStep, World

(* Nothing is forgotten of a restart. *)
LEMMA RestartedStays ==
  ASSUME TypeOK, SentOK, Places, Restarted, Next
  PROVE  Restarted'
<1> USE DEF Places, IsOpen, Restarted, redisVars, pubsubVars, subVars, goVars, chanVars, historyVars
<1>1. CASE Execute
  BY <1>1 DEF Execute
<1>2. CASE Reconnect
  BY <1>2 DEF Reconnect
<1>3. CASE HandlePush
  BY <1>3 DEF HandlePush, Enqueue
<1>4. CASE ReadReply
  <2>1. tr \in Commands
    BY <1>4 DEF ReadReply, SentOK
  <2>2. CASE CommandDone
    BY <1>4, <2>1, <2>2 DEF ReadReply, CommandDone
  <2>3. CASE CommandFailed(TRUE) /\ UNCHANGED <<rcv, refreshMarker>>
    BY <1>4, <2>1, <2>3 DEF ReadReply, CommandFailed
  <2> QED BY <1>4, <2>2, <2>3 DEF ReadReply
<1>5. CASE CommandError
  BY <1>5 DEF CommandError, CommandFailed
<1>6. CASE MonitorRefresh \/ MonitorTick \/ MonitorStop
  BY <1>6 DEF MonitorRefresh, MonitorRest, MonitorTick, MonitorStop
<1>7. CASE PubSubRead \/ PubSubError
  BY <1>7 DEF PubSubRead, ReceiverRest, PubSubError
<1>8. CASE PubSubSend \/ PubSubGiveUp
  BY <1>8 DEF PubSubSend, ReceiverRest, PubSubGiveUp
<1>9. CASE Subscribe
  <2>1. tr = "off"
    BY <1>9 DEF Subscribe
  <2>2. ~sent
    BY <2>1 DEF SentOK, Commands
  <2> QED BY <1>9, <2>2 DEF Subscribe
<1>10. CASE FlushL1
  BY <1>10 DEF FlushL1
<1>11. CASE ReceiveFirst \/ Receive
  BY <1>11 DEF ReceiveFirst, ReceiveRest, Return, Receive
<1>12. CASE CloseBegin \/ CloseEnd
  BY <1>12 DEF CloseBegin, CloseEnd, SlotFreed
<1>13. CASE ExternalFlush \/ MarkerChange
  BY <1>13 DEF ExternalFlush, SendPush, WorldRest, MarkerChange
<1>14. CASE PeerMarker \/ MalformedPush
  BY <1>14 DEF PeerMarker, SendPush, WorldRest, MalformedPush
<1>15. CASE Publish \/ BreakPubSub
  BY <1>15 DEF Publish, BreakPubSub, LosePubSub
<1>16. CASE BreakTracking \/ Stop
  BY <1>16 DEF BreakTracking, Stop
<1>17. CASE Restart
  BY <1>17 DEF Restart, LosePubSub
<1> QED BY <1>1, <1>2, <1>3, <1>4, <1>5, <1>6, <1>7, <1>8, <1>9, <1>10, <1>11, <1>12, <1>13,
    <1>14, <1>15, <1>16, <1>17
    DEF Next, CommandStep, MonitorStep, ReceiverStep, SubscriberStep, World

LEMMA TrackingStays ==
  ASSUME TypeOK, SentOK, Places, Restarted, Tracking, Next
  PROVE  Tracking'
<1> USE DEF Places, IsOpen, Restarted, Tracking, SentOK, Commands, redisVars, pubsubVars,
    subVars, goVars, chanVars, historyVars
<1>1. CASE Execute
  BY <1>1 DEF Execute
<1>2. CASE Reconnect
  BY <1>2 DEF Reconnect
<1>3. CASE HandlePush
  BY <1>3 DEF HandlePush, Enqueue
<1>4. CASE ReadReply
  <2>1. tr \in Commands
    BY <1>4 DEF ReadReply, SentOK
  <2>2. CASE CommandDone
    BY <1>4, <2>1, <2>2 DEF ReadReply, CommandDone
  <2>3. CASE CommandFailed(TRUE) /\ UNCHANGED <<rcv, refreshMarker>>
    BY <1>4, <2>1, <2>3 DEF ReadReply, CommandFailed
  <2> QED BY <1>4, <2>2, <2>3 DEF ReadReply
<1>5. CASE CommandError
  BY <1>5 DEF CommandError, CommandFailed
<1>6. CASE MonitorRefresh \/ MonitorTick \/ MonitorStop
  BY <1>6 DEF MonitorRefresh, MonitorRest, MonitorTick, MonitorStop
<1>7. CASE PubSubRead \/ PubSubError
  BY <1>7 DEF PubSubRead, ReceiverRest, PubSubError
<1>8. CASE PubSubSend \/ PubSubGiveUp
  BY <1>8 DEF PubSubSend, ReceiverRest, PubSubGiveUp
<1>9. CASE Subscribe
  <2>1. sub' = "subscribing" /\ tr' = "id"
    BY <1>9 DEF Subscribe
  <2> QED BY <2>1
<1>10. CASE FlushL1
  BY <1>10 DEF FlushL1
<1>11. CASE ReceiveFirst \/ Receive
  BY <1>11 DEF ReceiveFirst, ReceiveRest, Return, Receive
<1>12. CASE CloseBegin \/ CloseEnd
  BY <1>12 DEF CloseBegin, CloseEnd, SlotFreed
<1>13. CASE ExternalFlush \/ MarkerChange
  <2>1. UNCHANGED <<tracking, up, sameClient, pubsubUp, sub, tr, sent>>
    BY <1>13 DEF ExternalFlush, WorldRest, MarkerChange
  <2> QED BY <2>1
<1>14. CASE PeerMarker \/ MalformedPush
  BY <1>14 DEF PeerMarker, SendPush, WorldRest, MalformedPush
<1>15. CASE Publish \/ BreakPubSub
  BY <1>15 DEF Publish, BreakPubSub, LosePubSub
<1>16. CASE BreakTracking \/ Stop
  BY <1>16 DEF BreakTracking, Stop
<1>17. CASE Restart
  BY <1>17 DEF Restart, LosePubSub
<1> QED BY <1>1, <1>2, <1>3, <1>4, <1>5, <1>6, <1>7, <1>8, <1>9, <1>10, <1>11, <1>12, <1>13,
    <1>14, <1>15, <1>16, <1>17
    DEF Next, CommandStep, MonitorStep, ReceiverStep, SubscriberStep, World

(* A reset that was sent is handled, or the connection is lost.              *)
LEMMA StreamHas ==
  ASSUME TypeOK
  PROVE  /\ \A x : Has(Append(stream, x), [kind |-> "reset"])
                   <=> ResetSent \/ x = [kind |-> "reset"]
         /\ stream # <<>> /\ Head(stream).kind # "reset" =>
                (ResetSent => Has(Tail(stream), [kind |-> "reset"]))
<1>1. stream \in Seq(Push \cup Reply)
  BY Parts DEF QueuesOK
<1>2. \A x : Has(Append(stream, x), [kind |-> "reset"])
               <=> Has(stream, [kind |-> "reset"]) \/ x = [kind |-> "reset"]
  BY <1>1, HasAppend
<1>3. ASSUME stream # <<>>, Head(stream).kind # "reset"
      PROVE  Has(stream, [kind |-> "reset"]) => Has(Tail(stream), [kind |-> "reset"])
  <2>1. Has(stream, [kind |-> "reset"]) =>
            Head(stream) = [kind |-> "reset"] \/ Has(Tail(stream), [kind |-> "reset"])
    BY <1>1, <1>3, HasTail
  <2>2. Head(stream) # [kind |-> "reset"]
    BY <1>3
  <2> QED BY <2>1, <2>2
<1> QED BY <1>2, <1>3 DEF ResetSent

LEMMA ResetStays ==
  ASSUME TypeOK, ResetSent, Next
  PROVE  \/ ResetSent' \/ ~up \/ ~up' \/ sub' = "out"
         \/ refreshMarker' /\ (trackingOverflow' \/ Has(trackingMessages', Flush))
<1> USE DEF ResetSent, redisVars, pubsubVars, subVars, goVars, chanVars, historyVars
<1>1. CASE Execute
  <2>1. PICK x : stream' = Append(stream, x)
    BY <1>1 DEF Execute
  <2> QED BY <2>1, StreamHas DEF ResetSent
<1>2. CASE Reconnect
  BY <1>2 DEF Reconnect
<1>3. CASE HandlePush
  <2>1. CASE Head(stream).kind = "reset"
    <3>1. refreshMarker' /\ Enqueue(Flush)
      BY <1>3, <2>1 DEF HandlePush
    <3>2. CASE Len(trackingMessages) < TrackingBuffer
      <4>1. trackingMessages \in Seq({Flush, Error})
        BY Parts DEF QueuesOK
      <4>2. Has(Append(trackingMessages, Flush), Flush)
        BY <4>1, HasAppend
      <4>3. trackingMessages' = Append(trackingMessages, Flush)
        BY <3>1, <3>2 DEF Enqueue
      <4> QED BY <3>1, <4>2, <4>3
    <3>3. CASE ~(Len(trackingMessages) < TrackingBuffer)
      BY <3>1, <3>3 DEF Enqueue
    <3> QED BY <3>1, <3>2, <3>3
  <2>2. CASE Head(stream).kind # "reset"
    <3>1. stream # <<>> /\ stream' = Tail(stream)
      BY <1>3 DEF HandlePush
    <3> QED BY <2>2, <3>1, StreamHas DEF ResetSent
  <2> QED BY <2>1, <2>2
<1>4. CASE ReadReply
  <2>1. stream # <<>> /\ stream' = Tail(stream) /\ Head(stream).kind # "reset"
    BY <1>4 DEF ReadReply
  <2> QED BY <2>1, StreamHas DEF ResetSent
<1>5. CASE CommandError
  BY <1>5 DEF CommandError, CommandFailed
<1>6. CASE MonitorRefresh \/ MonitorTick \/ MonitorStop
  BY <1>6 DEF MonitorRefresh, MonitorRest, MonitorTick, MonitorStop
<1>7. CASE PubSubRead \/ PubSubError
  BY <1>7 DEF PubSubRead, ReceiverRest, PubSubError
<1>8. CASE PubSubSend \/ PubSubGiveUp
  BY <1>8 DEF PubSubSend, ReceiverRest, PubSubGiveUp
<1>9. CASE Subscribe \/ FlushL1
  BY <1>9 DEF Subscribe, FlushL1
<1>10. CASE ReceiveFirst \/ Receive
  BY <1>10 DEF ReceiveFirst, ReceiveRest, Return, Receive
<1>11. CASE CloseBegin \/ CloseEnd
  BY <1>11 DEF CloseBegin, CloseEnd, SlotFreed
<1>12. CASE ExternalFlush
  <2>1. stream' = stream \/ \E x : stream' = Append(stream, x)
    BY <1>12 DEF ExternalFlush, SendPush
  <2> QED BY <2>1, StreamHas DEF ResetSent
<1>13. CASE MarkerChange
  <2>1. stream' = stream \/ \E x : stream' = Append(stream, x)
    BY <1>13 DEF MarkerChange, SendPush
  <2> QED BY <2>1, StreamHas DEF ResetSent
<1>14. CASE PeerMarker
  <2>1. stream' = stream \/ \E x : stream' = Append(stream, x)
    BY <1>14 DEF PeerMarker, SendPush
  <2> QED BY <2>1, StreamHas DEF ResetSent
<1>15. CASE MalformedPush
  <2>1. stream' = stream \/ \E x : stream' = Append(stream, x)
    BY <1>15 DEF MalformedPush, SendPush
  <2> QED BY <2>1, StreamHas DEF ResetSent
<1>16. CASE Publish \/ BreakPubSub
  BY <1>16 DEF Publish, BreakPubSub, LosePubSub
<1>17. CASE BreakTracking \/ Stop
  BY <1>17 DEF BreakTracking, Stop
<1>18. CASE Restart
  BY <1>18 DEF Restart, LosePubSub
<1> QED BY <1>1, <1>2, <1>3, <1>4, <1>5, <1>6, <1>7, <1>8, <1>9, <1>10, <1>11, <1>12, <1>13,
    <1>14, <1>15, <1>16, <1>17, <1>18
    DEF Next, CommandStep, MonitorStep, ReceiverStep, SubscriberStep, World

(* A flush in the queue stays there until L1 is emptied.                    *)
LEMMA QueuedStays ==
  ASSUME TypeOK, trackingOverflow \/ Has(trackingMessages, Flush), Next
  PROVE  \/ trackingOverflow' \/ Has(trackingMessages', Flush)
         \/ ~announced' \/ sub' # "receiving"
<1> USE DEF redisVars, pubsubVars, subVars, goVars, chanVars, historyVars
<1>1. CASE Execute
  BY <1>1 DEF Execute
<1>2. CASE Reconnect
  BY <1>2 DEF Reconnect
<1>3. CASE HandlePush
  <2>1. ASSUME NEW x, Enqueue(x), Has(trackingMessages, Flush)
        PROVE  Has(trackingMessages', Flush)
    <3>1. trackingMessages \in Seq({Flush, Error})
      BY Parts DEF QueuesOK
    <3>2. Has(Append(trackingMessages, x), Flush)
      BY <2>1, <3>1, HasAppend
    <3> QED BY <2>1, <3>2 DEF Enqueue
  <2>2. ASSUME NEW x, Enqueue(x), trackingOverflow PROVE trackingOverflow'
    BY <2>2 DEF Enqueue
  <2>3. Enqueue(Flush) \/ Enqueue(Error)
    BY <1>3 DEF HandlePush
  <2> QED BY <2>1, <2>2, <2>3
<1>4. CASE ReadReply
  BY <1>4 DEF ReadReply, CommandDone, CommandFailed
<1>5. CASE CommandError
  BY <1>5 DEF CommandError, CommandFailed
<1>6. CASE MonitorRefresh \/ MonitorTick \/ MonitorStop
  BY <1>6 DEF MonitorRefresh, MonitorRest, MonitorTick, MonitorStop
<1>7. CASE PubSubRead \/ PubSubError
  BY <1>7 DEF PubSubRead, ReceiverRest, PubSubError
<1>8. CASE PubSubSend \/ PubSubGiveUp
  BY <1>8 DEF PubSubSend, ReceiverRest, PubSubGiveUp
<1>9. CASE Subscribe \/ FlushL1
  BY <1>9 DEF Subscribe, FlushL1
<1>10. CASE ReceiveFirst
  <2>1. UNCHANGED <<trackingMessages, trackingOverflow>>
    BY <1>10 DEF ReceiveFirst
  <2> QED BY <2>1
<1>11. CASE Receive
  <2>1. Return(Flush) => ~announced'
    BY BusAssumption DEF Return
  <2>2. Return(Error) => sub' = "closing"
    BY DEF Return
  <2>3. trackingMessages # <<>> =>
            /\ (Has(trackingMessages, Flush) <=>
                   Head(trackingMessages) = Flush \/ Has(Tail(trackingMessages), Flush))
            /\ Head(trackingMessages) \in {Flush, Error}
    BY HasTail, Parts DEF QueuesOK
  <2>4. Has(trackingMessages, Flush) =>
            Has(trackingMessages', Flush) \/ ~announced' \/ sub' = "closing"
    BY <1>11, <2>1, <2>2, <2>3 DEF Receive
  <2>5. trackingOverflow => trackingOverflow' \/ ~announced'
    BY <1>11, <2>1 DEF Receive
  <2> QED BY <2>4, <2>5
<1>12. CASE CloseBegin \/ CloseEnd
  BY <1>12 DEF CloseBegin, CloseEnd, SlotFreed
<1>13. CASE ExternalFlush \/ MarkerChange
  BY <1>13 DEF ExternalFlush, SendPush, WorldRest, MarkerChange
<1>14. CASE PeerMarker \/ MalformedPush
  BY <1>14 DEF PeerMarker, SendPush, WorldRest, MalformedPush
<1>15. CASE Publish \/ BreakPubSub
  BY <1>15 DEF Publish, BreakPubSub, LosePubSub
<1>16. CASE BreakTracking \/ Stop
  BY <1>16 DEF BreakTracking, Stop
<1>17. CASE Restart
  BY <1>17 DEF Restart, LosePubSub
<1> QED BY <1>1, <1>2, <1>3, <1>4, <1>5, <1>6, <1>7, <1>8, <1>9, <1>10, <1>11, <1>12, <1>13,
    <1>14, <1>15, <1>16, <1>17
    DEF Next, CommandStep, MonitorStep, ReceiverStep, SubscriberStep, World

LEMMA WatchedStays ==
  ASSUME BusInv, Places', Next
  PROVE  Watched'
<1> TypeOK /\ SentOK /\ Places /\ Restarted /\ Tracking /\ Watched
  BY DEF BusInv
<1>e. IsOpen /\ IsOpen' /\ ErrorComing => ErrorComing'
  BY ErrorStays
<1>r. ResetSent => ResetSent' \/ ~up \/ ~up' \/ sub' = "out" \/ refreshMarker'
  BY ResetStays
<1>d. IsOpen' /\ (Broken' \/ tr' = "done") => ErrorComing'
  BY DeadNext DEF Broken
<1> USE DEF Watched, Broken, IsOpen, Places, redisVars, pubsubVars, subVars, goVars,
    chanVars, historyVars
<1>1. CASE Execute
  <2>1. (IsOpen \/ sub = "subscribing") /\ tr = "get" =>
            tracked' \/ ~(up /\ sameClient /\ pubsubUp)
    BY <1>1 DEF Execute, Tracking
  <2>2. UNCHANGED <<sub, tr, up, pubsubUp, refreshMarker>> /\ (tracked => tracked')
    BY <1>1 DEF Execute
  <2>3. tr # "id" => (sameClient' <=> sameClient)
    BY <1>1 DEF Execute
  <2> QED BY <2>1, <2>2, <2>3, <1>e, <1>r, <1>d
<1>2. CASE Reconnect
  <2>1. CASE sameClient' /\ pubsubUp'
    BY <1>2, <2>1 DEF Reconnect, Restarted
  <2>2. CASE ~(sameClient' /\ pubsubUp')
    BY <2>2
  <2> QED BY <2>1, <2>2
<1>3. CASE HandlePush
  <2>1. UNCHANGED <<tracked, up, sameClient, pubsubUp, sub, tr, sent>>
    BY <1>3 DEF HandlePush
  <2>2. refreshMarker => refreshMarker'
    BY <1>3 DEF HandlePush
  <2>3. up
    BY <1>3 DEF HandlePush
  <2> QED BY <2>1, <2>2, <2>3, <1>e, <1>r
<1>4. CASE ReadReply
  <2>1. tr \in Commands
    BY <1>4 DEF ReadReply, SentOK
  <2>2. UNCHANGED <<tracked, up, sameClient, pubsubUp>> /\ sent /\ ~sent' /\ up
    BY <1>4 DEF ReadReply
  <2>3. CASE CommandDone
    <3>1. /\ tr = "setnx" => tr' = "get"
          /\ tr = "id" => tr' = "track"
          /\ tr = "track" => tr' = "setnx"
          /\ refreshMarker => refreshMarker' \/ tr' = "setnx"
          /\ sub' = sub \/ (sub = "subscribing" /\ tr = "get")
      BY <2>1, <2>3 DEF CommandDone
    <3> QED BY <2>2, <3>1, <1>e, <1>r
  <2>4. CASE CommandFailed(TRUE) /\ UNCHANGED <<rcv, refreshMarker>>
    <3>1. sub' = "closing" \/ tr' = "done"
      BY <2>4 DEF CommandFailed
    <3>2. sub' = "closing" \/ sub' = sub
      BY <2>4 DEF CommandFailed
    <3>3. sub = "subscribing" => sub' = "closing"
      BY <2>4 DEF CommandFailed
    <3> QED BY <3>1, <3>2, <3>3, <1>d
  <2> QED BY <1>4, <2>3, <2>4 DEF ReadReply
<1>5. CASE CommandError
  BY <1>5, <1>e, <1>r DEF CommandError, CommandFailed
<1>6. CASE MonitorRefresh
  <2>1. UNCHANGED <<tracked, up, sameClient, pubsubUp, sub, stream>>
    BY <1>6 DEF MonitorRefresh, MonitorRest
  <2> QED BY <1>6, <2>1, <1>e, <1>d DEF MonitorRefresh, ResetSent
<1>7. CASE MonitorTick
  <2>1. UNCHANGED <<tracked, up, sameClient, pubsubUp, sub, stream>>
    BY <1>7 DEF MonitorTick, MonitorRest
  <2> QED BY <1>7, <2>1, <1>e, <1>d DEF MonitorTick, ResetSent
<1>8. CASE MonitorStop
  <2>1. UNCHANGED <<tracked, up, sameClient, pubsubUp, sub, stream>>
    BY <1>8 DEF MonitorStop, MonitorRest
  <2> QED BY <1>8, <2>1, <1>e, <1>d DEF MonitorStop, ResetSent
<1>9. CASE PubSubRead \/ PubSubError
  BY <1>9, <1>e, <1>r DEF PubSubRead, ReceiverRest, PubSubError
<1>10. CASE PubSubSend \/ PubSubGiveUp
  BY <1>10, <1>e, <1>r DEF PubSubSend, ReceiverRest, PubSubGiveUp
<1>11. CASE Subscribe
  <2>1. sub' = "subscribing" /\ tr' = "id"
    BY <1>11 DEF Subscribe
  <2> QED BY <2>1
<1>12. CASE FlushL1
  BY <1>12, <1>e, <1>r DEF FlushL1
<1>13. CASE ReceiveFirst \/ Receive
  BY <1>13, <1>e, <1>r DEF ReceiveFirst, ReceiveRest, Return, Receive
<1>14. CASE CloseBegin \/ CloseEnd
  BY <1>14, <1>e, <1>r DEF CloseBegin, CloseEnd, SlotFreed
<1>15. CASE ExternalFlush
  <2>1. UNCHANGED <<up, sameClient, pubsubUp, sub, tr, sent, refreshMarker>>
    BY <1>15 DEF ExternalFlush, WorldRest
  <2>2. tracking /\ up => stream' = Append(stream, [kind |-> "reset"])
    BY <1>15 DEF ExternalFlush, SendPush
  <2>3. tracking /\ up => ResetSent'
    BY <2>2, StreamHas DEF ResetSent
  <2> QED BY <2>1, <2>3, <1>e, <1>r DEF Tracking
<1>16. CASE MarkerChange
  <2>1. UNCHANGED <<up, sameClient, pubsubUp, sub, tr, sent, refreshMarker>>
    BY <1>16 DEF MarkerChange, WorldRest
  <2>2. tracked /\ up => tracked' \/ stream' = Append(stream, [kind |-> "reset"])
    BY <1>16 DEF MarkerChange, SendPush
  <2>3. tracked /\ up => tracked' \/ ResetSent'
    BY <2>2, StreamHas DEF ResetSent
  <2> QED BY <2>1, <2>3, <1>e, <1>r DEF Tracking
<1>17. CASE PeerMarker
  <2>1. UNCHANGED <<up, sameClient, pubsubUp, sub, tr, sent, refreshMarker>>
    BY <1>17 DEF PeerMarker, WorldRest
  <2>2. tracked /\ up => stream' = Append(stream, [kind |-> "reset"])
    BY <1>17 DEF PeerMarker, SendPush
  <2>3. tracked /\ up => ResetSent'
    BY <2>2, StreamHas DEF ResetSent
  <2> QED BY <2>1, <2>3, <1>e, <1>r DEF Tracking
<1>18. CASE MalformedPush
  BY <1>18, <1>e, <1>r DEF MalformedPush, SendPush, WorldRest
<1>19. CASE Publish \/ BreakPubSub
  BY <1>19, <1>e, <1>r DEF Publish, BreakPubSub, LosePubSub
<1>20. CASE BreakTracking \/ Stop
  BY <1>20, <1>e, <1>r DEF BreakTracking, Stop
<1>21. CASE Restart
  BY <1>21, <1>e, <1>r DEF Restart, LosePubSub
<1> QED BY <1>1, <1>2, <1>3, <1>4, <1>5, <1>6, <1>7, <1>8, <1>9, <1>10, <1>11, <1>12, <1>13,
    <1>14, <1>15, <1>16, <1>17, <1>18, <1>19, <1>20, <1>21
    DEF Next, CommandStep, MonitorStep, ReceiverStep, SubscriberStep, World

LEMMA ResetStaysOnItsWay ==
  ASSUME BusInv, Places', Next
  PROVE  ResetIsOnItsWay'
<1> TypeOK /\ SentOK /\ Places /\ Restarted /\ Tracking /\ ResetIsOnItsWay
  BY DEF BusInv
<1>e. IsOpen /\ IsOpen' /\ ErrorComing => ErrorComing'
  BY ErrorStays
<1>q. trackingOverflow \/ Has(trackingMessages, Flush) =>
         trackingOverflow' \/ Has(trackingMessages', Flush) \/ ~announced' \/ sub' # "receiving"
  BY QueuedStays
<1>r. ResetSent => \/ ResetSent' \/ ~up \/ ~up' \/ sub' = "out"
                   \/ trackingOverflow' \/ Has(trackingMessages', Flush)
  BY ResetStays
<1>d. IsOpen' /\ (Broken' \/ tr' = "done") => ErrorComing'
  BY DeadNext DEF Broken
<1>b. IsOpen /\ Broken => ErrorComing
  BY Dead DEF Broken
<1>s. sub = "receiving" /\ restarted => ErrorComing
  BY <1>b DEF Restarted, Broken, IsOpen
<1> USE DEF ResetIsOnItsWay, L1Behind, FlushComing, Broken, IsOpen, redisVars, pubsubVars, subVars,
    goVars, chanVars, historyVars
<1>1. CASE Execute
  BY <1>1, <1>e, <1>q, <1>r, <1>d DEF Execute
<1>2. CASE Reconnect
  <2>1. UNCHANGED <<sub, announced, restarted>> /\ ~up
    BY <1>2 DEF Reconnect
  <2> QED BY <2>1, <1>b, <1>e
<1>3. CASE HandlePush
  <2>1. UNCHANGED sub /\ up /\ up' /\ (announced' => announced) /\ (restarted' => restarted)
    BY <1>3 DEF HandlePush
  <2> QED BY <2>1, <1>e, <1>q, <1>r, <1>s
<1>4. CASE ReadReply
  <2>1. /\ up /\ up' /\ (announced' => announced) /\ (restarted' => restarted)
        /\ (sub' = "receiving" => sub = "receiving")
    BY <1>4 DEF ReadReply, CommandDone, CommandFailed
  <2> QED BY <2>1, <1>e, <1>q, <1>r, <1>s
<1>5. CASE CommandError
  <2>1. UNCHANGED <<announced, restarted>> /\ ~up' /\ (sub' = sub \/ sub' = "closing")
    BY <1>5 DEF CommandError, CommandFailed
  <2> QED BY <2>1, <1>d
<1>6. CASE MonitorRefresh \/ MonitorTick \/ MonitorStop
  BY <1>6, <1>e, <1>q, <1>r, <1>d DEF MonitorRefresh, MonitorRest, MonitorTick, MonitorStop
<1>7. CASE PubSubRead \/ PubSubError
  BY <1>7, <1>e, <1>q, <1>r, <1>d DEF PubSubRead, ReceiverRest, PubSubError
<1>8. CASE PubSubSend \/ PubSubGiveUp
  BY <1>8, <1>e, <1>q, <1>r, <1>d DEF PubSubSend, ReceiverRest, PubSubGiveUp
<1>9. CASE Subscribe
  BY <1>9, <1>e, <1>q, <1>r, <1>d DEF Subscribe
<1>10. CASE FlushL1
  <2>1. UNCHANGED <<announced, restarted, pubsubUp>> /\ sub = "subscribed"
    BY <1>10 DEF FlushL1
  <2> QED BY <2>1, <1>d DEF Restarted, Places
<1>11. CASE ReceiveFirst
  <2>1. /\ (announced' => announced) /\ (restarted' => restarted) /\ (up' <=> up)
        /\ (sub' = "receiving" => sub = "receiving")
    BY <1>11 DEF ReceiveFirst, ReceiveRest, Return
  <2> QED BY <2>1, <1>e, <1>q, <1>r, <1>b, <1>s
<1>12. CASE Receive
  <2>1. /\ (announced' => announced) /\ (restarted' => restarted) /\ (up' <=> up)
        /\ (sub' = "receiving" => sub = "receiving")
    BY <1>12 DEF Receive, ReceiveRest, Return
  <2> QED BY <2>1, <1>e, <1>q, <1>r, <1>b, <1>s
<1>13. CASE CloseBegin \/ CloseEnd
  BY <1>13, <1>e, <1>q, <1>r, <1>d DEF CloseBegin, CloseEnd, SlotFreed
<1>14. CASE ExternalFlush
  <2>1. UNCHANGED <<up, sameClient, pubsubUp, sub, restarted>>
    BY <1>14 DEF ExternalFlush, WorldRest
  <2>2. tracking /\ up => stream' = Append(stream, [kind |-> "reset"])
    BY <1>14 DEF ExternalFlush, SendPush
  <2>3. tracking /\ up => ResetSent'
    BY <2>2, StreamHas DEF ResetSent
  <2>4. sub = "receiving" /\ up /\ sameClient /\ pubsubUp => ResetSent'
    BY <2>3 DEF Tracking
  <2> QED BY <2>1, <2>4, <1>d
<1>15. CASE MarkerChange
  <2>1. UNCHANGED <<up, sameClient, pubsubUp, sub, restarted>>
    BY <1>15 DEF MarkerChange, WorldRest
  <2>2. tracked /\ marker /\ up => stream' = Append(stream, [kind |-> "reset"])
    BY <1>15 DEF MarkerChange, SendPush
  <2>3. tracked /\ marker /\ up => ResetSent'
    BY <2>2, StreamHas DEF ResetSent
  <2>4. /\ announced' => announced \/ (tracked /\ marker)
        /\ UNCHANGED <<restarted, up, sub>>
    BY <1>15 DEF MarkerChange, WorldRest
  <2> QED BY <2>3, <2>4, <1>e, <1>q, <1>r, <1>b, <1>s, <1>d
<1>16. CASE PeerMarker
  <2>4. (announced' => announced) /\ (restarted' => restarted) /\ (up' <=> up) /\ UNCHANGED sub
    BY <1>16 DEF PeerMarker, WorldRest
  <2> QED BY <2>4, <1>e, <1>q, <1>r, <1>b, <1>s
<1>17. CASE MalformedPush
  BY <1>17, <1>e, <1>q, <1>r, <1>d DEF MalformedPush, SendPush, WorldRest
<1>18. CASE Publish \/ BreakPubSub
  BY <1>18, <1>e, <1>q, <1>r, <1>d DEF Publish, BreakPubSub, LosePubSub
<1>19. CASE BreakTracking
  <2>1. ~up' /\ UNCHANGED sub
    BY <1>19 DEF BreakTracking
  <2> QED BY <2>1, <1>d
<1>20. CASE Stop
  BY <1>20, <1>e, <1>q, <1>r, <1>d DEF Stop
<1>21. CASE Restart
  <2>1. ~up' /\ UNCHANGED sub
    BY <1>21 DEF Restart
  <2> QED BY <2>1, <1>d
<1> QED BY <1>1, <1>2, <1>3, <1>4, <1>5, <1>6, <1>7, <1>8, <1>9, <1>10, <1>11, <1>12, <1>13,
    <1>14, <1>15, <1>16, <1>17, <1>18, <1>19, <1>20, <1>21
    DEF Next, CommandStep, MonitorStep, ReceiverStep, SubscriberStep, World

LEMMA InvInit == Init => BusInv
<1>1. Init => TypeOK /\ SentOK
  BY TypeInit
<1>2. Init => Places /\ Restarted /\ Tracking /\ Watched /\ ResetIsOnItsWay
  BY DEF Init, Places, Restarted, Tracking, Watched, ResetIsOnItsWay, L1Behind, IsOpen
<1> QED BY <1>1, <1>2 DEF BusInv

LEMMA InvNext == BusInv /\ [Next]_vars => BusInv'
<1>1. ASSUME BusInv, UNCHANGED vars PROVE BusInv'
  BY <1>1 DEF BusInv, TypeOK, SentOK, Places, Restarted, Tracking, Watched, Broken, ResetIsOnItsWay,
        L1Behind, IsOpen, FlushComing, ResetSent, ErrorComing, PubSubBreaks, TrackingBreaks, vars, redisVars,
        pubsubVars, subVars, goVars, chanVars, historyVars
<1>2. ASSUME BusInv, Next PROVE BusInv'
  <2>1. TypeOK /\ SentOK /\ Places /\ Restarted /\ Tracking
    BY <1>2 DEF BusInv
  <2>2. TypeOK' /\ SentOK'
    BY <1>2, <2>1, TypeNext
  <2>3. Places'
    BY <1>2, <2>1, PlacesStay
  <2>4. Restarted' /\ Tracking'
    BY <1>2, <2>1, RestartedStays, TrackingStays
  <2>5. Watched' /\ ResetIsOnItsWay'
    BY <1>2, <2>3, WatchedStays, ResetStaysOnItsWay
  <2> QED BY <2>2, <2>3, <2>4, <2>5 DEF BusInv
<1> QED BY <1>1, <1>2

LEMMA BusInvariant == Spec => []BusInv
  BY InvInit, InvNext, PTL DEF Spec

(* A reset that Redis announces to the connection, or a restart, that L1 does  *)
(* not reflect yet has a flush or an error on its way, for every size of the   *)
(* channels and every number of failures.  What Redis does not announce,       *)
(* `missed`, is no part of it (invalidation.go:153, 369).                     *)
THEOREM ResetNeverLost == Spec => []ResetIsOnItsWay
<1>1. BusInv => ResetIsOnItsWay
  BY DEF BusInv
<1> QED BY <1>1, BusInvariant, PTL

(* The marker that Redis does not track any more is about to be read again,   *)
(* or the subscription about to fail.                                        *)
THEOREM MarkerStaysWatched == Spec => []MarkerIsWatched
<1>1. BusInv => MarkerIsWatched
  <2>1. BusInv => Places /\ Watched
    BY DEF BusInv
  <2>2. IsOpen /\ Places /\ Broken => ErrorComing
    BY Dead DEF Broken
  <2>3. IsOpen /\ Places => ~(tr \in {"id", "track"})
    BY DEF Places
  <2> QED BY <2>1, <2>2, <2>3 DEF Watched, MarkerIsWatched
<1> QED BY <1>1, BusInvariant, PTL

--------------------------------------------------------------------------------
(***************************************************************************)
(* InvalidationBus implements EventStream, for every value of its constants: *)
(* each of its steps leaves what is due alone, announces or delivers one       *)
(* event, or loses events behind an error.                                   *)
(***************************************************************************)

(* What is due, key by key; and the flush.                                   *)
DueKey(k) == Has(channel, k) \/ (rcv = "send" /\ out = k) \/ Has(pubsubMessages, k)
DueFlush == FlushComing \/ announced

SameKeys == \A k \in Key : DueKey(k)' <=> DueKey(k)
SameError == ErrorComing' <=> ErrorComing

(* What a step may do while the subscription stays open.                     *)
Loses ==
    ErrorComing' /\ (\A k \in Key : DueKey(k)' => DueKey(k)) /\ (DueFlush' => DueFlush)

AnnouncesKey(k) ==
    \A j \in Key : DueKey(j)' <=> DueKey(j) \/ j = k

DeliversKey(k) ==
    DueKey(k) /\ \A j \in Key : DueKey(j)' <=> DueKey(j) /\ j # k

Allowed ==
    \/ Loses
    \/ SameError /\ SameKeys
    \/ /\ SameError /\ (DueFlush' <=> DueFlush)
       /\ \E k \in Key : AnnouncesKey(k) \/ DeliversKey(k)

LEMMA HasPrefix ==
  ASSUME NEW S, NEW s \in Seq(S), NEW n \in 0..Len(s), NEW y, Has(SubSeq(s, 1, n), y)
  PROVE  Has(s, y)
<1>1. PICK i \in 1..n : SubSeq(s, 1, n)[i] = y
  BY DEF Has
<1>2. i \in DOMAIN s /\ s[i] = y
  BY <1>1
<1> QED BY <1>2 DEF Has

LEMMA StreamTail ==
  ASSUME TypeOK, stream # <<>>, Has(Tail(stream), [kind |-> "reset"])
  PROVE  ResetSent
  BY HasTail, Parts DEF QueuesOK, ResetSent

(* A step that leaves the subscription open does no more than EventStream allows. *)
LEMMA OpenStep ==
  ASSUME BusInv, Places', IsOpen, IsOpen', Next
  PROVE  Allowed
<1> TypeOK /\ SentOK /\ Places /\ Restarted
  BY DEF BusInv
<1>e. ErrorComing => ErrorComing'
  BY ErrorStays
<1>d. ~pubsubUp' => ErrorComing'
  BY DeadNext
<1> USE DEF IsOpen, redisVars, pubsubVars, subVars, goVars, chanVars, historyVars
<1>1. CASE Execute
  <2>1. UNCHANGED <<channel, rcv, out, pubsubMessages>>
    BY <1>1 DEF Execute
  <2>2. SameKeys
    BY <2>1 DEF SameKeys, DueKey
  <2>3. UNCHANGED <<sub, tr, up, pubsubUp, trackingErrors, trackingMessages, stopped>>
    BY <1>1 DEF Execute
  <2>4. sameClient' <=> sameClient
    BY <1>1 DEF Execute, Places
  <2>5. SameError
    BY <2>1, <2>3, <2>4 DEF SameError, ErrorComing, PubSubBreaks, TrackingBreaks
  <2> QED BY <2>2, <2>5 DEF Allowed
<1>2. CASE Reconnect
  <2>1. UNCHANGED <<channel, rcv, out, pubsubMessages>>
    BY <1>2 DEF Reconnect
  <2>2. SameKeys
    BY <2>1 DEF SameKeys, DueKey
  <2>3. ErrorComing
    BY <1>2, Dead DEF Reconnect
  <2> QED BY <2>2, <2>3, <1>e DEF Allowed, SameError
<1>3. CASE HandlePush
  <2>1. UNCHANGED <<channel, rcv, out, pubsubMessages>>
    BY <1>3 DEF HandlePush
  <2>2. SameKeys
    BY <2>1 DEF SameKeys, DueKey
  <2>3. UNCHANGED <<sub, tr, up, sameClient, pubsubUp, trackingErrors, stopped, announced>>
    BY <1>3 DEF HandlePush
  <2>4. (Has(trackingMessages', Error) <=> Has(trackingMessages, Error)) => SameError
    BY <2>1, <2>3 DEF SameError, ErrorComing, PubSubBreaks, TrackingBreaks
  <2>5. trackingMessages \in Seq({Flush, Error})
    BY Parts DEF QueuesOK
  <2>6. CASE Head(stream).kind = "reset"
    <3>1. Enqueue(Flush)
      BY <1>3, <2>6 DEF HandlePush
    <3>2. Has(Append(trackingMessages, Flush), Error) <=> Has(trackingMessages, Error)
      BY <2>5, HasAppend, BusAssumption
    <3>3. Has(trackingMessages', Error) <=> Has(trackingMessages, Error)
      BY <3>1, <3>2 DEF Enqueue
    <3> QED BY <2>2, <2>4, <3>3 DEF Allowed
  <2>7. CASE Head(stream).kind # "reset"
    <3>1. Enqueue(Error) /\ stream # <<>> /\ stream' = Tail(stream)
      BY <1>3, <2>7 DEF HandlePush
    <3>2. CASE Len(trackingMessages) < TrackingBuffer
      <4>1. trackingMessages' = Append(trackingMessages, Error) /\ UNCHANGED trackingOverflow
        BY <3>1, <3>2 DEF Enqueue
      <4>2. /\ Has(trackingMessages', Error)
            /\ Has(trackingMessages', Flush) <=> Has(trackingMessages, Flush)
        BY <2>5, <4>1, HasAppend, BusAssumption
      <4>3. ResetSent' => ResetSent
        BY <2>7, <3>1, StreamTail DEF ResetSent
      <4>4. DueFlush' => DueFlush
        BY <2>3, <4>1, <4>2, <4>3 DEF DueFlush, FlushComing
      <4>5. ErrorComing'
        BY <4>2 DEF ErrorComing, TrackingBreaks
      <4> QED BY <2>2, <4>4, <4>5 DEF Allowed, Loses, SameKeys
    <3>3. CASE ~(Len(trackingMessages) < TrackingBuffer)
      <4>1. UNCHANGED trackingMessages
        BY <3>1, <3>3 DEF Enqueue
      <4> QED BY <2>2, <2>4, <4>1 DEF Allowed
    <3> QED BY <3>2, <3>3
  <2> QED BY <2>6, <2>7
<1>4. CASE ReadReply
  <2>0. sub # "subscribing"
    OBVIOUS
  <2>1. UNCHANGED <<channel, rcv, out, pubsubMessages>>
    BY <1>4, <2>0 DEF ReadReply, CommandDone, CommandFailed
  <2>2. SameKeys
    BY <2>1 DEF SameKeys, DueKey
  <2>3. DueFlush' => DueFlush
    <3>1. stream # <<>> /\ stream' = Tail(stream) /\ Head(stream).kind # "reset"
      BY <1>4 DEF ReadReply
    <3>2. ResetSent' => ResetSent
      BY <3>1, StreamTail DEF ResetSent
    <3>3. UNCHANGED <<announced, trackingMessages, trackingOverflow>>
      BY <1>4 DEF ReadReply
    <3> QED BY <3>2, <3>3 DEF DueFlush, FlushComing
  <2> QED BY <2>2, <2>3, <1>e DEF Allowed, Loses, SameKeys, SameError
<1>5. CASE CommandError
  <2>1. UNCHANGED <<channel, rcv, out, pubsubMessages>>
    BY <1>5 DEF CommandError, CommandFailed
  <2>2. SameKeys
    BY <2>1 DEF SameKeys, DueKey
  <2>3. DueFlush' => DueFlush
    <3>1. /\ UNCHANGED <<announced, trackingMessages, trackingOverflow>>
          /\ stream' = stream \/ stream' = <<>>
      BY <1>5 DEF CommandError
    <3> QED BY <3>1, HasFew DEF DueFlush, FlushComing, ResetSent
  <2> QED BY <2>2, <2>3, <1>e DEF Allowed, Loses, SameKeys, SameError
<1>6. CASE MonitorRefresh
  <2>1. UNCHANGED <<channel, rcv, out, pubsubMessages>>
    BY <1>6 DEF MonitorRefresh, MonitorRest
  <2>2. SameKeys
    BY <2>1 DEF SameKeys, DueKey
  <2>3. DueFlush' => DueFlush
    <3>1. /\ UNCHANGED <<announced, trackingMessages, trackingOverflow>>
          /\ stream' = stream \/ stream' = <<>>
      BY <1>6 DEF MonitorRefresh, MonitorRest
    <3> QED BY <3>1, HasFew DEF DueFlush, FlushComing, ResetSent
  <2> QED BY <2>2, <2>3, <1>e DEF Allowed, Loses, SameKeys, SameError
<1>7. CASE MonitorTick
  <2>1. UNCHANGED <<channel, rcv, out, pubsubMessages>>
    BY <1>7 DEF MonitorTick, MonitorRest
  <2>2. SameKeys
    BY <2>1 DEF SameKeys, DueKey
  <2>3. DueFlush' => DueFlush
    <3>1. /\ UNCHANGED <<announced, trackingMessages, trackingOverflow>>
          /\ stream' = stream \/ stream' = <<>>
      BY <1>7 DEF MonitorTick, MonitorRest
    <3> QED BY <3>1, HasFew DEF DueFlush, FlushComing, ResetSent
  <2> QED BY <2>2, <2>3, <1>e DEF Allowed, Loses, SameKeys, SameError
<1>8. CASE MonitorStop
  <2>1. UNCHANGED <<channel, rcv, out, pubsubMessages>>
    BY <1>8 DEF MonitorStop, MonitorRest
  <2>2. SameKeys
    BY <2>1 DEF SameKeys, DueKey
  <2>3. DueFlush' => DueFlush
    <3>1. /\ UNCHANGED <<announced, trackingMessages, trackingOverflow>>
          /\ stream' = stream \/ stream' = <<>>
      BY <1>8 DEF MonitorStop, MonitorRest
    <3> QED BY <3>1, HasFew DEF DueFlush, FlushComing, ResetSent
  <2> QED BY <2>2, <2>3, <1>e DEF Allowed, Loses, SameKeys, SameError
<1>9. CASE PubSubRead
  <2>1. \A x : Has(channel, x) <=> out' = x \/ Has(channel', x)
    BY <1>9, HasTail, Parts DEF PubSubRead, QueuesOK
  <2>2. SameKeys
    BY <1>9, <2>1 DEF PubSubRead, SameKeys, DueKey
  <2>3. DueFlush' => DueFlush
    <3>1. /\ UNCHANGED <<announced, trackingMessages, trackingOverflow>>
          /\ stream' = stream \/ stream' = <<>>
      BY <1>9 DEF PubSubRead, ReceiverRest
    <3> QED BY <3>1, HasFew DEF DueFlush, FlushComing, ResetSent
  <2> QED BY <2>2, <2>3, <1>e DEF Allowed, Loses, SameKeys, SameError
<1>10. CASE PubSubError
  <2>1. \A k \in Key : k # Error
    BY BusAssumption
  <2>2. SameKeys
    BY <1>10, <2>1 DEF PubSubError, SameKeys, DueKey
  <2>3. DueFlush' => DueFlush
    <3>1. /\ UNCHANGED <<announced, trackingMessages, trackingOverflow>>
          /\ stream' = stream \/ stream' = <<>>
      BY <1>10 DEF PubSubError, ReceiverRest
    <3> QED BY <3>1, HasFew DEF DueFlush, FlushComing, ResetSent
  <2> QED BY <2>2, <2>3, <1>e DEF Allowed, Loses, SameKeys, SameError
<1>11. CASE PubSubSend
  <2>1. /\ \A x : Has(pubsubMessages', x) <=> out = x
        /\ \A x : ~Has(pubsubMessages, x)
    BY <1>11, HasFew DEF PubSubSend
  <2>2. SameKeys
    BY <1>11, <2>1 DEF PubSubSend, SameKeys, DueKey
  <2>3. DueFlush' => DueFlush
    <3>1. /\ UNCHANGED <<announced, trackingMessages, trackingOverflow>>
          /\ stream' = stream \/ stream' = <<>>
      BY <1>11 DEF PubSubSend, ReceiverRest
    <3> QED BY <3>1, HasFew DEF DueFlush, FlushComing, ResetSent
  <2> QED BY <2>2, <2>3, <1>e DEF Allowed, Loses, SameKeys, SameError
<1>12. CASE PubSubGiveUp
  <2>1. UNCHANGED <<channel, pubsubMessages>> /\ rcv' = "done"
    BY <1>12 DEF PubSubGiveUp
  <2>2. \A k \in Key : DueKey(k)' => DueKey(k)
    BY <2>1 DEF DueKey
  <2>3. DueFlush' => DueFlush
    <3>1. /\ UNCHANGED <<announced, trackingMessages, trackingOverflow>>
          /\ stream' = stream \/ stream' = <<>>
      BY <1>12 DEF PubSubGiveUp, ReceiverRest
    <3> QED BY <3>1, HasFew DEF DueFlush, FlushComing, ResetSent
  <2>4. ErrorComing'
    BY <1>12 DEF PubSubGiveUp, ReceiverRest, GivesUp, CtxDone, Places, ErrorComing
  <2> QED BY <2>2, <2>3, <2>4 DEF Allowed, Loses
<1>13. CASE Subscribe
  BY <1>13 DEF Subscribe
<1>14. CASE FlushL1
  <2>1. UNCHANGED <<channel, rcv, out, pubsubMessages>>
    BY <1>14 DEF FlushL1
  <2>2. SameKeys
    BY <2>1 DEF SameKeys, DueKey
  <2>3. DueFlush' => DueFlush
    <3>1. /\ UNCHANGED <<announced, trackingMessages, trackingOverflow>>
          /\ stream' = stream \/ stream' = <<>>
      BY <1>14 DEF FlushL1
    <3> QED BY <3>1, HasFew DEF DueFlush, FlushComing, ResetSent
  <2> QED BY <2>2, <2>3, <1>e DEF Allowed, Loses, SameKeys, SameError
<1>15. CASE ReceiveFirst
  <2>1. UNCHANGED <<channel, rcv, out, pubsubMessages>>
    BY <1>15 DEF ReceiveFirst, ReceiveRest
  <2>2. SameKeys
    BY <2>1 DEF SameKeys, DueKey
  <2>3. DueFlush' => DueFlush
    <3>1. (announced' => announced) /\ UNCHANGED <<trackingMessages, trackingOverflow, stream>>
      BY <1>15 DEF ReceiveFirst, ReceiveRest, Return
    <3> QED BY <3>1 DEF DueFlush, FlushComing, ResetSent
  <2> QED BY <2>2, <2>3, <1>e DEF Allowed, Loses, SameKeys, SameError
<1>16. CASE Receive
  <2>1. ~Return(Error)
    BY DEF Return
  <2>2. UNCHANGED <<channel, rcv, out, up, sameClient, tr, stopped, stream, pubsubUp>>
    BY <1>16 DEF Receive, ReceiveRest
  <2>3. CASE pubsubMessages # <<>> /\ Return(Head(pubsubMessages))
             /\ pubsubMessages' = Tail(pubsubMessages)
             /\ UNCHANGED <<trackingMessages, trackingOverflow, trackingErrors>>
    <3>1. PICK k \in Key : k = Head(pubsubMessages)
      <4>1. Head(pubsubMessages) \in Message
        BY <2>3, HasTail, Parts DEF QueuesOK
      <4>2. Head(pubsubMessages) # Error
        BY <2>1, <2>3
      <4> QED BY <4>1, <4>2 DEF Message
    <3>2. \A x : Has(pubsubMessages, x) <=> x = k \/ Has(pubsubMessages', x)
      BY <2>3, <3>1, HasTail, Parts DEF QueuesOK
    <3>3. k # Error
      BY <3>1, BusAssumption
    <3>4. announced' <=> announced
      BY <2>3, <3>1 DEF Return
    <3>5. SameError
      BY <2>2, <2>3, <3>2, <3>3 DEF SameError, ErrorComing, PubSubBreaks, TrackingBreaks
    <3>6. DueFlush' <=> DueFlush
      BY <2>2, <2>3, <3>4 DEF DueFlush, FlushComing, ResetSent
    <3>7. \A j \in Key : DueKey(j) <=> DueKey(j)' \/ j = k
      BY <2>2, <3>2 DEF DueKey
    <3>8. CASE DueKey(k)'
      BY <3>1, <3>5, <3>7, <3>8 DEF Allowed, SameKeys
    <3>9. CASE ~DueKey(k)'
      BY <3>1, <3>5, <3>6, <3>7, <3>9 DEF Allowed, DeliversKey
    <3> QED BY <3>8, <3>9
  <2>4. CASE trackingMessages # <<>> /\ Return(Head(trackingMessages))
             /\ trackingMessages' = Tail(trackingMessages)
             /\ UNCHANGED <<pubsubMessages, trackingOverflow, trackingErrors>>
    <3>1. Head(trackingMessages) # Error
      BY <2>1, <2>4
    <3>2. Has(trackingMessages, Error) <=> Has(trackingMessages', Error)
      BY <2>4, <3>1, HasTail, Parts DEF QueuesOK
    <3>3. SameError
      BY <2>2, <2>4, <3>2 DEF SameError, ErrorComing, PubSubBreaks, TrackingBreaks
    <3>4. SameKeys
      BY <2>2, <2>4 DEF SameKeys, DueKey
    <3> QED BY <3>3, <3>4 DEF Allowed
  <2>5. CASE UNCHANGED <<pubsubMessages, trackingMessages, trackingErrors>>
    <3>1. SameError
      BY <2>2, <2>5 DEF SameError, ErrorComing, PubSubBreaks, TrackingBreaks
    <3>2. SameKeys
      BY <2>2, <2>5 DEF SameKeys, DueKey
    <3> QED BY <3>1, <3>2 DEF Allowed
  <2> QED BY <1>16, <2>1, <2>3, <2>4, <2>5 DEF Receive
<1>17. CASE CloseBegin
  BY <1>17 DEF CloseBegin
<1>18. CASE CloseEnd
  BY <1>18 DEF CloseEnd
<1>19. CASE ExternalFlush
  <2>1. UNCHANGED <<channel, rcv, out, pubsubMessages>>
    BY <1>19 DEF ExternalFlush, WorldRest
  <2>2. SameKeys
    BY <2>1 DEF SameKeys, DueKey
  <2>3. UNCHANGED <<up, sameClient, tr, stopped, pubsubUp, trackingMessages, trackingErrors>>
    BY <1>19 DEF ExternalFlush, WorldRest
  <2>4. SameError
    BY <2>1, <2>3 DEF SameError, ErrorComing, PubSubBreaks, TrackingBreaks
  <2> QED BY <2>2, <2>4 DEF Allowed
<1>20. CASE MarkerChange
  <2>1. UNCHANGED <<channel, rcv, out, pubsubMessages>>
    BY <1>20 DEF MarkerChange, WorldRest
  <2>2. SameKeys
    BY <2>1 DEF SameKeys, DueKey
  <2>3. UNCHANGED <<up, sameClient, tr, stopped, pubsubUp, trackingMessages, trackingErrors>>
    BY <1>20 DEF MarkerChange, WorldRest
  <2>4. SameError
    BY <2>1, <2>3 DEF SameError, ErrorComing, PubSubBreaks, TrackingBreaks
  <2> QED BY <2>2, <2>4 DEF Allowed
<1>21. CASE PeerMarker
  <2>1. UNCHANGED <<channel, rcv, out, pubsubMessages>>
    BY <1>21 DEF PeerMarker, WorldRest
  <2>2. SameKeys
    BY <2>1 DEF SameKeys, DueKey
  <2>3. UNCHANGED <<up, sameClient, tr, stopped, pubsubUp, trackingMessages, trackingErrors>>
    BY <1>21 DEF PeerMarker, WorldRest
  <2>4. SameError
    BY <2>1, <2>3 DEF SameError, ErrorComing, PubSubBreaks, TrackingBreaks
  <2> QED BY <2>2, <2>4 DEF Allowed
<1>22. CASE MalformedPush
  <2>1. UNCHANGED <<channel, rcv, out, pubsubMessages>>
    BY <1>22 DEF MalformedPush, WorldRest
  <2>2. SameKeys
    BY <2>1 DEF SameKeys, DueKey
  <2>3. UNCHANGED <<up, sameClient, tr, stopped, pubsubUp, trackingMessages, trackingErrors>>
    BY <1>22 DEF MalformedPush, WorldRest
  <2>4. SameError
    BY <2>1, <2>3 DEF SameError, ErrorComing, PubSubBreaks, TrackingBreaks
  <2> QED BY <2>2, <2>4 DEF Allowed
<1>23. CASE Publish
  <2>1. UNCHANGED <<rcv, out, pubsubMessages, up, sameClient, tr, stopped, pubsubUp,
                    trackingMessages, trackingErrors, trackingOverflow, stream, announced>>
    BY <1>23 DEF Publish
  <2>2. PICK m \in Message : channel' = Append(channel, m)
    BY <1>23 DEF Publish, Message
  <2>3. \A x : Has(channel', x) <=> Has(channel, x) \/ m = x
    BY <2>2, HasAppend, Parts DEF QueuesOK
  <2>4. CASE m \in Key
    <3>1. m # Error
      BY <2>4, BusAssumption
    <3>2. SameError
      BY <2>1, <2>3, <3>1 DEF SameError, ErrorComing, PubSubBreaks, TrackingBreaks
    <3>3. AnnouncesKey(m)
      BY <2>1, <2>3 DEF AnnouncesKey, DueKey
    <3>4. DueFlush' <=> DueFlush
      BY <2>1 DEF DueFlush, FlushComing, ResetSent
    <3> QED BY <2>4, <3>2, <3>3, <3>4 DEF Allowed
  <2>5. CASE m = Error
    <3>1. \A k \in Key : k # m
      BY <2>5, BusAssumption
    <3>2. SameKeys
      BY <2>1, <2>3, <3>1 DEF SameKeys, DueKey
    <3>3. DueFlush' <=> DueFlush
      BY <2>1 DEF DueFlush, FlushComing, ResetSent
    <3> QED BY <3>2, <3>3, <1>e DEF Allowed, Loses, SameKeys, SameError
  <2> QED BY <2>4, <2>5 DEF Message
<1>24. CASE BreakPubSub
  <2>1. UNCHANGED <<sub, rcv, out, pubsubMessages>> /\ ~pubsubUp'
    BY <1>24 DEF BreakPubSub, LosePubSub
  <2>2. \A k \in Key : DueKey(k)' => DueKey(k)
    <3>1. channel \in Seq(Message)
      BY Parts DEF QueuesOK
    <3>2. \A k : Has(channel', k) => Has(channel, k)
      BY <1>24, <3>1, HasPrefix DEF BreakPubSub, LosePubSub
    <3> QED BY <2>1, <3>2 DEF DueKey
  <2>3. DueFlush' => DueFlush
    <3>1. /\ UNCHANGED <<announced, trackingMessages, trackingOverflow>>
          /\ stream' = stream \/ stream' = <<>>
      BY <1>24 DEF BreakPubSub, LosePubSub
    <3> QED BY <3>1, HasFew DEF DueFlush, FlushComing, ResetSent
  <2>4. ErrorComing'
    BY <2>1, <1>d
  <2> QED BY <2>2, <2>3, <2>4 DEF Allowed, Loses
<1>25. CASE BreakTracking
  <2>1. UNCHANGED <<channel, rcv, out, pubsubMessages>>
    BY <1>25 DEF BreakTracking
  <2>2. SameKeys
    BY <2>1 DEF SameKeys, DueKey
  <2>3. DueFlush' => DueFlush
    <3>1. /\ UNCHANGED <<announced, trackingMessages, trackingOverflow>>
          /\ stream' = stream \/ stream' = <<>>
      BY <1>25 DEF BreakTracking
    <3> QED BY <3>1, HasFew DEF DueFlush, FlushComing, ResetSent
  <2> QED BY <2>2, <2>3, <1>e DEF Allowed, Loses, SameKeys, SameError
<1>26. CASE Stop
  <2>1. UNCHANGED <<channel, rcv, out, pubsubMessages>>
    BY <1>26 DEF Stop
  <2>2. SameKeys
    BY <2>1 DEF SameKeys, DueKey
  <2>3. DueFlush' => DueFlush
    <3>1. /\ UNCHANGED <<announced, trackingMessages, trackingOverflow>>
          /\ stream' = stream \/ stream' = <<>>
      BY <1>26 DEF Stop
    <3> QED BY <3>1, HasFew DEF DueFlush, FlushComing, ResetSent
  <2> QED BY <2>2, <2>3, <1>e DEF Allowed, Loses, SameKeys, SameError
<1>27. CASE Restart
  <2>1. UNCHANGED <<sub, rcv, out, pubsubMessages>> /\ ~pubsubUp'
    BY <1>27 DEF Restart, LosePubSub
  <2>2. \A k \in Key : DueKey(k)' => DueKey(k)
    <3>1. channel \in Seq(Message)
      BY Parts DEF QueuesOK
    <3>2. \A k : Has(channel', k) => Has(channel, k)
      BY <1>27, <3>1, HasPrefix DEF Restart, LosePubSub
    <3> QED BY <2>1, <3>2 DEF DueKey
  <2>3. DueFlush' => DueFlush
    <3>1. /\ UNCHANGED <<announced, trackingMessages, trackingOverflow>>
          /\ stream' = stream \/ stream' = <<>>
      BY <1>27 DEF Restart, LosePubSub
    <3> QED BY <3>1, HasFew DEF DueFlush, FlushComing, ResetSent
  <2>4. ErrorComing'
    BY <2>1, <1>d
  <2> QED BY <2>2, <2>3, <2>4 DEF Allowed, Loses
<1> QED BY <1>1, <1>2, <1>3, <1>4, <1>5, <1>6, <1>7, <1>8, <1>9, <1>10, <1>11, <1>12, <1>13,
    <1>14, <1>15, <1>16, <1>17, <1>18, <1>19, <1>20, <1>21, <1>22, <1>23, <1>24, <1>25,
    <1>26, <1>27
    DEF Next, CommandStep, MonitorStep, ReceiverStep, SubscriberStep, World

(* Receive ends the subscription for a reason.                              *)
LEMMA FailStep ==
  ASSUME BusInv, IsOpen, ~IsOpen', Next
  PROVE  ErrorComing
<1> TypeOK /\ Places
  BY DEF BusInv
<1> USE DEF IsOpen, redisVars, pubsubVars, subVars, goVars, chanVars, historyVars
<1>1. CASE Execute
  BY <1>1 DEF Execute
<1>2. CASE Reconnect
  BY <1>2 DEF Reconnect
<1>3. CASE HandlePush
  BY <1>3 DEF HandlePush, Enqueue
<1>4. CASE ReadReply
  BY <1>4 DEF ReadReply, CommandDone, CommandFailed
<1>5. CASE CommandError
  BY <1>5 DEF CommandError, CommandFailed
<1>6. CASE MonitorRefresh \/ MonitorTick \/ MonitorStop
  BY <1>6 DEF MonitorRefresh, MonitorRest, MonitorTick, MonitorStop
<1>7. CASE PubSubRead \/ PubSubError
  BY <1>7 DEF PubSubRead, ReceiverRest, PubSubError
<1>8. CASE PubSubSend \/ PubSubGiveUp
  BY <1>8 DEF PubSubSend, ReceiverRest, PubSubGiveUp
<1>9. CASE Subscribe \/ FlushL1
  BY <1>9 DEF Subscribe, FlushL1
<1>10. CASE ReceiveFirst
  <2>1. trackingErrors
    BY <1>10 DEF ReceiveFirst
  <2> QED BY <2>1 DEF ErrorComing, TrackingBreaks
<1>11. CASE Receive
  <2>1. ASSUME NEW r, r # Error, Return(r) PROVE sub' = sub
    BY <2>1 DEF Return
  <2>2. pubsubMessages # <<>> /\ Head(pubsubMessages) = Error => Has(pubsubMessages, Error)
    BY HasTail, Parts DEF QueuesOK
  <2>3. trackingMessages # <<>> /\ Head(trackingMessages) = Error => Has(trackingMessages, Error)
    BY HasTail, Parts DEF QueuesOK
  <2>4. \/ Has(pubsubMessages, Error) \/ Has(trackingMessages, Error)
        \/ trackingErrors \/ CtxDone
    BY <1>11, <2>1, <2>2, <2>3, BusAssumption DEF Receive
  <2>5. CtxDone => stopped
    BY DEF CtxDone, Places
  <2> QED BY <2>4, <2>5 DEF ErrorComing, PubSubBreaks, TrackingBreaks
<1>12. CASE CloseBegin \/ CloseEnd
  BY <1>12 DEF CloseBegin, CloseEnd, SlotFreed
<1>13. CASE ExternalFlush \/ MarkerChange
  BY <1>13 DEF ExternalFlush, SendPush, WorldRest, MarkerChange
<1>14. CASE PeerMarker \/ MalformedPush
  BY <1>14 DEF PeerMarker, SendPush, WorldRest, MalformedPush
<1>15. CASE Publish \/ BreakPubSub
  BY <1>15 DEF Publish, BreakPubSub, LosePubSub
<1>16. CASE BreakTracking \/ Stop
  BY <1>16 DEF BreakTracking, Stop
<1>17. CASE Restart
  BY <1>17 DEF Restart, LosePubSub
<1> QED BY <1>1, <1>2, <1>3, <1>4, <1>5, <1>6, <1>7, <1>8, <1>9, <1>10, <1>11, <1>12, <1>13,
    <1>14, <1>15, <1>16, <1>17
    DEF Next, CommandStep, MonitorStep, ReceiverStep, SubscriberStep, World

(***************************************************************************)
(* The refinement.                                                         *)
(***************************************************************************)
LEMMA DueIs ==
  /\ Due \subseteq Key \cup {Flush}
  /\ ~IsOpen => Due = {}
  /\ IsOpen => /\ \A k \in Key : k \in Due <=> DueKey(k)
               /\ Flush \in Due <=> DueFlush
  BY BusAssumption DEF Due, DueKey, DueFlush

LEMMA DueNextIs ==
  /\ Due' \subseteq Key \cup {Flush}
  /\ ~IsOpen' => Due' = {}
  /\ IsOpen' => /\ \A k \in Key : k \in Due' <=> DueKey(k)'
                /\ Flush \in Due' <=> DueFlush'
  BY BusAssumption DEF Due, DueKey, DueFlush

LEMMA MapsInit == Init => Stream!StreamInit
  BY DEF Init, Stream!StreamInit, IsOpen, Due

LEMMA MapsNext ==
  ASSUME BusInv, Places', Next
  PROVE  [Stream!StreamNext]_<<IsOpen, IsOpen /\ ErrorComing, Due>>
<1>1. CASE IsOpen /\ IsOpen'
  <2>1. Allowed
    BY <1>1, OpenStep
  <2>2. CASE Loses
    <3>1. Due' \subseteq Due
      BY <1>1, <2>2, DueIs, DueNextIs DEF Loses
    <3>2. Stream!Break
      BY <1>1, <2>2, <3>1 DEF Loses, Stream!Break
    <3> QED BY <3>2 DEF Stream!StreamNext
  <2>3. CASE SameError /\ SameKeys
    <3>1. CASE DueFlush' <=> DueFlush
      <4>1. Due' = Due
        BY <1>1, <2>3, <3>1, DueIs, DueNextIs DEF SameKeys
      <4> QED BY <1>1, <2>3, <4>1 DEF SameError
    <3>2. CASE DueFlush' /\ ~DueFlush
      <4>1. Due' = Due \cup {Flush}
        BY <1>1, <2>3, <3>2, DueIs, DueNextIs DEF SameKeys
      <4>2. Stream!Announce(Flush)
        BY <1>1, <2>3, <4>1 DEF SameError, Stream!Announce
      <4> QED BY <4>2 DEF Stream!StreamNext
    <3>3. CASE DueFlush /\ ~DueFlush'
      <4>1. Due' = Due \ {Flush} /\ Flush \in Due
        BY <1>1, <2>3, <3>3, DueIs, DueNextIs, BusAssumption DEF SameKeys
      <4>2. Stream!Deliver(Flush)
        BY <1>1, <2>3, <4>1 DEF SameError, Stream!Deliver
      <4> QED BY <4>2 DEF Stream!StreamNext
    <3> QED BY <3>1, <3>2, <3>3
  <2>4. CASE /\ SameError /\ (DueFlush' <=> DueFlush)
             /\ \E k \in Key : AnnouncesKey(k) \/ DeliversKey(k)
    <3>1. PICK k \in Key : AnnouncesKey(k) \/ DeliversKey(k)
      BY <2>4
    <3>2. CASE AnnouncesKey(k)
      <4>1. Due' = Due \cup {k}
        BY <1>1, <2>4, <3>1, <3>2, DueIs, DueNextIs, BusAssumption DEF AnnouncesKey
      <4>2. Stream!Announce(k)
        BY <1>1, <2>4, <4>1 DEF SameError, Stream!Announce
      <4> QED BY <4>2 DEF Stream!StreamNext
    <3>3. CASE DeliversKey(k)
      <4>1. Due' = Due \ {k} /\ k \in Due
        BY <1>1, <2>4, <3>1, <3>3, DueIs, DueNextIs, BusAssumption DEF DeliversKey
      <4>2. Stream!Deliver(k)
        BY <1>1, <2>4, <4>1 DEF SameError, Stream!Deliver
      <4> QED BY <4>2 DEF Stream!StreamNext
    <3> QED BY <3>1, <3>2, <3>3
  <2> QED BY <2>1, <2>2, <2>3, <2>4 DEF Allowed
<1>2. CASE IsOpen /\ ~IsOpen'
  <2>1. ErrorComing
    BY <1>2, FailStep
  <2>2. Stream!Fail
    BY <1>2, <2>1, DueNextIs DEF Stream!Fail
  <2> QED BY <2>2 DEF Stream!StreamNext
<1>3. CASE ~IsOpen /\ IsOpen'
  <2>1. Stream!Open
    BY <1>3, DueNextIs DEF Stream!Open
  <2> QED BY <2>1 DEF Stream!StreamNext
<1>4. CASE ~IsOpen /\ ~IsOpen'
  BY <1>4, DueIs, DueNextIs DEF IsOpen
<1> QED BY <1>1, <1>2, <1>3, <1>4

(* The bus implements what the tiered cache relies on: nothing due is dropped  *)
(* unless an error follows, and no error comes without a reason.              *)
THEOREM BusImplementsStream == Spec => ImplementsEventStream
<1>1. Init => Stream!StreamInit
  BY MapsInit
<1>2. ASSUME BusInv, BusInv', [Next]_vars
      PROVE  [Stream!StreamNext]_<<IsOpen, IsOpen /\ ErrorComing, Due>>
  <2>1. CASE Next
    BY <1>2, <2>1, MapsNext DEF BusInv
  <2>2. CASE UNCHANGED vars
    BY <2>2 DEF vars, redisVars, pubsubVars, subVars, goVars, chanVars, historyVars, IsOpen, ErrorComing,
       PubSubBreaks, TrackingBreaks, Due, FlushComing, ResetSent
  <2> QED BY <1>2, <2>1, <2>2
<1> QED BY <1>1, <1>2, BusInvariant, PTL
    DEF Spec, ImplementsEventStream, Stream!StreamSpec, Stream!streamVars
================================================================================
