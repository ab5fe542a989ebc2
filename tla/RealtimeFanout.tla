---------------------------- MODULE RealtimeFanout ----------------------------
(***************************************************************************)
(* Lifecycle events on their way to operators: the ops.events exchange,    *)
(* the durable queue of the realtime gateway (RabbitMqService), its        *)
(* consumer (RealtimeEventConsumer) and the Socket.IO rooms                *)
(* (RealtimeEventsGateway).  An event is the number of its publication; of *)
(* its topic only the prefix matters.                                      *)
(***************************************************************************)
EXTENDS Naturals, Sequences, FiniteSets

CONSTANTS Sockets,     \* clients
          Families,    \* topic prefixes in use
          Names,       \* channel names clients send, supported or not
          MaxEvents,   \* bound on publications
          MaxFaults    \* bound on crashes of the gateway and shutdowns of the broker

\* The entries of CHANNEL_TO_ROOM: every channel names its room.
Channels == {"jobs", "alerts", "incidents", "notifications"}

\* What else it answers to: CHANNEL_TO_ROOM is an object literal, and so inherits
\* these from Object.prototype.  Each has a value of its own, a function or an
\* object, that serves as the room; it goes by the name here.
Inherited == {"constructor", "hasOwnProperty", "isPrototypeOf", "propertyIsEnumerable",
              "toLocaleString", "toString", "valueOf", "__proto__", "__defineGetter__",
              "__defineSetter__", "__lookupGetter__", "__lookupSetter__"}

Rooms == Channels \cup Inherited \cup {"operators"}

ASSUME FamiliesAssumption ==
    Families \subseteq {"job", "alert", "incident", "notification", "system"}
ASSUME BoundsAssumption == MaxEvents \in Nat /\ MaxFaults \in Nat

VARIABLES
    published,  \* the prefixes of the events published so far, in order
    bound,      \* the queue exists and is bound to the exchange
    routed,     \* events the exchange put into the queue (bookkeeping)
    queue,      \* messages ready in the queue
    pushed,     \* messages the broker pushed to the gateway, not handled yet
    handled,    \* messages handled whose ack the broker has not seen
    up,         \* the gateway is running
    listening,  \* and its AMQP connection is open
    members,    \* <<s, room>>: socket s is in room
    since,      \* since[s]: events published when s connected
    inbox,      \* inbox[s]: the frames s received since it connected
    shown,      \* events that were broadcast
    faults      \* faults so far

brokerVars == <<published, bound, routed, queue>>
socketVars == <<members, since, inbox>>
gatewayVars == <<up, listening>>
vars == <<brokerVars, pushed, handled, gatewayVars, socketVars, shown, faults>>

Init ==
    /\ published = <<>> /\ bound = FALSE /\ routed = {} /\ queue = <<>>
    /\ pushed = <<>> /\ handled = <<>> /\ up = FALSE /\ listening = FALSE
    /\ members = {}
    /\ since = [s \in Sockets |-> 0]
    /\ inbox = [s \in Sockets |-> <<>>]
    /\ shown = {}
    /\ faults = 0

Connected(s) == <<s, "operators">> \in members

-----------------------------------------------------------------------------
(* RabbitMqService *)

\* Any service publishes.  Without a bound queue the exchange drops the event, and
\* publish() answers nobody: what did not leave the publisher's buffer is lost
\* with it.
PublishEvent(prefix) ==
    /\ Len(published) < MaxEvents
    /\ published' = Append(published, prefix)
    /\ \/ /\ bound
          /\ queue' = Append(queue, Len(published'))
          /\ routed' = routed \cup {Len(published')}
       \/ UNCHANGED <<queue, routed>>
    /\ UNCHANGED <<bound, pushed, handled, gatewayVars, socketVars, shown, faults>>

\* onModuleInit: assertQueue, bindQueue, consume.
CreateEventConsumer ==
    /\ ~up
    /\ up' = TRUE
    /\ listening' = TRUE
    /\ bound' = TRUE
    /\ UNCHANGED <<published, routed, queue, pushed, handled, socketVars, shown, faults>>

\* Mutant of Deliver: a prefetch of one message on a channel whose acks nobody owes.
DeliverOneAtATime ==
    /\ listening
    /\ queue # <<>> /\ pushed = <<>> /\ handled = <<>>
    /\ queue' = Tail(queue)
    /\ pushed' = Append(pushed, Head(queue))
    /\ UNCHANGED <<published, bound, routed, handled, gatewayVars, socketVars, shown, faults>>

\* No prefetch on this channel: the broker pushes ahead of the handler.
Deliver ==
    /\ listening
    /\ queue # <<>>
    /\ queue' = Tail(queue)
    /\ pushed' = Append(pushed, Head(queue))
    /\ UNCHANGED <<published, bound, routed, handled, gatewayVars, socketVars, shown, faults>>

Ack ==
    /\ handled # <<>>
    /\ handled' = Tail(handled)
    /\ UNCHANGED <<brokerVars, pushed, gatewayVars, socketVars, shown, faults>>

-----------------------------------------------------------------------------
(* RealtimeEventsGateway *)

RoomOf == [job |-> "jobs", alert |-> "alerts", incident |-> "incidents",
           notification |-> "notifications"]

\* Mutants of Targets: the room of the topic instead of both; no return after a
\* room.
TargetsRoomOnly(prefix) ==
    IF prefix \in DOMAIN RoomOf THEN {RoomOf[prefix]} ELSE {"operators"}
TargetsAll(prefix) == Rooms

\* The rooms an event is emitted to, one emit after the other.
Targets(prefix) ==
    {"operators"} \cup (IF prefix \in DOMAIN RoomOf THEN {RoomOf[prefix]} ELSE {})

\* The frames a broadcast sends to a socket: one for each emit it is in the room of.
Frames(s, e) ==
    LET rooms == {room \in Targets(published[e]) : <<s, room>> \in members}
    IN  [i \in 1 .. Cardinality(rooms) |-> e]

\* The handler runs to its end in one go and its ack is sent right after it; a
\* broker that has closed the connection does not read it.
Broadcast ==
    /\ pushed # <<>>
    /\ LET e == Head(pushed) IN
       /\ inbox' = [s \in Sockets |-> inbox[s] \o Frames(s, e)]
       /\ pushed' = Tail(pushed)
       /\ handled' = IF listening THEN Append(handled, e) ELSE handled
       /\ shown' = shown \cup {e}
    /\ UNCHANGED <<brokerVars, gatewayVars, members, since, faults>>

\* A socket with the right token; any other is disconnected at once.
HandleConnection(s) ==
    /\ up
    /\ ~Connected(s)
    /\ members' = members \cup {<<s, "operators">>}
    /\ since' = [since EXCEPT ![s] = Len(published)]
    /\ inbox' = [inbox EXCEPT ![s] = <<>>]
    /\ UNCHANGED <<brokerVars, pushed, handled, gatewayVars, shown, faults>>

\* Mutant of Supported: no name is skipped.
SupportedAny(names) == names

\* The names CHANNEL_TO_ROOM has something truthy for; the others are skipped.
Supported(names) == names \cap (Channels \cup Inherited)

Subscribe(s, names) ==
    /\ Connected(s)
    /\ members' = members \cup ({s} \X Supported(names))
    /\ UNCHANGED <<brokerVars, pushed, handled, gatewayVars, since, inbox, shown, faults>>

Unsubscribe(s, names) ==
    /\ Connected(s)
    /\ members' = members \ ({s} \X Supported(names))
    /\ UNCHANGED <<brokerVars, pushed, handled, gatewayVars, since, inbox, shown, faults>>

\* Socket.IO takes a socket that goes away out of every room.
Disconnect(s) ==
    /\ Connected(s)
    /\ members' = {m \in members : m[1] # s}
    /\ UNCHANGED <<brokerVars, pushed, handled, gatewayVars, since, inbox, shown, faults>>

Fault ==
    /\ up
    /\ faults < MaxFaults
    /\ faults' = faults + 1

\* Mutant of Unacknowledged: consume with noAck, or an ack before the broadcast.
UnacknowledgedNone == <<>>

\* What the broker has pushed on an open connection and has no ack of.
Unacknowledged == IF listening THEN handled \o pushed ELSE <<>>

\* The gateway dies: rooms and sockets are gone, and what the broker has no ack
\* of goes back to the head of the queue.
Crash ==
    /\ Fault
    /\ up' = FALSE /\ listening' = FALSE
    /\ queue' = Unacknowledged \o queue
    /\ handled' = <<>> /\ pushed' = <<>>
    /\ members' = {}
    /\ UNCHANGED <<published, bound, routed, since, inbox, shown>>

\* The broker closes the connection in an orderly way: nobody listens to its
\* "close".  The gateway still broadcasts what it had been sent and then keeps
\* its sockets, without another event.
BrokerShutsDown ==
    /\ Fault
    /\ listening
    /\ listening' = FALSE
    /\ queue' = Unacknowledged \o queue
    /\ handled' = <<>>
    /\ UNCHANGED <<published, bound, routed, pushed, up, socketVars, shown>>

-----------------------------------------------------------------------------

Next ==
    \/ \E prefix \in Families : PublishEvent(prefix)
    \/ CreateEventConsumer \/ Deliver \/ Broadcast \/ Ack \/ Crash \/ BrokerShutsDown
    \/ \E s \in Sockets : \/ HandleConnection(s) \/ Disconnect(s)
                          \/ \E name \in Names : Subscribe(s, {name}) \/ Unsubscribe(s, {name})

Spec == Init /\ [][Next]_vars

\* The broker pushes to a consumer without prefetch, and the event loop of the
\* gateway gets to every message.  Nobody restarts the gateway for sure, and no
\* client, publication or fault is owed.
FairSpec == Spec /\ WF_vars(Deliver) /\ WF_vars(Broadcast)

-----------------------------------------------------------------------------
(* Properties *)

EventIds == 1 .. Len(published)

In(sequence) == {sequence[i] : i \in DOMAIN sequence}

TypeOK ==
    /\ published \in Seq(Families) /\ Len(published) <= MaxEvents
    /\ bound \in BOOLEAN /\ up \in BOOLEAN /\ listening \in BOOLEAN
    /\ queue \in Seq(EventIds) /\ pushed \in Seq(EventIds) /\ handled \in Seq(EventIds)
    /\ members \subseteq Sockets \X Rooms
    /\ \A m \in members : Connected(m[1])
    /\ members # {} => up
    /\ listening => up
    /\ ~up => pushed = <<>>
    /\ ~listening => handled = <<>>
    /\ since \in [Sockets -> 0 .. Len(published)]
    /\ inbox \in [Sockets -> Seq(EventIds)]
    /\ routed \subseteq EventIds /\ shown \subseteq EventIds
    /\ faults \in 0 .. MaxFaults

\* An event the exchange has put into the gateway's queue is not lost, whatever
\* the gateway had accepted, handled or acknowledged when it died or the broker
\* went away: the queue is durable and the ack comes after the broadcast
\* (rabbitmq.service.ts:92-113).
EventsKept == routed \subseteq In(queue) \cup In(pushed) \cup In(handled) \cup shown

\* A client that stays connected misses nothing that was routed since it
\* connected, whatever it subscribed to and left meanwhile: it has the event, or
\* the event is still ahead of it (realtime-events.gateway.ts:67, 97-124).
ConnectedMissNothing ==
    \A s \in Sockets : Connected(s) =>
        \A e \in routed : e > since[s] => e \in In(inbox[s]) \cup In(queue) \cup In(pushed)

\* What a client receives on one connection is in the order of publication, and
\* it sees an event at most twice, even if the gateway died before and the
\* broker delivers again (realtime-events.gateway.ts:117-144,
\* docs/websocket-flow.md:100-102).
InOrder ==
    \A s \in Sockets : \A i, k \in DOMAIN inbox[s] :
        /\ i < k => inbox[s][i] <= inbox[s][k]
        /\ i + 1 < k => inbox[s][i] < inbox[s][k]

\* Every routed event is shown in the end, as long as the gateway runs and its
\* connection is open: no message waits behind one that nobody handles
\* (rabbitmq.service.ts:96-117, realtime-event.consumer.ts:17-28).
EventsShown ==
    \A e \in 1 .. MaxEvents : e \in routed ~> e \in shown \/ ~listening
=============================================================================
