-------------------------------- MODULE Events --------------------------------
(***************************************************************************)
(* Notifications: the in-process bus of every process, the Redis channel   *)
(* between them, the bridge that re-emits what other processes published,  *)
(* and the WebSocket connections of one API process with their tickets.    *)
(***************************************************************************)
EXTENDS Naturals, Sequences, FiniteSets

CONSTANTS
    EventProcesses,  \* the processes that emit
    ApiServer,       \* the one that serves /ws/events and runs the bridge
    Sockets,
    Tickets,
    QUEUE_SIZE,      \* maxsize of a subscriber's queue
    MaxEvents        \* bound: events per process

VARIABLES
    emitted,       \* how many events each process emitted
    publishing,    \* FALSE while _publish_disabled_until is ahead
    channel,       \* messages Redis holds for the bridge
    bridge,        \* "down" or "subscribed"
    socket,        \* one /ws/events connection: its queue and what it sent
    ticket         \* the ticket store

eventVars == <<emitted, publishing, channel, bridge, socket, ticket>>

Closed == [open |-> FALSE, queue |-> <<>>, sent |-> <<>>]

\* A typed event may be hidden from the subscriber; an untyped one never is.
Event(origin, n) == [origin |-> origin, n |-> n]

\* EventBus.emit: a full queue loses the event, nobody waits.
BusEmit(s, event) ==
    IF s.open /\ Len(s.queue) < QUEUE_SIZE THEN [s EXCEPT !.queue = Append(@, event)] ELSE s

(***************************************************************************)
(* Emitting.                                                               *)
(***************************************************************************)

\* Best effort: the message reaches Redis (which keeps it only for a
\* subscriber), or fails and the publisher backs off.
publish_to_redis(p, event) ==
    \/ /\ publishing[p]
       /\ channel' = IF bridge = "subscribed" THEN Append(channel, event) ELSE channel
       /\ UNCHANGED publishing
    \/ /\ publishing[p]
       /\ publishing' = [publishing EXCEPT ![p] = FALSE]
       /\ UNCHANGED channel
    \/ /\ ~publishing[p]
       /\ UNCHANGED <<publishing, channel>>

emit_event(p) ==
    /\ emitted[p] < MaxEvents
    /\ emitted' = [emitted EXCEPT ![p] = @ + 1]
    /\ LET event == Event(p, emitted[p] + 1)
       IN /\ socket' = IF p = ApiServer
                       THEN [k \in Sockets |-> BusEmit(socket[k], event)]
                       ELSE socket
          /\ publish_to_redis(p, event)
    /\ UNCHANGED <<bridge, ticket>>

BackoffEnds(p) ==
    /\ ~publishing[p]
    /\ publishing' = [publishing EXCEPT ![p] = TRUE]
    /\ UNCHANGED <<emitted, channel, bridge, socket, ticket>>

(***************************************************************************)
(* EventBridge.                                                            *)
(***************************************************************************)

\* Mutant: the bridge forwards what its own process published.
handle_raw_any(event) == [k \in Sockets |-> BusEmit(socket[k], event)]

handle_raw(event) ==
    IF event.origin = ApiServer THEN socket
    ELSE [k \in Sockets |-> BusEmit(socket[k], event)]

BridgeSubscribes ==
    /\ bridge = "down" /\ bridge' = "subscribed"
    /\ UNCHANGED <<emitted, publishing, channel, socket, ticket>>

BridgePolls ==
    /\ bridge = "subscribed" /\ channel # <<>>
    /\ channel' = Tail(channel)
    /\ socket' = handle_raw(Head(channel))
    /\ UNCHANGED <<emitted, publishing, bridge, ticket>>

\* The connection drops: what Redis held for it is gone.
BridgeDrops ==
    /\ bridge = "subscribed" /\ bridge' = "down" /\ channel' = <<>>
    /\ UNCHANGED <<emitted, publishing, socket, ticket>>

(***************************************************************************)
(* Tickets and connections.                                                *)
(***************************************************************************)
issue_ws_ticket(t) ==
    /\ ticket[t] = "none"
    /\ ticket' = [ticket EXCEPT ![t] = "live"]
    /\ UNCHANGED <<emitted, publishing, channel, bridge, socket>>

TicketExpires(t) ==
    /\ ticket[t] = "live"
    /\ ticket' = [ticket EXCEPT ![t] = "expired"]
    /\ UNCHANGED <<emitted, publishing, channel, bridge, socket>>

\* The record is popped under the lock, whether it is still valid or not.
redeem(t) == [ticket EXCEPT ![t] = "gone"]

Accepted(k) == [socket EXCEPT ![k] = [Closed EXCEPT !.open = TRUE]]

\* With a live ticket, or with an expired one and an Authorization header.
events_socket(k, t) ==
    /\ ~socket[k].open /\ ticket[t] \in {"live", "expired"}
    /\ ticket' = redeem(t)
    /\ socket' = Accepted(k)
    /\ UNCHANGED <<emitted, publishing, channel, bridge>>

\* A client that is no browser sends a bearer token and needs no ticket.
BearerSocket(k) ==
    /\ ~socket[k].open
    /\ socket' = Accepted(k)
    /\ UNCHANGED <<emitted, publishing, channel, bridge, ticket>>

\* An expired ticket is popped and, without a header, the handshake refused.
RefusedSocket(t) ==
    /\ ticket[t] = "expired"
    /\ ticket' = [ticket EXCEPT ![t] = "gone"]
    /\ UNCHANGED <<emitted, publishing, channel, bridge, socket>>

\* visible_to decides, or raises and the event is dropped.
pump(k) ==
    /\ socket[k].open /\ socket[k].queue # <<>>
    /\ \E visible \in BOOLEAN :
         socket' = [socket EXCEPT ![k].queue = Tail(@),
                                  ![k].sent = IF visible THEN Append(@, Head(socket[k].queue))
                                              ELSE @]
    /\ UNCHANGED <<emitted, publishing, channel, bridge, ticket>>

Disconnects(k) ==
    /\ socket[k].open
    /\ socket' = [socket EXCEPT ![k] = Closed]
    /\ UNCHANGED <<emitted, publishing, channel, bridge, ticket>>

EventInit ==
    /\ emitted = [p \in EventProcesses |-> 0]
    /\ publishing = [p \in EventProcesses |-> TRUE]
    /\ channel = <<>> /\ bridge = "down"
    /\ socket = [k \in Sockets |-> Closed]
    /\ ticket = [t \in Tickets |-> "none"]

EventNext ==
    \/ \E p \in EventProcesses : emit_event(p) \/ BackoffEnds(p)
    \/ BridgeSubscribes \/ BridgePolls \/ BridgeDrops
    \/ \E t \in Tickets : issue_ws_ticket(t) \/ TicketExpires(t) \/ RefusedSocket(t)
    \/ \E k \in Sockets : pump(k) \/ Disconnects(k) \/ BearerSocket(k)
    \/ \E k \in Sockets, t \in Tickets : events_socket(k, t)

EventSpec == EventInit /\ [][EventNext]_eventVars

(***************************************************************************)
(* Properties.                                                             *)
(***************************************************************************)

\* A browser sees each event of a process at most once and in the order of
\* emission, whichever way it came (the local bus or Redis and the bridge) and
\* whatever was lost on the way: EventBridge.handle_raw drops its own
\* process's events and never re-publishes.
DeliveredOnceInOrder ==
    \A k \in Sockets : \A i, j \in DOMAIN socket[k].sent :
      (i < j /\ socket[k].sent[i].origin = socket[k].sent[j].origin)
        => socket[k].sent[i].n < socket[k].sent[j].n

=============================================================================
