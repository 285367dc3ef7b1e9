------------------------------ MODULE WsServer ------------------------------
(***************************************************************************)
(* The WebSocket server (transport/websocket/ws_server.c) over the event   *)
(* bus of the engine (engine/src/event_bus.c): connections, the client     *)
(* table with its removal by swapping, subscriptions and the callback      *)
(* contexts allocated for them.                                            *)
(*                                                                         *)
(* The server runs in one thread: each action is what one round of the     *)
(* main loop does for one socket.  A descriptor is a number that the       *)
(* system gives out again after close, lowest first; `conn' remembers      *)
(* which connection is behind it.  A subscribe message with several topics *)
(* does what several messages with one topic do.                           *)
(***************************************************************************)
EXTENDS Slots, Sequences

CONSTANTS
  MaxClients,     \* MAX_CLIENTS
  MaxSubscribers, \* MAX_SUBSCRIBERS of the event bus
  Topics,         \* the topics of events
  Filters,        \* the topic filters of clients, each the set of topics it matches
  NumFds,         \* descriptors
  MaxConnections  \* bound: connections ever accepted

ASSUME SizeAssumption ==
  /\ MaxClients \in Nat \ {0}
  /\ MaxSubscribers \in Nat
  /\ NumFds \in Nat
  /\ MaxConnections \in Nat
ASSUME FilterAssumption == Filters \subseteq SUBSET Topics

VARIABLES
  clients,    \* srv->clients: descriptor, handshake_done, sub_id, cb_ctx
  subs,       \* e->subscribers, each with its context: filter, active, and the
              \* context's descriptor, its connection and whether it is allocated
  conn,       \* the connection behind each descriptor, 0 when it is closed
  accepted    \* connections accepted so far

vars == <<clients, subs, conn, accepted>>

Fds == Indices(NumFds)
ClosedFds == {fd \in Fds : conn[fd] = 0}
OpenFds == Fds \ ClosedFds
Clients == DOMAIN clients

(* Subscription ids count from 1 and entries are never given up: the id of  *)
(* a subscription is its position.                                          *)
Subscriptions == DOMAIN subs

Init ==
  /\ clients = <<>>
  /\ subs = <<>>
  /\ conn = [fd \in Fds |-> 0]
  /\ accepted = 0

-----------------------------------------------------------------------------
(* Mutant: an off-by-one in the test for room in the client table. *)
AcceptOneMore ==
  /\ accepted < MaxConnections
  /\ ClosedFds # {}
  /\ Len(clients) <= MaxClients
  /\ accepted' = accepted + 1
  /\ clients' = Append(clients, [fd |-> First(ClosedFds), handshake |-> FALSE, sub |-> 0, ctx |-> 0])
  /\ conn' = [conn EXCEPT ![First(ClosedFds)] = accepted + 1]
  /\ UNCHANGED subs

(* A connection is accepted; one too many is closed again at once, which    *)
(* changes nothing.                                                         *)
Accept ==
  /\ accepted < MaxConnections
  /\ ClosedFds # {}
  /\ Len(clients) < MaxClients
  /\ accepted' = accepted + 1
  /\ clients' = Append(clients, [fd |-> First(ClosedFds), handshake |-> FALSE, sub |-> 0, ctx |-> 0])
  /\ conn' = [conn EXCEPT ![First(ClosedFds)] = accepted + 1]
  /\ UNCHANGED subs

(* Mutant: the last client is not moved into the gap. *)
WithoutClientMoved(i) == SubSeq(clients, 1, Len(clients) - 1)

(* The client table without its i-th entry: the last one takes its place. *)
WithoutClient(i) ==
  [k \in 1 .. (Len(clients) - 1) |-> IF k = i THEN clients[Len(clients)] ELSE clients[k]]

(* SCLOSE and the removal from the table. *)
Drop(i) ==
  /\ conn' = [conn EXCEPT ![clients[i].fd] = 0]
  /\ clients' = WithoutClient(i)
  /\ UNCHANGED accepted

Handshake(i) ==
  /\ ~clients[i].handshake
  /\ clients' = [clients EXCEPT ![i].handshake = TRUE]
  /\ UNCHANGED <<subs, conn, accepted>>

(* The token or the key of the handshake is wrong. *)
RefuseHandshake(i) ==
  /\ ~clients[i].handshake
  /\ Drop(i)
  /\ UNCHANGED subs

(* ws_handle_message, "subscribe": a context is allocated for the topic and *)
(* handed to eb_subscribe; the client remembers the last one only.  With a  *)
(* full subscriber table the context is freed again and nothing changes,    *)
(* although the client gets its ack.                                        *)
Subscribe(i, filter) ==
  /\ clients[i].handshake
  /\ Len(subs) < MaxSubscribers
  /\ subs' = Append(subs, [filter |-> filter, active |-> TRUE, live |-> TRUE,
                           fd |-> clients[i].fd, conn |-> conn[clients[i].fd]])
  /\ clients' = [clients EXCEPT ![i].sub = Len(subs) + 1, ![i].ctx = Len(subs) + 1]
  /\ UNCHANGED <<conn, accepted>>

(* Mutants: the client keeps the id; the context is freed but still held. *)
UnsubscribeKeepsId(i) ==
  /\ clients[i].handshake
  /\ clients[i].sub # 0
  /\ subs' = [subs EXCEPT ![clients[i].sub].active = FALSE]
  /\ UNCHANGED <<clients, conn, accepted>>
UnsubscribeFrees(i) ==
  /\ clients[i].handshake
  /\ clients[i].sub # 0
  /\ subs' = [subs EXCEPT ![clients[i].sub].active = FALSE, ![clients[i].ctx].live = FALSE]
  /\ clients' = [clients EXCEPT ![i].sub = 0]
  /\ UNCHANGED <<conn, accepted>>

(* ws_handle_message, "unsubscribe": the context stays for the disconnect. *)
Unsubscribe(i) ==
  /\ clients[i].handshake
  /\ clients[i].sub # 0
  /\ subs' = [subs EXCEPT ![clients[i].sub].active = FALSE]
  /\ clients' = [clients EXCEPT ![i].sub = 0]
  /\ UNCHANGED <<conn, accepted>>

(* Mutant: the subscription outlives the client. *)
DisconnectKeepsSubscription(i) ==
  /\ subs' = [k \in Subscriptions |->
                [subs[k] EXCEPT !.live = @ /\ k # clients[i].ctx]]
  /\ Drop(i)

(* recv returned 0 or an error: unsubscribe, free the context, close. *)
Disconnect(i) ==
  /\ subs' = [k \in Subscriptions |->
                [subs[k] EXCEPT !.active = @ /\ k # clients[i].sub,
                                !.live   = @ /\ k # clients[i].ctx]]
  /\ Drop(i)

(* A CLOSE frame: the client is dropped, its subscription stays. *)
CloseFrame(i) ==
  /\ clients[i].handshake
  /\ Drop(i)
  /\ UNCHANGED subs

Next ==
  \/ Accept
  \/ \E i \in Clients :
       \/ Handshake(i)
       \/ RefuseHandshake(i)
       \/ \E filter \in Filters : Subscribe(i, filter)
       \/ Unsubscribe(i)
       \/ Disconnect(i)
       \/ CloseFrame(i)

Spec == Init /\ [][Next]_vars

-----------------------------------------------------------------------------
(* eb_publish: the subscriptions whose callback an event of the topic runs. *)
Notified(topic) == {k \in Subscriptions : subs[k].active /\ topic \in subs[k].filter}

(* ws_event_callback sends to the descriptor of the context: the pairs of   *)
(* the connection that subscribed and the one that receives the event.      *)
Deliveries(topic) ==
  {<<subs[k].conn, conn[subs[k].fd]>> :
     k \in {n \in Notified(topic) : subs[n].fd \in OpenFds}}

-----------------------------------------------------------------------------
Client == [fd : Fds, handshake : BOOLEAN, sub : Nat, ctx : Nat]
Subscription ==
  [filter : Filters, active : BOOLEAN, live : BOOLEAN, fd : Fds, conn : Nat]

(* The type of the state: both tables stay within their arrays. *)
TypeOK ==
  /\ clients \in Seq(Client)
  /\ Len(clients) <= MaxClients
  /\ subs \in Seq(Subscription)
  /\ Len(subs) <= MaxSubscribers
  /\ conn \in [Fds -> Nat]
  /\ accepted \in Nat

(* The client table and the open sockets agree under every order of         *)
(* removals: no two entries share a socket, none is closed, none is lost.   *)
ClientsOwnSockets ==
  /\ \A i, j \in Clients : clients[i].fd = clients[j].fd => i = j
  /\ OpenFds = {clients[i].fd : i \in Clients}

(* The id a client holds names its own active subscription, bound to its    *)
(* own connection: an event of the topic reaches it, and its unsubscribe    *)
(* ends no subscription of somebody else.                                   *)
SubscriptionBelongs ==
  \A i \in Clients : clients[i].sub # 0 =>
    /\ clients[i].sub \in Subscriptions
    /\ LET s == subs[clients[i].sub]
       IN  s.active /\ s.fd = clients[i].fd /\ s.conn = conn[clients[i].fd]

(* No callback runs on a freed context: whatever a client did before it     *)
(* disconnected, an active subscription has its context.                    *)
NoDanglingContext == \A k \in Subscriptions : subs[k].active => subs[k].live

(* A disconnect frees a context that is allocated and that no other client  *)
(* will free again.                                                         *)
HeldContextsLive ==
  \A i \in Clients : clients[i].ctx # 0 =>
    /\ clients[i].ctx \in Subscriptions
    /\ subs[clients[i].ctx].live
    /\ \A j \in Clients : clients[j].ctx = clients[i].ctx => i = j
=============================================================================
