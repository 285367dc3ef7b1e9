---------------------------- MODULE WsServerProofs ----------------------------
(***************************************************************************)
(* Proofs about WsServer: the client table owns the open sockets, and no   *)
(* callback ever has a freed context, for tables of every size.            *)
(***************************************************************************)
EXTENDS WsServer, SlotsProofs, SequenceTheorems

(* The id a client holds and the context it will free belong to the same   *)
(* subscription: both are set by "subscribe", and only the id is cleared.  *)
SubscriptionHoldsContext ==
  \A i \in Clients : clients[i].sub # 0 => clients[i].sub = clients[i].ctx

(* A client that unsubscribed holds the context of a silent subscription.  *)
ReleasedContextSilent ==
  \A i \in Clients :
    clients[i].ctx # 0 /\ clients[i].sub = 0 => ~subs[clients[i].ctx].active

IInv ==
  /\ TypeOK
  /\ ClientsOwnSockets
  /\ SubscriptionBelongs
  /\ NoDanglingContext
  /\ HeldContextsLive
  /\ SubscriptionHoldsContext
  /\ ReleasedContextSilent

-----------------------------------------------------------------------------
(* Appending an element changes no other position. *)
LEMMA AppendAt ==
  ASSUME NEW S, NEW s \in Seq(S), NEW e \in S
  PROVE  /\ Append(s, e) \in Seq(S)
         /\ Len(Append(s, e)) = Len(s) + 1
         /\ DOMAIN Append(s, e) = 1 .. (Len(s) + 1)
         /\ \A k \in 1 .. Len(s) : Append(s, e)[k] = s[k]
         /\ Append(s, e)[Len(s) + 1] = e
OBVIOUS

(* The position a client had before the i-th one was removed. *)
Before(i) == [k \in 1 .. (Len(clients) - 1) |-> IF k = i THEN Len(clients) ELSE k]

(* Removal by moving the last client into the gap keeps every other client,*)
(* each once.                                                              *)
LEMMA Removal ==
  ASSUME TypeOK, NEW i \in Clients
  PROVE  /\ WithoutClient(i) \in Seq(Client)
         /\ Len(WithoutClient(i)) = Len(clients) - 1
         /\ DOMAIN WithoutClient(i) = 1 .. (Len(clients) - 1)
         /\ \A k \in 1 .. (Len(clients) - 1) :
              /\ Before(i)[k] \in Clients \ {i}
              /\ WithoutClient(i)[k] = clients[Before(i)[k]]
         /\ \A j, k \in 1 .. (Len(clients) - 1) :
              Before(i)[j] = Before(i)[k] => j = k
         /\ \A c \in Clients \ {i} :
              \E k \in 1 .. (Len(clients) - 1) : Before(i)[k] = c
<1> DEFINE n == Len(clients)
           W == WithoutClient(i)
           B == Before(i)
<1>1. n \in Nat /\ clients \in [1 .. n -> Client] /\ Clients = 1 .. n /\ i \in 1 .. n
  BY LenProperties DEF TypeOK, Clients
<1>2. n - 1 \in Nat
  BY <1>1
<1>3. W \in [1 .. (n - 1) -> Client]
  BY <1>1, <1>2 DEF WithoutClient
<1>4. W \in Seq(Client) /\ Len(W) = n - 1 /\ DOMAIN W = 1 .. (n - 1)
  BY <1>2, <1>3
<1>5. \A k \in 1 .. (n - 1) : B[k] = IF k = i THEN n ELSE k
  BY DEF Before
<1>6. \A k \in 1 .. (n - 1) : B[k] \in Clients \ {i} /\ W[k] = clients[B[k]]
  BY <1>1, <1>2, <1>5 DEF WithoutClient
<1>7. \A j, k \in 1 .. (n - 1) : B[j] = B[k] => j = k
  BY <1>1, <1>2, <1>5
<1>8. ASSUME NEW c \in Clients \ {i}
      PROVE  \E k \in 1 .. (n - 1) : B[k] = c
  <2> HIDE DEF n, B
  <2>1. n \in Nat /\ i \in 1 .. n /\ c \in 1 .. n /\ c # i
    BY <1>1
  <2>2. CASE c = n
    <3>1. i \in 1 .. (n - 1) /\ B[i] = c
      BY <1>5, <2>1, <2>2
    <3> QED BY <3>1
  <2>3. CASE c # n
    <3>1. c \in 1 .. (n - 1) /\ B[c] = c
      BY <1>5, <2>1, <2>3
    <3> QED BY <3>1
  <2> QED BY <2>2, <2>3
<1> QED BY <1>4, <1>6, <1>7, <1>8

(* The descriptors the system may give out are descriptors. *)
LEMMA DescriptorIsClosed ==
  ASSUME ClosedFds # {}
  PROVE  First(ClosedFds) \in ClosedFds /\ First(ClosedFds) \in Fds
<1>1. ClosedFds \in SUBSET Nat
  BY SizeAssumption DEF ClosedFds, Fds, Indices
<1> QED BY <1>1, FirstIsLeast DEF ClosedFds

-----------------------------------------------------------------------------
(* A new client has a socket of its own, and neither id nor context. *)
LEMMA AcceptKeeps ==
  ASSUME IInv, Accept
  PROVE  IInv'
<1> DEFINE n == Len(clients)
           fd == First(ClosedFds)
           new == [fd |-> fd, handshake |-> FALSE, sub |-> 0, ctx |-> 0]
<1>1. fd \in Fds /\ conn[fd] = 0
  BY DescriptorIsClosed DEF Accept, ClosedFds
<1>2. clients \in Seq(Client) /\ n \in Nat /\ Clients = 1 .. n /\ accepted \in Nat
      /\ conn \in [Fds -> Nat]
  BY LenProperties DEF IInv, TypeOK, Clients
<1>3. new \in Client
  BY <1>1 DEF Client
<1>4. clients' = Append(clients, new) /\ accepted' = accepted + 1 /\ UNCHANGED subs
      /\ conn' = [conn EXCEPT ![fd] = accepted + 1]
  BY DEF Accept
<1>5. /\ clients' \in Seq(Client) /\ Len(clients') = n + 1 /\ Clients' = 1 .. (n + 1)
      /\ \A k \in 1 .. n : clients'[k] = clients[k]
      /\ clients'[n + 1] = new
  BY <1>2, <1>3, <1>4, AppendAt DEF Clients
<1>6. \A i \in 1 .. n : clients[i].fd \in Fds /\ conn[clients[i].fd] # 0 /\ clients[i].fd # fd
  BY <1>1, <1>2 DEF IInv, ClientsOwnSockets, OpenFds, ClosedFds
<1>7. TypeOK'
  <2>1. Len(clients') <= MaxClients
    BY <1>2, <1>5, SizeAssumption DEF Accept
  <2>2. conn' \in [Fds -> Nat] /\ accepted' \in Nat
    BY <1>1, <1>2, <1>4
  <2> QED BY <1>4, <1>5, <2>1, <2>2 DEF IInv, TypeOK
<1>8. ClientsOwnSockets'
  <2>1. \A i, j \in Clients' : clients'[i].fd = clients'[j].fd => i = j
    <3>1. \A k \in 1 .. n : clients'[k].fd = clients[k].fd /\ clients'[k].fd # fd
      BY <1>5, <1>6
    <3>2. clients'[n + 1].fd = fd
      BY <1>5
    <3>3. \A k \in 1 .. (n + 1) : k \in 1 .. n \/ k = n + 1
      BY <1>2
    <3> QED BY <1>2, <1>5, <3>1, <3>2, <3>3 DEF IInv, ClientsOwnSockets
  <2>2. OpenFds' = OpenFds \cup {fd}
    BY <1>1, <1>2, <1>4 DEF OpenFds, ClosedFds
  <2>3. \A d \in OpenFds : \E i \in 1 .. n : clients'[i].fd = d
    BY <1>2, <1>5 DEF IInv, ClientsOwnSockets
  <2>4. OpenFds' = {clients'[i].fd : i \in Clients'}
    BY <1>2, <1>5, <2>2, <2>3 DEF IInv, ClientsOwnSockets
  <2> QED BY <2>1, <2>4 DEF ClientsOwnSockets
<1>9. SubscriptionBelongs'
  BY <1>1, <1>2, <1>4, <1>5, <1>6 DEF IInv, SubscriptionBelongs, Subscriptions
<1>10. NoDanglingContext' /\ HeldContextsLive'
  BY <1>2, <1>4, <1>5 DEF IInv, NoDanglingContext, HeldContextsLive, Subscriptions
<1>11. SubscriptionHoldsContext' /\ ReleasedContextSilent'
  BY <1>2, <1>4, <1>5 DEF IInv, SubscriptionHoldsContext, ReleasedContextSilent
<1> QED BY <1>7, <1>8, <1>9, <1>10, <1>11 DEF IInv

(* A client leaves.  The bus may silence the subscription of that client   *)
(* and free its context, and nothing of anybody else's.                    *)
LEMMA DropKeeps ==
  ASSUME IInv, NEW i \in Clients, Drop(i),
         subs' \in Seq(Subscription), Len(subs') = Len(subs),
         \A k \in Subscriptions :
           /\ subs'[k].fd = subs[k].fd /\ subs'[k].conn = subs[k].conn
           /\ subs'[k].active => subs[k].active /\ subs'[k].live
           /\ k # clients[i].sub => subs'[k].active = subs[k].active
           /\ k # clients[i].ctx => subs'[k].live = subs[k].live
  PROVE  IInv'
<1> DEFINE m == Len(clients) - 1
           B == Before(i)
<1>1. /\ clients' = WithoutClient(i) /\ UNCHANGED accepted
      /\ conn' = [conn EXCEPT ![clients[i].fd] = 0]
  BY DEF Drop
<1>2. /\ clients' \in Seq(Client) /\ Len(clients') = m /\ Clients' = 1 .. m
      /\ \A k \in 1 .. m : B[k] \in Clients \ {i} /\ clients'[k] = clients[B[k]]
      /\ \A j, k \in 1 .. m : B[j] = B[k] => j = k
      /\ \A c \in Clients \ {i} : \E k \in 1 .. m : B[k] = c
  BY <1>1, Removal DEF IInv, Clients
<1>3. /\ m \in Int /\ Len(clients) <= MaxClients /\ Len(clients) \in Nat
      /\ conn \in [Fds -> Nat] /\ accepted \in Nat
      /\ \A c \in Clients : clients[c].fd \in Fds
  <2>1. clients \in Seq(Client)
    BY DEF IInv, TypeOK
  <2>2. \A c \in Clients : clients[c] \in Client
    BY <2>1, ElementOfSeq, LenProperties DEF Clients
  <2> QED BY <2>1, <2>2, LenProperties DEF IInv, TypeOK, Client
<1>4. Subscriptions' = Subscriptions
  BY LenProperties DEF Subscriptions, IInv, TypeOK
<1> HIDE DEF m, B
<1>5. TypeOK'
  <2>1. Len(clients') <= MaxClients
    BY <1>2, <1>3, SizeAssumption DEF m
  <2>2. conn' \in [Fds -> Nat] /\ accepted' \in Nat
    BY <1>1, <1>3
  <2> QED BY <1>2, <2>1, <2>2 DEF IInv, TypeOK
<1>6. \A c \in Clients \ {i} :
        clients[c].fd # clients[i].fd /\ conn'[clients[c].fd] = conn[clients[c].fd]
  BY <1>1, <1>3 DEF IInv, ClientsOwnSockets
<1>7. ClientsOwnSockets'
  <2>1. \A j, k \in 1 .. m : clients'[j].fd = clients'[k].fd => j = k
    <3>1. \A j, k \in 1 .. m : clients'[j].fd = clients'[k].fd => B[j] = B[k]
      BY <1>2 DEF IInv, ClientsOwnSockets
    <3> QED BY <1>2, <3>1
  <2>2. OpenFds' = OpenFds \ {clients[i].fd}
    BY <1>1, <1>3 DEF OpenFds, ClosedFds
  <2>3. ASSUME NEW d \in OpenFds, d # clients[i].fd
        PROVE  \E k \in 1 .. m : clients'[k].fd = d
    <3>1. PICK c \in Clients : clients[c].fd = d
      BY <2>3 DEF IInv, ClientsOwnSockets
    <3>2. PICK k \in 1 .. m : B[k] = c
      BY <1>2, <2>3, <3>1
    <3> QED BY <1>2, <3>1, <3>2
  <2>4. \A k \in 1 .. m : clients'[k].fd \in OpenFds /\ clients'[k].fd # clients[i].fd
    BY <1>2, <1>6 DEF IInv, ClientsOwnSockets
  <2>5. OpenFds' = {clients'[k].fd : k \in 1 .. m}
    BY <2>2, <2>3, <2>4
  <2> QED BY <1>2, <2>1, <2>5 DEF ClientsOwnSockets
<1>8. \A c \in Clients \ {i} : clients[c].ctx # 0 => clients[c].ctx # clients[i].ctx
  BY DEF IInv, HeldContextsLive
<1>9. \A c \in Clients \ {i} : clients[c].sub # 0 => clients[c].sub # clients[i].sub
  BY <1>8 DEF IInv, SubscriptionHoldsContext
<1>10. SubscriptionBelongs'
  <2> SUFFICES ASSUME NEW k \in 1 .. m, clients'[k].sub # 0
               PROVE  /\ clients'[k].sub \in Subscriptions
                      /\ subs'[clients'[k].sub].active
                      /\ subs'[clients'[k].sub].fd = clients'[k].fd
                      /\ subs'[clients'[k].sub].conn = conn'[clients'[k].fd]
    BY <1>2, <1>4 DEF SubscriptionBelongs
  <2>1. B[k] \in Clients \ {i} /\ clients'[k] = clients[B[k]]
    BY <1>2
  <2> QED BY <1>6, <1>9, <2>1 DEF IInv, SubscriptionBelongs
<1>11. NoDanglingContext'
  BY <1>4 DEF NoDanglingContext
<1>12. HeldContextsLive'
  <2> SUFFICES ASSUME NEW k \in 1 .. m, clients'[k].ctx # 0
               PROVE  /\ clients'[k].ctx \in Subscriptions
                      /\ subs'[clients'[k].ctx].live
                      /\ \A j \in 1 .. m : clients'[j].ctx = clients'[k].ctx => k = j
    BY <1>2, <1>4 DEF HeldContextsLive
  <2>1. B[k] \in Clients \ {i} /\ clients'[k] = clients[B[k]]
    BY <1>2
  <2>2. clients'[k].ctx \in Subscriptions /\ subs'[clients'[k].ctx].live
    BY <1>8, <2>1 DEF IInv, HeldContextsLive
  <2>3. \A j \in 1 .. m : clients'[j].ctx = clients'[k].ctx => B[k] = B[j]
    BY <1>2, <2>1 DEF IInv, HeldContextsLive
  <2> QED BY <1>2, <2>2, <2>3
<1>13. SubscriptionHoldsContext'
  BY <1>2 DEF IInv, SubscriptionHoldsContext
<1>14. ReleasedContextSilent'
  <2> SUFFICES ASSUME NEW k \in 1 .. m, clients'[k].ctx # 0, clients'[k].sub = 0
               PROVE  ~subs'[clients'[k].ctx].active
    BY <1>2 DEF ReleasedContextSilent
  <2>1. B[k] \in Clients /\ clients'[k] = clients[B[k]]
    BY <1>2
  <2>2. clients[B[k]].ctx \in Subscriptions /\ ~subs[clients[B[k]].ctx].active
    BY <2>1 DEF IInv, HeldContextsLive, ReleasedContextSilent
  <2> QED BY <2>1, <2>2
<1> QED BY <1>5, <1>7, <1>10, <1>11, <1>12, <1>13, <1>14 DEF IInv

(* A wrong key, a CLOSE frame: the bus does not learn that the client left. *)
LEMMA SilentDropKeeps ==
  ASSUME IInv, NEW i \in Clients, Drop(i), UNCHANGED subs
  PROVE  IInv'
BY DropKeeps DEF IInv, TypeOK, NoDanglingContext

(* recv failed: the subscription ends and its context is freed. *)
LEMMA DisconnectKeeps ==
  ASSUME IInv, NEW i \in Clients, Disconnect(i)
  PROVE  IInv'
<1> DEFINE s(k) == [subs[k] EXCEPT !.active = @ /\ k # clients[i].sub,
                                   !.live   = @ /\ k # clients[i].ctx]
<1>1. subs \in Seq(Subscription) /\ Subscriptions = 1 .. Len(subs) /\ Len(subs) \in Nat
  BY LenProperties DEF IInv, TypeOK, Subscriptions
<1>2. subs' = [k \in 1 .. Len(subs) |-> s(k)]
  BY <1>1 DEF Disconnect
<1>3. ASSUME NEW k \in Subscriptions
      PROVE  /\ s(k) \in Subscription
             /\ s(k).fd = subs[k].fd /\ s(k).conn = subs[k].conn
             /\ s(k).active = (subs[k].active /\ k # clients[i].sub)
             /\ s(k).live = (subs[k].live /\ k # clients[i].ctx)
  <2>1. subs[k] \in Subscription
    BY <1>1, ElementOfSeq
  <2> QED BY <2>1 DEF Subscription
<1> HIDE DEF s
<1>4. subs' \in [1 .. Len(subs) -> Subscription]
  BY <1>1, <1>2, <1>3
<1>5. subs' \in Seq(Subscription) /\ Len(subs') = Len(subs)
  BY <1>1, <1>4
<1>6. \A k \in Subscriptions : subs'[k] = s(k)
  BY <1>1, <1>2
<1>7. ASSUME NEW k \in Subscriptions, s(k).active
      PROVE  s(k).live
  <2>1. subs[k].active /\ k # clients[i].sub
    BY <1>3, <1>7
  <2>2. k # clients[i].ctx
    <3>1. SUFFICES ASSUME k = clients[i].ctx PROVE FALSE
      OBVIOUS
    <3>2. k # 0
      BY <1>1
    <3>3. clients[i].sub = 0
      BY <2>1, <3>1 DEF IInv, SubscriptionHoldsContext
    <3> QED BY <2>1, <3>1, <3>2, <3>3 DEF IInv, ReleasedContextSilent
  <2> QED BY <1>3, <2>1, <2>2 DEF IInv, NoDanglingContext
<1>8. Drop(i)
  BY DEF Disconnect
<1>9. \A k \in Subscriptions :
        /\ subs'[k].fd = subs[k].fd /\ subs'[k].conn = subs[k].conn
        /\ subs'[k].active => subs[k].active /\ subs'[k].live
        /\ k # clients[i].sub => subs'[k].active = subs[k].active
        /\ k # clients[i].ctx => subs'[k].live = subs[k].live
  <2>1. \A k \in Subscriptions : subs[k].active \in BOOLEAN /\ subs[k].live \in BOOLEAN
    <3>1. \A k \in Subscriptions : subs[k] \in Subscription
      BY <1>1, ElementOfSeq
    <3> QED BY <3>1 DEF Subscription
  <2> QED BY <1>3, <1>6, <1>7, <2>1
<1> QED BY <1>5, <1>8, <1>9, DropKeeps

-----------------------------------------------------------------------------
(* Changing one client's entry changes no other position. *)
LEMMA EntryChanged ==
  ASSUME TypeOK, NEW i \in Clients, NEW c \in Client, clients' = [clients EXCEPT ![i] = c]
  PROVE  /\ clients' \in Seq(Client) /\ Len(clients') = Len(clients)
         /\ Clients' = Clients
         /\ clients'[i] = c
         /\ \A j \in Clients : j # i => clients'[j] = clients[j]
<1>1. clients \in Seq(Client) /\ Clients = 1 .. Len(clients)
  BY LenProperties DEF TypeOK, Clients
<1>2. clients' \in Seq(Client) /\ Len(clients') = Len(clients)
      /\ \A j \in 1 .. Len(clients) : clients'[j] = IF j = i THEN c ELSE clients[j]
  BY <1>1, ExceptSeq
<1>3. Clients' = 1 .. Len(clients')
  BY <1>2, LenProperties DEF Clients
<1> QED BY <1>1, <1>2, <1>3

(* The handshake touches neither socket nor subscription. *)
LEMMA HandshakeKeeps ==
  ASSUME IInv, NEW i \in Clients, Handshake(i)
  PROVE  IInv'
<1> DEFINE c == [clients[i] EXCEPT !.handshake = TRUE]
<1>1. clients[i] \in Client
  BY ElementOfSeq, LenProperties DEF IInv, TypeOK, Clients
<1>2. c \in Client /\ c.fd = clients[i].fd /\ c.sub = clients[i].sub /\ c.ctx = clients[i].ctx
  BY <1>1 DEF Client
<1>3. clients' = [clients EXCEPT ![i] = c] /\ UNCHANGED <<subs, conn, accepted>>
  BY DEF Handshake
<1> HIDE DEF c
<1>4. /\ clients' \in Seq(Client) /\ Len(clients') = Len(clients) /\ Clients' = Clients
      /\ \A j \in Clients : /\ clients'[j].fd = clients[j].fd
                            /\ clients'[j].sub = clients[j].sub
                            /\ clients'[j].ctx = clients[j].ctx
  BY <1>2, <1>3, EntryChanged DEF IInv
<1>5. TypeOK'
  BY <1>3, <1>4 DEF IInv, TypeOK
<1>6. ClientsOwnSockets'
  BY <1>3, <1>4 DEF IInv, ClientsOwnSockets, OpenFds, ClosedFds
<1>7. SubscriptionBelongs'
  BY <1>3, <1>4 DEF IInv, SubscriptionBelongs, Subscriptions
<1>8. NoDanglingContext' /\ HeldContextsLive'
  BY <1>3, <1>4 DEF IInv, NoDanglingContext, HeldContextsLive, Subscriptions
<1>9. SubscriptionHoldsContext' /\ ReleasedContextSilent'
  BY <1>3, <1>4 DEF IInv, SubscriptionHoldsContext, ReleasedContextSilent
<1> QED BY <1>5, <1>6, <1>7, <1>8, <1>9 DEF IInv

(* A new subscription: the client forgets the one it held before. *)
LEMMA SubscribeKeeps ==
  ASSUME IInv, NEW i \in Clients, NEW filter \in Filters, Subscribe(i, filter)
  PROVE  IInv'
<1> DEFINE n == Len(subs) + 1
           c == [clients[i] EXCEPT !.sub = n, !.ctx = n]
           s == [filter |-> filter, active |-> TRUE, live |-> TRUE,
                 fd |-> clients[i].fd, conn |-> conn[clients[i].fd]]
<1>1. clients[i] \in Client
  BY ElementOfSeq, LenProperties DEF IInv, TypeOK, Clients
<1>2. subs \in Seq(Subscription) /\ Subscriptions = 1 .. (n - 1) /\ n \in Nat /\ n - 1 \in Nat
      /\ conn \in [Fds -> Nat]
  BY LenProperties DEF IInv, TypeOK, Subscriptions
<1>3. c \in Client /\ c.fd = clients[i].fd /\ c.sub = n /\ c.ctx = n
  BY <1>1, <1>2 DEF Client
<1>4. s \in Subscription
  BY <1>1, <1>2 DEF Client, Subscription
<1>5. /\ subs' = Append(subs, s) /\ clients' = [clients EXCEPT ![i] = c]
      /\ UNCHANGED <<conn, accepted>> /\ n - 1 < MaxSubscribers
  <2>1. clients \in [1 .. Len(clients) -> Client] /\ i \in 1 .. Len(clients)
    BY LenProperties DEF IInv, TypeOK, Clients
  <2>2. [clients EXCEPT ![i].sub = n, ![i].ctx = n] = [clients EXCEPT ![i] = c]
    BY <2>1
  <2>3. n - 1 < MaxSubscribers
    BY <1>2 DEF Subscribe
  <2> QED BY <2>2, <2>3 DEF Subscribe
<1>6. s.active /\ s.live /\ s.fd = clients[i].fd /\ s.conn = conn[clients[i].fd]
  OBVIOUS
<1> HIDE DEF c, s
<1>7. /\ subs' \in Seq(Subscription) /\ Len(subs') = n /\ Subscriptions' = 1 .. n
      /\ \A k \in Subscriptions : k \in Subscriptions' /\ k # n /\ subs'[k] = subs[k]
      /\ subs'[n] = s /\ n \in Subscriptions' /\ n \notin Subscriptions
  BY <1>2, <1>4, <1>5, AppendAt DEF Subscriptions
<1>8. \A k \in Subscriptions' : k \in Subscriptions \/ k = n
  BY <1>2, <1>7
<1> HIDE DEF n
<1>9. /\ clients' \in Seq(Client) /\ Len(clients') = Len(clients) /\ Clients' = Clients
      /\ clients'[i] = c
      /\ \A j \in Clients : j # i => clients'[j] = clients[j]
      /\ \A j \in Clients : clients'[j].fd = clients[j].fd
  BY <1>3, <1>5, EntryChanged DEF IInv
<1>10. TypeOK'
  <2>1. Len(subs') <= MaxSubscribers
    BY <1>2, <1>5, <1>7, SizeAssumption
  <2> QED BY <1>5, <1>7, <1>9, <2>1 DEF IInv, TypeOK
<1>11. ClientsOwnSockets'
  BY <1>5, <1>9 DEF IInv, ClientsOwnSockets, OpenFds, ClosedFds
<1>12. SubscriptionBelongs'
  BY <1>3, <1>5, <1>6, <1>7, <1>9 DEF IInv, SubscriptionBelongs
<1>13. NoDanglingContext'
  BY <1>6, <1>7, <1>8 DEF IInv, NoDanglingContext
<1>14. HeldContextsLive'
  BY <1>3, <1>6, <1>7, <1>9 DEF IInv, HeldContextsLive
<1>15. SubscriptionHoldsContext'
  BY <1>3, <1>9 DEF IInv, SubscriptionHoldsContext
<1>16. ReleasedContextSilent'
  <2>1. n # 0
    BY <1>2 DEF n
  <2> QED BY <1>3, <1>7, <1>9, <2>1 DEF IInv, HeldContextsLive, ReleasedContextSilent
<1> QED BY <1>10, <1>11, <1>12, <1>13, <1>14, <1>15, <1>16 DEF IInv

(* The subscription falls silent; its context waits for the disconnect. *)
LEMMA UnsubscribeKeeps ==
  ASSUME IInv, NEW i \in Clients, Unsubscribe(i)
  PROVE  IInv'
<1> DEFINE n == clients[i].sub
           c == [clients[i] EXCEPT !.sub = 0]
           s == [subs[n] EXCEPT !.active = FALSE]
<1>1. clients[i] \in Client
  BY ElementOfSeq, LenProperties DEF IInv, TypeOK, Clients
<1>2. subs \in Seq(Subscription) /\ Subscriptions = 1 .. Len(subs) /\ n \in Subscriptions
      /\ n = clients[i].ctx /\ n # 0
  BY LenProperties
     DEF IInv, TypeOK, Subscriptions, Unsubscribe, SubscriptionBelongs, SubscriptionHoldsContext
<1>3. c \in Client /\ c.fd = clients[i].fd /\ c.sub = 0 /\ c.ctx = n
  BY <1>1, <1>2 DEF Client
<1>4. subs[n] \in Subscription
  BY <1>2, ElementOfSeq
<1>5. s \in Subscription /\ ~s.active /\ s.live = subs[n].live
      /\ s.fd = subs[n].fd /\ s.conn = subs[n].conn
  BY <1>4 DEF Subscription
<1>6. /\ subs' = [subs EXCEPT ![n] = s] /\ clients' = [clients EXCEPT ![i] = c]
      /\ UNCHANGED <<conn, accepted>>
  BY DEF Unsubscribe
<1> HIDE DEF c, s, n
<1>7. /\ subs' \in Seq(Subscription) /\ Len(subs') = Len(subs)
      /\ subs'[n] = s
      /\ \A k \in Subscriptions : k # n => subs'[k] = subs[k]
  BY <1>2, <1>5, <1>6, ExceptSeq
<1>8. Subscriptions' = Subscriptions
  BY <1>2, <1>7, LenProperties DEF Subscriptions
<1>9. /\ clients' \in Seq(Client) /\ Len(clients') = Len(clients) /\ Clients' = Clients
      /\ clients'[i] = c
      /\ \A j \in Clients : j # i => clients'[j] = clients[j]
      /\ \A j \in Clients : clients'[j].fd = clients[j].fd /\ clients'[j].ctx = clients[j].ctx
  BY <1>2, <1>3, <1>6, EntryChanged DEF IInv
<1>10. \A j \in Clients : j # i /\ clients[j].ctx # 0 => clients[j].ctx # n
  BY <1>2 DEF IInv, HeldContextsLive
<1>11. TypeOK'
  BY <1>6, <1>7, <1>9 DEF IInv, TypeOK
<1>12. ClientsOwnSockets'
  BY <1>6, <1>9 DEF IInv, ClientsOwnSockets, OpenFds, ClosedFds
<1>13. SubscriptionBelongs'
  BY <1>3, <1>6, <1>7, <1>8, <1>9, <1>10
     DEF IInv, SubscriptionBelongs, SubscriptionHoldsContext
<1>14. NoDanglingContext'
  BY <1>5, <1>7, <1>8 DEF IInv, NoDanglingContext
<1>15. HeldContextsLive'
  BY <1>5, <1>7, <1>8, <1>9 DEF IInv, HeldContextsLive
<1>16. SubscriptionHoldsContext'
  BY <1>3, <1>9 DEF IInv, SubscriptionHoldsContext
<1>17. ReleasedContextSilent'
  BY <1>3, <1>5, <1>7, <1>9, <1>10 DEF IInv, HeldContextsLive, ReleasedContextSilent
<1> QED BY <1>11, <1>12, <1>13, <1>14, <1>15, <1>16, <1>17 DEF IInv

-----------------------------------------------------------------------------
(* The invariant holds of a server without clients. *)
LEMMA InitHolds == Init => IInv
<1> SUFFICES ASSUME Init PROVE IInv
  OBVIOUS
<1>1. Clients = {} /\ Subscriptions = {}
  BY DEF Init, Clients, Subscriptions
<1>2. OpenFds = {}
  BY DEF Init, OpenFds, ClosedFds
<1>3. TypeOK
  BY SizeAssumption DEF Init, TypeOK
<1> QED
  BY <1>1, <1>2, <1>3
     DEF IInv, ClientsOwnSockets, SubscriptionBelongs, NoDanglingContext,
         HeldContextsLive, SubscriptionHoldsContext, ReleasedContextSilent

(* Every step keeps it. *)
LEMMA StepKeeps == IInv /\ [Next]_vars => IInv'
<1> SUFFICES ASSUME IInv, [Next]_vars PROVE IInv'
  OBVIOUS
<1>1. ASSUME NEW i \in Clients, RefuseHandshake(i) PROVE IInv'
  BY <1>1, SilentDropKeeps DEF RefuseHandshake
<1>2. ASSUME NEW i \in Clients, CloseFrame(i) PROVE IInv'
  BY <1>2, SilentDropKeeps DEF CloseFrame
<1>3. CASE UNCHANGED vars
  BY <1>3 DEF vars, IInv, TypeOK, ClientsOwnSockets, SubscriptionBelongs, NoDanglingContext,
              HeldContextsLive, SubscriptionHoldsContext, ReleasedContextSilent,
              Clients, Subscriptions, OpenFds, ClosedFds
<1> QED
  BY <1>1, <1>2, <1>3, AcceptKeeps, HandshakeKeeps, SubscribeKeeps, UnsubscribeKeeps,
     DisconnectKeeps DEF Next

(* In every reachable state the client table and the open sockets agree,   *)
(* the id a client holds is that of its own subscription, and contexts are *)
(* allocated as long as anybody may use or free them.                      *)
THEOREM Invariance == Spec => []IInv
<1>1. IInv /\ [Next]_vars => IInv'
  BY StepKeeps
<1> QED BY InitHolds, <1>1, PTL DEF Spec

(* The tables of the server and of the engine's subscribers never leave    *)
(* their arrays, for arrays of every size.                                 *)
THEOREM TablesTyped == Spec => []TypeOK
<1>1. IInv => TypeOK
  BY DEF IInv
<1> QED BY <1>1, Invariance, PTL

(* No two clients share a socket and none is lost, for client tables and   *)
(* descriptor tables of every size (the removal by swapping of             *)
(* aprs_ws_server_run).                                                    *)
THEOREM SocketsOwned == Spec => []ClientsOwnSockets
<1>1. IInv => ClientsOwnSockets
  BY DEF IInv
<1> QED BY <1>1, Invariance, PTL

(* The id a client holds names an active subscription of its own connection, *)
(* so its unsubscribe ends no other (ws_handle_message).                     *)
THEOREM SubscriptionsOwned == Spec => []SubscriptionBelongs
<1>1. IInv => SubscriptionBelongs
  BY DEF IInv
<1> QED BY <1>1, Invariance, PTL

(* No active subscription has a freed context, for every order of          *)
(* subscriptions, unsubscriptions and disconnects (ws_handle_message and   *)
(* aprs_ws_server_run).                                                    *)
THEOREM ContextsSafe == Spec => []NoDanglingContext
<1>1. IInv => NoDanglingContext
  BY DEF IInv
<1> QED BY <1>1, Invariance, PTL

(* No context is freed twice: those that clients hold are allocated, and   *)
(* each is held by one client (ws_handle_message).                         *)
THEOREM FreedOnce == Spec => []HeldContextsLive
<1>1. IInv => HeldContextsLive
  BY DEF IInv
<1> QED BY <1>1, Invariance, PTL
=============================================================================
