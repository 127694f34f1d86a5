--------------------------- MODULE ServicesProofs ---------------------------
(***************************************************************************)
(* Proofs about the services of module Services, for any replicas,         *)
(* statements, migrations, endpoints, sockets and devices, in any          *)
(* interleaving.                                                           *)
(***************************************************************************)
EXTENDS Services, FiniteSetTheorems, WellFoundedInduction, TLAPS

-----------------------------------------------------------------------------
(* Connections. *)

\* The calls that connect or that a failed connect leaves to its endpoint.
Connecting(w) == connects[w] \in {"ensuring", "subscribing", "failed"}

\* A socket that has not connected, or is closed, is not in the lists.
ConnShape ==
    /\ ConnectionsTypeOK
    /\ cleaning = {} \/ \E w \in Sockets : cleaning = {w}
    /\ \A w \in Sockets : connects[w] = "new" => w \notin leaving
    /\ \A w \in Sockets : connects[w] \in {"new", "closed"} => w \notin active[UserOf[w]]

\* A user whose calls have not overlapped has one call that waits, or none.  While
\* it connects, the others tell whether he is subscribed; while it leaves, he has
\* no connection; and between calls he is subscribed if he has one.
Calls(u) ==
    /\ \A v, w \in Sockets :
          /\ UserOf[v] = u /\ (Connecting(v) \/ v \in leaving)
          /\ UserOf[w] = u /\ (Connecting(w) \/ w \in leaving)
          => v = w
    /\ \A w \in Sockets : (UserOf[w] = u /\ Connecting(w)) =>
          /\ w \in active[u]
          /\ active[u] \ {w} # {} <=> u \in pubsub
          /\ connects[w] = "subscribing" => active[u] = {w}
    /\ \A w \in Sockets : (UserOf[w] = u /\ w \in leaving) => active[u] = {}
    /\ ~Busy(u) => (active[u] # {} <=> u \in pubsub)

\* A connection that has come past _ensure_listener has a listener, or an error has
\* ended it since.
Heard ==
    \A w \in Sockets : w \in active[UserOf[w]] /\ connects[w] \in {"subscribing", "open"} =>
        listener = "running" \/ UserOf[w] \in deaf

ConnInv == ConnShape /\ Heard /\ \A u \in SocketUsers \ disturbed : Calls(u)

\* The last connection of a user is known by its number.
LEMMA OneSocket ==
    ASSUME NEW S, S \subseteq Sockets
    PROVE  Cardinality(S) = 1 <=> \E w \in Sockets : S = {w}
<1>1. IsFiniteSet(S)
  BY ConnectionsAssumption, FS_Subset
<1>2. QED
  BY <1>1, FS_Singleton

\* A set of one socket at most.
LEMMA AtMostOne ==
    ASSUME NEW S, S = {} \/ \E w : S = {w}
    PROVE  Cardinality(S) <= 1
<1>1. CASE S = {}
  BY <1>1, FS_EmptySet
<1>2. ASSUME NEW w, S = {w}
      PROVE  Cardinality(S) <= 1
  BY <1>2, FS_Singleton
<1>3. QED
  BY <1>1, <1>2

\* A user's first connection subscribes, and no other one does.
LEMMA FirstConnection ==
    ASSUME NEW S, S \subseteq Sockets, NEW w \in S
    PROVE  AfterListener(S) = IF S = {w} THEN "subscribing" ELSE "open"
<1>1. Cardinality(S) = 1 <=> \E v \in Sockets : S = {v}
  BY OneSocket
<1>2. (\E v \in Sockets : S = {v}) <=> S = {w}
  OBVIOUS
<1>3. QED
  BY <1>1, <1>2 DEF AfterListener

\* At the start nobody is connected.
LEMMA ConnStart ==
    ASSUME ConnectionsInit
    PROVE  ConnInv
<1>1. Cardinality({}) <= 1
  BY FS_EmptySet
<1>2. ConnShape
  BY <1>1, ConnectionsAssumption DEF ConnectionsInit, ConnShape, ConnectionsTypeOK, SocketUsers
<1>3. ASSUME NEW u \in SocketUsers
      PROVE  Calls(u)
  BY DEF ConnectionsInit, Calls, Connecting, Busy, SocketUsers
<1>4. Heard
  BY DEF ConnectionsInit, Heard, SocketUsers
<1>5. QED
  BY <1>2, <1>3, <1>4 DEF ConnInv

\* The calls of one user do not concern another one.
LEMMA OtherUser ==
    ASSUME NEW u \in SocketUsers, Calls(u), active'[u] = active[u],
           u \in pubsub' <=> u \in pubsub,
           \A v \in Sockets : UserOf[v] = u =>
              connects'[v] = connects[v] /\ (v \in leaving' <=> v \in leaving)
    PROVE  Calls(u)'
  BY DEF Calls, Connecting, Busy

\* The lists of connections keep their shape.
LEMMA ConnShapeStep ==
    ASSUME ConnShape, [ConnectionsNext]_connVars
    PROVE  ConnShape'
<1> USE ConnectionsAssumption DEF SocketUsers, NoteOverlap, CountFailure, RemoveSocket, AfterListener
<1>1. ASSUME NEW w \in Sockets, Connect(w)
      PROVE  ConnShape'
  BY <1>1 DEF Connect, ConnShape, ConnectionsTypeOK
<1>2. ASSUME NEW w \in Sockets, EnsureListener(w)
      PROVE  ConnShape'
  BY <1>2 DEF EnsureListener, ConnShape, ConnectionsTypeOK
<1>3. ASSUME NEW w \in Sockets, SubscribeUser(w)
      PROVE  ConnShape'
  BY <1>3 DEF SubscribeUser, ConnShape, ConnectionsTypeOK
<1>4. ASSUME NEW w \in Sockets, SubscribeFails(w)
      PROVE  ConnShape'
  BY <1>4 DEF SubscribeFails, ConnShape, ConnectionsTypeOK
<1>5. ASSUME NEW w \in Sockets, Disconnect(w)
      PROVE  ConnShape'
  BY <1>5 DEF Disconnect, ConnShape, ConnectionsTypeOK
<1>6. ASSUME NEW w \in Sockets, UnsubscribeUser(w)
      PROVE  ConnShape'
  <2>1. cleaning' = {} \/ \E v \in Sockets : cleaning' = {v}
    BY <1>6 DEF UnsubscribeUser, ConnShape
  <2>2. Cardinality(cleaning') <= 1
    BY <2>1, AtMostOne
  <2>3. cleaning' \subseteq leaving'
    BY <1>6 DEF UnsubscribeUser, ConnShape, ConnectionsTypeOK
  <2>4. failures' \in 0..MaxFailures
    BY <1>6 DEF UnsubscribeUser, ConnShape, ConnectionsTypeOK
  <2>5. QED
    BY <1>6, <2>1, <2>2, <2>3, <2>4 DEF UnsubscribeUser, ConnShape, ConnectionsTypeOK
<1>7. ASSUME NEW w \in Sockets, LocalSend(w)
      PROVE  ConnShape'
  <2>1. cleaning' = {} \/ \E v \in Sockets : cleaning' = {v}
    BY <1>7 DEF LocalSend, ConnShape
  <2>2. Cardinality(cleaning') <= 1
    BY <2>1, AtMostOne
  <2>3. cleaning' \subseteq leaving'
    BY <1>7 DEF LocalSend, ConnShape, ConnectionsTypeOK
  <2>4. active' \in [SocketUsers -> SUBSET Sockets] /\ \A u \in SocketUsers : active'[u] \subseteq active[u]
    BY <1>7 DEF LocalSend, ConnShape, ConnectionsTypeOK
  <2>5. \A v \in Sockets : v \in leaving' => v \in leaving \/ v \in active[UserOf[v]]
    BY <1>7 DEF LocalSend, ConnShape, ConnectionsTypeOK
  <2>6. leaving' \subseteq Sockets /\ disturbed' \subseteq SocketUsers /\ sending' \subseteq Sockets
    BY <1>7 DEF LocalSend, ConnShape, ConnectionsTypeOK
  <2>7. UNCHANGED <<connects, pubsub, listener, failures, deaf>>
    BY <1>7 DEF LocalSend
  <2>8. QED
    BY <2>1, <2>2, <2>3, <2>4, <2>5, <2>6, <2>7, SMTT(30) DEF ConnShape, ConnectionsTypeOK
<1>8. ASSUME NEW channel \in SocketUsers \union {"broadcast"}, RedisListener(channel)
      PROVE  ConnShape'
  BY <1>8 DEF RedisListener, ConnShape, ConnectionsTypeOK
<1>9. ASSUME ListenerFails
      PROVE  ConnShape'
  <2>1. cleaning' = {} \/ \E v \in Sockets : cleaning' = {v}
    BY <1>9 DEF ListenerFails, ConnShape
  <2>2. Cardinality(cleaning') <= 1
    BY <2>1, AtMostOne
  <2>3. QED
    BY <1>9, <2>1, <2>2 DEF ListenerFails, ConnShape, ConnectionsTypeOK
<1>10. ASSUME Stop
      PROVE  ConnShape'
  <2>1. cleaning' = {} \/ \E v \in Sockets : cleaning' = {v}
    BY <1>10 DEF Stop, ConnShape
  <2>2. Cardinality(cleaning') <= 1
    BY <2>1, AtMostOne
  <2>3. QED
    BY <1>10, <2>1, <2>2 DEF Stop, ConnShape, ConnectionsTypeOK
<1>11. CASE UNCHANGED connVars
  BY <1>11 DEF connVars, ConnShape, ConnectionsTypeOK
<1>12. QED
  BY <1>1, <1>2, <1>3, <1>4, <1>5, <1>6, <1>7, <1>8, <1>9, <1>10, <1>11 DEF ConnectionsNext

\* Only an error of the connection to Redis takes the listener from the users.
LEMMA HeardStep ==
    ASSUME ConnShape, Heard, [ConnectionsNext]_connVars
    PROVE  Heard'
<1> USE DEF CountFailure, RemoveSocket, Heard, ConnShape, ConnectionsTypeOK, SocketUsers
<1>1. ASSUME NEW w \in Sockets, Connect(w)
      PROVE  Heard'
  BY <1>1 DEF Connect
<1>2. ASSUME NEW w \in Sockets, EnsureListener(w)
      PROVE  Heard'
  BY <1>2 DEF EnsureListener
<1>3. ASSUME NEW w \in Sockets, SubscribeUser(w)
      PROVE  Heard'
  BY <1>3 DEF SubscribeUser
<1>4. ASSUME NEW w \in Sockets, SubscribeFails(w)
      PROVE  Heard'
  BY <1>4 DEF SubscribeFails
<1>5. ASSUME NEW w \in Sockets, Disconnect(w)
      PROVE  Heard'
  BY <1>5 DEF Disconnect
<1>6. ASSUME NEW w \in Sockets, UnsubscribeUser(w)
      PROVE  Heard'
  BY <1>6 DEF UnsubscribeUser
<1>7. ASSUME NEW w \in Sockets, LocalSend(w)
      PROVE  Heard'
  BY <1>7 DEF LocalSend
<1>8. ASSUME NEW channel \in SocketUsers \union {"broadcast"}, RedisListener(channel)
      PROVE  Heard'
  BY <1>8 DEF RedisListener
<1>9. ASSUME ListenerFails
      PROVE  Heard'
  BY <1>9 DEF ListenerFails
<1>10. ASSUME Stop
      PROVE  Heard'
  BY <1>10 DEF Stop
<1>11. CASE UNCHANGED connVars
  BY <1>11 DEF connVars
<1>12. QED
  BY <1>1, <1>2, <1>3, <1>4, <1>5, <1>6, <1>7, <1>8, <1>9, <1>10, <1>11 DEF ConnectionsNext

\* What is true of the calls of a user stays true until they overlap.
LEMMA CallsStep ==
    ASSUME ConnInv, [ConnectionsNext]_connVars
    PROVE  \A u \in SocketUsers \ disturbed' : Calls(u)'
<1> USE DEF NoteOverlap, CountFailure, RemoveSocket, ConnInv
<1>1. ASSUME NEW w \in Sockets, Connect(w)
      PROVE  \A u \in SocketUsers \ disturbed' : Calls(u)'
  <2> SUFFICES ASSUME NEW u \in SocketUsers, u \notin disturbed'
               PROVE  Calls(u)'
    OBVIOUS
  <2>1. u \notin disturbed /\ Calls(u)
    BY <1>1 DEF Connect
  <2>2. CASE UserOf[w] # u
    BY <1>1, <2>1, <2>2, OtherUser DEF Connect, ConnShape, ConnectionsTypeOK
  <2>3. CASE UserOf[w] = u
    <3>1. \A v \in Sockets \ {w} : UserOf[v] = u => ~(Connecting(v) \/ v \in leaving)
      BY <1>1, <2>3 DEF Connect, Connecting
    <3>2. w \notin leaving /\ w \notin active[u] /\ connects[w] = "new"
      BY <1>1, <2>3 DEF Connect, ConnShape
    <3>3. active[u] # {} <=> u \in pubsub
      BY <2>1, <3>1, <3>2 DEF Calls, Busy, Connecting
    <3>4. /\ active'[u] = active[u] \union {w}
          /\ \A v \in Sockets \ {w} : connects'[v] = connects[v]
          /\ UNCHANGED <<leaving, pubsub>>
      BY <1>1, <2>3 DEF Connect, ConnShape, ConnectionsTypeOK
    <3>5. AfterListener(active[u] \union {w}) = IF active[u] = {} THEN "subscribing" ELSE "open"
      <4>1. active[u] \union {w} \subseteq Sockets
        BY DEF ConnShape, ConnectionsTypeOK
      <4>2. AfterListener(active[u] \union {w})
               = IF active[u] \union {w} = {w} THEN "subscribing" ELSE "open"
        BY <4>1, FirstConnection
      <4>3. QED
        BY <3>2, <4>2
    <3>6. connects'[w] \in {"ensuring", IF active[u] = {} THEN "subscribing" ELSE "open"}
      BY <1>1, <2>3, <3>5 DEF Connect, ConnShape, ConnectionsTypeOK
    <3>7. QED
      BY <2>3, <3>1, <3>2, <3>3, <3>4, <3>6 DEF Calls, Connecting, Busy
  <2>4. QED
    BY <2>2, <2>3
<1>2. ASSUME NEW w \in Sockets, EnsureListener(w)
      PROVE  \A u \in SocketUsers \ disturbed' : Calls(u)'
  <2> SUFFICES ASSUME NEW u \in SocketUsers, u \notin disturbed'
               PROVE  Calls(u)'
    OBVIOUS
  <2>1. u \notin disturbed /\ Calls(u)
    BY <1>2 DEF EnsureListener
  <2>2. CASE UserOf[w] # u
    BY <1>2, <2>1, <2>2, OtherUser, ConnectionsAssumption DEF EnsureListener, ConnShape, ConnectionsTypeOK
  <2>3. CASE UserOf[w] = u
    <3>1. connects[w] = "ensuring" /\ w \in active[u] /\ (active[u] \ {w} # {} <=> u \in pubsub)
      BY <1>2, <2>1, <2>3 DEF EnsureListener, Calls, Connecting
    <3>2. AfterListener(active[u]) = IF active[u] = {w} THEN "subscribing" ELSE "open"
      <4>1. active[u] \subseteq Sockets
        BY DEF ConnShape, ConnectionsTypeOK
      <4>2. QED
        BY <3>1, <4>1, FirstConnection
    <3>3. /\ connects'[w] = IF active[u] = {w} THEN "subscribing" ELSE "open"
          /\ \A v \in Sockets \ {w} : connects'[v] = connects[v]
          /\ UNCHANGED <<active, leaving>>
          /\ u \in pubsub' <=> u \in pubsub
      BY <1>2, <2>3, <3>2, ConnectionsAssumption DEF EnsureListener, ConnShape, ConnectionsTypeOK
    <3>4. QED
      BY <2>1, <2>3, <3>1, <3>3 DEF Calls, Connecting, Busy
  <2>4. QED
    BY <2>2, <2>3
<1>3. ASSUME NEW w \in Sockets, SubscribeUser(w)
      PROVE  \A u \in SocketUsers \ disturbed' : Calls(u)'
  <2> SUFFICES ASSUME NEW u \in SocketUsers, u \notin disturbed'
               PROVE  Calls(u)'
    OBVIOUS
  <2>1. u \notin disturbed /\ Calls(u)
    BY <1>3 DEF SubscribeUser
  <2>2. CASE UserOf[w] # u
    BY <1>3, <2>1, <2>2, OtherUser DEF SubscribeUser, ConnShape, ConnectionsTypeOK
  <2>3. CASE UserOf[w] = u
    <3>1. active[u] = {w}
      BY <1>3, <2>1, <2>3 DEF SubscribeUser, Calls, Connecting
    <3>2. /\ connects'[w] = "open" /\ u \in pubsub'
          /\ \A v \in Sockets \ {w} : connects'[v] = connects[v]
          /\ UNCHANGED <<active, leaving>>
      BY <1>3, <2>3 DEF SubscribeUser, ConnShape, ConnectionsTypeOK
    <3>3. connects[w] = "subscribing"
      BY <1>3 DEF SubscribeUser
    <3>4. QED
      BY <2>1, <2>3, <3>1, <3>2, <3>3 DEF Calls, Connecting, Busy
  <2>4. QED
    BY <2>2, <2>3
<1>4. ASSUME NEW w \in Sockets, SubscribeFails(w)
      PROVE  \A u \in SocketUsers \ disturbed' : Calls(u)'
  <2> SUFFICES ASSUME NEW u \in SocketUsers, u \notin disturbed'
               PROVE  Calls(u)'
    OBVIOUS
  <2>1. u \notin disturbed /\ Calls(u)
    BY <1>4 DEF SubscribeFails
  <2>2. CASE UserOf[w] # u
    BY <1>4, <2>1, <2>2, OtherUser DEF SubscribeFails, ConnShape, ConnectionsTypeOK
  <2>3. CASE UserOf[w] = u
    <3>1. /\ connects[w] \in {"ensuring", "subscribing"}
          /\ connects'[w] = "failed"
          /\ \A v \in Sockets \ {w} : connects'[v] = connects[v]
          /\ UNCHANGED <<active, leaving, pubsub>>
      BY <1>4, <2>3 DEF SubscribeFails, ConnShape, ConnectionsTypeOK
    <3>2. QED
      BY <2>1, <2>3, <3>1 DEF Calls, Connecting, Busy
  <2>4. QED
    BY <2>2, <2>3
<1>5. ASSUME NEW w \in Sockets, Disconnect(w)
      PROVE  \A u \in SocketUsers \ disturbed' : Calls(u)'
  <2> SUFFICES ASSUME NEW u \in SocketUsers, u \notin disturbed'
               PROVE  Calls(u)'
    OBVIOUS
  <2>1. u \notin disturbed /\ Calls(u)
    BY <1>5 DEF Disconnect
  <2>2. CASE UserOf[w] # u
    BY <1>5, <2>1, <2>2, OtherUser DEF Disconnect, ConnShape, ConnectionsTypeOK
  <2>3. CASE UserOf[w] = u
    <3>1. \A v \in Sockets \ {w} : UserOf[v] = u => ~(Connecting(v) \/ v \in leaving)
      BY <1>5, <2>3 DEF Disconnect, Connecting
    <3>2. /\ active'[u] = active[u] \ {w}
          /\ connects'[w] = "closed"
          /\ \A v \in Sockets \ {w} : connects'[v] = connects[v]
          /\ leaving' = IF active[u] = {w} THEN leaving \union {w} ELSE leaving
          /\ UNCHANGED pubsub
      BY <1>5, <2>3 DEF Disconnect, ConnShape, ConnectionsTypeOK
    <3>3. connects[w] \in {"open", "failed"}
      BY <1>5 DEF Disconnect
    <3>4. QED
      BY <2>1, <2>3, <3>1, <3>2, <3>3 DEF Calls, Connecting, Busy
  <2>4. QED
    BY <2>2, <2>3
<1>6. ASSUME NEW w \in Sockets, UnsubscribeUser(w)
      PROVE  \A u \in SocketUsers \ disturbed' : Calls(u)'
  <2> SUFFICES ASSUME NEW u \in SocketUsers, u \notin disturbed'
               PROVE  Calls(u)'
    OBVIOUS
  <2>1. u \notin disturbed /\ Calls(u)
    BY <1>6 DEF UnsubscribeUser
  <2>2. CASE UserOf[w] # u
    BY <1>6, <2>1, <2>2, OtherUser DEF UnsubscribeUser, ConnShape, ConnectionsTypeOK
  <2>3. CASE UserOf[w] = u
    <3>1. active[u] = {} /\ w \in leaving
      BY <1>6, <2>1, <2>3 DEF UnsubscribeUser, Calls
    <3>2. leaving' = leaving \ {w} /\ u \notin pubsub' /\ UNCHANGED <<active, connects>>
      BY <1>6, <2>3 DEF UnsubscribeUser
    <3>3. QED
      BY <2>1, <2>3, <3>1, <3>2 DEF Calls, Connecting, Busy
  <2>4. QED
    BY <2>2, <2>3
<1>7. ASSUME NEW w \in Sockets, LocalSend(w)
      PROVE  \A u \in SocketUsers \ disturbed' : Calls(u)'
  <2> SUFFICES ASSUME NEW u \in SocketUsers, u \notin disturbed'
               PROVE  Calls(u)'
    OBVIOUS
  <2>1. u \notin disturbed /\ Calls(u)
    BY <1>7 DEF LocalSend
  <2>2. CASE UserOf[w] # u
    BY <1>7, <2>1, <2>2, OtherUser DEF LocalSend, ConnShape, ConnectionsTypeOK
  <2>3. CASE UserOf[w] = u
    <3>1. CASE UNCHANGED <<active, leaving>>
      BY <1>7, <2>1, <2>3, <3>1, OtherUser DEF LocalSend
    <3>2. CASE RemoveSocket(w) /\ disturbed' = IF Busy(u) THEN disturbed \union {u} ELSE disturbed
      <4>1. ~Busy(u) /\ (active[u] # {} <=> u \in pubsub)
        BY <2>1, <3>2 DEF Calls
      <4>2. /\ active'[u] = active[u] \ {w}
            /\ leaving' = IF active[u] = {w} THEN leaving \union {w} ELSE leaving
            /\ UNCHANGED <<pubsub, connects>>
        BY <1>7, <2>3, <3>2 DEF LocalSend, ConnShape, ConnectionsTypeOK
      <4>3. QED
        BY <2>3, <4>1, <4>2 DEF Calls, Connecting, Busy
    <3>3. QED
      BY <1>7, <2>3, <3>1, <3>2 DEF LocalSend
  <2>4. QED
    BY <2>2, <2>3
<1>8. ASSUME NEW channel \in SocketUsers \union {"broadcast"}, RedisListener(channel)
      PROVE  \A u \in SocketUsers \ disturbed' : Calls(u)'
  BY <1>8 DEF RedisListener, Calls, Connecting, Busy
<1>9. ASSUME ListenerFails
      PROVE  \A u \in SocketUsers \ disturbed' : Calls(u)'
  <2> SUFFICES ASSUME NEW u \in SocketUsers, u \notin disturbed'
               PROVE  Calls(u)'
    OBVIOUS
  <2>1. u \notin disturbed /\ Calls(u) /\ UNCHANGED <<active, connects, pubsub>>
    BY <1>9 DEF ListenerFails
  <2>2. \A v \in Sockets : UserOf[v] = u => (v \in leaving' <=> v \in leaving)
    BY <1>9 DEF ListenerFails
  <2>3. QED
    BY <2>1, <2>2, OtherUser
<1>10. ASSUME Stop
      PROVE  \A u \in SocketUsers \ disturbed' : Calls(u)'
  BY <1>10 DEF Stop, Calls, Connecting, Busy, ConnShape, ConnectionsTypeOK
<1>11. CASE UNCHANGED connVars
  BY <1>11 DEF connVars, Calls, Connecting, Busy, Calls, Connecting, Busy
<1>12. QED
  BY <1>1, <1>2, <1>3, <1>4, <1>5, <1>6, <1>7, <1>8, <1>9, <1>10, <1>11 DEF ConnectionsNext

-----------------------------------------------------------------------------
(* Push. *)

Devices == [owner : PushUsers, active : BOOLEAN]

ChannelNames == {"sse", "email", "fcm"}

PushShape ==
    /\ PushTypeOK
    /\ devices \in [Tokens -> {NoDevice} \union Devices]
    /\ notices \in [Notices -> [to : PushUsers \union {Everyone, "none"}, left : Seq(ChannelNames)]]

PushInv == PushShape /\ OnlyRejectedPruned

\* A row is not the absence of a row.
LEMMA DeviceRow ==
    ASSUME NEW d \in Devices
    PROVE  d # NoDevice
<1>1. "owner" \in DOMAIN d
  BY DEF Devices
<1>2. "owner" \notin DOMAIN NoDevice
  BY DEF NoDevice
<1>3. QED
  BY <1>1, <1>2

LEMMA ChannelLists ==
    /\ RegisteredChannels \in Seq(ChannelNames)
    /\ EventChannels \subseteq Seq(ChannelNames)
  BY DEF RegisteredChannels, EventChannels, ChannelNames

\* At the start there are no devices.
LEMMA PushStart ==
    ASSUME PushInit
    PROVE  PushInv
<1>1. Registered = {}
  BY DEF PushInit, Registered
<1>2. << >> \in Seq(ChannelNames)
  OBVIOUS
<1>3. QED
  BY <1>1, <1>2 DEF PushInit, PushInv, PushShape, PushTypeOK, OnlyRejectedPruned, ChannelNames

\* A step that leaves the devices alone.
LEMMA DevicesKept ==
    ASSUME PushInv, devices' = devices, rejected \subseteq rejected',
           unregistered' = unregistered
    PROVE  Registered' = Registered /\ OnlyRejectedPruned'
  BY DEF PushInv, OnlyRejectedPruned, Registered

\* Devices are taken off the list by their owners and by Firebase only.
LEMMA PushKept ==
    ASSUME PushInv, [PushNext]_pushVars
    PROVE  PushInv'
<1> USE PushAssumption
<1>1. ASSUME NEW u \in PushUsers, NEW t \in Tokens, RegisterDevice(u, t)
      PROVE  PushInv'
  <2>1. [owner |-> u, active |-> TRUE] \in Devices
    BY DEF Devices
  <2>2. /\ devices' \in [Tokens -> {NoDevice} \union Devices]
        /\ devices'[t] = [owner |-> u, active |-> TRUE]
        /\ \A s \in Tokens \ {t} : devices'[s] = devices[s]
    BY <1>1, <2>1 DEF RegisterDevice, PushInv, PushShape
  <2>3. Registered' = Registered \union {t}
    BY <2>1, <2>2, DeviceRow DEF Registered
  <2>4. \A s \in Registered' : devices'[s] \in Devices
    BY <2>2 DEF Registered
  <2>5. OnlyRejectedPruned'
    BY <1>1, <2>2, <2>3 DEF RegisterDevice, OnlyRejectedPruned, PushInv
  <2>6. QED
    BY <1>1, <2>2, <2>3, <2>4, <2>5 DEF RegisterDevice, PushInv, PushShape, PushTypeOK, Devices
<1>2. ASSUME NEW u \in PushUsers, NEW t \in Tokens, UnregisterDevice(u, t)
      PROVE  PushInv'
  <2>1. CASE t \in Registered /\ devices[t].owner = u
    <3>1. devices[t] \in Devices
      BY <2>1 DEF PushInv, PushShape, Registered
    <3>2. /\ devices' = [devices EXCEPT ![t].active = FALSE]
          /\ unregistered' = unregistered \union {t}
          /\ UNCHANGED <<members, notices, fcmJobs, emailJobs, pushed, prunes, streams, streamed, rejected>>
      BY <1>2, <2>1 DEF UnregisterDevice, DeactivateOwn
    <3>3. /\ devices' \in [Tokens -> {NoDevice} \union Devices]
          /\ devices'[t] \in Devices
          /\ \A s \in Tokens \ {t} : devices'[s] = devices[s]
      BY <3>1, <3>2 DEF PushInv, PushShape, Devices
    <3>4. Registered' = Registered
      BY <2>1, <3>3, DeviceRow DEF Registered
    <3>5. \A s \in Registered' : devices'[s] \in Devices
      BY <3>3 DEF Registered
    <3>6. OnlyRejectedPruned'
      BY <3>2, <3>3, <3>4 DEF OnlyRejectedPruned, PushInv, Registered
    <3>7. QED
      BY <2>1, <3>2, <3>3, <3>4, <3>5, <3>6 DEF PushInv, PushShape, PushTypeOK, Devices
  <2>2. CASE ~(t \in Registered /\ devices[t].owner = u)
    <3>1. UNCHANGED pushVars
      BY <1>2, <2>2 DEF UnregisterDevice, DeactivateOwn, pushVars
    <3>2. Registered' = Registered /\ OnlyRejectedPruned'
      BY <3>1, DevicesKept DEF pushVars
    <3>3. QED
      BY <3>1, <3>2 DEF PushInv, PushShape, PushTypeOK, pushVars
  <2>3. QED
    BY <2>1, <2>2
<1>3. ASSUME NEW n \in Notices, DispatchUserNotification(n)
      PROVE  PushInv'
  <2>1. UNCHANGED <<members, devices, fcmJobs, emailJobs, pushed, prunes, streams, streamed,
                   unregistered, rejected>>
    BY <1>3 DEF DispatchUserNotification, Dispatch
  <2>2. Registered' = Registered /\ OnlyRejectedPruned'
    BY <2>1, DevicesKept
  <2>3. notices' \in [Notices -> [to : PushUsers \union {Everyone, "none"}, left : Seq(ChannelNames)]]
    BY <1>3, ChannelLists DEF DispatchUserNotification, Dispatch, PushInv, PushShape
  <2>4. QED
    BY <2>1, <2>2, <2>3 DEF PushInv, PushShape, PushTypeOK, ChannelNames
<1>4. ASSUME NEW n \in Notices, SendNotificationTask(n)
      PROVE  PushInv'
  <2>1. UNCHANGED <<members, devices, fcmJobs, emailJobs, pushed, prunes, streams, streamed,
                   unregistered, rejected>>
    BY <1>4 DEF SendNotificationTask, Dispatch
  <2>2. Registered' = Registered /\ OnlyRejectedPruned'
    BY <2>1, DevicesKept
  <2>3. notices' \in [Notices -> [to : PushUsers \union {Everyone, "none"}, left : Seq(ChannelNames)]]
    BY <1>4, ChannelLists DEF SendNotificationTask, Dispatch, PushInv, PushShape
  <2>4. QED
    BY <2>1, <2>2, <2>3 DEF PushInv, PushShape, PushTypeOK, ChannelNames
<1>5. ASSUME NEW n \in Notices, BroadcastAll(n)
      PROVE  PushInv'
  <2>1. UNCHANGED <<members, devices, fcmJobs, emailJobs, pushed, prunes, streams, streamed,
                   unregistered, rejected>>
    BY <1>5 DEF BroadcastAll, Dispatch
  <2>2. Registered' = Registered /\ OnlyRejectedPruned'
    BY <2>1, DevicesKept
  <2>3. notices' \in [Notices -> [to : PushUsers \union {Everyone, "none"}, left : Seq(ChannelNames)]]
    BY <1>5, ChannelLists DEF BroadcastAll, Dispatch, PushInv, PushShape
  <2>4. QED
    BY <2>1, <2>2, <2>3 DEF PushInv, PushShape, PushTypeOK, ChannelNames
<1>6. ASSUME NEW n \in Notices, TryChannel(n)
      PROVE  PushInv'
  <2>1. UNCHANGED <<members, devices, pushed, prunes, streams, unregistered, rejected>>
    BY <1>6 DEF TryChannel
  <2>2. Registered' = Registered /\ OnlyRejectedPruned'
    BY <2>1, DevicesKept
  <2>3. notices[n] \in [to : PushUsers \union {Everyone, "none"}, left : Seq(ChannelNames)]
    BY DEF PushInv, PushShape
  <2>4. Tail(notices[n].left) \in Seq(ChannelNames)
    BY <1>6, <2>3 DEF TryChannel
  <2>5. notices' \in [Notices -> [to : PushUsers \union {Everyone, "none"}, left : Seq(ChannelNames)]]
    BY <1>6, <2>4 DEF TryChannel, PushInv, PushShape
  <2>6. /\ emailJobs' \subseteq Notices
        /\ streamed' \in [Streams -> SUBSET Notices]
    <3>1. emailJobs \subseteq Notices /\ streamed \in [Streams -> SUBSET Notices]
      BY DEF PushInv, PushShape, PushTypeOK
    <3>2. QED
      BY <1>6, <3>1 DEF TryChannel, SSESend, EmailSend, FCMSend
  <2>7. /\ GetAllActiveTokens \subseteq Registered
        /\ \A u : GetActiveDevicesByUser(u) \subseteq Registered
    BY DEF GetAllActiveTokens, GetActiveDevicesByUser
  <2>8. \A job \in fcmJobs' :
           \/ job \in fcmJobs
           \/ \E T \in (SUBSET Registered) \ {{}} : job = [notice |-> n, tokens |-> T]
    BY <1>6, <2>7 DEF TryChannel, SSESend, EmailSend, FCMSend
  <2>9. Registered \subseteq Tokens
    BY DEF Registered
  <2>10. fcmJobs' \subseteq FcmJobs
    BY <2>8, <2>9 DEF PushInv, PushShape, PushTypeOK, FcmJobs
  <2>11. QED
    BY <2>1, <2>2, <2>5, <2>6, <2>10 DEF PushInv, PushShape, PushTypeOK, ChannelNames
<1>7. ASSUME NEW n \in Notices, SendEmail(n)
      PROVE  PushInv'
  <2>1. Registered' = Registered /\ OnlyRejectedPruned'
    BY <1>7, DevicesKept DEF SendEmail
  <2>2. QED
    BY <1>7, <2>1 DEF SendEmail, PushInv, PushShape, PushTypeOK
<1>8. ASSUME NEW job \in fcmJobs, SendFcmPush(job)
      PROVE  PushInv'
  <2>1. job \in FcmJobs /\ job.tokens \subseteq Tokens /\ job.notice \in Notices
    BY DEF PushInv, PushShape, PushTypeOK, FcmJobs
  <2>2. UNCHANGED <<members, devices, notices, emailJobs, streams, streamed, unregistered>> /\ fcmJobs' \subseteq fcmJobs
    BY <1>8 DEF SendFcmPush
  <2>3. PICK accepted \in SUBSET job.tokens : \E dead \in SUBSET (job.tokens \ accepted) :
           /\ pushed' = pushed \union {<<job.notice, t>> : t \in accepted}
           /\ rejected' = rejected \union dead
           /\ prunes' = IF dead = {} THEN prunes ELSE prunes \union {[job |-> job, dead |-> dead]}
    BY <1>8 DEF SendFcmPush
  <2>4. PICK dead \in SUBSET (job.tokens \ accepted) :
           /\ pushed' = pushed \union {<<job.notice, t>> : t \in accepted}
           /\ rejected' = rejected \union dead
           /\ prunes' = IF dead = {} THEN prunes ELSE prunes \union {[job |-> job, dead |-> dead]}
    BY <2>3
  <2>5. rejected \subseteq rejected' /\ rejected' \subseteq Tokens /\ pushed' \subseteq Notices \X Tokens
    BY <2>1, <2>4 DEF PushInv, PushShape, PushTypeOK
  <2>6. prunes' \subseteq [job : FcmJobs, dead : SUBSET rejected']
    BY <2>1, <2>4, <2>5 DEF PushInv, PushShape, PushTypeOK
  <2>7. Registered' = Registered /\ OnlyRejectedPruned'
    BY <2>2, <2>5, DevicesKept
  <2>8. QED
    BY <2>2, <2>5, <2>6, <2>7 DEF PushInv, PushShape, PushTypeOK
<1>9. ASSUME NEW p \in prunes, DeactivateTokens(p)
      PROVE  PushInv'
  <2>1. p.dead \subseteq rejected
    BY DEF PushInv, PushShape, PushTypeOK
  <2>2. \A t \in Registered : devices[t] \in Devices
    BY DEF PushInv, PushShape, Registered
  <2>3. \A t \in Tokens : IF t \in p.dead \intersect Registered
                         THEN devices'[t] \in Devices
                         ELSE devices'[t] = devices[t]
    BY <1>9, <2>2 DEF DeactivateTokens, Devices
  <2>4. devices' \in [Tokens -> {NoDevice} \union Devices]
    BY <1>9, <2>3 DEF DeactivateTokens, PushInv, PushShape
  <2>5. Registered' = Registered
    BY <2>3, DeviceRow DEF Registered
  <2>6. \A t \in Registered' : devices'[t] \in Devices
    BY <2>4 DEF Registered
  <2>7. UNCHANGED <<members, notices, fcmJobs, emailJobs, pushed, streams, streamed, unregistered, rejected>>
    BY <1>9 DEF DeactivateTokens
  <2>8. OnlyRejectedPruned'
    BY <2>1, <2>3, <2>5, <2>7 DEF OnlyRejectedPruned, PushInv, Registered
  <2>9. prunes' \subseteq prunes
    BY <1>9 DEF DeactivateTokens
  <2>10. QED
    BY <2>4, <2>5, <2>6, <2>7, <2>8, <2>9 DEF PushInv, PushShape, PushTypeOK, Devices
<1>10. ASSUME NEW s \in Streams, OpenStream(s)
      PROVE  PushInv'
  <2>1. Registered' = Registered /\ OnlyRejectedPruned'
    BY <1>10, DevicesKept DEF OpenStream
  <2>2. QED
    BY <1>10, <2>1 DEF OpenStream, PushInv, PushShape, PushTypeOK
<1>11. ASSUME NEW s \in Streams, CloseStream(s)
      PROVE  PushInv'
  <2>1. Registered' = Registered /\ OnlyRejectedPruned'
    BY <1>11, DevicesKept DEF CloseStream
  <2>2. QED
    BY <1>11, <2>1 DEF CloseStream, PushInv, PushShape, PushTypeOK
<1>12. ASSUME NEW u \in PushUsers, DeleteUser(u)
      PROVE  PushInv'
  <2> DEFINE cascade == {t \in Registered : devices[t].owner = u}
  <2>1. /\ members' \subseteq members
        /\ devices' = [t \in Tokens |-> IF t \in cascade THEN NoDevice ELSE devices[t]]
        /\ unregistered' = unregistered \ cascade
        /\ UNCHANGED <<notices, fcmJobs, emailJobs, pushed, prunes, streams, streamed, rejected>>
    BY <1>12 DEF DeleteUser
  <2> HIDE DEF cascade
  <2>2. Registered' = Registered \ cascade
    BY <2>1 DEF Registered
  <2>3. /\ devices' \in [Tokens -> {NoDevice} \union Devices]
        /\ \A t \in Registered' : devices'[t] = devices[t] /\ devices'[t] \in Devices
    BY <2>1, <2>2 DEF PushInv, PushShape, Registered
  <2>4. OnlyRejectedPruned'
    BY <2>1, <2>2, <2>3 DEF OnlyRejectedPruned, PushInv
  <2>5. QED
    BY <2>1, <2>2, <2>3, <2>4 DEF PushInv, PushShape, PushTypeOK, Devices
<1>13. ASSUME NEW job \in fcmJobs, FcmJobFails(job)
      PROVE  PushInv'
  <2>1. Registered' = Registered /\ OnlyRejectedPruned'
    BY <1>13, DevicesKept DEF FcmJobFails
  <2>2. QED
    BY <1>13, <2>1 DEF FcmJobFails, PushInv, PushShape, PushTypeOK
<1>14. ASSUME NEW p \in prunes, DeactivationFails(p)
      PROVE  PushInv'
  <2>1. Registered' = Registered /\ OnlyRejectedPruned'
    BY <1>14, DevicesKept DEF DeactivationFails
  <2>2. p.job \in FcmJobs
    BY DEF PushInv, PushShape, PushTypeOK
  <2>3. QED
    BY <1>14, <2>1, <2>2 DEF DeactivationFails, PushInv, PushShape, PushTypeOK
<1>15. CASE UNCHANGED pushVars
  <2>1. Registered' = Registered /\ OnlyRejectedPruned'
    BY <1>15, DevicesKept DEF pushVars
  <2>2. QED
    BY <1>15, <2>1 DEF PushInv, PushShape, PushTypeOK, pushVars
<1>16. QED
  BY <1>1, <1>2, <1>3, <1>4, <1>5, <1>6, <1>7, <1>8, <1>9, <1>10, <1>11, <1>12, <1>13, <1>14, <1>15
  DEF PushNext

-----------------------------------------------------------------------------
(* Webhooks. *)

HeaderColumns == {Stored(h) : h \in HeaderDocs} \union {Written(h) : h \in HeaderDocs}

EndpointRows == [url : Urls, events : EventChoices, active : BOOLEAN, headers : HeaderColumns]

Deliveries == [Endpoints -> Phases \union {"idle"}]

HookJobs == [event : WebhookEvents \union {"none"},
             phase : {"none", "queued", "delivering", "done"},
             at : Deliveries]

HookShape ==
    /\ endpoints \in [Endpoints -> {NoRow} \union EndpointRows]
    /\ gone \subseteq Endpoints \ Rows
    /\ jobs \in [Jobs -> HookJobs]
    /\ hookLogs \subseteq [job : Jobs, endpoint : Endpoints, status : {"SUCCESS", "FAILED"}]
    /\ refused \subseteq Jobs \X Endpoints
    /\ inbounds \in [Inbounds -> {"none", "logging", "200", "500"}]
    /\ inLogs \subseteq Inbounds

\* A delivery is to a row that is still there or was deleted since; and it is logged
\* by the time it ends, not only by the end of its job.
DeliveryInv(j, e) ==
    /\ jobs[j].at[e] # "idle" => e \in Rows \union gone
    /\ jobs[j].at[e] = "ended" => Logged(j, e) \/ e \in gone \/ <<j, e>> \in refused

HookInv ==
    /\ HookShape
    /\ \A j \in Jobs, e \in Endpoints : DeliveryInv(j, e)
    /\ \A i \in Inbounds : inbounds[i] = "200" => i \in inLogs

\* A row is not the absence of a row.
LEMMA SomeRow ==
    ASSUME NEW row \in EndpointRows
    PROVE  row # NoRow
<1>1. "url" \in DOMAIN row
  BY DEF EndpointRows
<1>2. "url" \notin DOMAIN NoRow
  BY DEF NoRow
<1>3. QED
  BY <1>1, <1>2

\* What the form shows of a column is parsed back to headers.
LEMMA FormHeaders ==
    ASSUME NEW column \in HeaderColumns
    PROVE  Written(ParseHeaders(AdminHeaders(column))) \in HeaderColumns
<1>1. ParseHeaders(AdminHeaders(column)) \in HeaderDocs
  BY DEF HeaderColumns, HeaderDocs, NoHeaders, ParseHeaders, AdminHeaders, Written, Stored, PoolRead,
         Loads, Dumps, String, Object
<1>2. QED
  BY <1>1 DEF HeaderColumns

\* A statement with a change leaves a row.
LEMMA ChangedRow ==
    ASSUME NEW row \in EndpointRows, NEW change \in Changes
    PROVE  UpdateEndpoint(row, change) \in EndpointRows
<1>1. \/ change.field = "active" /\ change.to \in BOOLEAN
      \/ change.field = "events" /\ change.to \in EventChoices
      \/ change.field = "headers" /\ change.to \in HeaderColumns
      \/ change.field = "url" /\ change.to \in Urls
  BY DEF Changes, HeaderColumns
<1>2. QED
  BY <1>1 DEF UpdateEndpoint, EndpointRows

\* The row that an insertion makes.
LEMMA NewRow ==
    ASSUME NEW url \in Urls, NEW events \in EventChoices, NEW headers \in HeaderDocs
    PROVE  EndpointRow(url, events, Written(headers)) \in EndpointRows
  BY DEF EndpointRow, EndpointRows, HeaderColumns

\* At the start there are the rows of the SQL scripts.
LEMMA HookStart ==
    ASSUME WebhooksInit
    PROVE  HookInv
<1> DEFINE seed == EndpointRow("public", WebhookEvents, Stored(NoHeaders))
<1>1. CASE Seeded = {}
  <2>1. \A e \in Endpoints : endpoints[e] = NoRow
    BY <1>1 DEF WebhooksInit, Rows
  <2>2. endpoints \in [Endpoints -> {NoRow} \union EndpointRows]
    BY <2>1 DEF WebhooksInit
  <2>3. QED
    BY <2>2 DEF WebhooksInit, HookInv, HookShape, HookJobs, Deliveries, DeliveryInv
<1>2. CASE Seeded # {}
  <2>1. seed \in EndpointRows
    BY <1>2, WebhooksAssumption DEF EndpointRow, EndpointRows, HeaderColumns, HeaderDocs, EventChoices
  <2>2. endpoints \in [Endpoints -> {NoRow} \union EndpointRows]
    BY <2>1 DEF WebhooksInit
  <2>3. QED
    BY <2>2 DEF WebhooksInit, HookInv, HookShape, HookJobs, Deliveries, DeliveryInv
<1>3. QED
  BY <1>1, <1>2

\* A step that changes the table keeps the rows or marks them gone, and leaves the
\* deliveries and the log alone.
LEMMA TableStep ==
    ASSUME HookInv,
           endpoints' \in [Endpoints -> {NoRow} \union EndpointRows],
           Rows \subseteq Rows' \union gone', gone \subseteq gone', gone' \subseteq Endpoints \ Rows',
           UNCHANGED <<jobs, hookLogs, refused, inbounds, inLogs>>
    PROVE  HookInv'
<1>1. HookShape'
  BY DEF HookInv, HookShape
<1>2. ASSUME NEW j \in Jobs, NEW e \in Endpoints
      PROVE  DeliveryInv(j, e)'
  <2>1. Logged(j, e)' = Logged(j, e)
    BY DEF Logged
  <2>2. DeliveryInv(j, e)
    BY DEF HookInv
  <2>3. QED
    BY <2>1, <2>2 DEF DeliveryInv
<1>3. QED
  BY <1>1, <1>2 DEF HookInv

\* One endpoint's delivery of one job moves on, the others stay where they are.
LEMMA PhaseMoves ==
    ASSUME jobs \in [Jobs -> HookJobs], NEW j \in Jobs, NEW e \in Endpoints,
           NEW phase \in Phases, jobs' = [jobs EXCEPT ![j].at[e] = phase]
    PROVE  /\ jobs' \in [Jobs -> HookJobs]
           /\ jobs'[j].at[e] = phase
           /\ \A k \in Jobs, f \in Endpoints : <<k, f>> # <<j, e>> => jobs'[k].at[f] = jobs[k].at[f]
<1> DEFINE at == [jobs[j].at EXCEPT ![e] = phase]
           job == [jobs[j] EXCEPT !.at = at]
<1>1. jobs[j] \in HookJobs /\ jobs[j].at \in Deliveries
  BY DEF HookJobs
<1>2. at \in Deliveries /\ at[e] = phase /\ \A f \in Endpoints \ {e} : at[f] = jobs[j].at[f]
  BY <1>1 DEF Deliveries
<1>3. jobs' = [jobs EXCEPT ![j] = job]
  OBVIOUS
<1> HIDE DEF at
<1>4. job \in HookJobs /\ job.at = at
  BY <1>1, <1>2 DEF HookJobs
<1> HIDE DEF job
<1>5. jobs' \in [Jobs -> HookJobs] /\ jobs'[j] = job /\ \A k \in Jobs \ {j} : jobs'[k] = jobs[k]
  BY <1>3, <1>4
<1>6. QED
  BY <1>2, <1>4, <1>5

\* A step that leaves the table alone, where the deliveries are as they should be.
LEMMA DeliveryStep ==
    ASSUME HookInv, UNCHANGED <<endpoints, gone, inbounds, inLogs>>,
           jobs' \in [Jobs -> HookJobs],
           hookLogs' \subseteq [job : Jobs, endpoint : Endpoints, status : {"SUCCESS", "FAILED"}],
           refused' \subseteq Jobs \X Endpoints,
           \A j \in Jobs, e \in Endpoints : DeliveryInv(j, e)'
    PROVE  HookInv'
<1>1. Rows' = Rows
  BY DEF Rows
<1>2. HookShape'
  BY <1>1 DEF HookInv, HookShape
<1>3. QED
  BY <1>2 DEF HookInv

\* One row is replaced by another.
LEMMA RowReplaced ==
    ASSUME HookInv, NEW e \in Rows, NEW row \in EndpointRows,
           endpoints' = [endpoints EXCEPT ![e] = row],
           UNCHANGED <<gone, jobs, hookLogs, refused, inbounds, inLogs>>
    PROVE  HookInv'
<1>1. endpoints \in [Endpoints -> {NoRow} \union EndpointRows] /\ e \in Endpoints
  BY DEF HookInv, HookShape, Rows
<1>2. /\ endpoints' \in [Endpoints -> {NoRow} \union EndpointRows]
      /\ endpoints'[e] = row
      /\ \A f \in Endpoints \ {e} : endpoints'[f] = endpoints[f]
  BY <1>1
<1>3. Rows' = Rows
  BY <1>2, SomeRow DEF Rows
<1>4. QED
  BY <1>2, <1>3, TableStep DEF HookInv, HookShape

\* An endpoint is inserted whose id was never used.
LEMMA RowInserted ==
    ASSUME HookInv, NEW e \in Endpoints,
           NEW url \in Urls, NEW events \in EventChoices, NEW headers \in HeaderDocs,
           InsertEndpoint(e, url, events, headers),
           UNCHANGED <<gone, jobs, hookLogs, refused, inbounds, inLogs>>
    PROVE  HookInv'
<1> DEFINE row == EndpointRow(url, events, Written(headers))
<1>1. row \in EndpointRows
  BY NewRow
<1>2. endpoints \in [Endpoints -> {NoRow} \union EndpointRows]
  BY DEF HookInv, HookShape
<1>3. endpoints' = [endpoints EXCEPT ![e] = row] /\ e \notin gone
  BY DEF InsertEndpoint
<1> HIDE DEF row
<1>4. /\ endpoints' \in [Endpoints -> {NoRow} \union EndpointRows]
      /\ endpoints'[e] = row
      /\ \A f \in Endpoints \ {e} : endpoints'[f] = endpoints[f]
  BY <1>1, <1>2, <1>3
<1>5. Rows' = Rows \union {e}
  BY <1>1, <1>4, SomeRow DEF Rows
<1>6. QED
  BY <1>3, <1>4, <1>5, TableStep DEF HookInv, HookShape

\* A row is deleted, if it is there.
LEMMA RowDeleted ==
    ASSUME HookInv, NEW e, DeleteEndpoint(e),
           UNCHANGED <<jobs, hookLogs, refused, inbounds, inLogs>>
    PROVE  HookInv'
<1>1. endpoints \in [Endpoints -> {NoRow} \union EndpointRows]
  BY DEF HookInv, HookShape
<1>2. /\ endpoints' \in [Endpoints -> {NoRow} \union EndpointRows]
      /\ e \in Endpoints => endpoints'[e] = NoRow
      /\ \A f \in Endpoints \ {e} : endpoints'[f] = endpoints[f]
  BY <1>1 DEF DeleteEndpoint
<1>3. Rows' = Rows \ {e} /\ Rows \subseteq Endpoints
  BY <1>2 DEF Rows
<1>4. gone' = gone \union ({e} \intersect Rows)
  BY DEF DeleteEndpoint
<1>5. QED
  BY <1>2, <1>3, <1>4, TableStep DEF HookInv, HookShape

\* Every delivery that ends is logged, unless its endpoint is deleted or the
\* database fails.
LEMMA HookKept ==
    ASSUME HookInv, [WebhooksNext]_hookVars
    PROVE  HookInv'
<1> USE WebhooksAssumption
<1>1. ASSUME NEW e \in Endpoints, CreateWebhookEndpoint(e)
      PROVE  HookInv'
  BY <1>1, RowInserted DEF CreateWebhookEndpoint
<1>2. ASSUME NEW e \in Endpoints, AdminCreate(e)
      PROVE  HookInv'
  <2>1. PICK url \in Urls, events \in EventChoices, raw \in HeaderDocs :
           InsertEndpoint(e, url, events, ParseHeaders(Dumps(raw)))
    BY <1>2 DEF AdminCreate
  <2>2. ParseHeaders(Dumps(raw)) \in HeaderDocs
    BY DEF ParseHeaders, Dumps, Loads, String
  <2>3. QED
    BY <1>2, <2>1, <2>2, RowInserted DEF AdminCreate
<1>3. ASSUME NEW e \in Endpoints, AdminEdit(e)
      PROVE  HookInv'
  <2> DEFINE headers == Written(ParseHeaders(AdminHeaders(endpoints[e].headers)))
             old == [endpoints[e] EXCEPT !.headers = headers]
  <2>1. e \in Rows /\ endpoints[e] \in EndpointRows
    BY <1>3 DEF AdminEdit, Rows, HookInv, HookShape
  <2>2. headers \in HeaderColumns
    BY <2>1, FormHeaders DEF EndpointRows
  <2>3. old \in EndpointRows
    <3> HIDE DEF headers
    <3>1. QED
      BY <2>1, <2>2 DEF EndpointRows
  <2>4. PICK change \in Changes :
           endpoints' = [endpoints EXCEPT ![e] = UpdateEndpoint(old, change)]
    BY <1>3 DEF AdminEdit
  <2> HIDE DEF old
  <2>5. UpdateEndpoint(old, change) \in EndpointRows
    BY <2>3, ChangedRow
  <2>6. QED
    BY <1>3, <2>1, <2>4, <2>5, RowReplaced DEF AdminEdit
<1>4. ASSUME NEW e \in Endpoints, AdminDelete(e)
      PROVE  HookInv'
  BY <1>4, RowDeleted DEF AdminDelete
<1>5. ASSUME NEW a \in Admins, ServiceUpdate(a)
      PROVE  HookInv'
  <2> DEFINE e == admins[a].id
             change == admins[a].todo
  <2>1. change \in Changes /\ UNCHANGED <<gone, jobs, hookLogs, refused, inbounds, inLogs>>
    BY <1>5 DEF ServiceUpdate
  <2>2. CASE e \in Rows
    <3>1. endpoints' = [endpoints EXCEPT ![e] = UpdateEndpoint(endpoints[e], change)]
      BY <1>5, <2>2 DEF ServiceUpdate
    <3>2. endpoints[e] \in EndpointRows
      BY <2>2 DEF Rows, HookInv, HookShape
    <3> HIDE DEF e, change
    <3>3. UpdateEndpoint(endpoints[e], change) \in EndpointRows
      BY <2>1, <3>2, ChangedRow
    <3>4. QED
      BY <2>1, <2>2, <3>1, <3>3, RowReplaced
  <2>3. CASE e \notin Rows
    <3>1. endpoints' = endpoints
      BY <1>5, <2>3 DEF ServiceUpdate
    <3>2. Rows' = Rows
      BY <3>1 DEF Rows
    <3>3. QED
      BY <2>1, <3>1, <3>2, TableStep DEF HookInv, HookShape
  <2>4. QED
    BY <2>2, <2>3
<1>6. ASSUME NEW a \in Admins, ServiceDelete(a)
      PROVE  HookInv'
  BY <1>6, RowDeleted DEF ServiceDelete
<1>7. ASSUME NEW a \in Admins, NEW e \in Endpoints, NEW todo, GetEndpoint(a, e, todo)
      PROVE  HookInv'
  <2>1. UNCHANGED <<endpoints, gone, jobs, hookLogs, refused, inbounds, inLogs>>
    BY <1>7 DEF GetEndpoint
  <2>2. Rows' = Rows
    BY <2>1 DEF Rows
  <2>3. QED
    BY <2>1, <2>2, TableStep DEF HookInv, HookShape
<1>8. ASSUME NEW j \in Jobs, Deliver(j)
      PROVE  HookInv'
  <2>1. UNCHANGED <<endpoints, gone, hookLogs, refused, inbounds, inLogs>>
    BY <1>8 DEF Deliver
  <2>2. Rows' = Rows /\ \A k \in Jobs, f \in Endpoints : Logged(k, f)' = Logged(k, f)
    BY <2>1 DEF Rows, Logged
  <2> DEFINE found == ListActiveEndpointsForEvent(jobs[j].event)
             at == [e \in Endpoints |-> IF e \in found THEN StartDelivery(e) ELSE "idle"]
  <2>3. at \in Deliveries
    BY DEF Deliveries, StartDelivery, Phases
  <2>4. \A e \in Endpoints : at[e] # "ended" /\ (at[e] # "idle" => e \in Rows)
    BY DEF ListActiveEndpointsForEvent, StartDelivery
  <2>5. jobs' = [jobs EXCEPT ![j].phase = "delivering", ![j].at = at]
    BY <1>8 DEF Deliver
  <2> HIDE DEF at
  <2>6. /\ jobs' \in [Jobs -> HookJobs]
        /\ jobs'[j].at = at
        /\ \A k \in Jobs \ {j} : jobs'[k] = jobs[k]
    BY <2>3, <2>5, ZenonT(30) DEF HookInv, HookShape, HookJobs
  <2>7. ASSUME NEW k \in Jobs, NEW f \in Endpoints
        PROVE  DeliveryInv(k, f)'
    BY <2>1, <2>2, <2>4, <2>6 DEF DeliveryInv, HookInv
  <2>8. QED
    BY <2>1, <2>6, <2>7, DeliveryStep DEF HookInv, HookShape
<1>9. ASSUME NEW j \in Jobs, EndJob(j)
      PROVE  HookInv'
  <2>1. UNCHANGED <<endpoints, gone, hookLogs, refused, inbounds, inLogs>>
    BY <1>9 DEF EndJob
  <2>2. Rows' = Rows /\ \A k \in Jobs, f \in Endpoints : Logged(k, f)' = Logged(k, f)
    BY <2>1 DEF Rows, Logged
  <2>3. /\ jobs' \in [Jobs -> HookJobs]
        /\ \A k \in Jobs : jobs'[k].at = jobs[k].at
    BY <1>9 DEF EndJob, HookInv, HookShape, HookJobs
  <2>4. ASSUME NEW k \in Jobs, NEW f \in Endpoints
        PROVE  DeliveryInv(k, f)'
    BY <2>1, <2>2, <2>3 DEF DeliveryInv, HookInv
  <2>5. QED
    BY <2>1, <2>3, <2>4, DeliveryStep DEF HookInv, HookShape
<1>10. ASSUME NEW j \in Jobs, NEW event \in WebhookEvents, DispatchEvent(j, event)
      PROVE  HookInv'
  <2>1. UNCHANGED <<endpoints, gone, hookLogs, refused, inbounds, inLogs>>
    BY <1>10 DEF DispatchEvent
  <2>2. Rows' = Rows /\ \A k \in Jobs, f \in Endpoints : Logged(k, f)' = Logged(k, f)
    BY <2>1 DEF Rows, Logged
  <2>3. /\ jobs' \in [Jobs -> HookJobs]
        /\ \A k \in Jobs : jobs'[k].at = jobs[k].at
    BY <1>10, ZenonT(30) DEF DispatchEvent, HookInv, HookShape, HookJobs
  <2>4. ASSUME NEW k \in Jobs, NEW f \in Endpoints
        PROVE  DeliveryInv(k, f)'
    BY <2>1, <2>2, <2>3 DEF DeliveryInv, HookInv
  <2>5. QED
    BY <2>1, <2>3, <2>4, DeliveryStep DEF HookInv, HookShape
<1>11. ASSUME NEW j \in Jobs, NEW e \in Endpoints, Post(j, e)
      PROVE  HookInv'
  <2>1. UNCHANGED <<endpoints, gone, hookLogs, refused, inbounds, inLogs>>
    BY <1>11 DEF Post
  <2>2. Rows' = Rows /\ \A k \in Jobs, f \in Endpoints : Logged(k, f)' = Logged(k, f)
    BY <2>1 DEF Rows, Logged
  <2>3. PICK outcome \in {"SUCCESS", "FAILED"} : jobs' = [jobs EXCEPT ![j].at[e] = outcome]
    BY <1>11 DEF Post
  <2>4. jobs[j].at[e] = "posting"
    BY <1>11 DEF Post
  <2>5. /\ jobs' \in [Jobs -> HookJobs]
        /\ jobs'[j].at[e] = outcome
        /\ \A k \in Jobs, f \in Endpoints : <<k, f>> # <<j, e>> => jobs'[k].at[f] = jobs[k].at[f]
    BY <2>3, PhaseMoves DEF HookInv, HookShape, Phases
  <2>6. ASSUME NEW k \in Jobs, NEW f \in Endpoints
        PROVE  DeliveryInv(k, f)'
    BY <2>1, <2>2, <2>4, <2>5 DEF DeliveryInv, HookInv
  <2>7. QED
    BY <2>1, <2>5, <2>6, DeliveryStep DEF HookInv, HookShape
<1>12. ASSUME NEW j \in Jobs, NEW e \in Endpoints, LogDelivery(j, e)
      PROVE  HookInv'
  <2>1. /\ UNCHANGED <<endpoints, gone, inbounds, inLogs>>
        /\ jobs[j].at[e] \in {"SUCCESS", "FAILED"}
        /\ jobs' = [jobs EXCEPT ![j].at[e] = "ended"]
    BY <1>12 DEF LogDelivery
  <2>2. Rows' = Rows
    BY <2>1 DEF Rows
  <2>3. /\ jobs' \in [Jobs -> HookJobs]
        /\ jobs'[j].at[e] = "ended"
        /\ \A k \in Jobs, f \in Endpoints : <<k, f>> # <<j, e>> => jobs'[k].at[f] = jobs[k].at[f]
    BY <2>1, PhaseMoves DEF HookInv, HookShape, Phases
  <2>4. e \in Rows \union gone
    BY <2>1 DEF HookInv, DeliveryInv
  <2>5. /\ hookLogs \subseteq hookLogs' /\ refused \subseteq refused'
        /\ hookLogs' \subseteq [job : Jobs, endpoint : Endpoints, status : {"SUCCESS", "FAILED"}]
        /\ refused' \subseteq Jobs \X Endpoints
        /\ Logged(j, e)' \/ e \in gone \/ <<j, e>> \in refused'
    <3>1. CASE CreateLog(j, e) /\ UNCHANGED refused
      <4> DEFINE entry == [job |-> j, endpoint |-> e, status |-> jobs[j].at[e]]
      <4>1. hookLogs' = hookLogs \union {entry}
        BY <3>1 DEF CreateLog
      <4>2. /\ entry \in [job : Jobs, endpoint : Endpoints, status : {"SUCCESS", "FAILED"}]
            /\ entry.job = j /\ entry.endpoint = e
        BY <2>1
      <4> HIDE DEF entry
      <4>3. Logged(j, e)'
        BY <4>1, <4>2 DEF Logged
      <4>4. QED
        BY <3>1, <4>1, <4>2, <4>3 DEF HookInv, HookShape
    <3>2. CASE refused' = refused \union {<<j, f>> : f \in {e} \intersect Rows} /\ UNCHANGED hookLogs
      BY <2>4, <3>2 DEF HookInv, HookShape
    <3>3. QED
      BY <1>12, <3>1, <3>2 DEF LogDelivery
  <2>6. \A k \in Jobs, f \in Endpoints : Logged(k, f) => Logged(k, f)'
    BY <2>5 DEF Logged
  <2>7. ASSUME NEW k \in Jobs, NEW f \in Endpoints
        PROVE  DeliveryInv(k, f)'
    BY <2>1, <2>2, <2>3, <2>4, <2>5, <2>6 DEF DeliveryInv, HookInv
  <2>8. QED
    BY <2>1, <2>3, <2>5, <2>7, DeliveryStep DEF HookInv, HookShape
<1>13. ASSUME NEW i \in Inbounds, HandleInboundWebhook(i)
      PROVE  HookInv'
  <2>1. UNCHANGED <<endpoints, gone, jobs, hookLogs, refused>>
    BY <1>13 DEF HandleInboundWebhook
  <2>2. /\ inbounds' \in [Inbounds -> {"none", "logging", "200", "500"}]
        /\ inLogs' \subseteq Inbounds
        /\ \A k \in Inbounds : inbounds'[k] = "200" => k \in inLogs'
    BY <1>13 DEF HandleInboundWebhook, HookInv, HookShape
  <2>3. Rows' = Rows /\ \A k \in Jobs, f \in Endpoints : Logged(k, f)' = Logged(k, f)
    BY <2>1 DEF Rows, Logged
  <2>4. HookShape'
    BY <2>1, <2>2, <2>3 DEF HookInv, HookShape
  <2>5. ASSUME NEW k \in Jobs, NEW f \in Endpoints
        PROVE  DeliveryInv(k, f)'
    BY <2>1, <2>3 DEF DeliveryInv, HookInv
  <2>6. QED
    BY <2>2, <2>4, <2>5 DEF HookInv
<1>14. ASSUME NEW i \in Inbounds, LogInbound(i)
      PROVE  HookInv'
  <2>1. UNCHANGED <<endpoints, gone, jobs, hookLogs, refused>>
    BY <1>14 DEF LogInbound
  <2>2. /\ inbounds' \in [Inbounds -> {"none", "logging", "200", "500"}]
        /\ inLogs' \subseteq Inbounds
        /\ \A k \in Inbounds : inbounds'[k] = "200" => k \in inLogs'
    BY <1>14 DEF LogInbound, HookInv, HookShape
  <2>3. Rows' = Rows /\ \A k \in Jobs, f \in Endpoints : Logged(k, f)' = Logged(k, f)
    BY <2>1 DEF Rows, Logged
  <2>4. HookShape'
    BY <2>1, <2>2, <2>3 DEF HookInv, HookShape
  <2>5. ASSUME NEW k \in Jobs, NEW f \in Endpoints
        PROVE  DeliveryInv(k, f)'
    BY <2>1, <2>3 DEF DeliveryInv, HookInv
  <2>6. QED
    BY <2>2, <2>4, <2>5 DEF HookInv
<1>15. CASE UNCHANGED hookVars
  <2>1. UNCHANGED <<endpoints, gone, jobs, hookLogs, refused, inbounds, inLogs>>
    BY <1>15 DEF hookVars
  <2>2. Rows' = Rows
    BY <2>1 DEF Rows
  <2>3. QED
    BY <2>1, <2>2, TableStep DEF HookInv, HookShape
<1>16. QED
  BY <1>1, <1>2, <1>3, <1>4, <1>5, <1>6, <1>7, <1>8, <1>9, <1>10, <1>11,
     <1>12, <1>13, <1>14, <1>15 DEF WebhooksNext

-----------------------------------------------------------------------------
(* Pools. *)

Fresh == {[at |-> "new"]}

Running == [at : {"run"}, write : BOOLEAN, client : ClientRegions, attempt : 1..MaxAttempts,
            pool : Replicas \union {"primary"}]

Over == [at : {"over"}, write : BOOLEAN, result : {"row", "error", "none"}]

PoolShape ==
    /\ opened \in BOOLEAN
    /\ loop \in {"off", "running", "hung", "ended"}
    /\ pools \in [Regions -> SUBSET Replicas]
    /\ \A r \in Regions : pools[r] \subseteq Configured[r]
    /\ priority \in Priorities \union {<<>>}
    /\ healthy \in [Replicas -> BOOLEAN]
    /\ latency \in [Replicas -> Nat]
    /\ up \subseteq Replicas
    /\ statement \in [Statements -> Fresh \union Running \union Over]
    /\ applied \in [Statements -> 0..MaxAttempts]
    /\ lostAnswer \subseteq Statements

\* The attempts of a statement that the primary applied are earlier ones, and their
\* answers were lost.
StatementInv(s) ==
    /\ statement[s].at = "new" => applied[s] = 0
    /\ statement[s].at = "run" =>
          /\ opened
          /\ applied[s] < statement[s].attempt
          /\ applied[s] > 0 => s \in lostAnswer
          /\ statement[s].pool \in InPool \union {"primary"}
          /\ statement[s].write => statement[s].pool = "primary"
    /\ statement[s].at = "over" /\ statement[s].result = "row" /\ statement[s].write => applied[s] > 0
    /\ applied[s] > 1 => s \in lostAnswer

PoolInv == PoolShape /\ \A s \in Statements : StatementInv(s)

\* A set of numbers that is not empty has a least one.
LEMMA LeastOf ==
    ASSUME NEW S, S \subseteq Nat, S # {}
    PROVE  Min(S) \in S /\ \A n \in S : Min(S) <= n
<1>1. PICK m \in S : \A n \in S : <<n, m>> \notin OpToRel(<, Nat)
  BY NatLessThanWellFounded, WFMin
<1>2. \A n \in S : m <= n
  <2>1. \A n \in S : ~(n < m)
    BY <1>1, Zenon DEF OpToRel
  <2>2. QED
    BY <2>1
<1>3. QED
  BY <1>2 DEF Min

\* The first of the regions that is in a set is in that set.
LEMMA FirstIsIn ==
    ASSUME NEW regions, DOMAIN regions \subseteq Nat, NEW S, NEW i \in DOMAIN regions, regions[i] \in S
    PROVE  FirstOf(regions, S) \in S
<1> DEFINE places == {k \in DOMAIN regions : regions[k] \in S}
<1>1. places \subseteq Nat /\ i \in places
  OBVIOUS
<1>2. Min(places) \in places
  BY <1>1, LeastOf
<1>3. QED
  BY <1>2 DEF FirstOf

\* A region is chosen if there is one with a pool, and it has one.
LEMMA ChosenRegion ==
    ASSUME PoolShape, NEW client
    PROVE  /\ ChooseRegion(client) \in Regions \union {NoRegion}
           /\ ChooseRegion(client) = NoRegion => InPool = {}
<1> DEFINE sound == {r \in Regions : HealthyIn(r) # {}}
           stocked == {r \in Regions : pools[r] # {}}
<1>1. DOMAIN priority \subseteq Nat /\ DOMAIN RegionOrder \subseteq Nat
  BY DbPoolsConstants DEF PoolShape
<1>2. (\E i \in DOMAIN priority : priority[i] \in sound) => FirstOf(priority, sound) \in Regions
  <2> HIDE DEF sound
  <2>1. (\E i \in DOMAIN priority : priority[i] \in sound) => FirstOf(priority, sound) \in sound
    BY <1>1, FirstIsIn
  <2>2. QED
    BY <2>1 DEF sound
<1>3. ASSUME NEW S, S \subseteq Regions, S # {}
      PROVE  FirstOf(RegionOrder, S) \in Regions
  <2>1. PICK r \in S : TRUE
    BY <1>3
  <2>2. PICK i \in DOMAIN RegionOrder : RegionOrder[i] \in S
    BY <1>3, <2>1 DEF Regions
  <2>3. FirstOf(RegionOrder, S) \in S
    BY <1>1, <2>2, FirstIsIn
  <2>4. QED
    BY <1>3, <2>3
<1>4. LowestLatency # {} => FirstOf(RegionOrder, LowestLatency) \in Regions
  <2>1. LowestLatency \subseteq Regions
    BY DEF LowestLatency
  <2>2. QED
    BY <1>3, <2>1
<1>5. stocked # {} => FirstOf(RegionOrder, stocked) \in Regions
  <2>1. stocked \subseteq Regions
    OBVIOUS
  <2> HIDE DEF stocked
  <2>2. QED
    BY <1>3, <2>1
<1>6. ChooseRegion(client) \in Regions \/ (ChooseRegion(client) = NoRegion /\ stocked = {})
  <2>1. ChooseRegion(client) =
          IF client \in sound THEN client
          ELSE IF \E i \in DOMAIN priority : priority[i] \in sound THEN FirstOf(priority, sound)
          ELSE IF LowestLatency # {} THEN FirstOf(RegionOrder, LowestLatency)
          ELSE IF stocked # {} THEN FirstOf(RegionOrder, stocked)
          ELSE NoRegion
    BY DEF ChooseRegion
  <2>2. client \in sound => client \in Regions
    OBVIOUS
  <2> HIDE DEF sound, stocked
  <2>3. QED
    BY <1>2, <1>4, <1>5, <2>1, <2>2
<1>7. stocked = {} => InPool = {}
  BY DEF InPool
<1>8. NoRegion \notin Regions
  BY DbPoolsConstants
<1> HIDE DEF stocked, sound
<1>9. QED
  BY <1>6, <1>7, <1>8

\* A read goes to a pool, or to the primary.
LEMMA ReadsGoToPools ==
    ASSUME PoolShape, NEW client
    PROVE  SelectReadPool(client) \subseteq InPool \union {"primary"}
<1>1. ChooseRegion(client) \in Regions \union {NoRegion}
  BY ChosenRegion
<1>2. \A r \in Regions : pools[r] \subseteq InPool
  BY DEF InPool
<1>3. HealthyPools \subseteq InPool
  BY DEF HealthyPools
<1>4. QED
  BY <1>1, <1>2, <1>3 DEF SelectReadPool

LEMMA PoolsAreReplicas ==
    ASSUME PoolShape
    PROVE  InPool \subseteq Replicas
  BY DEF PoolShape, InPool

\* What a statement runs on.
LEMMA GetPoolRange ==
    ASSUME PoolShape, NEW write \in BOOLEAN, NEW client, NEW p \in GetPool(write, client)
    PROVE  /\ p \in InPool \union {"primary"}
           /\ p \in Replicas \union {"primary"}
           /\ write => p = "primary"
<1>1. SelectReadPool(client) \subseteq InPool \union {"primary"}
  BY ReadsGoToPools
<1>2. InPool \subseteq Replicas
  BY PoolsAreReplicas
<1>3. QED
  BY <1>1, <1>2 DEF GetPool

\* While a pool is healthy, a read goes to a region with a healthy pool.
LEMMA SickAvoided ==
    ASSUME PoolShape
    PROVE  SickRegionAvoided
<1> SUFFICES ASSUME HealthyPools # {}, NEW client \in ClientRegions, NEW p \in SelectReadPool(client)
             PROVE  \E r \in Regions : p \in pools[r] /\ HealthyIn(r) # {}
  BY DEF SickRegionAvoided
<1>1. ChooseRegion(client) \in Regions \/ ChooseRegion(client) = NoRegion
  BY ChosenRegion
<1>2. InPool # {}
  BY DEF HealthyPools
<1>3. ChooseRegion(client) \in Regions /\ ChooseRegion(client) # NoRegion
  BY <1>1, <1>2, ChosenRegion, DbPoolsConstants
<1>4. \A q \in HealthyPools : \E r \in Regions : q \in pools[r] /\ HealthyIn(r) # {}
  BY DEF HealthyPools, InPool, HealthyIn
<1>5. QED
  BY <1>3, <1>4 DEF SelectReadPool

\* At the start no pool is open and no statement runs.
LEMMA PoolsStart ==
    ASSUME PoolsInit
    PROVE  PoolInv
<1>1. \A s \in Statements : statement[s] = [at |-> "new"] /\ applied[s] = 0
  BY DEF PoolsInit
<1>2. \A s \in Statements : StatementInv(s)
  BY <1>1 DEF StatementInv
<1>3. /\ pools \in [Regions -> SUBSET Replicas]
      /\ \A r \in Regions : pools[r] \subseteq Configured[r]
  BY DEF PoolsInit
<1>4. statement \in [Statements -> Fresh] /\ applied \in [Statements -> 0..MaxAttempts]
  BY DEF PoolsInit, Fresh, MaxAttempts
<1>5. /\ opened \in BOOLEAN /\ loop \in {"off", "running", "ended"}
      /\ priority \in Priorities \union {<<>>}
      /\ healthy \in [Replicas -> BOOLEAN] /\ latency \in [Replicas -> Nat]
      /\ up \subseteq Replicas /\ lostAnswer \subseteq Statements
  BY DEF PoolsInit
<1>6. PoolShape
  BY <1>3, <1>4, <1>5 DEF PoolShape
<1>7. QED
  BY <1>2, <1>6 DEF PoolInv

\* A step that concerns the pools only, none of which goes away.
LEMMA PoolsOnly ==
    ASSUME PoolInv, PoolShape', UNCHANGED <<opened, pools, statement, applied, lostAnswer>>
    PROVE  PoolInv'
<1>1. InPool' = InPool
  BY DEF InPool
<1>2. \A s \in Statements : StatementInv(s)'
  BY <1>1 DEF PoolInv, StatementInv
<1>3. QED
  BY <1>2 DEF PoolInv

\* A step of one statement.
LEMMA OneStatement ==
    ASSUME PoolInv, NEW s \in Statements,
           UNCHANGED <<opened, pools, priority, healthy, latency, loop, up>>,
           statement' \in [Statements -> Fresh \union Running \union Over],
           applied' \in [Statements -> 0..MaxAttempts],
           lostAnswer \subseteq lostAnswer', lostAnswer' \subseteq Statements,
           \A t \in Statements \ {s} : statement'[t] = statement[t] /\ applied'[t] = applied[t],
           StatementInv(s)'
    PROVE  PoolInv'
<1>1. PoolShape'
  BY DEF PoolInv, PoolShape
<1>2. InPool' = InPool
  BY DEF InPool
<1>3. ASSUME NEW t \in Statements \ {s}
      PROVE  StatementInv(t)'
  <2>1. StatementInv(t)
    BY DEF PoolInv
  <2>2. statement'[t] = statement[t] /\ applied'[t] = applied[t]
    OBVIOUS
  <2>3. QED
    BY <1>2, <2>1, <2>2 DEF StatementInv
<1>4. QED
  BY <1>1, <1>3 DEF PoolInv

\* A statement that starts.
LEMMA StatementStarts ==
    ASSUME PoolInv, NEW s \in Statements, NEW write \in BOOLEAN, Start(s, write)
    PROVE  PoolInv'
<1>1. PICK client \in ClientRegions : \E p \in GetPool(write, client) :
         statement' = [statement EXCEPT ![s] =
              [at |-> "run", write |-> write, client |-> client, attempt |-> 1, pool |-> p]]
  BY DEF Start
<1>2. PICK p \in GetPool(write, client) :
         statement' = [statement EXCEPT ![s] =
              [at |-> "run", write |-> write, client |-> client, attempt |-> 1, pool |-> p]]
  BY <1>1
<1> DEFINE new == [at |-> "run", write |-> write, client |-> client, attempt |-> 1, pool |-> p]
<1>3. /\ p \in InPool \union {"primary"}
      /\ p \in Replicas \union {"primary"}
      /\ write => p = "primary"
  BY GetPoolRange DEF PoolInv
<1>4. new \in Running
  BY <1>3 DEF Running, MaxAttempts
<1>5. /\ new.at = "run" /\ new.attempt = 1 /\ new.pool = p /\ new.write = write
  OBVIOUS
<1>6. UNCHANGED <<opened, pools, priority, healthy, latency, loop, up, applied, lostAnswer>>
  BY DEF Start
<1>7. opened /\ applied[s] = 0
  BY DEF Start, PoolInv, StatementInv
<1>8. statement' = [statement EXCEPT ![s] = new]
  BY <1>2
<1> HIDE DEF new
<1>9. /\ statement' \in [Statements -> Fresh \union Running \union Over]
      /\ statement'[s] = new
      /\ \A t \in Statements \ {s} : statement'[t] = statement[t]
  BY <1>4, <1>8 DEF PoolInv, PoolShape
<1>10. InPool' = InPool
  BY <1>6 DEF InPool
<1>11. StatementInv(s)'
  BY <1>3, <1>5, <1>6, <1>7, <1>9, <1>10 DEF StatementInv
<1>12. QED
  BY <1>6, <1>9, <1>11, OneStatement DEF PoolInv, PoolShape

\* A statement that ends: with a row only if a write was applied.
LEMMA StatementEnds ==
    ASSUME PoolInv, NEW s \in Statements, statement[s] \in Running,
           NEW result \in {"row", "error"}, FinishStatement(s, result),
           UNCHANGED <<opened, pools, priority, healthy, latency, loop, up>>,
           applied' \in [Statements -> 0..MaxAttempts],
           lostAnswer \subseteq lostAnswer', lostAnswer' \subseteq Statements,
           \A t \in Statements \ {s} : applied'[t] = applied[t],
           applied'[s] > 1 => s \in lostAnswer',
           result = "row" /\ statement[s].write => applied'[s] > 0
    PROVE  PoolInv'
<1> DEFINE new == [at |-> "over", write |-> statement[s].write, result |-> result]
<1>1. statement \in [Statements -> Fresh \union Running \union Over]
  BY DEF PoolInv, PoolShape
<1>2. statement' = [statement EXCEPT ![s] = new]
  BY DEF FinishStatement
<1>3. new \in Over /\ new.at = "over" /\ new.result = result /\ new.write = statement[s].write
  BY DEF Over, Running
<1> HIDE DEF new
<1>4. /\ statement' \in [Statements -> Fresh \union Running \union Over]
      /\ statement'[s] = new
      /\ \A t \in Statements \ {s} : statement'[t] = statement[t]
  BY <1>1, <1>2, <1>3
<1>5. StatementInv(s)'
  BY <1>3, <1>4 DEF StatementInv
<1>6. QED
  BY <1>4, <1>5, OneStatement

\* A write is told of when it was applied, and it is applied again only after a lost
\* answer.
LEMMA PoolKept ==
    ASSUME PoolInv, [PoolsNext]_poolVars
    PROVE  PoolInv'
<1> USE DbPoolsConstants
<1>1. ASSUME CreatePool
      PROVE  PoolInv'
  <2>1. PoolShape'
    <3>1. pools' \in [Regions -> SUBSET Replicas] /\ \A r \in Regions : pools'[r] \subseteq Configured[r]
      BY <1>1 DEF CreatePool, PoolInv, PoolShape
    <3>2. QED
      BY <1>1, <3>1 DEF CreatePool, PoolInv, PoolShape
  <2>2. UNCHANGED <<statement, applied, lostAnswer>> /\ ~opened
    BY <1>1 DEF CreatePool
  <2>3. ASSUME NEW s \in Statements
        PROVE  StatementInv(s)'
    <3>1. StatementInv(s) /\ statement[s].at # "run"
      BY <2>2 DEF PoolInv, StatementInv
    <3>2. QED
      BY <2>2, <3>1 DEF StatementInv
  <2>4. QED
    BY <2>1, <2>3 DEF PoolInv
<1>2. ASSUME ClosePool
      PROVE  PoolInv'
  <2> DEFINE over == [at |-> "over", write |-> FALSE, result |-> "none"]
  <2>1. over \in Over /\ over.at = "over" /\ over.result = "none"
    BY DEF Over
  <2>2. statement' = [s \in Statements |-> over]
    BY <1>2 DEF ClosePool
  <2> HIDE DEF over
  <2>3. PoolShape'
    <3>1. statement' \in [Statements -> Fresh \union Running \union Over]
      BY <2>1, <2>2
    <3>2. QED
      BY <1>2, <3>1 DEF ClosePool, PoolInv, PoolShape
  <2>4. UNCHANGED <<applied, lostAnswer>>
    BY <1>2 DEF ClosePool
  <2>5. ASSUME NEW s \in Statements
        PROVE  StatementInv(s)'
    <3>1. StatementInv(s) /\ statement'[s] = over
      BY <2>2 DEF PoolInv
    <3>2. QED
      BY <2>1, <2>4, <3>1 DEF StatementInv
  <2>6. QED
    BY <2>3, <2>5 DEF PoolInv
<1>3. ASSUME HealthLoopEnds \/ HealthLoopHangs \/ HealthLoopResumes
      PROVE  PoolInv'
  <2>1. /\ UNCHANGED <<opened, pools, priority, healthy, latency, up, statement, applied, lostAnswer>>
        /\ loop' \in {"running", "hung", "ended"}
    BY <1>3 DEF HealthLoopEnds, HealthLoopHangs, HealthLoopResumes
  <2>2. PoolShape'
    BY <2>1 DEF PoolInv, PoolShape
  <2>3. QED
    BY <2>1, <2>2, PoolsOnly
<1>4. ASSUME NEW p \in Replicas, HealthCheck(p)
      PROVE  PoolInv'
  <2>1. PoolShape'
    BY <1>4 DEF HealthCheck, PoolInv, PoolShape
  <2>2. QED
    BY <1>4, <2>1, PoolsOnly DEF HealthCheck
<1>5. ASSUME NEW p \in Replicas, ReplicaFails(p)
      PROVE  PoolInv'
  <2>1. PoolShape'
    BY <1>5 DEF ReplicaFails, PoolInv, PoolShape
  <2>2. QED
    BY <1>5, <2>1, PoolsOnly DEF ReplicaFails
<1>6. ASSUME NEW p \in Replicas, ReplicaRecovers(p)
      PROVE  PoolInv'
  <2>1. PoolShape'
    BY <1>6 DEF ReplicaRecovers, PoolInv, PoolShape
  <2>2. QED
    BY <1>6, <2>1, PoolsOnly DEF ReplicaRecovers
<1>7. ASSUME NEW s \in Statements, Fetch(s)
      PROVE  PoolInv'
  BY <1>7, StatementStarts DEF Fetch
<1>8. ASSUME NEW s \in Statements, Write(s)
      PROVE  PoolInv'
  BY <1>8, StatementStarts DEF Write
<1>9. ASSUME NEW s \in Statements, StatementAnswered(s)
      PROVE  PoolInv'
  <2>1. statement[s] \in Running
    BY <1>9 DEF StatementAnswered, PoolInv, PoolShape, Fresh, Over
  <2>2. StatementInv(s) /\ applied \in [Statements -> 0..MaxAttempts] /\ lostAnswer \subseteq Statements
    BY DEF PoolInv, PoolShape
  <2>3. statement[s].at = "run" /\ statement[s].attempt \in 1..MaxAttempts /\ statement[s].write \in BOOLEAN
    BY <2>1 DEF Running
  <2>4. applied[s] \in Nat /\ applied[s] < statement[s].attempt /\ (applied[s] > 0 => s \in lostAnswer)
    BY <2>2, <2>3 DEF StatementInv
  <2>5. /\ UNCHANGED <<opened, pools, priority, healthy, latency, loop, up, lostAnswer>>
        /\ FinishStatement(s, "row")
        /\ applied' = IF statement[s].write THEN [applied EXCEPT ![s] = @ + 1] ELSE applied
    BY <1>9 DEF StatementAnswered
  <2>6. /\ applied' \in [Statements -> 0..MaxAttempts]
        /\ \A t \in Statements \ {s} : applied'[t] = applied[t]
        /\ applied'[s] > 1 => s \in lostAnswer
        /\ statement[s].write => applied'[s] > 0
    BY <2>2, <2>3, <2>4, <2>5 DEF MaxAttempts, StatementInv
  <2>7. QED
    BY <2>1, <2>2, <2>5, <2>6, StatementEnds
<1>10. ASSUME NEW s \in Statements, ConnectionLost(s)
      PROVE  PoolInv'
  <2>1. statement[s] \in Running
    BY <1>10 DEF ConnectionLost, PoolInv, PoolShape, Fresh, Over
  <2>2. StatementInv(s) /\ applied \in [Statements -> 0..MaxAttempts] /\ lostAnswer \subseteq Statements
    BY DEF PoolInv, PoolShape
  <2>3. statement[s].at = "run" /\ statement[s].attempt \in 1..MaxAttempts /\ statement[s].write \in BOOLEAN
    BY <2>1 DEF Running
  <2>4. applied[s] \in Nat /\ applied[s] < statement[s].attempt /\ (applied[s] > 0 => s \in lostAnswer)
    BY <2>2, <2>3 DEF StatementInv
  <2>5. UNCHANGED <<opened, pools, priority, healthy, latency, loop, up>> /\ Retry(s)
    BY <1>10 DEF ConnectionLost
  <2>6. \/ UNCHANGED <<applied, lostAnswer>>
        \/ applied' = [applied EXCEPT ![s] = @ + 1] /\ lostAnswer' = lostAnswer \union {s}
    BY <1>10 DEF ConnectionLost
  <2>7. /\ applied' \in [Statements -> 0..MaxAttempts]
        /\ \A t \in Statements \ {s} : applied'[t] = applied[t]
        /\ lostAnswer \subseteq lostAnswer' /\ lostAnswer' \subseteq Statements
        /\ applied'[s] <= statement[s].attempt
        /\ applied'[s] > 0 => s \in lostAnswer'
    BY <2>2, <2>3, <2>4, <2>6 DEF MaxAttempts
  <2>8. applied'[s] \in Nat /\ (applied'[s] > 1 => s \in lostAnswer')
    BY <2>7
  <2>9. CASE statement[s].attempt < MaxAttempts
    <3>1. PICK p \in GetPool(statement[s].write, statement[s].client) :
             statement' = [statement EXCEPT ![s].attempt = @ + 1, ![s].pool = p]
      BY <2>5, <2>9 DEF Retry
    <3>2. /\ p \in InPool \union {"primary"}
          /\ p \in Replicas \union {"primary"}
          /\ statement[s].write => p = "primary"
      BY <2>3, GetPoolRange DEF PoolInv
    <3>3. /\ DOMAIN statement' = Statements
          /\ statement'[s] = [[statement[s] EXCEPT !.attempt = @ + 1] EXCEPT !.pool = p]
          /\ \A t \in Statements \ {s} : statement'[t] = statement[t]
      BY <3>1 DEF PoolInv, PoolShape
    <3>4. /\ statement'[s] \in Running
          /\ statement'[s].at = "run" /\ statement'[s].write = statement[s].write
          /\ statement'[s].pool = p /\ statement'[s].attempt = statement[s].attempt + 1
      <4> DEFINE later == [statement[s] EXCEPT !.attempt = @ + 1]
      <4>1. later \in Running /\ later.write = statement[s].write /\ later.attempt = statement[s].attempt + 1
        BY <2>1, <2>9 DEF Running, MaxAttempts
      <4>2. statement'[s] = [later EXCEPT !.pool = p]
        BY <3>3
      <4> HIDE DEF later
      <4>3. QED
        BY <3>2, <4>1, <4>2 DEF Running
    <3>5. statement' \in [Statements -> Fresh \union Running \union Over]
      BY <3>1, <3>3, <3>4 DEF PoolInv, PoolShape
    <3>6. InPool' = InPool /\ opened'
      BY <2>2, <2>3, <2>5 DEF InPool, StatementInv
    <3>7. applied'[s] < statement'[s].attempt
      BY <2>3, <2>7, <2>8, <3>4
    <3>8. StatementInv(s)'
      BY <2>7, <2>8, <3>2, <3>4, <3>6, <3>7 DEF StatementInv
    <3>9. QED
      BY <2>5, <2>7, <3>3, <3>5, <3>8, OneStatement
  <2>10. CASE ~(statement[s].attempt < MaxAttempts)
    <3>1. FinishStatement(s, "error")
      BY <2>5, <2>10 DEF Retry
    <3>2. QED
      BY <2>1, <2>5, <2>7, <2>8, <3>1, StatementEnds
  <2>11. QED
    BY <2>9, <2>10
<1>11. ASSUME NEW s \in Statements, StatementRefused(s)
      PROVE  PoolInv'
  <2>1. statement[s] \in Running
    BY <1>11 DEF StatementRefused, PoolInv, PoolShape, Fresh, Over
  <2>2. StatementInv(s) /\ applied \in [Statements -> 0..MaxAttempts] /\ lostAnswer \subseteq Statements
    BY DEF PoolInv, PoolShape
  <2>3. statement[s].at = "run" /\ statement[s].attempt \in 1..MaxAttempts /\ statement[s].write \in BOOLEAN
    BY <2>1 DEF Running
  <2>4. applied[s] \in Nat /\ applied[s] < statement[s].attempt /\ (applied[s] > 0 => s \in lostAnswer)
    BY <2>2, <2>3 DEF StatementInv
  <2>5. /\ UNCHANGED <<opened, pools, priority, healthy, latency, loop, up, applied, lostAnswer>>
        /\ FinishStatement(s, "error")
    BY <1>11 DEF StatementRefused
  <2>6. applied[s] > 1 => s \in lostAnswer
    BY <2>2 DEF StatementInv
  <2>7. QED
    BY <2>1, <2>2, <2>5, <2>6, StatementEnds
<1>12. CASE UNCHANGED poolVars
  <2>1. PoolShape'
    BY <1>12 DEF poolVars, PoolInv, PoolShape
  <2>2. QED
    BY <1>12, <2>1, PoolsOnly DEF poolVars
<1>13. QED
  BY <1>1, <1>2, <1>3, <1>4, <1>5, <1>6, <1>7, <1>8, <1>9, <1>10, <1>11, <1>12 DEF PoolsNext

-----------------------------------------------------------------------------
(* Migrations. *)

Idle == {[at |-> "new"]}

Validating == [at : {"validate"}, direction : {"up", "down"}, order : Orders,
               files : SUBSET Files, applied : SUBSET Files]

Working == [at : {"run", "again"}, direction : {"up", "down"}, todo : (SUBSET Files) \ {{}}]

AtWork(p) == process[p].at \in {"run", "again"}

\* Files are not taken off the disk, so what was listed is there, and what was there
\* at the start was listed.
Listed(p) ==
    /\ process[p].at = "validate" =>
          /\ process[p].order.direction = process[p].direction
          /\ process[p].applied \subseteq process[p].files
          /\ process[p].files \subseteq disk
          /\ disk \ late \subseteq process[p].files
    /\ AtWork(p) => process[p].todo \subseteq disk

MigrShape ==
    /\ MigrationsTypeOK
    /\ DOMAIN records = Files
    /\ Applied \subseteq disk
    /\ runs \in Nat
    /\ crossed \subseteq Files
    /\ mixed \in BOOLEAN
    /\ specific \in BOOLEAN
    /\ process \in [Processes -> Idle \union Validating \union Working]
    /\ \A p \in Processes : Listed(p)

\* Between its two transactions a process relies on the first one.
HalfDone(p, f) ==
    process[p].at = "again" /\ Current(p, f) => ((f \in schema) = (process[p].direction = "up"))

TruthInv ==
    \A f \in Files \ crossed :
        /\ (f \in Applied) = (f \in schema)
        /\ \A p \in Processes : HalfDone(p, f)

\* What a process has read is out of date in its own direction only; what it has
\* still to apply comes with every earlier file that is missing, and what it has
\* still to roll back with every later one.
PlanInv(p) ==
    /\ process[p].at = "validate" /\ process[p].direction = "up" => process[p].applied \subseteq Applied
    /\ process[p].at = "validate" /\ process[p].direction = "down" => Applied \subseteq process[p].applied
    /\ AtWork(p) /\ process[p].direction = "up" =>
          \A f \in process[p].todo, g \in disk \ late :
              Number[g] < Number[f] => g \in Applied \union process[p].todo
    /\ AtWork(p) /\ process[p].direction = "down" =>
          \A f \in process[p].todo, h \in Applied : Number[f] < Number[h] => h \in process[p].todo
    /\ process[p].at = "again" =>
          \A f \in Files : Current(p, f) => ((f \in Applied) = (process[p].direction = "up"))

AppliedInOrder == \A f \in Applied, g \in disk \ late : Number[g] < Number[f] => g \in Applied

OrderInv == ~specific /\ ~mixed => AppliedInOrder /\ \A p \in Processes : PlanInv(p)

MigrInv == MigrShape /\ TruthInv /\ OrderInv

-----------------------------------------------------------------------------
(* Lists of files. *)

LEMMA FilesFinite == Files \subseteq Nat /\ IsFiniteSet(Files) /\ Number \in [Files -> Nat]
<1>1. Number \in Seq(Nat)
  BY MigrationsConstants
<1>2. Files = 1..Len(Number) /\ Len(Number) \in Nat
  BY <1>1 DEF Files
<1>3. IsFiniteSet(1..Len(Number))
  BY <1>2, FS_Interval
<1>4. QED
  BY <1>1, <1>2, <1>3

\* A lower number is at an earlier place.
LEMMA NumberOrder ==
    ASSUME NEW f \in Files, NEW g \in Files, Number[g] < Number[f]
    PROVE  g < f
<1>1. f \in Nat /\ g \in Nat /\ Number[f] \in Nat /\ Number[g] \in Nat
  BY FilesFinite
<1>2. f < g => Number[f] <= Number[g]
  BY MigrationsConstants DEF Files
<1>3. QED
  BY <1>1, <1>2

\* The places are in a line, in both directions.
LEMMA BeforeOrder ==
    ASSUME NEW direction, NEW f \in Files, NEW g \in Files, NEW h \in Files
    PROVE  /\ Before(direction, f, g) /\ Before(direction, g, h) => Before(direction, f, h)
           /\ ~Before(direction, f, f)
           /\ Before(direction, f, g) \/ Before(direction, g, f) \/ f = g
           /\ ~Before(direction, g, f) /\ Before(direction, g, h) => Before(direction, f, h)
<1>1. f \in Nat /\ g \in Nat /\ h \in Nat
  BY FilesFinite
<1>2. QED
  BY <1>1 DEF Before

\* The file that is next is one file.
LEMMA OneCurrent ==
    ASSUME NEW p, process[p].todo \subseteq Files,
           NEW f, NEW g, Current(p, f), Current(p, g)
    PROVE  f = g
<1>1. f \in Files /\ g \in Files
  BY DEF Current
<1>2. ~Before(process[p].direction, f, g) /\ ~Before(process[p].direction, g, f)
  BY DEF Current
<1>3. QED
  BY <1>1, <1>2, BeforeOrder

\* A number of steps selects the first files of a list.
LEMMA TakeFirst ==
    ASSUME NEW S, S \subseteq Files, NEW direction, NEW n \in Nat,
           NEW f \in Take(S, direction, n), NEW g \in S, Before(direction, g, f)
    PROVE  g \in Take(S, direction, n)
<1> DEFINE Ahead(x) == {h \in S : Before(direction, h, x)}
<1>1. f \in S /\ f \in Files /\ g \in Files
  BY DEF Take
<1>2. Ahead(g) \subseteq Ahead(f)
  BY <1>1, BeforeOrder
<1>3. IsFiniteSet(Ahead(f))
  <2>1. Ahead(f) \subseteq Files
    OBVIOUS
  <2> HIDE DEF Ahead
  <2>2. QED
    BY <2>1, FilesFinite, FS_Subset
<1>4. Cardinality(Ahead(f)) < n
  BY DEF Take
<1>5. /\ Cardinality(Ahead(f)) \in Nat /\ Cardinality(Ahead(g)) \in Nat
      /\ Cardinality(Ahead(g)) <= Cardinality(Ahead(f))
  <2> HIDE DEF Ahead
  <2>1. QED
    BY <1>2, <1>3, FS_Subset, FS_CardinalityType
<1>6. Cardinality(Ahead(g)) < n
  <2> HIDE DEF Ahead
  <2>1. QED
    BY <1>4, <1>5
<1>7. QED
  BY <1>6 DEF Take

\* So does a command line, whatever its target is.
LEMMA SelectionFirst ==
    ASSUME NEW S, S \subseteq Files, NEW direction, NEW target, NEW steps \in Nat
    PROVE  /\ Selection(S, direction, target, steps) \subseteq S
           /\ \A f \in Selection(S, direction, target, steps), g \in S :
                 Before(direction, g, f) => g \in Selection(S, direction, target, steps)
<1>1. CASE target = 0
  <2>1. Selection(S, direction, target, steps) = Take(S, direction, steps)
    BY <1>1 DEF Selection
  <2>2. Take(S, direction, steps) \subseteq S
    BY DEF Take
  <2>3. QED
    BY <2>1, <2>2, TakeFirst
<1>2. CASE target # 0 /\ target \in S
  <2> DEFINE T == UpTo(S, direction, target)
  <2>1. Selection(S, direction, target, steps) = Take(T, direction, steps)
    BY <1>2 DEF Selection
  <2>2. T \subseteq S /\ T \subseteq Files
    BY DEF UpTo
  <2>3. Take(T, direction, steps) \subseteq T
    BY DEF Take
  <2>4. \A f \in T, g \in S : Before(direction, g, f) => g \in T
    BY <1>2, BeforeOrder DEF UpTo
  <2> HIDE DEF T
  <2>5. \A f \in Take(T, direction, steps), g \in T :
           Before(direction, g, f) => g \in Take(T, direction, steps)
    BY <2>2, TakeFirst
  <2>6. QED
    BY <2>1, <2>2, <2>3, <2>4, <2>5
<1>3. CASE target # 0 /\ target \notin S
  BY <1>3 DEF Selection
<1>4. QED
  BY <1>1, <1>2, <1>3

\* The record of one file is written or removed.
LEMMA RecordEffect ==
    ASSUME MigrShape, NEW f \in Files, NEW direction \in {"up", "down"}, text' = text,
           records' = [records EXCEPT ![f] = IF direction = "up" THEN ComputeChecksum(f) ELSE None]
    PROVE  /\ direction = "up" => Applied' = Applied \union {f}
           /\ direction = "down" => Applied' = Applied \ {f}
           /\ DOMAIN records' = Files
           /\ \A g \in Files : records'[g] \in 0..(text'[g] + 1)
<1>1. /\ text \in [Files -> 0..MaxEdits] /\ DOMAIN records = Files
      /\ \A g \in Files : records[g] \in 0..(text[g] + 1)
  BY DEF MigrShape, MigrationsTypeOK
<1>2. text[f] \in Nat /\ ComputeChecksum(f) = text[f] + 1 /\ None = 0
  BY <1>1, MigrationsConstants DEF ComputeChecksum, None
<1>3. \A g \in Files : records'[g] = IF g # f THEN records[g]
                                     ELSE IF direction = "up" THEN text[f] + 1 ELSE 0
  BY <1>1, <1>2
<1>4. DOMAIN records' = Files
  BY <1>1
<1>5. \A g \in Files : records'[g] \in 0..(text'[g] + 1)
  BY <1>1, <1>2, <1>3
<1>6. /\ direction = "up" => Applied' = Applied \union {f}
      /\ direction = "down" => Applied' = Applied \ {f}
  BY <1>2, <1>3 DEF Applied
<1>7. QED
  BY <1>4, <1>5, <1>6

\* At the start nothing is applied.
LEMMA MigrationsStart ==
    ASSUME MigrationsInit
    PROVE  MigrInv
<1>1. Applied = {}
  BY DEF MigrationsInit, Applied
<1>2. \A p \in Processes : process[p] = [at |-> "new"]
  BY DEF MigrationsInit
<1>3. \A p \in Processes : Listed(p) /\ PlanInv(p)
  BY <1>2 DEF Listed, PlanInv, AtWork
<1>4. MigrShape
  <2>1. disk \subseteq Files /\ schema = {} /\ late = {} /\ crossed = {} /\ runs \in Nat
    BY MigrationsConstants DEF MigrationsInit, Files
  <2>2. /\ text \in [Files -> 0..MaxEdits]
        /\ \A f \in Files : records[f] = 0 /\ text[f] = 0
    BY MigrationsConstants DEF MigrationsInit, None
  <2>3. DOMAIN records = Files /\ mixed \in BOOLEAN /\ specific \in BOOLEAN
    BY DEF MigrationsInit
  <2>4. process \in [Processes -> Idle]
    BY DEF MigrationsInit, Idle
  <2>5. QED
    BY <1>1, <1>2, <1>3, <2>1, <2>2, <2>3, <2>4 DEF MigrShape, MigrationsTypeOK
<1>5. TruthInv
  BY <1>1, <1>2 DEF MigrationsInit, TruthInv, HalfDone
<1>6. OrderInv
  BY <1>1, <1>3 DEF OrderInv, AppliedInOrder
<1>7. QED
  BY <1>4, <1>5, <1>6 DEF MigrInv


\* A process that changes nothing but its own state, and is not between its two
\* transactions.
LEMMA ProcessStep ==
    ASSUME MigrInv, NEW p \in Processes, NEW state \in Idle \union Validating \union Working,
           Set(p, state), state.at # "again",
           UNCHANGED <<disk, text, schema, records, crossed, mixed, late>>,
           runs' \in Nat, specific' \in BOOLEAN, specific => specific',
           Listed(p)', ~specific' /\ ~mixed => PlanInv(p)'
    PROVE  MigrInv'
<1>1. /\ process' \in [Processes -> Idle \union Validating \union Working]
      /\ process'[p] = state
      /\ \A q \in Processes \ {p} : process'[q] = process[q]
  BY DEF Set, MigrInv, MigrShape
<1>2. Applied' = Applied
  BY DEF Applied
<1>3. \A q \in Processes : process'[q].at \in {"new", "validate", "run", "again"}
  BY <1>1 DEF Idle, Validating, Working
<1>4. ASSUME NEW q \in Processes \ {p}
      PROVE  /\ Listed(q)'
             /\ PlanInv(q) => PlanInv(q)'
             /\ \A f \in Files : HalfDone(q, f) => HalfDone(q, f)'
  <2>1. process'[q] = process[q] /\ Listed(q)
    BY <1>1 DEF MigrInv, MigrShape
  <2>2. \A f \in Files : Current(q, f)' = Current(q, f)
    BY <2>1 DEF Current
  <2>3. QED
    BY <1>2, <2>1, <2>2 DEF Listed, PlanInv, AtWork, HalfDone
<1>5. MigrShape'
  BY <1>1, <1>2, <1>3, <1>4 DEF MigrInv, MigrShape, MigrationsTypeOK
<1>6. TruthInv'
  BY <1>1, <1>2, <1>4 DEF MigrInv, TruthInv, HalfDone
<1>7. OrderInv'
  BY <1>2, <1>4 DEF MigrInv, OrderInv, AppliedInOrder
<1>8. QED
  BY <1>5, <1>6, <1>7 DEF MigrInv

\* A step of the developers.
LEMMA FilesStep ==
    ASSUME MigrInv, MigrShape', disk' \ late' = disk \ late,
           UNCHANGED <<schema, records, process, crossed, mixed, specific>>
    PROVE  MigrInv'
<1>1. Applied' = Applied
  BY DEF Applied
<1>2. \A q \in Processes, f \in Files : Current(q, f)' = Current(q, f)
  BY DEF Current
<1>3. \A q \in Processes : PlanInv(q) => PlanInv(q)'
  BY <1>1, <1>2 DEF PlanInv, AtWork
<1>4. TruthInv'
  BY <1>1, <1>2 DEF MigrInv, TruthInv, HalfDone
<1>5. OrderInv'
  BY <1>1, <1>3 DEF MigrInv, OrderInv, AppliedInOrder
<1>6. QED
  BY <1>4, <1>5 DEF MigrInv

\* Another process of the same direction changes one record.
LEMMA OtherPlan ==
    ASSUME NEW q \in Processes, process'[q] = process[q], UNCHANGED <<disk, late>>,
           process[q].at \in {"new", "validate", "run", "again"},
           NEW direction \in {"up", "down"}, process[q].at # "new" => process[q].direction = direction,
           NEW f, direction = "up" => Applied' = Applied \union {f},
           direction = "down" => Applied' = Applied \ {f},
           PlanInv(q)
    PROVE  PlanInv(q)'
<1>1. \A g \in Files : Current(q, g)' = Current(q, g)
  BY DEF Current
<1>2. CASE direction = "up"
  BY <1>1, <1>2 DEF PlanInv, AtWork
<1>3. CASE direction = "down"
  BY <1>1, <1>3 DEF PlanInv, AtWork
<1>4. QED
  BY <1>2, <1>3

\* run_migration changes the schema and the record together.
LEMMA RunKept ==
    ASSUME MigrInv, NEW p \in Processes, NEW f \in Files, RunMigration(p, f)
    PROVE  MigrInv'
<1> DEFINE d == process[p].direction
           todo == process[p].todo
           state == [process[p] EXCEPT !.at = "again"]
<1>1. process[p] \in Working
  BY DEF RunMigration, MigrInv, MigrShape, Idle, Validating
<1>2. /\ process[p].at = "run" /\ Current(p, f) /\ f \in todo
      /\ d \in {"up", "down"} /\ todo \subseteq disk /\ todo \subseteq Files
  <2>1. process[p].at = "run" /\ Current(p, f)
    BY DEF RunMigration
  <2>2. Listed(p)
    BY DEF MigrInv, MigrShape
  <2>3. QED
    BY <1>1, <2>1, <2>2 DEF Working, Current, Listed, AtWork
<1>3. state \in Working /\ state.at = "again" /\ state.direction = d /\ state.todo = todo
  BY <1>1 DEF Working
<1>4. /\ process' \in [Processes -> Idle \union Validating \union Working]
      /\ process'[p].at = "again" /\ process'[p].direction = d /\ process'[p].todo = todo
      /\ \A q \in Processes \ {p} : process'[q] = process[q]
  <2>1. process' = [process EXCEPT ![p] = state]
    BY DEF RunMigration, Set
  <2> HIDE DEF state, d, todo
  <2>2. QED
    BY <1>3, <2>1 DEF MigrInv, MigrShape
<1>5. UNCHANGED <<disk, text, specific, late, runs>>
  BY DEF RunMigration
<1>6. schema' = IF d = "up" THEN schema \union {f} ELSE schema \ {f}
  BY DEF RunMigration
<1>7. /\ d = "up" => Applied' = Applied \union {f}
      /\ d = "down" => Applied' = Applied \ {f}
      /\ DOMAIN records' = Files
      /\ \A g \in Files : records'[g] \in 0..(text'[g] + 1)
  <2>1. records' = [records EXCEPT ![f] = IF d = "up" THEN ComputeChecksum(f) ELSE None]
    BY DEF RunMigration
  <2> HIDE DEF d
  <2>2. QED
    BY <1>2, <1>5, <2>1, RecordEffect DEF MigrInv
<1>8. crossed' = IF Opposed(p, f) THEN crossed \union {f} ELSE crossed
  BY DEF RunMigration
<1>9. mixed' = (mixed \/ Opposing(p))
  BY DEF RunMigration
<1>10. \A q \in Processes, g \in Files : Current(q, g)' = Current(q, g)
  BY <1>4 DEF Current
<1>11. \A g \in Files : Current(p, g) => g = f
  BY <1>2, OneCurrent
<1>12. \A q \in Processes : process[q].at \in {"new", "validate", "run", "again"}
  BY DEF MigrInv, MigrShape, MigrationsTypeOK
<1> HIDE DEF d, todo, state
<1>13. MigrShape'
  <2>1. \A q \in Processes : Listed(q)'
    <3>1. ASSUME NEW q \in Processes \ {p}
          PROVE  Listed(q)'
      BY <1>4, <1>5 DEF MigrInv, MigrShape, Listed, AtWork
    <3>2. Listed(p)'
      BY <1>2, <1>4, <1>5 DEF Listed, AtWork
    <3>3. QED
      BY <3>1, <3>2
  <2>2. \A q \in Processes : process'[q].at \in {"new", "validate", "run", "again"}
    BY <1>4, <1>12
  <2>3. Applied' \subseteq disk /\ schema' \subseteq disk
    BY <1>2, <1>6, <1>7 DEF MigrInv, MigrShape, MigrationsTypeOK
  <2>4. crossed' \subseteq Files /\ mixed' \in BOOLEAN
    BY <1>8, <1>9 DEF MigrInv, MigrShape, Opposing
  <2>5. QED
    BY <1>4, <1>5, <1>7, <2>1, <2>2, <2>3, <2>4 DEF MigrInv, MigrShape, MigrationsTypeOK
<1>14. TruthInv'
  <2> SUFFICES ASSUME NEW g \in Files \ crossed'
               PROVE  /\ (g \in Applied') = (g \in schema')
                      /\ \A q \in Processes : HalfDone(q, g)'
    BY DEF TruthInv
  <2>1. g \notin crossed
    BY <1>8
  <2>2. CASE g = f
    <3>1. (f \in schema') = (d = "up") /\ (f \in Applied') = (d = "up")
      BY <1>2, <1>6, <1>7
    <3>2. ASSUME NEW q \in Processes \ {p}, process[q].at = "again", Current(q, f)
          PROVE  process[q].direction = d
      <4>1. f \in process[q].todo
        BY <3>2 DEF Current
      <4>2. ~Opposed(p, f)
        BY <1>8, <2>2
      <4>3. QED
        BY <3>2, <4>1, <4>2 DEF Opposed, d
    <3>3. QED
      BY <1>4, <1>10, <2>2, <3>1, <3>2 DEF HalfDone
  <2>3. CASE g # f
    <3>1. (g \in schema') = (g \in schema) /\ (g \in Applied') = (g \in Applied)
      BY <1>2, <1>6, <1>7, <2>3
    <3>2. HalfDone(p, g)'
      BY <1>10, <1>11, <2>3 DEF HalfDone
    <3>3. \A q \in Processes \ {p} : HalfDone(q, g)'
      BY <1>4, <1>10, <2>1, <3>1 DEF HalfDone, MigrInv, TruthInv
    <3>4. QED
      BY <2>1, <3>1, <3>2, <3>3 DEF MigrInv, TruthInv
  <2>4. QED
    BY <2>2, <2>3
<1>15. OrderInv'
  <2> SUFFICES ASSUME ~specific', ~mixed'
               PROVE  AppliedInOrder' /\ \A q \in Processes : PlanInv(q)'
    BY DEF OrderInv
  <2>1. AppliedInOrder /\ \A q \in Processes : PlanInv(q)
    BY <1>5, <1>9 DEF MigrInv, OrderInv
  <2>2. ASSUME NEW q \in Processes \ {p}, process[q].at # "new"
        PROVE  process[q].direction = d
    BY <1>9, <2>2 DEF Opposing, d
  <2>3. Applied \subseteq Files /\ disk \subseteq Files
    BY DEF MigrInv, MigrShape, MigrationsTypeOK
  <2>4. \A g \in todo : ~Before(d, g, f)
    BY <1>2 DEF Current, d, todo
  <2>5. AppliedInOrder'
    <3>1. CASE d = "up"
      <4>1. ASSUME NEW g \in disk \ late, Number[g] < Number[f]
            PROVE  g \in Applied
        <5>1. g \in Applied \union todo
          BY <1>2, <2>1, <3>1, <4>1 DEF PlanInv, AtWork, d, todo
        <5>2. g < f
          BY <2>3, <4>1, NumberOrder
        <5>3. QED
          BY <2>4, <3>1, <5>1, <5>2 DEF Before
      <4>2. QED
        BY <1>5, <1>7, <2>1, <3>1, <4>1 DEF AppliedInOrder
    <3>2. CASE d = "down"
      <4>1. ASSUME NEW h \in Applied, Number[f] < Number[h]
            PROVE  FALSE
        <5>1. h \in todo
          BY <1>2, <2>1, <3>2, <4>1 DEF PlanInv, AtWork, d, todo
        <5>2. f < h
          BY <2>3, <4>1, NumberOrder
        <5>3. QED
          BY <2>4, <3>2, <5>1, <5>2 DEF Before
      <4>2. QED
        BY <1>5, <1>7, <2>1, <3>2, <4>1 DEF AppliedInOrder
    <3>3. QED
      BY <1>2, <3>1, <3>2
  <2>6. PlanInv(p)'
    <3>1. \A g \in Files : Current(p, g)' => ((g \in Applied') = (d = "up"))
      BY <1>2, <1>7, <1>10, <1>11
    <3>2. CASE d = "up"
      BY <1>2, <1>4, <1>5, <1>7, <2>1, <3>1, <3>2 DEF PlanInv, AtWork, d, todo
    <3>3. CASE d = "down"
      BY <1>2, <1>4, <1>5, <1>7, <2>1, <3>1, <3>3 DEF PlanInv, AtWork, d, todo
    <3>4. QED
      BY <1>2, <3>2, <3>3
  <2>7. ASSUME NEW q \in Processes \ {p}
        PROVE  PlanInv(q)'
    BY <1>2, <1>4, <1>5, <1>7, <1>12, <2>1, <2>2, OtherPlan
  <2>8. QED
    BY <2>5, <2>6, <2>7
<1>16. QED
  BY <1>13, <1>14, <1>15 DEF MigrInv

\* The record written again says what the first transaction did.
LEMMA AgainKept ==
    ASSUME MigrInv, NEW p \in Processes, NEW f \in Files, RecordAgain(p, f)
    PROVE  MigrInv'
<1> DEFINE d == process[p].direction
           rest == process[p].todo \ {f}
           state == IF rest = {} THEN [at |-> "new"] ELSE [process[p] EXCEPT !.at = "run", !.todo = rest]
<1>1. process[p] \in Working
  BY DEF RecordAgain, MigrInv, MigrShape, Idle, Validating
<1>2. /\ process[p].at = "again" /\ Current(p, f) /\ f \in process[p].todo
      /\ d \in {"up", "down"} /\ rest \subseteq disk /\ f \in disk /\ process[p].todo \subseteq Files
  <2>1. process[p].at = "again" /\ Current(p, f)
    BY DEF RecordAgain
  <2>2. Listed(p)
    BY DEF MigrInv, MigrShape
  <2>3. QED
    BY <1>1, <2>1, <2>2 DEF Working, Current, Listed, AtWork
<1>3. /\ rest = {} => state \in Idle /\ state.at = "new"
      /\ rest # {} => state \in Working /\ state.at = "run" /\ state.direction = d /\ state.todo = rest
  <2> DEFINE run == [process[p] EXCEPT !.at = "run"]
  <2>1. run \in Working /\ run.at = "run" /\ run.direction = d
    BY <1>1 DEF Working
  <2>2. rest # {} => state = [run EXCEPT !.todo = rest]
    OBVIOUS
  <2>3. rest \subseteq Files
    BY <1>2
  <2>4. rest = {} => state = [at |-> "new"]
    OBVIOUS
  <2> HIDE DEF run, state, rest, d
  <2>5. rest = {} => state \in Idle /\ state.at = "new"
    BY <2>4 DEF Idle
  <2>6. rest # {} => state \in Working /\ state.at = "run" /\ state.direction = d /\ state.todo = rest
    BY <2>1, <2>2, <2>3 DEF Working
  <2>7. QED
    BY <2>5, <2>6
<1>4. /\ process' \in [Processes -> Idle \union Validating \union Working]
      /\ process'[p] = state
      /\ \A q \in Processes \ {p} : process'[q] = process[q]
  <2>1. process' = [process EXCEPT ![p] = state]
    BY DEF RecordAgain, Set
  <2> HIDE DEF state, d, rest
  <2>2. QED
    BY <1>3, <2>1 DEF MigrInv, MigrShape
<1>5. UNCHANGED <<disk, text, schema, mixed, specific, late, runs>>
  BY DEF RecordAgain
<1>6. /\ d = "up" => Applied' = Applied \union {f}
      /\ d = "down" => Applied' = Applied \ {f}
      /\ DOMAIN records' = Files
      /\ \A g \in Files : records'[g] \in 0..(text'[g] + 1)
  <2>1. records' = [records EXCEPT ![f] = IF d = "up" THEN ComputeChecksum(f) ELSE None]
    BY DEF RecordAgain
  <2> HIDE DEF d
  <2>2. QED
    BY <1>2, <1>5, <2>1, RecordEffect DEF MigrInv
<1>7. crossed \subseteq crossed' /\ crossed' \subseteq crossed \union {f}
  BY DEF RecordAgain
<1>8. \A q \in Processes \ {p}, g \in Files : Current(q, g)' = Current(q, g)
  BY <1>4 DEF Current
<1>9. \A q \in Processes : process[q].at \in {"new", "validate", "run", "again"}
  BY DEF MigrInv, MigrShape, MigrationsTypeOK
<1> HIDE DEF d, state, rest
<1>10. process'[p].at \in {"new", "run"} /\ (process'[p].at = "run" => rest # {})
  BY <1>3, <1>4
<1>11. MigrShape'
  <2>1. \A q \in Processes : Listed(q)'
    <3>1. ASSUME NEW q \in Processes \ {p}
          PROVE  Listed(q)'
      BY <1>4, <1>5 DEF MigrInv, MigrShape, Listed, AtWork
    <3>2. Listed(p)'
      BY <1>2, <1>3, <1>4, <1>5 DEF Listed, AtWork
    <3>3. QED
      BY <3>1, <3>2
  <2>2. \A q \in Processes : process'[q].at \in {"new", "validate", "run", "again"}
    BY <1>4, <1>9, <1>10
  <2>3. Applied' \subseteq disk
    BY <1>2, <1>6 DEF MigrInv, MigrShape
  <2>4. QED
    BY <1>4, <1>5, <1>6, <1>7, <2>1, <2>2, <2>3 DEF MigrInv, MigrShape, MigrationsTypeOK
<1>12. TruthInv'
  <2> SUFFICES ASSUME NEW g \in Files \ crossed'
               PROVE  /\ (g \in Applied') = (g \in schema')
                      /\ \A q \in Processes : HalfDone(q, g)'
    BY DEF TruthInv
  <2>1. g \in Files \ crossed
    BY <1>7
  <2>2. (g \in Applied) = (g \in schema) /\ \A q \in Processes : HalfDone(q, g)
    BY <2>1 DEF MigrInv, TruthInv
  <2>3. g = f => ((f \in schema) = (d = "up"))
    BY <1>2, <2>2 DEF HalfDone, d
  <2>4. (g \in Applied') = (g \in schema')
    BY <1>2, <1>5, <1>6, <2>2, <2>3
  <2>5. HalfDone(p, g)'
    BY <1>10 DEF HalfDone
  <2>6. \A q \in Processes \ {p} : HalfDone(q, g)'
    BY <1>4, <1>5, <1>8, <2>2 DEF HalfDone
  <2>7. QED
    BY <2>4, <2>5, <2>6
<1>13. OrderInv'
  <2> SUFFICES ASSUME ~specific', ~mixed'
               PROVE  AppliedInOrder' /\ \A q \in Processes : PlanInv(q)'
    BY DEF OrderInv
  <2>1. AppliedInOrder /\ \A q \in Processes : PlanInv(q)
    BY <1>5 DEF MigrInv, OrderInv
  <2>2. (f \in Applied) = (d = "up")
    BY <1>2, <2>1 DEF PlanInv, d
  <2>3. Applied' = Applied
    BY <1>2, <1>6, <2>2
  <2>4. AppliedInOrder'
    BY <1>5, <2>1, <2>3 DEF AppliedInOrder
  <2>5. PlanInv(p)'
    <3>1. CASE rest = {}
      BY <1>3, <1>4, <3>1 DEF PlanInv, AtWork
    <3>2. CASE rest # {} /\ d = "up"
      <4>1. process'[p].at = "run" /\ process'[p].direction = "up" /\ process'[p].todo = rest
        BY <1>3, <1>4, <3>2
      <4>2. \A h \in process[p].todo, g \in disk \ late :
               Number[g] < Number[h] => g \in Applied \union process[p].todo
        BY <1>2, <2>1, <3>2 DEF PlanInv, AtWork, d
      <4>3. \A h \in rest, g \in disk \ late : Number[g] < Number[h] => g \in Applied \union rest
        BY <2>2, <3>2, <4>2 DEF rest
      <4>4. QED
        BY <1>5, <2>3, <4>1, <4>3 DEF PlanInv, AtWork
    <3>3. CASE rest # {} /\ d = "down"
      <4>1. process'[p].at = "run" /\ process'[p].direction = "down" /\ process'[p].todo = rest
        BY <1>3, <1>4, <3>3
      <4>2. \A g \in process[p].todo, h \in Applied : Number[g] < Number[h] => h \in process[p].todo
        BY <1>2, <2>1, <3>3 DEF PlanInv, AtWork, d
      <4>3. \A g \in rest, h \in Applied : Number[g] < Number[h] => h \in rest
        BY <2>2, <3>3, <4>2 DEF rest
      <4>4. QED
        BY <1>5, <2>3, <4>1, <4>3 DEF PlanInv, AtWork
    <3>4. QED
      BY <1>2, <3>1, <3>2, <3>3
  <2>6. ASSUME NEW q \in Processes \ {p}
        PROVE  PlanInv(q)'
    <3>1. process'[q] = process[q] /\ PlanInv(q)
      BY <1>4, <2>1
    <3>2. QED
      BY <1>5, <1>8, <2>3, <3>1 DEF PlanInv, AtWork
  <2>7. QED
    BY <2>4, <2>5, <2>6
<1>14. QED
  BY <1>11, <1>12, <1>13 DEF MigrInv

\* What a process selects: a beginning of the list it has read, in its direction.
LEMMA SelectKept ==
    ASSUME MigrInv, NEW p \in Processes, ValidateAndSelect(p)
    PROVE  MigrInv'
<1> DEFINE o == process[p].order
           files == process[p].files
           seen == process[p].applied
           todo == IF o.direction = "up" THEN SelectUp(files, seen, o.target, o.steps)
                                         ELSE SelectDown(files, seen, o.target, o.steps)
<1>1. process[p].at = "validate"
  BY DEF ValidateAndSelect
<1>2. process[p] \in Validating /\ Listed(p)
  BY <1>1 DEF MigrInv, MigrShape, Idle, Working
<1>3. /\ o \in Orders /\ o.direction \in {"up", "down"} /\ o.steps \in Nat
      /\ o.direction = process[p].direction
      /\ files \subseteq Files /\ seen \subseteq files /\ files \subseteq disk
      /\ disk \ late \subseteq files
  BY <1>1, <1>2, MigrationsConstants DEF Validating, Listed
<1>4. UNCHANGED <<disk, text, schema, records, crossed, mixed, specific, late, runs>>
  BY DEF ValidateAndSelect
<1>5. \/ Set(p, [at |-> "new"])
      \/ todo # {} /\ Set(p, [at |-> "run", direction |-> o.direction, todo |-> todo])
  BY DEF ValidateAndSelect
<1>6. Applied' = Applied
  BY <1>4 DEF Applied
<1>7. runs' \in Nat /\ specific' \in BOOLEAN
  BY <1>4 DEF MigrInv, MigrShape
<1>8. CASE Set(p, [at |-> "new"])
  <2> DEFINE new == [at |-> "new"]
  <2>1. new \in Idle /\ new.at = "new"
    BY DEF Idle
  <2>2. process'[p] = new
    BY <1>8 DEF Set, MigrInv, MigrShape
  <2>3. Set(p, new)
    BY <1>8
  <2> HIDE DEF new
  <2>4. Listed(p)' /\ PlanInv(p)'
    BY <2>1, <2>2 DEF Listed, PlanInv, AtWork
  <2>5. QED
    BY <1>4, <1>7, <2>1, <2>3, <2>4, ProcessStep
<1>9. CASE todo # {} /\ Set(p, [at |-> "run", direction |-> o.direction, todo |-> todo])
  <2> DEFINE new == [at |-> "run", direction |-> o.direction, todo |-> todo]
             list == IF o.direction = "up" THEN files \ seen ELSE files \intersect seen
             steps == IF o.direction = "down" /\ o.target = 0 /\ o.steps = MaxSteps THEN 1 ELSE o.steps
  <2>1. todo = Selection(list, o.direction, o.target, steps)
    <3>1. CASE o.direction = "up"
      BY <3>1 DEF SelectUp
    <3>2. CASE o.direction = "down"
      BY <3>2 DEF SelectDown
    <3>3. QED
      BY <1>3, <3>1, <3>2
  <2>2. list \subseteq Files /\ list \subseteq files /\ steps \in Nat
    BY <1>3
  <2>3. o.direction = "up" => list = files \ seen
    OBVIOUS
  <2>4. o.direction = "down" => list = files \intersect seen
    BY <1>3
  <2>5. Set(p, new)
    BY <1>9
  <2> HIDE DEF o, list, steps, todo
  <2>6. /\ todo \subseteq list
        /\ \A f \in todo, g \in list : Before(o.direction, g, f) => g \in todo
    BY <2>1, <2>2, SelectionFirst
  <2>7. new \in Working /\ new.at = "run" /\ new.direction = o.direction /\ new.todo = todo
    BY <1>3, <1>9, <2>2, <2>6 DEF Working
  <2> HIDE DEF new, files, seen
  <2>8. process'[p] = new
    BY <2>5 DEF Set, MigrInv, MigrShape
  <2>9. Listed(p)'
    BY <1>3, <1>4, <2>2, <2>6, <2>7, <2>8 DEF Listed, AtWork
  <2>10. ASSUME ~specific', ~mixed
         PROVE  PlanInv(p)'
    <3>1. PlanInv(p)
      BY <1>4, <2>10 DEF MigrInv, OrderInv
    <3>2. CASE o.direction = "up"
      <4>1. seen \subseteq Applied
        BY <1>1, <1>3, <3>1, <3>2 DEF PlanInv, seen
      <4>2. ASSUME NEW f \in todo, NEW g \in disk \ late, Number[g] < Number[f]
            PROVE  g \in Applied \union todo
        <5>1. g \in files /\ f \in Files /\ g \in Files
          BY <1>3, <2>2, <2>6
        <5>2. Before("up", g, f)
          BY <4>2, <5>1, NumberOrder DEF Before
        <5>3. g \in seen \/ g \in list
          BY <2>3, <3>2, <5>1
        <5>4. QED
          BY <2>6, <3>2, <4>1, <5>2, <5>3
      <4>3. QED
        BY <1>4, <1>6, <2>7, <2>8, <3>2, <4>2 DEF PlanInv, AtWork
    <3>3. CASE o.direction = "down"
      <4>1. Applied \subseteq seen
        BY <1>1, <1>3, <3>1, <3>3 DEF PlanInv, seen
      <4>2. ASSUME NEW f \in todo, NEW h \in Applied, Number[f] < Number[h]
            PROVE  h \in todo
        <5>1. h \in list /\ f \in Files /\ h \in Files
          BY <1>3, <2>2, <2>4, <2>6, <3>3, <4>1
        <5>2. Before("down", h, f)
          BY <4>2, <5>1, NumberOrder DEF Before
        <5>3. QED
          BY <2>6, <3>3, <5>1, <5>2
      <4>3. QED
        BY <1>4, <1>6, <2>7, <2>8, <3>3, <4>2 DEF PlanInv, AtWork
    <3>4. QED
      BY <1>3, <3>2, <3>3
  <2>11. QED
    BY <1>4, <1>7, <2>5, <2>7, <2>9, <2>10, ProcessStep
<1>10. QED
  BY <1>5, <1>8, <1>9

\* The record tells the truth, and tells it in order.
LEMMA MigrKept ==
    ASSUME MigrInv, [MigrationsNext]_migrationVars
    PROVE  MigrInv'
<1>1. ASSUME NEW p \in Processes, NEW o \in Orders, ReadApplied(p, o)
      PROVE  MigrInv'
  <2> DEFINE new == [at |-> "validate", direction |-> o.direction, order |-> o,
                     files |-> disk, applied |-> Applied]
  <2>1. Set(p, new) /\ UNCHANGED <<disk, text, schema, records, crossed, mixed, specific, late>>
    BY <1>1 DEF ReadApplied
  <2>2. disk \subseteq Files /\ Applied \subseteq disk
    BY DEF MigrInv, MigrShape, MigrationsTypeOK
  <2>3. /\ new \in Validating
        /\ new.at = "validate" /\ new.direction = o.direction /\ new.order = o
        /\ new.files = disk /\ new.applied = Applied
    BY <2>2, MigrationsConstants DEF Validating
  <2> HIDE DEF new
  <2>4. process'[p] = new /\ Applied' = Applied
    BY <2>1 DEF Set, Applied, MigrInv, MigrShape
  <2>5. Listed(p)' /\ PlanInv(p)'
    BY <2>1, <2>2, <2>3, <2>4 DEF Listed, PlanInv, AtWork
  <2>6. runs' \in Nat /\ specific' \in BOOLEAN
    BY <1>1 DEF ReadApplied, MigrInv, MigrShape
  <2>7. QED
    BY <2>1, <2>3, <2>5, <2>6, ProcessStep
<1>2. ASSUME NEW p \in Processes, NEW f \in Files, NEW d \in {"up", "down"}, ReadSpecific(p, d, f)
      PROVE  MigrInv'
  <2> DEFINE new == [at |-> "run", direction |-> d, todo |-> {f}]
  <2>1. Set(p, new) /\ f \in disk /\ specific' = TRUE
        /\ UNCHANGED <<disk, text, schema, records, crossed, mixed, late>>
    BY <1>2 DEF ReadSpecific
  <2>2. new \in Working /\ new.at = "run" /\ new.todo = {f}
    BY DEF Working
  <2> HIDE DEF new
  <2>3. process'[p] = new
    BY <2>1 DEF Set, MigrInv, MigrShape
  <2>4. Listed(p)'
    BY <2>1, <2>2, <2>3 DEF Listed, AtWork
  <2>5. runs' \in Nat
    BY <1>2 DEF ReadSpecific, MigrInv, MigrShape
  <2>6. QED
    BY <2>1, <2>2, <2>4, <2>5, ProcessStep
<1>3. ASSUME NEW p \in Processes, NEW f \in Files, RunMigration(p, f)
      PROVE  MigrInv'
  BY <1>3, RunKept
<1>4. ASSUME NEW p \in Processes, NEW f \in Files, RecordAgain(p, f)
      PROVE  MigrInv'
  BY <1>4, AgainKept
<1>5. ASSUME NEW p \in Processes, ValidateAndSelect(p)
      PROVE  MigrInv'
  BY <1>5, SelectKept
<1>6. ASSUME NEW p \in Processes, Stops(p)
      PROVE  MigrInv'
  <2> DEFINE new == [at |-> "new"]
  <2>1. Set(p, new) /\ UNCHANGED <<disk, text, schema, records, crossed, mixed, specific, late, runs>>
    BY <1>6 DEF Stops
  <2>2. new \in Idle /\ new.at = "new"
    BY DEF Idle
  <2> HIDE DEF new
  <2>3. process'[p] = new
    BY <2>1 DEF Set, MigrInv, MigrShape
  <2>4. Listed(p)' /\ PlanInv(p)'
    BY <2>2, <2>3 DEF Listed, PlanInv, AtWork
  <2>5. QED
    BY <2>1, <2>2, <2>4, ProcessStep DEF MigrInv, MigrShape
<1>7. ASSUME NEW f \in Files, AddFile(f)
      PROVE  MigrInv'
  <2>1. /\ disk' = disk \union {f} /\ late' = late \union {f} /\ f \notin disk
        /\ UNCHANGED <<text, schema, records, process, runs, crossed, mixed, specific>>
    BY <1>7 DEF AddFile
  <2>2. disk' \ late' = disk \ late
    BY <2>1 DEF MigrInv, MigrShape, MigrationsTypeOK
  <2>3. Applied' = Applied
    BY <2>1 DEF Applied
  <2>4. \A p \in Processes : Listed(p)'
    BY <2>1, <2>2 DEF MigrInv, MigrShape, Listed, AtWork
  <2>5. MigrShape'
    BY <2>1, <2>3, <2>4 DEF MigrInv, MigrShape, MigrationsTypeOK
  <2>6. QED
    BY <2>1, <2>2, <2>5, FilesStep
<1>8. ASSUME NEW f \in Files, EditFile(f)
      PROVE  MigrInv'
  <2>1. /\ text' = [text EXCEPT ![f] = @ + 1] /\ text[f] < MaxEdits
        /\ UNCHANGED <<disk, schema, records, process, runs, crossed, mixed, specific, late>>
    BY <1>8 DEF EditFile
  <2>2. Applied' = Applied
    BY <2>1 DEF Applied
  <2>3. /\ text' \in [Files -> 0..MaxEdits]
        /\ \A g \in Files : records'[g] \in 0..(text'[g] + 1)
    BY <2>1, MigrationsConstants DEF MigrInv, MigrShape, MigrationsTypeOK
  <2>4. \A p \in Processes : Listed(p)'
    BY <2>1 DEF MigrInv, MigrShape, Listed, AtWork
  <2>5. MigrShape'
    BY <2>1, <2>2, <2>3, <2>4 DEF MigrInv, MigrShape, MigrationsTypeOK
  <2>6. QED
    BY <2>1, <2>5, FilesStep
<1>9. CASE UNCHANGED migrationVars
  <2>1. UNCHANGED <<disk, text, schema, records, process, runs, crossed, mixed, specific, late>>
    BY <1>9 DEF migrationVars
  <2>2. Applied' = Applied
    BY <2>1 DEF Applied
  <2>3. \A p \in Processes : Listed(p)'
    BY <2>1 DEF MigrInv, MigrShape, Listed, AtWork
  <2>4. MigrShape'
    BY <2>1, <2>2, <2>3 DEF MigrInv, MigrShape, MigrationsTypeOK
  <2>5. QED
    BY <2>1, <2>4, FilesStep
<1>10. QED
  BY <1>1, <1>2, <1>3, <1>4, <1>5, <1>6, <1>7, <1>8, <1>9 DEF MigrationsNext

-----------------------------------------------------------------------------
(* The services together. *)

ServicesInv == PoolInv /\ MigrInv /\ HookInv /\ ConnInv /\ PushInv

(***************************************************************************)
(* The services share no variable: a step of one of them keeps its own     *)
(* part, and is no step for the others.                                    *)
(***************************************************************************)
THEOREM Invariance == ServicesSpec => []ServicesInv
<1>1. ServicesInit => ServicesInv
  BY PoolsStart, MigrationsStart, HookStart, ConnStart, PushStart DEF ServicesInit, ServicesInv
<1>2. ServicesInv /\ [ServicesNext]_serviceVars => ServicesInv'
  <2> SUFFICES ASSUME ServicesInv, [ServicesNext]_serviceVars
               PROVE  ServicesInv'
    OBVIOUS
  <2>1. /\ [PoolsNext]_poolVars
        /\ [MigrationsNext]_migrationVars
        /\ [WebhooksNext]_hookVars
        /\ [ConnectionsNext]_connVars
        /\ [PushNext]_pushVars
    BY DEF ServicesNext, PoolsStep, MigrationsStep, WebhooksStep, ConnectionsStep, PushStep, serviceVars
  <2>2. ConnInv'
    BY <2>1, ConnShapeStep, HeardStep, CallsStep DEF ServicesInv, ConnInv
  <2>3. QED
    BY <2>1, <2>2, PoolKept, MigrKept, HookKept, PushKept DEF ServicesInv
<1>3. QED
  BY <1>1, <1>2, PTL DEF ServicesSpec

(***************************************************************************)
(* The state of every service has its shape: a statement that runs has a   *)
(* pool and an attempt, what is applied and logged exists.                 *)
(***************************************************************************)
THEOREM TypeCorrect == ServicesSpec => []ServicesTypeOK
<1>1. PoolInv => PoolsTypeOK
  <2> SUFFICES ASSUME PoolInv
               PROVE  PoolsTypeOK
    OBVIOUS
  <2>1. ASSUME NEW s \in Statements, statement[s].at = "run"
        PROVE  statement[s].attempt \in 1..MaxAttempts
    BY <2>1 DEF PoolInv, PoolShape, Fresh, Running, Over
  <2>2. QED
    BY <2>1 DEF PoolInv, PoolShape, StatementInv, PoolsTypeOK
<1>2. MigrInv => MigrationsTypeOK
  BY DEF MigrInv, MigrShape
<1>3. HookInv => WebhooksTypeOK
  <2> SUFFICES ASSUME HookInv
               PROVE  WebhooksTypeOK
    OBVIOUS
  <2>1. ASSUME NEW e \in Rows
        PROVE  endpoints[e] \in EndpointRows
    BY DEF HookInv, HookShape, Rows
  <2>2. \A e \in Rows : /\ endpoints[e].url \in Urls
                        /\ endpoints[e].events \in EventChoices
                        /\ endpoints[e].active \in BOOLEAN
                        /\ endpoints[e].headers \in HeaderColumns
    BY <2>1 DEF EndpointRows
  <2>3. \A j \in Jobs : /\ jobs[j].phase \in {"none", "queued", "delivering", "done"}
                        /\ jobs[j].at \in Deliveries
    BY DEF HookInv, HookShape, HookJobs
  <2>4. QED
    BY <2>2, <2>3 DEF HookInv, HookShape, WebhooksTypeOK, EventChoices, HeaderColumns, Deliveries
<1>4. ConnInv => ConnectionsTypeOK
  BY DEF ConnInv, ConnShape
<1>5. PushInv => PushTypeOK
  BY DEF PushInv, PushShape
<1>6. QED
  BY <1>1, <1>2, <1>3, <1>4, <1>5, Invariance, PTL DEF ServicesInv, ServicesTypeOK

(***************************************************************************)
(* _db_retry: a write that the caller is told of was applied, and it was   *)
(* applied more than once only if an answer was lost.                      *)
(***************************************************************************)
THEOREM ToldWritesApplied == ServicesSpec => []WritesTold
<1>1. PoolInv => WritesTold
  BY DEF PoolInv, StatementInv, WritesTold
<1>2. QED
  BY <1>1, Invariance, PTL DEF ServicesInv

(***************************************************************************)
(* _choose_region and _select_read_pool: whatever the client's region, the *)
(* priority list, the number of regions and the latencies are, a region    *)
(* without a healthy pool serves no read while another one has a healthy   *)
(* pool.                                                                   *)
(***************************************************************************)
THEOREM SickRegionsAvoided == ServicesSpec => []SickRegionAvoided
<1>1. PoolInv => SickRegionAvoided
  BY SickAvoided DEF PoolInv
<1>2. QED
  BY <1>1, Invariance, PTL DEF ServicesInv

(***************************************************************************)
(* migrate.py: after every crash and every overlap of any number of        *)
(* processes, schema_migrations tells what was applied, and in order.      *)
(***************************************************************************)
THEOREM RecordsTrue == ServicesSpec => []SchemaAsRecorded
<1>1. MigrInv => SchemaAsRecorded
  <2> SUFFICES ASSUME MigrInv
               PROVE  SchemaAsRecorded
    OBVIOUS
  <2>1. \A f \in Files \ crossed : (f \in Applied) = (f \in schema)
    BY DEF MigrInv, TruthInv
  <2>2. Applied = disk => disk \ crossed \subseteq schema
    BY <2>1 DEF Applied
  <2>3. ~specific /\ ~mixed => AppliedInOrder
    BY DEF MigrInv, OrderInv
  <2>4. QED
    BY <2>1, <2>2, <2>3 DEF SchemaAsRecorded, AllApplied, AppliedInOrder
<1>2. QED
  BY <1>1, Invariance, PTL DEF ServicesInv

(***************************************************************************)
(* send_webhook_event and the inbound route: what was delivered or         *)
(* answered was logged, unless the endpoint was deleted or the database    *)
(* failed.                                                                 *)
(***************************************************************************)
THEOREM DeliveriesLogged == ServicesSpec => []DeliveryLogged
<1>1. HookInv => DeliveryLogged
  BY DEF HookInv, DeliveryInv, DeliveryLogged
<1>2. QED
  BY <1>1, Invariance, PTL DEF ServicesInv

(***************************************************************************)
(* connect, disconnect and _redis_listener: a user whose calls have never  *)
(* overlapped has his channel exactly while he is connected, and a running *)
(* listener reads it, unless an error of the connection to Redis ended the *)
(* listener while he was connected and no connect has started another.     *)
(***************************************************************************)
THEOREM Subscribed == ServicesSpec => []ConnectedHears
<1>1. ConnInv => ConnectedHears
  <2> SUFFICES ASSUME ConnInv, NEW u \in SocketUsers, u \notin disturbed, ~Busy(u)
               PROVE  /\ active[u] # {} <=> u \in pubsub
                      /\ active[u] # {} => listener = "running" \/ u \in deaf
    BY DEF ConnectedHears
  <2>1. active[u] # {} <=> u \in pubsub
    BY DEF ConnInv, Calls
  <2>2. ASSUME NEW w \in active[u]
        PROVE  listener = "running" \/ u \in deaf
    <3>1. w \in Sockets /\ UserOf[w] = u
      BY DEF ConnInv, ConnShape, ConnectionsTypeOK
    <3>2. connects[w] = "open"
      BY <3>1 DEF Busy, ConnInv, ConnShape, ConnectionsTypeOK
    <3>3. QED
      BY <3>1, <3>2 DEF ConnInv, Heard
  <2>3. QED
    BY <2>1, <2>2
<1>2. QED
  BY <1>1, Invariance, PTL DEF ServicesInv

(***************************************************************************)
(* send_fcm_push and deactivate_tokens: a device is taken off the list by  *)
(* its owner or after Firebase has rejected its token.                     *)
(***************************************************************************)
THEOREM PrunedOnlyRejected == ServicesSpec => []OnlyRejectedPruned
<1>1. PushInv => OnlyRejectedPruned
  BY DEF PushInv
<1>2. QED
  BY <1>1, Invariance, PTL DEF ServicesInv

=============================================================================
