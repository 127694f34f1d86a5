---------------------------- MODULE Connections ----------------------------
(***************************************************************************)
(* ConnectionManager: the WebSockets of one worker, by user, and the Redis *)
(* Pub/Sub subscriptions that feed them.  connect and disconnect are       *)
(* coroutines on one event loop; they interleave where they await.  A      *)
(* subscribe or unsubscribe takes effect when the call that awaits it      *)
(* resumes: calls that wait together (the connection to Redis is opened by *)
(* the first one) take effect in either order.  The PubSub object keeps    *)
(* its channels when its connection breaks and subscribes them again on    *)
(* the next one, but only the listener reads from it.                      *)
(***************************************************************************)
EXTENDS Naturals, FiniteSets

CONSTANTS
    Sockets,     \* WebSockets
    UserOf,      \* UserOf[w]: the user who opens it
    MaxFailures  \* how often a command to Redis, or the listener, may fail

SocketUsers == {UserOf[w] : w \in Sockets}

\* The broadcast channel is not the channel of a user.
ASSUME ConnectionsAssumption ==
    /\ IsFiniteSet(Sockets)
    /\ "broadcast" \notin SocketUsers
    /\ MaxFailures \in Nat

VARIABLES
    active,     \* active_connections: active[u], the open sockets; {} for no entry
    connects,   \* connects[w]: where the connect of a socket is
    leaving,    \* sockets whose disconnect waits for the unsubscription
    pubsub,     \* channels of the PubSub object: users, and "broadcast"
    listener,   \* listener_task: "none", "running" or "done"
    sending,    \* what the listener still sends: sockets of the snapshot
    cleaning,   \* the socket whose disconnect the listener waits for, if any
    failures,   \* errors of Redis so far
    deaf,       \* history: users connected when an error ended the listener,
                \* until a connect starts another one
    disturbed   \* history: users of whom two calls overlapped, or whose
                \* unsubscription failed

connVars == <<active, connects, leaving, pubsub, listener, sending, cleaning,
              failures, deaf, disturbed>>

ConnectionsTypeOK ==
    /\ active \in [SocketUsers -> SUBSET Sockets]
    /\ \A u \in SocketUsers : \A w \in active[u] : UserOf[w] = u
    /\ connects \in [Sockets -> {"new", "ensuring", "subscribing", "open", "failed", "closed"}]
    /\ leaving \subseteq Sockets
    /\ pubsub \subseteq SocketUsers \union {"broadcast"}
    /\ listener \in {"none", "running", "done"}
    /\ sending \subseteq Sockets
    /\ cleaning \subseteq leaving /\ Cardinality(cleaning) <= 1
    /\ failures \in 0..MaxFailures
    /\ deaf \subseteq SocketUsers
    /\ disturbed \subseteq SocketUsers

ConnectionsInit ==
    /\ active = [u \in SocketUsers |-> {}]
    /\ connects = [w \in Sockets |-> "new"]
    /\ leaving = {}
    /\ pubsub = {}
    /\ listener = "none"
    /\ sending = {}
    /\ cleaning = {}
    /\ failures = 0
    /\ deaf = {}
    /\ disturbed = {}

\* A user with a call that waits, or a failed connect still to be cleaned up.
Busy(u) ==
    \E w \in Sockets : /\ UserOf[w] = u
                       /\ connects[w] \in {"ensuring", "subscribing", "failed"} \/ w \in leaving

NoteOverlap(w) ==
    disturbed' = IF \E v \in Sockets \ {w} :
                        /\ UserOf[v] = UserOf[w]
                        /\ connects[v] \in {"ensuring", "subscribing", "failed"} \/ v \in leaving
                 THEN disturbed \union {UserOf[w]} ELSE disturbed

\* A command to Redis fails.
CountFailure ==
    /\ failures < MaxFailures
    /\ failures' = failures + 1

-----------------------------------------------------------------------------

\* The end of connect: the entry may be gone by now (KeyError), and only the
\* first connection of a user subscribes.
AfterListener(sockets) ==
    IF sockets = {} THEN "failed"
    ELSE IF Cardinality(sockets) = 1 THEN "subscribing" ELSE "open"

\* connect up to its first await: without a running listener that is the
\* subscription in _ensure_listener.
Connect(w) ==
    LET u == UserOf[w]
        sockets == active[u] \union {w}
    IN  /\ connects[w] = "new"
        /\ active' = [active EXCEPT ![u] = sockets]
        /\ connects' = [connects EXCEPT ![w] = IF listener = "running"
                                               THEN AfterListener(sockets) ELSE "ensuring"]
        /\ NoteOverlap(w)
        /\ UNCHANGED <<leaving, pubsub, listener, sending, cleaning, failures, deaf>>

\* _ensure_listener after its subscription; two connects may both come here,
\* and listener_task is the task of the last one.
EnsureListener(w) ==
    /\ connects[w] = "ensuring"
    /\ pubsub' = pubsub \union {"broadcast"}
    /\ listener' = "running"
    /\ deaf' = {}
    /\ connects' = [connects EXCEPT ![w] = AfterListener(active[UserOf[w]])]
    /\ UNCHANGED <<active, leaving, sending, cleaning, failures, disturbed>>

SubscribeUser(w) ==
    /\ connects[w] = "subscribing"
    /\ pubsub' = pubsub \union {UserOf[w]}
    /\ connects' = [connects EXCEPT ![w] = "open"]
    /\ UNCHANGED <<active, leaving, listener, sending, cleaning, failures, deaf, disturbed>>

\* A failed subscription ends connect; the socket stays in the list.
SubscribeFails(w) ==
    /\ connects[w] \in {"ensuring", "subscribing"}
    /\ CountFailure
    /\ connects' = [connects EXCEPT ![w] = "failed"]
    /\ UNCHANGED <<active, leaving, pubsub, listener, sending, cleaning, deaf, disturbed>>

\* Mutant: every disconnect unsubscribes its user.
RemoveAndLeave(w) ==
    /\ active' = [active EXCEPT ![UserOf[w]] = @ \ {w}]
    /\ leaving' = leaving \union {w}

\* disconnect up to its await: the last connection of a user unsubscribes.
\* A socket that is not in the list changes nothing.
RemoveSocket(w) ==
    /\ active' = [active EXCEPT ![UserOf[w]] = @ \ {w}]
    /\ leaving' = IF active[UserOf[w]] = {w} THEN leaving \union {w} ELSE leaving

\* The endpoint of the socket calls disconnect when the socket closes or
\* connect has failed.
Disconnect(w) ==
    /\ connects[w] \in {"open", "failed"}
    /\ connects' = [connects EXCEPT ![w] = "closed"]
    /\ RemoveSocket(w)
    /\ NoteOverlap(w)
    /\ UNCHANGED <<pubsub, listener, sending, cleaning, failures, deaf>>

UnsubscribeUser(w) ==
    /\ w \in leaving
    /\ leaving' = leaving \ {w}
    /\ cleaning' = cleaning \ {w}
    /\ \/ pubsub' = pubsub \ {UserOf[w]} /\ UNCHANGED <<failures, disturbed>>
       \/ /\ w \notin cleaning
          /\ CountFailure
          /\ disturbed' = disturbed \union {UserOf[w]}
          /\ UNCHANGED pubsub
    /\ UNCHANGED <<active, connects, listener, sending, deaf>>

-----------------------------------------------------------------------------
(* The listener. *)

\* A message of a user's channel (_local_send) or of the broadcast channel
\* (_local_broadcast): the sockets are copied first.
RedisListener(channel) ==
    /\ listener = "running"
    /\ sending = {} /\ cleaning = {}
    /\ channel \in pubsub
    /\ sending' = {w \in Sockets : w \in active[UserOf[w]] /\ channel \in {"broadcast", UserOf[w]}}
    /\ UNCHANGED <<active, connects, leaving, pubsub, listener, cleaning, failures, deaf, disturbed>>

\* One send; a socket that fails is removed with disconnect, while its
\* connect may still wait and before its endpoint disconnects it.
LocalSend(w) ==
    /\ listener = "running"
    /\ w \in sending /\ cleaning = {}
    /\ sending' = sending \ {w}
    /\ \/ UNCHANGED <<active, leaving, cleaning, disturbed>>
       \/ /\ RemoveSocket(w)
          /\ cleaning' = leaving' \ leaving
          /\ disturbed' = IF Busy(UserOf[w]) THEN disturbed \union {UserOf[w]} ELSE disturbed
    /\ UNCHANGED <<connects, pubsub, listener, failures, deaf>>

\* An error of the connection to Redis ends the listener.  The channels stay
\* with the PubSub object, but nobody reads from it until the next connect
\* starts another listener.
ListenerFails ==
    /\ listener = "running"
    /\ CountFailure
    /\ listener' = "done"
    /\ deaf' = {u \in SocketUsers : active[u] # {}}
    /\ sending' = {}
    /\ disturbed' = disturbed \union {UserOf[w] : w \in cleaning}
    /\ leaving' = leaving \ cleaning
    /\ cleaning' = {}
    /\ UNCHANGED <<active, connects, pubsub>>

\* stop, at shutdown: the server has closed the sockets and their endpoints
\* are over; the broadcast channel is left, the PubSub object closed and the
\* listener cancelled.
Stop ==
    /\ listener # "none"
    /\ \A w \in Sockets : connects[w] \in {"new", "closed"}
    /\ leaving = {}
    /\ connects' = [w \in Sockets |-> "closed"]
    /\ pubsub' = {}
    /\ listener' = "done"
    /\ sending' = {}
    /\ UNCHANGED <<active, leaving, cleaning, failures, deaf, disturbed>>

-----------------------------------------------------------------------------

ConnectionsNext ==
    \/ \E w \in Sockets : \/ Connect(w) \/ EnsureListener(w)
                          \/ SubscribeUser(w) \/ SubscribeFails(w)
                          \/ Disconnect(w) \/ UnsubscribeUser(w) \/ LocalSend(w)
    \/ \E channel \in SocketUsers \union {"broadcast"} : RedisListener(channel)
    \/ ListenerFails
    \/ Stop

-----------------------------------------------------------------------------

(***************************************************************************)
(* connect, disconnect and _redis_listener: a user none of whose calls is  *)
(* waiting, and whose calls have never overlapped, has his channel while   *)
(* he has an open connection on this worker and only then, and a running   *)
(* listener reads it, however the calls of the other users, the clean-up   *)
(* by the listener and its restarts interleave.  An error that ends the    *)
(* listener leaves the users connected at that time without their          *)
(* messages; whoever connects later hears, and ends that for all.  (Two    *)
(* overlapping calls of one user may leave him connected and unsubscribed.) *)
(***************************************************************************)
ConnectedHears ==
    \A u \in SocketUsers \ disturbed : ~Busy(u) =>
        /\ active[u] # {} <=> u \in pubsub
        /\ active[u] # {} => listener = "running" \/ u \in deaf

=============================================================================
