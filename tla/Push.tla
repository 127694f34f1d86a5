-------------------------------- MODULE Push --------------------------------
(***************************************************************************)
(* Notifications: the channels that NotificationService sends through, and *)
(* the push devices.  A notification for a user, or for all, is handed to  *)
(* the SSE, e-mail and FCM channels in turn; a channel that fails is       *)
(* logged and the next one tried.  The SSE channel publishes to the open   *)
(* streams, the e-mail and FCM channels queue Celery jobs; the FCM job     *)
(* sends to the tokens it was given and then deactivates those that        *)
(* Firebase rejected, and starts over when that fails.                     *)
(***************************************************************************)
EXTENDS Naturals, Sequences, FiniteSets

CONSTANTS
    PushUsers,     \* user ids
    Tokens,        \* FCM tokens of devices
    Notices,       \* notifications
    Streams,       \* SSE requests; StreamUser[s] is who opened it
    StreamUser,
    MulticastMax   \* tokens that one multicast may have (500)

ASSUME PushAssumption ==
    /\ MulticastMax \in Nat \ {0}
    /\ StreamUser \in [Streams -> PushUsers]

VARIABLES
    members,       \* the users who exist
    devices,       \* user_devices: owner and is_active of a token, or NoDevice
    notices,       \* notices[n]: addressee and the channels still to try
    fcmJobs,       \* queued FCM jobs: notice and tokens
    emailJobs,     \* notices whose e-mail is queued
    pushed,        \* pushes that Firebase accepted: notice and token
    prunes,        \* jobs whose UPDATE of the rejected tokens has still to run
    streams,       \* open SSE streams
    streamed,      \* messages in the Pub/Sub buffer of a stream, or yielded
    unregistered,  \* history: tokens whose owner unregistered them
    rejected       \* history: tokens that Firebase has rejected

pushVars == <<members, devices, notices, fcmJobs, emailJobs, pushed, prunes, streams, streamed,
              unregistered, rejected>>

Everyone == "everyone"

NoDevice == [active |-> FALSE]

Registered == {t \in Tokens : devices[t] # NoDevice}

\* NotificationService.__init__ registers the channels in this order.
RegisteredChannels == <<"sse", "email", "fcm">>

FcmJobs == [notice : Notices, tokens : (SUBSET Tokens) \ {{}}]

PushTypeOK ==
    /\ members \subseteq PushUsers
    /\ \A t \in Registered : devices[t] \in [owner : PushUsers, active : BOOLEAN]
    /\ \A n \in Notices : /\ notices[n].to \in PushUsers \union {Everyone, "none"}
                          /\ notices[n].left \in Seq({"sse", "email", "fcm"})
    /\ fcmJobs \subseteq FcmJobs
    /\ emailJobs \subseteq Notices
    /\ pushed \subseteq Notices \X Tokens
    /\ prunes \subseteq [job : FcmJobs, dead : SUBSET rejected]
    /\ streams \subseteq Streams
    /\ streamed \in [Streams -> SUBSET Notices]
    /\ unregistered \subseteq Registered
    /\ rejected \subseteq Tokens

PushInit ==
    /\ members = PushUsers
    /\ devices = [t \in Tokens |-> NoDevice]
    /\ notices = [n \in Notices |-> [to |-> "none", left |-> << >>]]
    /\ fcmJobs = {}
    /\ emailJobs = {}
    /\ pushed = {}
    /\ prunes = {}
    /\ streams = {}
    /\ streamed = [s \in Streams |-> {}]
    /\ unregistered = {}
    /\ rejected = {}

-----------------------------------------------------------------------------
(* Devices. *)

\* DeviceDAO.register_device: a token that is known goes to the new owner
\* and is active again.  The row refers to a user who exists.
RegisterDevice(u, t) ==
    /\ u \in members
    /\ devices' = [devices EXCEPT ![t] = [owner |-> u, active |-> TRUE]]
    /\ unregistered' = unregistered \ {t}
    /\ UNCHANGED <<members, notices, fcmJobs, emailJobs, pushed, prunes, streams, streamed, rejected>>

\* Mutant: the UPDATE of an unregistration does not look at the user.
DeactivateOfAnyone(u, t) ==
    devices' = IF t \in Registered THEN [devices EXCEPT ![t].active = FALSE] ELSE devices

\* DeviceDAO.unregister_device: WHERE user_id = $1 AND fcm_token = $2.
DeactivateOwn(u, t) ==
    devices' = IF t \in Registered /\ devices[t].owner = u
               THEN [devices EXCEPT ![t].active = FALSE] ELSE devices

UnregisterDevice(u, t) ==
    /\ DeactivateOwn(u, t)
    /\ unregistered' = IF t \in Registered /\ devices[t].owner = u
                       THEN unregistered \union {t} ELSE unregistered
    /\ UNCHANGED <<members, notices, fcmJobs, emailJobs, pushed, prunes, streams, streamed, rejected>>

\* delete_users: ON DELETE CASCADE takes the devices of the user along.
DeleteUser(u) ==
    LET gone == {t \in Registered : devices[t].owner = u}
    IN  /\ u \in members
        /\ members' = members \ {u}
        /\ devices' = [t \in Tokens |-> IF t \in gone THEN NoDevice ELSE devices[t]]
        /\ unregistered' = unregistered \ gone
        /\ UNCHANGED <<notices, fcmJobs, emailJobs, pushed, prunes, streams, streamed, rejected>>

\* DeviceDAO.get_active_devices_by_user, also what list_devices answers.
GetActiveDevicesByUser(u) ==
    {t \in Registered : devices[t].owner = u /\ devices[t].active}

\* DeviceDAO.get_all_active_tokens
GetAllActiveTokens == {t \in Registered : devices[t].active}

-----------------------------------------------------------------------------
(* Notifications. *)

\* notify and broadcast_all: the channels asked for, of those registered;
\* the events of the bus and the Celery tasks both come here.
Dispatch(n, to, channels) ==
    /\ notices[n].to = "none"
    /\ notices' = [notices EXCEPT ![n] = [to |-> to, left |-> channels]]
    /\ UNCHANGED <<members, devices, fcmJobs, emailJobs, pushed, prunes, streams, streamed,
                   unregistered, rejected>>

\* on_user_created asks for e-mail only, the other listeners for all channels.
EventChannels == {<<"email">>, <<"email", "sse", "fcm">>}

\* dispatch_user_notification
DispatchUserNotification(n) ==
    \E u \in PushUsers, channels \in EventChannels : Dispatch(n, u, channels)

\* send_notification_task, with its default of all channels
SendNotificationTask(n) == \E u \in PushUsers : Dispatch(n, u, RegisteredChannels)

\* broadcast_notification_task
BroadcastAll(n) == Dispatch(n, Everyone, RegisteredChannels)

\* SSEChannel: publish reaches the streams that are subscribed now.
SSESend(n) ==
    LET to == notices[n].to
    IN  /\ streamed' = [s \in Streams |->
                            IF s \in streams /\ to \in {Everyone, StreamUser[s]}
                            THEN streamed[s] \union {n} ELSE streamed[s]]
        /\ UNCHANGED <<fcmJobs, emailJobs>>

\* EmailChannel: an e-mail to a user is queued; there is no broadcast.
EmailSend(n) ==
    /\ emailJobs' = IF notices[n].to = Everyone THEN emailJobs ELSE emailJobs \union {n}
    /\ UNCHANGED <<fcmJobs, streamed>>

\* FCMChannel: the tokens that are active now.
FCMSend(n) ==
    LET tokens == IF notices[n].to = Everyone THEN GetAllActiveTokens
                  ELSE GetActiveDevicesByUser(notices[n].to)
    IN  /\ fcmJobs' = IF tokens = {} THEN fcmJobs
                      ELSE fcmJobs \union {[notice |-> n, tokens |-> tokens]}
        /\ UNCHANGED <<emailJobs, streamed>>

\* One turn of the loop over the channels; an exception of the channel is
\* logged, and a notification without an address gets no e-mail.
TryChannel(n) ==
    /\ notices[n].left # << >>
    /\ notices' = [notices EXCEPT ![n].left = Tail(@)]
    /\ \/ Head(notices[n].left) = "sse" /\ SSESend(n)
       \/ Head(notices[n].left) = "email" /\ EmailSend(n)
       \/ Head(notices[n].left) = "fcm" /\ FCMSend(n)
       \/ UNCHANGED <<fcmJobs, emailJobs, streamed>>
    /\ UNCHANGED <<members, devices, pushed, prunes, streams, unregistered, rejected>>

-----------------------------------------------------------------------------
(* The FCM job. *)

\* send_fcm_push_worker_task: Firebase accepts some tokens, fails on others
\* with a code that the job takes for a dead token (INVALID_ARGUMENT too,
\* which a bad payload gets as well), and fails on the rest.
SendFcmPush(job) ==
    /\ Cardinality(job.tokens) <= MulticastMax
    /\ fcmJobs' = fcmJobs \ {job}
    /\ \E accepted \in SUBSET job.tokens : \E dead \in SUBSET (job.tokens \ accepted) :
          /\ pushed' = pushed \union {<<job.notice, t>> : t \in accepted}
          /\ rejected' = rejected \union dead
          /\ prunes' = IF dead = {} THEN prunes ELSE prunes \union {[job |-> job, dead |-> dead]}
    /\ UNCHANGED <<members, devices, notices, emailJobs, streams, streamed, unregistered>>

\* An exception, as for a multicast to more than it allows, has the job tried
\* again (no step) until its retries are over.
FcmJobFails(job) ==
    /\ fcmJobs' = fcmJobs \ {job}
    /\ UNCHANGED <<members, devices, notices, emailJobs, pushed, prunes, streams, streamed,
                   unregistered, rejected>>

\* _deactivate_tokens and DeviceDAO.deactivate_tokens, after the answer: the
\* token may have been registered again, or deleted, meanwhile.
DeactivateTokens(p) ==
    /\ prunes' = prunes \ {p}
    /\ devices' = [t \in Tokens |-> IF t \in p.dead \intersect Registered
                                    THEN [devices[t] EXCEPT !.active = FALSE] ELSE devices[t]]
    /\ UNCHANGED <<members, notices, fcmJobs, emailJobs, pushed, streams, streamed,
                   unregistered, rejected>>

\* The UPDATE fails: Celery retries the job as a whole, to all its tokens,
\* or gives it up.
DeactivationFails(p) ==
    /\ prunes' = prunes \ {p}
    /\ fcmJobs' = fcmJobs \union {p.job} \/ UNCHANGED fcmJobs
    /\ UNCHANGED <<members, devices, notices, emailJobs, pushed, streams, streamed,
                   unregistered, rejected>>

\* send_email_worker_task
SendEmail(n) ==
    /\ n \in emailJobs
    /\ emailJobs' = emailJobs \ {n}
    /\ UNCHANGED <<members, devices, notices, fcmJobs, pushed, prunes, streams, streamed,
                   unregistered, rejected>>

-----------------------------------------------------------------------------
(* Streams. *)

\* sse_notifications and the start of stream_sse: both channels are subscribed.
OpenStream(s) ==
    /\ s \notin streams /\ streamed[s] = {}
    /\ streams' = streams \union {s}
    /\ UNCHANGED <<members, devices, notices, fcmJobs, emailJobs, pushed, prunes, streamed,
                   unregistered, rejected>>

\* The client is gone, or the request cancelled: the finally clause.
CloseStream(s) ==
    /\ s \in streams
    /\ streams' = streams \ {s}
    /\ UNCHANGED <<members, devices, notices, fcmJobs, emailJobs, pushed, prunes, streamed,
                   unregistered, rejected>>

-----------------------------------------------------------------------------

PushNext ==
    \/ \E u \in PushUsers, t \in Tokens : RegisterDevice(u, t) \/ UnregisterDevice(u, t)
    \/ \E n \in Notices : \/ DispatchUserNotification(n) \/ SendNotificationTask(n)
                          \/ BroadcastAll(n)
                          \/ TryChannel(n) \/ SendEmail(n)
    \/ \E u \in PushUsers : DeleteUser(u)
    \/ \E job \in fcmJobs : SendFcmPush(job) \/ FcmJobFails(job)
    \/ \E p \in prunes : DeactivateTokens(p) \/ DeactivationFails(p)
    \/ \E s \in Streams : OpenStream(s) \/ CloseStream(s)

-----------------------------------------------------------------------------

(***************************************************************************)
(* The devices: a token that is registered is inactive only when its       *)
(* present owner has unregistered it since it was last registered, or when *)
(* Firebase has rejected it, with a code the job takes for a dead token;   *)
(* neither another failure of a push to it, nor a retry, nor the           *)
(* unregistration by an owner who lost it to another user, takes a working *)
(* device off the list.                                                    *)
(***************************************************************************)
OnlyRejectedPruned ==
    \A t \in Registered : ~devices[t].active => t \in unregistered \/ t \in rejected

=============================================================================
