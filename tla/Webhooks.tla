------------------------------ MODULE Webhooks ------------------------------
(***************************************************************************)
(* Webhooks: the endpoints an administrator registers, the Celery task     *)
(* that posts an event to every active subscribed endpoint and logs each   *)
(* attempt, and the route that receives the webhooks of other services.    *)
(*                                                                         *)
(* WebhookDAO serializes the headers of an endpoint and the pool's codec   *)
(* serializes them again (module JsonColumns).  WebhookEndpointData has no *)
(* parser and DataBase.fetch builds it without validation, so the headers  *)
(* that the task sees are a str, unless the row was inserted by SQL and    *)
(* holds the column's default.                                             *)
(***************************************************************************)
EXTENDS JsonColumns, FiniteSets

CONSTANTS
    Endpoints,      \* ids of rows of webhook_endpoints
    Seeded,         \* those that a SQL script inserted, with default headers
    WebhookEvents,  \* event names an endpoint can subscribe to
    Urls,           \* kinds of url: "public", "private", "malformed"
    Production,     \* whether ENV is staging or production
    Jobs,           \* runs of common.send_webhook_event
    Admins,         \* requests that change an endpoint
    Inbounds        \* requests to /inbound/{source}

ASSUME WebhooksAssumption ==
    /\ Seeded \subseteq Endpoints
    /\ Urls \subseteq {"public", "private", "malformed"}
    /\ Seeded # {} => "public" \in Urls /\ WebhookEvents # {}
    /\ Production \in BOOLEAN

VARIABLES
    endpoints,  \* endpoints[e]: the row, or NoRow
    gone,       \* ids of deleted rows: ids are not used twice
    jobs,       \* jobs[j]: event, phase, and the state of each delivery
    hookLogs,   \* webhook_logs, outbound: job, endpoint and status
    refused,    \* history: deliveries whose log INSERT the database failed
    admins,     \* admins[a]: the change a request is about to make
    inbounds,   \* inbounds[i]: phase of an inbound request
    inLogs      \* webhook_logs, inbound: the requests they are for

hookVars == <<endpoints, gone, jobs, hookLogs, refused, admins, inbounds, inLogs>>

NoRow == [events |-> {}]

NoChange == [id |-> "none"]

Removal == [field |-> "row", to |-> FALSE]

Rows == {e \in Endpoints : endpoints[e] # NoRow}

NoHeaders == Object(<<>>)

HeaderDocs == {NoHeaders, Object(<<"X-Env">>)}

EndpointRow(url, events, headers) ==
    [url |-> url, events |-> events, active |-> TRUE, headers |-> headers]

Phases == {"posting", "raised", "SUCCESS", "FAILED", "ended"}

WebhooksTypeOK ==
    /\ \A e \in Rows : /\ endpoints[e].url \in Urls
                       /\ endpoints[e].events \in (SUBSET WebhookEvents) \ {{}}
                       /\ endpoints[e].active \in BOOLEAN
                       /\ endpoints[e].headers \in
                            {Stored(h) : h \in HeaderDocs} \union {Written(h) : h \in HeaderDocs}
    /\ gone \subseteq Endpoints \ Rows
    /\ \A j \in Jobs : /\ jobs[j].phase \in {"none", "queued", "delivering", "done"}
                       /\ jobs[j].at \in [Endpoints -> Phases \union {"idle"}]
    /\ hookLogs \subseteq [job : Jobs, endpoint : Endpoints, status : {"SUCCESS", "FAILED"}]
    /\ refused \subseteq Jobs \X Endpoints
    /\ inbounds \in [Inbounds -> {"none", "logging", "200", "500"}]
    /\ inLogs \subseteq Inbounds

WebhooksInit ==
    /\ endpoints \in [Endpoints -> {NoRow} \union
                        {EndpointRow("public", WebhookEvents, Stored(NoHeaders))}]
    /\ Rows = Seeded
    /\ gone = {}
    /\ jobs = [j \in Jobs |-> [event |-> "none", phase |-> "none",
                               at |-> [e \in Endpoints |-> "idle"]]]
    /\ hookLogs = {}
    /\ refused = {}
    /\ admins = [a \in Admins |-> NoChange]
    /\ inbounds = [i \in Inbounds |-> "none"]
    /\ inLogs = {}

-----------------------------------------------------------------------------
(* Endpoint administration. *)

\* validate_webhook_url: development accepts every http(s) url.
UrlAccepted(url) == Production => url = "public"

\* WebhookDAO.create_endpoint
InsertEndpoint(e, url, events, headers) ==
    /\ endpoints[e] = NoRow /\ e \notin gone \union Seeded
    /\ endpoints' = [endpoints EXCEPT ![e] = EndpointRow(url, events, Written(headers))]

\* WebhookEndpointCreate.validate_event_types and its like in the update.
EventChoices == (SUBSET WebhookEvents) \ {{}}

\* The route: the service validates the url.
CreateWebhookEndpoint(e) ==
    /\ \E url \in Urls, events \in EventChoices, headers \in HeaderDocs :
          UrlAccepted(url) /\ InsertEndpoint(e, url, events, headers)
    /\ UNCHANGED <<gone, jobs, hookLogs, refused, admins, inbounds, inLogs>>

\* parse_headers: a dict, or the dict that a text holds; an empty input is {}.
ParseHeaders(raw) == IF raw.kind = "string" THEN Loads(raw) ELSE raw

\* WebhookView._to_admin_object: the form shows the headers as text.
AdminHeaders(column) ==
    LET value == PoolRead(column)
    IN  IF value.kind = "string" \/ value = NoHeaders THEN value ELSE Dumps(value)

\* WebhookView.create: the url of the form is not validated.
AdminCreate(e) ==
    /\ \E url \in Urls, events \in EventChoices, raw \in HeaderDocs :
          InsertEndpoint(e, url, events, ParseHeaders(Dumps(raw)))
    /\ UNCHANGED <<gone, jobs, hookLogs, refused, admins, inbounds, inLogs>>

\* WebhookEndpointUpdate: the fields that are not None; one at a time here.
Changes ==
    {[field |-> "active", to |-> on] : on \in BOOLEAN}
    \union {[field |-> "events", to |-> events] : events \in EventChoices}
    \union {[field |-> "headers", to |-> Written(headers)] : headers \in HeaderDocs}
    \union {[field |-> "url", to |-> url] : url \in Urls}

\* WebhookDAO.update_endpoint: COALESCE keeps the other columns.
UpdateEndpoint(row, change) == [row EXCEPT ![change.field] = change.to]

\* WebhookDAO.delete_endpoint and delete_endpoints
DeleteEndpoint(e) ==
    /\ endpoints' = [endpoints EXCEPT ![e] = NoRow]
    /\ gone' = gone \union ({e} \intersect Rows)

\* The start of an update or a deletion: WebhookService.get_endpoint ends the
\* request with 404 when there is no row.
GetEndpoint(a, e, todo) ==
    /\ admins[a] = NoChange
    /\ e \in Rows
    /\ admins' = [admins EXCEPT ![a] = [id |-> e, todo |-> todo]]
    /\ UNCHANGED <<endpoints, gone, jobs, hookLogs, refused, inbounds, inLogs>>

\* The url is validated before the row is read.
UrlOfChangeAccepted(change) == change.field = "url" => UrlAccepted(change.to)

\* The statement of the service runs after that read, and another request may
\* have deleted the row in between: 404.
ServiceUpdate(a) ==
    /\ admins[a] # NoChange /\ admins[a].todo \in Changes
    /\ endpoints' = IF admins[a].id \in Rows
                    THEN [endpoints EXCEPT ![admins[a].id] = UpdateEndpoint(@, admins[a].todo)]
                    ELSE endpoints
    /\ admins' = [admins EXCEPT ![a] = NoChange]
    /\ UNCHANGED <<gone, jobs, hookLogs, refused, inbounds, inLogs>>

ServiceDelete(a) ==
    /\ admins[a] # NoChange /\ admins[a].todo = Removal
    /\ DeleteEndpoint(admins[a].id)
    /\ admins' = [admins EXCEPT ![a] = NoChange]
    /\ UNCHANGED <<jobs, hookLogs, refused, inbounds, inLogs>>

\* WebhookView.edit submits the headers that the form shows too.
AdminEdit(e) ==
    /\ e \in Rows
    /\ \E change \in Changes :
          LET headers == Written(ParseHeaders(AdminHeaders(endpoints[e].headers)))
          IN  endpoints' = [endpoints EXCEPT ![e] =
                  UpdateEndpoint([@ EXCEPT !.headers = headers], change)]
    /\ UNCHANGED <<gone, jobs, hookLogs, refused, admins, inbounds, inLogs>>

\* WebhookView.delete sends its DELETE to a read pool; a replica refuses it,
\* which changes nothing.
AdminDelete(e) ==
    /\ e \in Rows
    /\ DeleteEndpoint(e)
    /\ UNCHANGED <<jobs, hookLogs, refused, admins, inbounds, inLogs>>

-----------------------------------------------------------------------------
(* Outbound deliveries. *)

\* handle_application_event and WebhookService.dispatch_event_to_endpoints
DispatchEvent(j, event) ==
    /\ jobs[j].phase = "none"
    /\ jobs' = [jobs EXCEPT ![j].phase = "queued", ![j].event = event]
    /\ UNCHANGED <<endpoints, gone, hookLogs, refused, admins, inbounds, inLogs>>

\* WebhookDAO.list_active_endpoints_for_event
ListActiveEndpointsForEvent(event) ==
    {e \in Rows : endpoints[e].active /\ event \in endpoints[e].events}

\* _deliver_to_endpoint up to the request: headers.update raises on a str, and
\* httpx refuses a malformed url with an exception that the task does not
\* catch; gather keeps both to itself.
StartDelivery(e) ==
    IF PoolRead(endpoints[e].headers).kind = "string" \/ endpoints[e].url = "malformed"
    THEN "raised" ELSE "posting"

\* _deliver reads the endpoints once and starts all deliveries.
Deliver(j) ==
    /\ jobs[j].phase = "queued"
    /\ LET found == ListActiveEndpointsForEvent(jobs[j].event)
       IN  jobs' = [jobs EXCEPT ![j].phase = "delivering",
                                ![j].at = [e \in Endpoints |->
                                    IF e \in found THEN StartDelivery(e) ELSE "idle"]]
    /\ UNCHANGED <<endpoints, gone, hookLogs, refused, admins, inbounds, inLogs>>

\* The answer of the endpoint: 2xx, or another status or an error of the
\* transport.
Post(j, e) ==
    /\ jobs[j].at[e] = "posting"
    /\ \E outcome \in {"SUCCESS", "FAILED"} :
          jobs' = [jobs EXCEPT ![j].at[e] = outcome]
    /\ UNCHANGED <<endpoints, gone, hookLogs, refused, admins, inbounds, inLogs>>

\* Mutant: only good deliveries are logged.
CreateLogOfSuccess(j, e) ==
    hookLogs' = IF jobs[j].at[e] = "SUCCESS"
                THEN hookLogs \union {[job |-> j, endpoint |-> e, status |-> "SUCCESS"]}
                ELSE hookLogs

\* WebhookLogDAO.create_log
CreateLog(j, e) ==
    hookLogs' = hookLogs \union {[job |-> j, endpoint |-> e, status |-> jobs[j].at[e]]}

\* The INSERT of an entry refers to the endpoint: it fails when the row is
\* gone, and when the database does.
LogDelivery(j, e) ==
    /\ jobs[j].at[e] \in {"SUCCESS", "FAILED"}
    /\ \/ /\ e \in Rows
          /\ CreateLog(j, e)
          /\ UNCHANGED refused
       \/ /\ refused' = refused \union {<<j, f>> : f \in {e} \intersect Rows}
          /\ UNCHANGED hookLogs
    /\ jobs' = [jobs EXCEPT ![j].at[e] = "ended"]
    /\ UNCHANGED <<endpoints, gone, admins, inbounds, inLogs>>

\* gather ends when every delivery has; the task ends well.
EndJob(j) ==
    /\ jobs[j].phase = "delivering"
    /\ \A e \in Endpoints : jobs[j].at[e] \in {"idle", "raised", "ended"}
    /\ jobs' = [jobs EXCEPT ![j].phase = "done"]
    /\ UNCHANGED <<endpoints, gone, hookLogs, refused, admins, inbounds, inLogs>>

-----------------------------------------------------------------------------
(* Inbound webhooks. *)

\* WebhookAdapterFactory.get_adapter falls back to the generic adapter for
\* every source, whose verify_signature is True.
VerifySignature == TRUE

\* GenericWebhookAdapter.normalize asks the payload for its fields: a body
\* that is a JSON array has none, and the AttributeError is not caught.  A
\* body that is no JSON becomes an object.
Normalizes(body) == VerifySignature /\ body # "array"

HandleInboundWebhook(i) ==
    /\ inbounds[i] = "none"
    /\ \E body \in {"object", "text", "array"} :
          inbounds' = [inbounds EXCEPT ![i] = IF Normalizes(body) THEN "logging" ELSE "500"]
    /\ UNCHANGED <<endpoints, gone, jobs, hookLogs, refused, admins, inLogs>>

\* WebhookLogService.log_event, then the answer; a failed INSERT ends the
\* request with 500.
LogInbound(i) ==
    /\ inbounds[i] = "logging"
    /\ \/ /\ inLogs' = inLogs \union {i}
          /\ inbounds' = [inbounds EXCEPT ![i] = "200"]
       \/ /\ inbounds' = [inbounds EXCEPT ![i] = "500"]
          /\ UNCHANGED inLogs
    /\ UNCHANGED <<endpoints, gone, jobs, hookLogs, refused, admins>>

-----------------------------------------------------------------------------

WebhooksNext ==
    \/ \E e \in Endpoints : \/ CreateWebhookEndpoint(e) \/ AdminCreate(e)
                            \/ AdminEdit(e) \/ AdminDelete(e)
    \/ \E a \in Admins : ServiceUpdate(a) \/ ServiceDelete(a)
    \/ \E a \in Admins, e \in Endpoints : GetEndpoint(a, e, Removal)
    \/ \E a \in Admins, e \in Endpoints, change \in Changes :
          UrlOfChangeAccepted(change) /\ GetEndpoint(a, e, change)
    \/ \E j \in Jobs : Deliver(j) \/ EndJob(j)
    \/ \E j \in Jobs, event \in WebhookEvents : DispatchEvent(j, event)
    \/ \E j \in Jobs, e \in Endpoints : Post(j, e) \/ LogDelivery(j, e)
    \/ \E i \in Inbounds : HandleInboundWebhook(i) \/ LogInbound(i)

-----------------------------------------------------------------------------
(* Properties. *)

Logged(j, e) == \E entry \in hookLogs : entry.job = j /\ entry.endpoint = e

(***************************************************************************)
(* send_webhook_event: when the task has ended, every endpoint it posted   *)
(* to has its entry in webhook_logs, whatever the endpoint answered and    *)
(* whatever was changed meanwhile, unless the endpoint was deleted or the  *)
(* database failed; and an inbound webhook that was answered 200 was       *)
(* logged before.                                                          *)
(***************************************************************************)
DeliveryLogged ==
    /\ \A j \in Jobs, e \in Endpoints :
          (jobs[j].phase = "done" /\ jobs[j].at[e] = "ended")
            => Logged(j, e) \/ e \in gone \/ <<j, e>> \in refused
    /\ \A i \in Inbounds : inbounds[i] = "200" => i \in inLogs

(***************************************************************************)
(* What the docstring of send_webhook_event says: it logs each delivery    *)
(* attempt, to all active endpoints that are subscribed to the event.      *)
(***************************************************************************)
AttemptsLogged ==
    \A j \in Jobs, e \in Endpoints :
        (jobs[j].phase = "done" /\ jobs[j].at[e] # "idle")
            => Logged(j, e) \/ e \in gone \/ <<j, e>> \in refused

=============================================================================
