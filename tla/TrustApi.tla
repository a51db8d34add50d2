------------------------------ MODULE TrustApi ------------------------------
(***************************************************************************)
(* The trust API as its clients meet it (apps/api/lib/http.mjs and         *)
(* routes.mjs, platform.mjs below them): a request is routed,              *)
(* authenticated, metered, read and handled; some handlers emit events,    *)
(* which go to the table trust_events, to the open event streams and to    *)
(* the webhooks of WebhookDelivery.  JavaScript runs a handler without     *)
(* interruption: a request waits only while its body is read.              *)
(***************************************************************************)
EXTENDS WebhookDelivery, Lists

CONSTANTS
    Requests,    \* requests, one by one
    Workloads,   \* where to start: configuration, requests, what went before
    Environment, \* INFOPUNKS_ENVIRONMENT
    Root,        \* the token of INFOPUNKS_API_KEY, and its key_id
    Earlier,     \* events emitted by earlier processes
    ReplayLimit, \* the limit of getEvents: 100
    MaxStreams,  \* INFOPUNKS_SSE_MAX_STREAMS_PER_KEY
    LastMinute   \* bound: minutes of the clock

VARIABLES
    workload, \* the chosen one of Workloads
    log,      \* table trust_events, in the order of seq
    stage,    \* how far a request has come
    answer,   \* the status it was answered with, 0 before that
    stream,   \* what a stream has sent, and history: what it replayed of the log
    slots,    \* activeStreamsByKey
    used,     \* rateLimits, by key, bucket and minute
    pruned,   \* lastRateLimitCleanupMinute, -1 before the first
    minute,   \* the clock
    charged   \* history: the cost this process admitted this minute

doorVars == <<stage, answer, slots, used, pruned, charged>>
apiVars == <<doorVars, workload, log, stream, minute>>
allVars == <<vars, apiVars>>

Default(a, b) == IF a # None THEN a ELSE b

-----------------------------------------------------------------------------
(* Routes and keys *)

Route(id, method, path, scope, bucket) ==
    [id |-> id, method |-> method, path |-> path, scope |-> scope, bucket |-> bucket]

\* Routes without a scope do not authenticate.
PublicRoutes ==
    { Route("healthz", "GET", "/healthz", None, None),
      Route("metrics", "GET", "/metrics", None, None),
      Route("war-room.index", "GET", "/", None, None),
      Route("war-room.index.named", "GET", "/war-room", None, None),
      Route("war-room.asset.js", "GET", "/war-room/app.js", None, None),
      Route("war-room.asset.css", "GET", "/war-room/styles.css", None, None) }

SubjectRoutes ==
    { Route("budget.quote", "POST", "/v1/budget/quote", "read", "read"),
      Route("passports.create", "POST", "/v1/passports", "write", "write"),
      Route("passports.get", "GET", "/v1/passports/:id", "read", "read"),
      Route("passports.rotate-key", "POST", "/v1/passports/:id/rotate-key", "write", "write"),
      Route("evidence.create", "POST", "/v1/evidence", "write", "write"),
      Route("webhooks.create", "POST", "/v1/webhooks", "write", "write"),
      Route("portability.export", "POST", "/v1/portability/export", "read", "read"),
      Route("portability.import", "POST", "/v1/portability/import", "write", "write") }

TrustRoutes ==
    { Route("disputes.evaluate", "POST", "/v1/disputes/evaluate", "write", "write"),
      Route("trust.resolve", "POST", "/v1/trust/resolve", "write", "write"),
      Route("routing.select-validator", "POST", "/v1/routing/select-validator", "write", "write"),
      Route("routing.select-executor", "POST", "/v1/routing/select-executor", "write", "write"),
      Route("economic.escrow-quote", "POST", "/v1/economic/escrow-quote", "read", "read"),
      Route("economic.risk-price", "POST", "/v1/economic/risk-price", "read", "read"),
      Route("economic.attestation-bundle", "POST", "/v1/economic/attestation-bundle",
            "read", "read") }

ObserverRoutes ==
    { Route("events.stream", "GET", "/v1/events/stream", "read", "stream"),
      Route("traces.get", "GET", "/v1/traces/:id", "read", "read"),
      Route("trust.explain", "GET", "/v1/trust/:id/explain", "read", "read"),
      Route("prompts.get", "GET", "/v1/prompts/:name", "read", "read"),
      Route("war-room.state", "GET", "/v1/war-room/state", "read", "read"),
      Route("sim.run", "POST", "/v1/sim/run", "write", "sim") }

Routes == PublicRoutes \cup SubjectRoutes \cup TrustRoutes \cup ObserverRoutes

Policy(bucket) ==
    CASE bucket = "write" -> [cost |-> 4, limit |-> 600]
      [] bucket = "sim" -> [cost |-> 12, limit |-> 120]
      [] bucket = "stream" -> [cost |-> 8, limit |-> 120]
      [] OTHER -> [cost |-> 1, limit |-> 1200]

Buckets == {"read", "write", "sim", "stream"}

ASSUME ApiAssumption ==
    /\ None \notin {"read", "write"}
    /\ Earlier \cap Events = {}
    /\ {ReplayLimit, MaxStreams, LastMinute} \subseteq Nat
    /\ IsFiniteSet(Requests)
    /\ \A w \in Workloads :
          /\ w.lastMinute \in 0 .. LastMinute
          /\ \A b \in Buckets : w.spent[b] \in 0 .. Policy(b).limit
          /\ w.log \in Seq(Earlier)
          /\ \A c \in DOMAIN w.requests :
                /\ w.requests[c].webhook \in Webhooks /\ w.requests[c].event \in Events
                /\ w.requests[c].since.kind \in {"none", "junk", "number"}
                /\ w.requests[c].since.kind = "number" => w.requests[c].since.n \in Int

\* parseApiKeyRegistry: of two entries for one token the later one counts, and
\* an entry without a key_id gets one of its own.
Registry(entries) ==
    IF entries = <<>>
    THEN [t \in {Root} |-> [key |-> Root, scopes |-> {"read", "write"},
                            environment |-> Environment, status |-> "active"]]
    ELSE [t \in {entries[i].token : i \in DOMAIN entries} \ {None} |->
             LET e == entries[CHOOSE i \in DOMAIN entries :
                                 /\ entries[i].token = t
                                 /\ \A j \in DOMAIN entries : entries[j].token = t => j <= i]
             IN  [key |-> Default(e.key, t),
                  scopes |-> IF e.scopes = {} THEN {"read", "write"} ELSE e.scopes,
                  environment |-> Default(e.environment, Environment),
                  status |-> Default(e.status, "active")]]

\* errors.mjs: an error that names no status is the last one.
Status ==
    [invalid |-> 400, unauthorized |-> 401, forbidden |-> 403, notFound |-> 404,
     methodNotAllowed |-> 405, conflict |-> 409, tooLarge |-> 413, rateLimited |-> 429,
     unavailable |-> 500]

RequestOf(c) == workload.requests[c]
RouteOf(c) == CHOOSE route \in Routes :
                 route.path = RequestOf(c).path /\ route.method = RequestOf(c).method
KeyOf(c) == workload.registry[RequestOf(c).token].key
Metered(c) == RouteOf(c).scope # None

-----------------------------------------------------------------------------
(* The door: route, key, scope and rate limit *)

\* findRoute
Unrouted(r) ==
    LET here == {route \in Routes : route.path = r.path}
    IN  CASE r.path = "unparsable" -> Status.invalid
          [] r.path # "unparsable" /\ here = {} -> Status.notFound
          [] here # {} /\ \A route \in here : route.method # r.method ->
                Status.methodNotAllowed
          [] OTHER -> 0

\* authenticate
Unauthorized(r, scope) ==
    IF r.token \notin DOMAIN workload.registry THEN Status.unauthorized
    ELSE LET key == workload.registry[r.token]
         IN  CASE key.status # "active" -> Status.unauthorized
               [] key.status = "active" /\ key.environment # Environment -> Status.forbidden
               [] key.status = "active" /\ scope \notin key.scopes -> Status.forbidden
               [] OTHER -> 0

Counter(c) == <<KeyOf(c), RouteOf(c).bucket, minute>>

\* cleanupRateLimits
CleanedAt(now) == [x \in DOMAIN used |-> IF x[3] < now - 2 THEN 0 ELSE used[x]]

Cleaned == IF pruned = minute THEN used ELSE CleanedAt(minute)

\* enforceRateLimit
OverLimit(c) ==
    LET policy == Policy(RouteOf(c).bucket)
    IN  Cleaned[Counter(c)] + policy.cost > policy.limit

Refusal(c) ==
    LET r == RequestOf(c)
    IN  IF Unrouted(r) # 0 THEN Unrouted(r)
        ELSE IF ~ Metered(c) THEN 0
        ELSE Unauthorized(r, RouteOf(c).scope)

Reply(c, status) ==
    /\ stage' = [stage EXCEPT ![c] = "done"]
    /\ answer' = [answer EXCEPT ![c] = status]

TurnAway(c) ==
    /\ stage[c] = "new"
    /\ Refusal(c) # 0
    /\ Reply(c, Refusal(c))
    /\ UNCHANGED <<vars, workload, log, stream, minute, slots, used, pruned, charged>>

Throttle(c) ==
    /\ stage[c] = "new"
    /\ Refusal(c) = 0
    /\ Metered(c)
    /\ OverLimit(c)
    /\ Reply(c, Status.rateLimited)
    /\ used' = Cleaned
    /\ pruned' = minute
    /\ UNCHANGED <<vars, workload, log, stream, minute, slots, charged>>

\* What passing the door costs; a route without authentication, of which none
\* has a body, costs nothing.
Charge(c) ==
    LET cost == Policy(RouteOf(c).bucket).cost
    IN  /\ ~ OverLimit(c)
        /\ used' = [Cleaned EXCEPT ![Counter(c)] = @ + cost]
        /\ pruned' = minute
        /\ charged' = [charged EXCEPT ![<<KeyOf(c), RouteOf(c).bucket>>] = @ + cost]

-----------------------------------------------------------------------------
(* Event streams *)

\* eventMatchesFilter: by types and subjects.
Wanted(c, events) == Filtered(events, RequestOf(c).wants)

\* A bug: the event the client names is sent again.
PositionsFrom(since) ==
    LET last == Len(log) IN
    CASE since.kind = "junk" -> [first |-> last + 1, last |-> last]
      [] since.kind = "none" \/ (since.kind = "number" /\ since.n = 0) ->
            [first |-> IF last > ReplayLimit THEN last - ReplayLimit + 1 ELSE 1, last |-> last]
      [] OTHER ->
            LET first == IF since.n < 1 THEN 1 ELSE since.n
            IN  [first |-> first,
                 last |-> IF last - first + 1 > ReplayLimit THEN first + ReplayLimit - 1
                          ELSE last]

\* getEvents: no since, and zero, ask for the latest; a since that is not a
\* number matches nothing.
Positions(since) ==
    LET last == Len(log) IN
    CASE since.kind = "junk" -> [first |-> last + 1, last |-> last]
      [] since.kind = "none" \/ (since.kind = "number" /\ since.n = 0) ->
            [first |-> IF last > ReplayLimit THEN last - ReplayLimit + 1 ELSE 1, last |-> last]
      [] OTHER ->
            LET first == IF since.n < 0 THEN 1 ELSE since.n + 1
            IN  [first |-> first,
                 last |-> IF last - first + 1 > ReplayLimit THEN first + ReplayLimit - 1
                          ELSE last]

\* startEventStream: take a slot, send the head, replay, subscribe.
Subscribe(c) ==
    /\ slots[KeyOf(c)] < MaxStreams
    /\ slots' = [slots EXCEPT ![KeyOf(c)] = @ + 1]
    /\ stage' = [stage EXCEPT ![c] = "streaming"]
    /\ answer' = [answer EXCEPT ![c] = 200]
    /\ LET at == Positions(RequestOf(c).since)
       IN  stream' = [stream EXCEPT ![c] =
              [sent |-> Wanted(c, SubSeq(log, at.first, at.last)),
               first |-> at.first, last |-> at.last, live |-> Len(log) + 1]]
    /\ UNCHANGED <<vars, log>>

\* The replay throws after the head was sent: the error cannot be answered any
\* more, and the throw of the attempt is a rejection nobody handles.
SubscribeInVain(c) ==
    /\ StoreFaults
    /\ slots[KeyOf(c)] < MaxStreams
    /\ slots' = [slots EXCEPT ![KeyOf(c)] = @ + 1]
    /\ Reply(c, Status.unavailable)
    /\ Shutdown
    /\ UNCHANGED <<log, stream>>

TooManyStreams(c) ==
    /\ slots[KeyOf(c)] >= MaxStreams
    /\ Reply(c, Status.rateLimited)
    /\ UNCHANGED <<vars, log, stream, slots>>

Release(key) == [slots EXCEPT ![key] = IF @ <= 1 THEN 0 ELSE @ - 1]

\* Of close, error and aborted more than one may come; finalize runs once.
HangUp(c) ==
    /\ stage[c] = "streaming"
    /\ stage' = [stage EXCEPT ![c] = "closed"]
    /\ slots' = Release(KeyOf(c))
    /\ UNCHANGED <<vars, workload, log, stream, minute, answer, used, pruned, charged>>

\* A bug: finalize does not look whether it ran before.
HangUpReleasing(c) ==
    /\ stage[c] = "closed"
    /\ stage' = [stage EXCEPT ![c] = "done"]
    /\ slots' = Release(KeyOf(c))
    /\ UNCHANGED <<vars, workload, log, stream, minute, answer, used, pruned, charged>>

HangUpAgain(c) ==
    /\ stage[c] = "closed"
    /\ stage' = [stage EXCEPT ![c] = "done"]
    /\ UNCHANGED <<vars, workload, log, stream, minute, answer, slots, used, pruned, charged>>

-----------------------------------------------------------------------------
(* Events: the table, and the streams that match *)

\* emitEvent up to the webhooks.
Publish(events) ==
    /\ log' = log \o events
    /\ stream' = [c \in Requests |->
          IF stage[c] = "streaming"
          THEN [stream[c] EXCEPT !.sent = @ \o Wanted(c, events)]
          ELSE stream[c]]

\* The event of a delivery, dispatched to no webhook.
Notice(type, d) == [type |-> type, of |-> d]

PublishNotice(type, d) ==
    IF workload.notices THEN Publish(<<Notice(type, d)>>) ELSE UNCHANGED <<log, stream>>

\* What a handler emits reaches the log and the streams before the webhooks,
\* whose dispatch may throw; so does the alias, if it is reached.
EmitAndPublish(e) ==
    /\ Emit(e)
    /\ Publish(IF AliasOf[e] # None /\ AliasOf[e] \in emitted' THEN <<e, AliasOf[e]>> ELSE <<e>>)

\* Whether the emission ran to its end.
Dispatched(e) ==
    \A f \in {e, AliasOf[e]} \ {None} :
        /\ f \in emitted'
        /\ \A w \in Served(f, Len(active)) : row'[<<f, w>>].status # "none"

-----------------------------------------------------------------------------
(* Handlers *)

RegisterWebhook(c) ==
    /\ RouteOf(c).id = "webhooks.create"
    /\ LET w == RequestOf(c).webhook
       IN  \/ /\ Register(w)
              /\ Reply(c, 201)
           \/ /\ \E i \in DOMAIN active : active[i] = w
              /\ Reply(c, Status.conflict)
              /\ UNCHANGED vars
    /\ UNCHANGED <<log, stream, slots>>

\* Handlers that emit nothing.
Silent(c) ==
    \/ ~ Metered(c)
    \/ RouteOf(c).id \in {"budget.quote", "passports.get", "trust.explain", "prompts.get",
                          "war-room.state"}

\* The others, for which see TrustLedger, emit an event here, which is one
\* with an alias where a key is rotated, or refuse or fail before that.
Emitting(c) ==
    /\ ~ Silent(c)
    /\ RouteOf(c).id \notin {"webhooks.create", "events.stream"}
    /\ \/ /\ EmitAndPublish(RequestOf(c).event)
          /\ Reply(c, IF Dispatched(RequestOf(c).event) THEN 200 ELSE Status.unavailable)
       \/ /\ \E status \in {Status.notFound, Status.conflict, Status.unavailable} :
                Reply(c, status)
          /\ UNCHANGED <<vars, log, stream>>
    /\ UNCHANGED slots

Read(c) ==
    /\ Silent(c)
    /\ \E status \in {200, Status.notFound, Status.unavailable} : Reply(c, status)
    /\ UNCHANGED <<vars, log, stream, slots>>

OpenStream(c) ==
    /\ RouteOf(c).id = "events.stream"
    /\ Subscribe(c) \/ SubscribeInVain(c) \/ TooManyStreams(c)

HandlePost(c) == RegisterWebhook(c) \/ Emitting(c) \/ Read(c)
HandleGet(c) == OpenStream(c) \/ Emitting(c) \/ Read(c)

HasBody(c) == RequestOf(c).method = "POST"

\* A request without a body is handled at once.
Serve(c) ==
    /\ stage[c] = "new"
    /\ Refusal(c) = 0
    /\ ~ HasBody(c)
    /\ IF Metered(c) THEN Charge(c) ELSE UNCHANGED <<used, pruned, charged>>
    /\ HandleGet(c)
    /\ UNCHANGED <<workload, minute>>

Admit(c) ==
    /\ stage[c] = "new"
    /\ Refusal(c) = 0
    /\ HasBody(c)
    /\ Charge(c)
    /\ stage' = [stage EXCEPT ![c] = "reading"]
    /\ UNCHANGED <<vars, workload, log, stream, minute, answer, slots>>

\* readJsonBody and validateOrThrow
BadBody(body) ==
    CASE body = "huge" -> Status.tooLarge
      [] body \in {"other content type", "not JSON", "invalid"} -> Status.invalid
      [] body = "cut off" -> Status.unavailable
      [] OTHER -> 0

RefuseBody(c) ==
    /\ stage[c] = "reading"
    /\ BadBody(RequestOf(c).body) # 0
    /\ Reply(c, BadBody(RequestOf(c).body))
    /\ UNCHANGED <<vars, workload, log, stream, minute, slots, used, pruned, charged>>

ServeBody(c) ==
    /\ stage[c] = "reading"
    /\ BadBody(RequestOf(c).body) = 0
    /\ HandlePost(c)
    /\ UNCHANGED <<workload, minute, used, pruned, charged>>

-----------------------------------------------------------------------------
(* Deliveries, time and the process *)

\* A failure is announced before the retry is scheduled; where the catch
\* block throws, it is not announced.
AnnounceFailure(d) ==
    \/ /\ closing' = closing
       /\ row'[d] = Attempted(d)
       /\ PublishNotice("webhook.delivery.failed", d)
    \/ /\ closing'
       /\ live'[d] = "none"
       /\ UNCHANGED <<log, stream>>

Deliver(d) ==
    /\ \/ Delivered(d) /\ PublishNotice("webhook.delivery.succeeded", d)
       \/ DeliveredUnrecorded(d) /\ AnnounceFailure(d)
       \/ Undelivered(d) /\ AnnounceFailure(d)
    /\ UNCHANGED <<doorVars, workload, minute>>

Retry(d) == TimerFires(d) /\ UNCHANGED apiVars

Tick ==
    /\ minute < workload.lastMinute
    /\ minute' = minute + 1
    /\ charged' = [x \in DOMAIN charged |-> 0]
    /\ UNCHANGED <<vars, workload, log, stage, answer, stream, slots, used, pruned>>

\* The process takes its connections and its maps with it.
Forget ==
    /\ stage' = [c \in Requests |-> IF stage[c] = "new" THEN "new" ELSE "done"]
    /\ slots' = [k \in DOMAIN slots |-> 0]
    /\ used' = [x \in DOMAIN used |-> 0]
    /\ pruned' = -1
    /\ charged' = [x \in DOMAIN charged |-> 0]
    /\ UNCHANGED <<workload, log, stream, minute, answer>>

Terminate == "signal" \in workload.ends /\ Shutdown /\ UNCHANGED apiVars

ExitAndForget == Exit /\ Forget
CrashAndForget == "kill" \in workload.ends /\ Crash /\ Forget

-----------------------------------------------------------------------------
ApiInit ==
    /\ Init
    /\ \E w \in Workloads :
          LET registry == Registry(w.entries)
              keys == {registry[t].key : t \in DOMAIN registry}
          IN  /\ workload = [requests |-> w.requests, registry |-> registry,
                             notices |-> w.notices, ends |-> w.ends,
                             lastMinute |-> w.lastMinute]
              /\ log = w.log
              /\ slots = [k \in keys |-> 0]
              /\ charged = [x \in keys \X Buckets |-> w.spent[x[2]]]
              /\ used = [x \in keys \X Buckets \X (0 .. LastMinute) |->
                            IF x[3] = 0 THEN w.spent[x[2]] ELSE 0]
    /\ stage = [c \in Requests |-> IF c \in DOMAIN workload.requests THEN "new" ELSE "done"]
    /\ answer = [c \in Requests |-> 0]
    /\ stream = [c \in Requests |-> [sent |-> <<>>, first |-> 1, last |-> 0, live |-> 1]]
    /\ pruned = 0
    /\ minute = 0

RequestStep(c) ==
    TurnAway(c) \/ Throttle(c) \/ Serve(c) \/ Admit(c) \/ RefuseBody(c) \/ ServeBody(c)

ApiNext ==
    \/ \E c \in Requests : RequestStep(c) \/ HangUp(c) \/ HangUpAgain(c)
    \/ \E d \in Deliveries : Deliver(d) \/ Retry(d)
    \/ Tick
    \/ Terminate
    \/ ExitAndForget
    \/ CrashAndForget

(***************************************************************************)
(* The fairness of WebhookDelivery, of the steps as they are here.         *)
(***************************************************************************)
ApiSpec ==
    /\ ApiInit
    /\ [][ApiNext]_allVars
    /\ \A d \in Deliveries : WF_allVars(Deliver(d)) /\ WF_allVars(Retry(d))
    /\ WF_allVars(ExitAndForget)

-----------------------------------------------------------------------------
\* An open stream has sent what it replayed of the log and everything that
\* was emitted since, in order, each once and nothing else, and it has
\* replayed up to the present unless more than ReplayLimit events were asked
\* for: also where the dispatch of an event threw and its alias was never
\* emitted.
StreamsAreWhole ==
    \A c \in Requests : stage[c] = "streaming" =>
        LET s == stream[c]
            since == RequestOf(c).since
        IN  /\ s.sent = Wanted(c, SubSeq(log, s.first, s.last) \o SubSeq(log, s.live, Len(log)))
            /\ s.last = s.live - 1 \/ s.last - s.first + 1 = ReplayLimit
            /\ since.kind = "number" /\ since.n > 0 => s.first = since.n + 1

\* The streams a key is counted for are the ones it has open, however they
\* end and whatever else fails, and no more than it may have; and within a
\* minute the requests admitted for a key, with any of its tokens, keep to
\* the limit of their bucket.  (A process about to exit may count too many.)
KeysAreMetered ==
    /\ \A k \in DOMAIN slots :
          LET open == {c \in Requests : stage[c] = "streaming" /\ KeyOf(c) = k}
          IN  /\ closing \/ slots[k] = Cardinality(open)
              /\ Cardinality(open) <= MaxStreams
    /\ \A x \in DOMAIN charged : charged[x] <= Policy(x[2]).limit
=============================================================================
