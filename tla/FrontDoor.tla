------------------------------ MODULE FrontDoor ------------------------------
(***************************************************************************)
(* A resolve_trust call in the MCP adapter, from the HTTP route or the RPC *)
(* channel to its answer: the payment challenge, the rate limiter, the     *)
(* entitlement token and its session, the caller's passport, the target's  *)
(* passport or its bootstrap under a lock, the retried request upstream    *)
(* and the cache behind it.  Each await is a step, so calls interleave     *)
(* there.  Whether a payment is good for the call is PaymentTerms'; what   *)
(* its reservation competes with is PaidCall's, here it succeeds or fails. *)
(***************************************************************************)
EXTENDS PaymentTerms, Lists

CONSTANTS
    Calls, Subjects, RateKeys, Sessions,
    Opinions,    \* what the trust API successively thinks of a subject
    Workloads,   \* environments the adapter is started in, each with its calls
    Limit,       \* calls a rate key may make in a minute
    MaxTracked,  \* counters the memory driver keeps
    Attempts,    \* length of retryDelaysMs
    StoreFaults  \* may a statement of the adapter's store fail?

VARIABLES
    workload,    \* the configuration and the calls of this behaviour, and its bounds
    now,         \* whole half minutes (clock skews) passed: it is a little later than that
    pc,          \* where each call is
    answer,      \* what it will be, or was, answered
    counters,    \* rate limiter: its counters, oldest first
    lastMinute,  \* and the minute it was last pruned in
    sessions,    \* entitlement_sessions, the token each row was written from
    lock,        \* the bootstrap lock of each subject, and
    holding,     \* the calls whose lockAcquired is true
    tries,       \* attempts to reach the trust API
    receipts,    \* payment_receipts: the metadata of each call's
    inHand,      \* the opinion an attempt brought back
    cache,       \* trust_cache
    passport,    \* upstream: passports,
    createdBy,   \* idempotency rows of their creation, and
    opinion,     \* the current opinion
    crashes,
    \* History, read by no action:
    entered,     \* the minute in which the rate limiter admitted a call
    passed,      \* calls whose token was accepted
    since        \* what held when a call began

vars == <<workload, now, pc, answer, counters, lastMinute, sessions, lock, holding, tries,
          receipts, inHand, cache, passport, createdBy, opinion, crashes, entered, passed, since>>

limiter == <<counters, lastMinute, entered>>
tokens == <<sessions, passed>>
locks == <<lock, holding>>
asking == <<tries, inHand, cache>>
upstream == <<passport, createdBy, opinion>>
fixed == <<workload, now, crashes, since, receipts>>

Newest == Len(Opinions)

\* A call names subjects and sessions there are; the route refuses one without a
\* subject.
ASSUME CallsAssumption ==
    \A w \in Workloads : \A c \in Calls : LET q == w.calls[c] IN
        q # None =>
            /\ q.subject \in Subjects \/ (q.door = "http" /\ q.subject = None)
            /\ q.agent # None => q.agent.subject \in Subjects
            /\ q.token # None => q.token.session \in Sessions /\ q.token.exp \in Nat

\* A verdict without a reason is not one with a reason.
ASSUME ReasonsAssumption == None \notin {"SAFE_DEFAULT_FALLBACK", "AUTO_BOOTSTRAPPED_SUBJECT"}

\* A call has a rate key.  What loadEnv and resolveTrustWithResilience count with
\* are numbers, and there is at least one attempt.
ASSUME BoundsAssumption ==
    /\ IsFiniteSet(Calls) /\ None \notin Nat
    /\ Limit \in Nat /\ MaxTracked \in Nat /\ Attempts \in Nat \ {0}
    /\ Newest \in Nat \ {0}
    /\ \A w \in Workloads :
          /\ {"maxNow", "maxCrashes"} \subseteq DOMAIN w
          /\ w.maxNow \in Nat /\ w.maxCrashes \in Nat
          /\ \A c \in Calls : w.calls[c] # None => w.calls[c].key \in RateKeys

\* The issuer gives an id and a session one expiry.
ASSUME TokensAssumption ==
    \A w \in Workloads : \A c, d \in Calls : LET q == w.calls[c] r == w.calls[d] IN
        /\ None \notin {q, r}
        /\ None \notin {q.token, r.token}
        /\ q.token.jti = r.token.jti /\ q.token.session = r.token.session
        => q.token.exp = r.token.exp

ASSUME ConfigAssumption ==
    /\ None \notin {"base", "base-sepolia", "usdc@mainnet", "usdc@sepolia", Mainnet, Sepolia}
    /\ \A w \in Workloads :
          /\ {"env", "calls"} \subseteq DOMAIN w
          /\ {"networks", "assets", "address", "atomic", "provider", "payTo", "nodeEnv",
              "environment", "required"} \subseteq DOMAIN w.env
          /\ w.env.networks \in Seq(Range(w.env.networks) \ {None})
          /\ Requirement(Config(w.env), 1) # None

\* Where calls are charged for, they bring something in the shape of a payment.
ASSUME PaymentsAssumption ==
    \A w \in {v \in Workloads : v.env.required} :
        \A sent \in {w.calls[c].sent : c \in {d \in Calls : w.calls[d] # None}} :
            /\ DOMAIN sent.body = DOMAIN NoPayment
            /\ \A p \in {sent.header, sent.body.payload} \ {None} :
                  /\ DOMAIN p = {"accepted", "signed"}
                  /\ p.accepted # None => DOMAIN p.accepted = DOMAIN NoTerms

Q(c) == workload.calls[c]
Minute == now \div 2
Settings == workload.env

NoAnswer == [kind |-> "none"]
Init ==
    /\ workload \in {[w EXCEPT !.env = Config(@)] : w \in {v \in Workloads : Valid(v.env)}}
    /\ receipts = [c \in Calls |-> None]
    /\ now = 0 /\ crashes = 0
    /\ pc = [c \in Calls |-> IF Q(c) = None THEN "done" ELSE "idle"]
    /\ answer = [c \in Calls |-> NoAnswer]
    /\ counters = <<>> /\ lastMinute = None
    /\ sessions = [x \in Sessions |-> None]
    /\ lock = [s \in Subjects |-> None]
    /\ tries = [c \in Calls |-> 0]
    /\ inHand = [c \in Calls |-> 0]
    /\ cache = [s \in Subjects |-> 0]
    /\ passport = [s \in Subjects |-> IF s \in workload.known THEN "active" ELSE "none"]
    /\ createdBy = [k \in {"caller", "target"} \X Subjects |-> None]
    /\ opinion = [s \in Subjects |-> 1]
    /\ entered = [c \in Calls |-> None]
    /\ holding = {} /\ passed = {}
    /\ since = [c \in Calls |-> None]

-----------------------------------------------------------------------------
(* Answers *)

\* statusFromAdapterErrorCode.  The codes of rate limiter, token and payment
\* are the payment error codes, whatever status they were raised with.
StatusOf(code) ==
    CASE code \in {"RATE_LIMIT", "TOKEN", "PAYMENT"} -> 402
      [] code = "REPLAY" -> 409
      [] code = "UNKNOWN_SUBJECT" -> 404
      [] OTHER -> 503

Verdict(mode, reason, decision, score, rev) ==
    [kind |-> "verdict", mode |-> mode, reason |-> reason, decision |-> decision,
     score |-> score, rev |-> rev, route |-> None, risk |-> None]

Failure(c, code) ==
    [kind |-> "error", code |-> code,
     status |-> IF Q(c).door = "http" THEN StatusOf(code) ELSE None]

\* safeDefaultFallback and the answer about a subject that was just created.
LastResort(reason) == Verdict("degraded", reason, "restrict", 20, 0)

\* toPolicyRoute
Route(decision) ==
    CASE decision = "block" -> "block"
      [] decision = "quarantine" -> "quarantine"
      [] decision = "degrade" -> "degrade"
      [] OTHER -> "allow"

\* toRiskLevel of a score; the bands of the trust API have no level of their own.
Risk(score) ==
    IF score >= 80 THEN "low" ELSE IF score >= 60 THEN "medium"
    ELSE IF score >= 40 THEN "high" ELSE "critical"

Go(c, next) == pc' = [pc EXCEPT ![c] = next]

\* A call in resolveTarget leaves through the finally clause if it has the lock.
Leave(c, reply) ==
    /\ answer' = [answer EXCEPT ![c] = reply]
    /\ Go(c, IF c \in holding THEN "release"
             ELSE IF reply = NoAnswer THEN "ask"
             ELSE IF reply.kind = "verdict" THEN "deliver" ELSE "done")

Fail(c, code) ==
    /\ answer' = [answer EXCEPT ![c] = Failure(c, code)]
    /\ Go(c, "done")

-----------------------------------------------------------------------------
(* The HTTP route *)

\* paymentHeaderSelection: X-PAYMENT is taken even if it cannot be decoded.
HeaderPays(q) == "good" = IF q.xPayment # "absent" THEN q.xPayment ELSE q.signature

\* The status the route answers by itself, 200 if it goes on to executeTool.
DoorStatus(q) ==
    IF ~HeaderPays(q) /\ q.body = "absent" THEN 402
    ELSE IF q.body \in {"absent", "text"} THEN 415
    ELSE IF q.body = "broken" THEN 400
    ELSE IF ~HeaderPays(q) /\ q.body = "unpaid" THEN 402
    ELSE IF q.subject = None THEN 400 ELSE 200

Remembered(c) ==
    LET q == Q(c) IN
    [passport |-> [s \in Subjects |-> passport[s]],
     rev |-> opinion,
     bound |-> {x \in Sessions : sessions[x] # None},
     over |-> q.token # None /\ \E x \in Sessions : /\ sessions[x] # None
                                                    /\ sessions[x].jti = q.token.jti
                                                    /\ sessions[x].exp <= now,
     told |-> {s \in Subjects : \E d \in Calls : /\ pc[d] = "done"
                                                 /\ answer[d].kind = "verdict"
                                                 /\ answer[d].mode = "verified"
                                                 /\ Q(d).subject = s}]

Begin(c) ==
    LET status == IF Q(c).door = "http" THEN DoorStatus(Q(c)) ELSE 200 IN
    /\ pc[c] = "idle"
    /\ since' = [since EXCEPT ![c] = Remembered(c)]
    /\ IF status = 200 THEN Go(c, "limit") /\ UNCHANGED answer
       ELSE /\ answer' = [answer EXCEPT ![c] = [kind |-> "error", code |-> "DOOR", status |-> status]]
            /\ Go(c, "done")
    /\ UNCHANGED <<workload, now, crashes, receipts, limiter, tokens, locks, asking, upstream>>

-----------------------------------------------------------------------------
(* The rate limiter *)

\* Mutant: a full table is cleared before its counters are looked at.
PrunedEagerly(list) == IF lastMinute = Minute /\ Len(list) < MaxTracked THEN list ELSE <<>>

\* MemoryRateLimitStrategy.prune
Pruned(list) ==
    LET fresh == Filtered(list, {e \in Listed(list) : e.minute >= Minute}) IN
    IF lastMinute = Minute /\ Len(list) <= MaxTracked THEN list
    ELSE IF Len(fresh) <= MaxTracked THEN fresh
    ELSE SubSeq(fresh, Len(fresh) - MaxTracked + 1, Len(fresh))

Index(list, k) == {i \in DOMAIN list : list[i].key = k /\ list[i].minute = Minute}

Counted(list, k) ==
    IF Index(list, k) = {} THEN Append(list, [key |-> k, minute |-> Minute, count |-> 1])
    ELSE [i \in DOMAIN list |-> IF i \in Index(list, k)
                                THEN [list[i] EXCEPT !.count = @ + 1] ELSE list[i]]

\* The PostgreSQL driver counts in one statement; it deletes counters only when
\* they are five minutes old, which no behaviour within the bounds reaches.
Hit(c) ==
    LET k == Q(c).key
        list == Counted(IF Settings.driver = "memory" THEN Pruned(counters) ELSE counters, k)
        count == list[CHOOSE i \in Index(list, k) : TRUE].count IN
    /\ pc[c] = "limit"
    /\ counters' = list
    /\ lastMinute' = Minute
    /\ IF count > Limit THEN Fail(c, "RATE_LIMIT") /\ UNCHANGED entered
       ELSE /\ entered' = [entered EXCEPT ![c] = Minute]
            /\ Go(c, "token") /\ UNCHANGED answer
    /\ UNCHANGED <<fixed, tokens, locks, asking, upstream>>

-----------------------------------------------------------------------------
(* The entitlement token.  Its signature, issuer, scope and lifetime are good. *)

AfterToken(c) == IF Q(c).agent # None THEN "caller" ELSE "pay"

\* A token is good for one clock skew longer than it says.
StaticallyGood(q) ==
    /\ q.token.exp >= now
    /\ q.agent # None => q.agent.subject = q.token.sub
    /\ q.payer \in {None, q.token.payer}

\* The row of a token, which is read first.
OwnRow(t) == {x \in Sessions : sessions[x] # None /\ sessions[x].jti = t.jti}

\* Mutant: a session ends when its token does.
RowAgreesWithSkew(t, x) ==
    /\ sessions[x].exp >= now
    /\ x = t.session
    /\ sessions[x].sub = t.sub

RowAgrees(t, x) ==
    /\ sessions[x].exp > now
    /\ x = t.session
    /\ sessions[x].sub = t.sub

CheckToken(c) ==
    LET t == Q(c).token IN
    /\ pc[c] = "token"
    /\ IF t = None
       THEN IF workload.tokenRequired THEN Fail(c, "TOKEN")
            ELSE Go(c, AfterToken(c)) /\ UNCHANGED answer
       ELSE IF StaticallyGood(Q(c)) /\ \A x \in OwnRow(t) : RowAgrees(t, x)
            THEN Go(c, "session") /\ UNCHANGED answer
            ELSE Fail(c, "TOKEN")
    /\ UNCHANGED <<fixed, limiter, tokens, locks, asking, upstream>>

\* Mutant: the row of the session is not compared with the token.
AnyRow(t) == TRUE

SessionAgrees(t) ==
    LET row == sessions[t.session] IN
    row # None => row.jti = t.jti /\ row.sub = t.sub /\ row.payer = t.payer

CheckSession(c) ==
    LET t == Q(c).token IN
    /\ pc[c] = "session"
    /\ IF SessionAgrees(t) THEN Go(c, "save") /\ UNCHANGED answer ELSE Fail(c, "TOKEN")
    /\ UNCHANGED <<fixed, limiter, tokens, locks, asking, upstream>>

\* upsertEntitlementSession overwrites the session's row; token_jti is UNIQUE.
SaveSession(c) ==
    LET t == Q(c).token
        clash == OwnRow(t) \ {t.session} # {} IN
    /\ pc[c] = "save"
    /\ \/ /\ ~clash
          /\ sessions' = [sessions EXCEPT ![t.session] = t]
          /\ passed' = passed \cup {c}
          /\ Go(c, AfterToken(c)) /\ UNCHANGED answer
       \/ /\ clash \/ StoreFaults
          /\ Fail(c, "STORE")
          /\ UNCHANGED <<sessions, passed>>
    /\ UNCHANGED <<fixed, limiter, locks, asking, upstream>>

-----------------------------------------------------------------------------
(* The caller's passport *)

Exists(s) == passport[s] # "none"

LookupCaller(c) ==
    LET s == Q(c).agent.subject IN
    /\ pc[c] = "caller"
    /\ \/ Exists(s) /\ Go(c, "pay") /\ UNCHANGED answer
       \/ ~Exists(s) /\ ~workload.lookupOnly /\ Go(c, "register") /\ UNCHANGED answer
       \/ ~Exists(s) /\ workload.lookupOnly /\ Fail(c, "UNKNOWN_SUBJECT")
       \/ Fail(c, "UPSTREAM")
    /\ UNCHANGED <<fixed, limiter, tokens, locks, asking, upstream>>

\* What the trust API makes of createPassport under an idempotency key, with a
\* body that differs only in its label.
Conflicts(key, body) ==
    IF createdBy[key] # None THEN createdBy[key] # body ELSE Exists(key[2])

Created(key, body) ==
    /\ ~Conflicts(key, body)
    /\ passport' = [passport EXCEPT ![key[2]] = IF createdBy[key] = None THEN "active" ELSE @]
    /\ createdBy' = [createdBy EXCEPT ![key] = body]
    /\ UNCHANGED opinion

\* resolveCaller does not forgive a 409.
Register(c) ==
    LET key == <<"caller", Q(c).agent.subject>>
        body == Q(c).agent.label IN
    /\ pc[c] = "register"
    /\ \/ /\ Created(key, body)
          /\ \/ Go(c, "confirmed") /\ UNCHANGED answer
             \/ Fail(c, "UPSTREAM")
       \/ Conflicts(key, body) /\ Fail(c, "CONFLICT") /\ UNCHANGED upstream
       \/ Fail(c, "UPSTREAM") /\ UNCHANGED upstream
    /\ UNCHANGED <<fixed, limiter, tokens, locks, asking>>

ConfirmCaller(c) ==
    /\ pc[c] = "confirmed"
    /\ \/ Exists(Q(c).agent.subject) /\ Go(c, "pay") /\ UNCHANGED answer
       \/ Fail(c, "UPSTREAM")
    /\ UNCHANGED <<fixed, limiter, tokens, locks, asking, upstream>>

-----------------------------------------------------------------------------
(* The payment: authorizePaidCall *)

Due(c) == Presented(Q(c).door, Settings, Q(c).sent)

\* A free call only looks up what its payer has spent.
Pay(c) ==
    /\ pc[c] = "pay"
    /\ \/ ~Settings.required /\ Go(c, "target") /\ UNCHANGED answer
       \/ ~Settings.required /\ StoreFaults /\ Fail(c, "STORE")
       \/ Settings.required /\ Acceptable(Settings, Due(c)) /\ Go(c, "verify") /\ UNCHANGED answer
       \/ Settings.required /\ ~Acceptable(Settings, Due(c)) /\ Fail(c, "PAYMENT")
    /\ UNCHANGED <<fixed, limiter, tokens, locks, asking, upstream>>

\* A verifier that refuses, errs or is silent is one to the call.
Verify(c) ==
    /\ pc[c] = "verify"
    /\ \/ Verifiable(Settings, Due(c), 1) /\ Go(c, "reserve") /\ UNCHANGED answer
       \/ Fail(c, "PAYMENT")
    /\ UNCHANGED <<fixed, limiter, tokens, locks, asking, upstream>>

\* reservePaidOperation, by its outcome.
Reserve(c) ==
    /\ pc[c] = "reserve"
    /\ \/ /\ receipts' = [receipts EXCEPT ![c] = Booked(Settings, Due(c))]
          /\ Go(c, "settle") /\ UNCHANGED answer
       \/ /\ \/ Fail(c, "REPLAY") \/ Fail(c, "PAYMENT")
             \/ StoreFaults /\ Fail(c, "STORE")
          /\ UNCHANGED receipts
    /\ UNCHANGED <<workload, now, crashes, since, limiter, tokens, locks, asking, upstream>>

\* Neither a settlement that fails nor one that cannot be written down matters
\* to the call; only the look at what the payer has spent can fail it.
Settle(c) ==
    /\ pc[c] = "settle"
    /\ \E done \in {FALSE, Settleable(Settings, Due(c))} :
           receipts' = [receipts EXCEPT ![c].settled = done]
    /\ \/ Go(c, "target") /\ UNCHANGED answer
       \/ StoreFaults /\ Fail(c, "STORE")
    /\ UNCHANGED <<workload, now, crashes, since, limiter, tokens, locks, asking, upstream>>

-----------------------------------------------------------------------------
(* The target's passport *)

LookupTarget(c) ==
    LET s == Q(c).subject IN
    /\ pc[c] = "target"
    /\ \/ Exists(s) /\ Go(c, "ask") /\ UNCHANGED answer
       \/ ~Exists(s) /\ workload.autoBootstrap /\ Go(c, "lock") /\ UNCHANGED answer
       \/ ~Exists(s) /\ ~workload.autoBootstrap /\ Fail(c, "UNKNOWN_SUBJECT")
       \/ Fail(c, "UPSTREAM")
    /\ UNCHANGED <<fixed, limiter, tokens, locks, asking, upstream>>

\* acquireLock: a row that has not lapsed is left alone, and the call goes on
\* without the lock after a short wait.
Taken(s) == lock[s] # None /\ ~lock[s].lapsed

Lock(c) ==
    LET s == Q(c).subject IN
    /\ pc[c] = "lock"
    /\ \/ /\ ~Taken(s)
          /\ lock' = [lock EXCEPT ![s] = [owner |-> c, lapsed |-> FALSE]]
          /\ holding' = holding \cup {c}
          /\ Go(c, "recheck") /\ UNCHANGED answer
       \/ Taken(s) /\ Go(c, "wait") /\ UNCHANGED <<locks, answer>>
       \/ StoreFaults /\ Fail(c, "STORE") /\ UNCHANGED locks
    /\ UNCHANGED <<fixed, limiter, tokens, asking, upstream>>

\* Both lookups take every error for a missing passport.
Wait(c) ==
    /\ pc[c] = "wait"
    /\ (Exists(Q(c).subject) /\ Leave(c, NoAnswer)) \/ (Go(c, "recheck") /\ UNCHANGED answer)
    /\ UNCHANGED <<fixed, limiter, tokens, locks, asking, upstream>>

\* Mutant: the early return is outside the try.
RecheckOutside(c) ==
    /\ pc[c] = "recheck"
    /\ (Exists(Q(c).subject) /\ Go(c, "ask")) \/ Go(c, "create")
    /\ UNCHANGED <<answer, fixed, limiter, tokens, locks, asking, upstream>>

Recheck(c) ==
    /\ pc[c] = "recheck"
    /\ (Exists(Q(c).subject) /\ Leave(c, NoAnswer)) \/ (Go(c, "create") /\ UNCHANGED answer)
    /\ UNCHANGED <<fixed, limiter, tokens, locks, asking, upstream>>

\* A 409 is forgiven.
Create(c) ==
    LET key == <<"target", Q(c).subject>> IN
    /\ pc[c] = "create"
    /\ \/ /\ Created(key, "bootstrap")
          /\ (Go(c, "created") /\ UNCHANGED answer) \/ Leave(c, Failure(c, "UPSTREAM"))
       \/ Conflicts(key, "bootstrap") /\ Go(c, "created") /\ UNCHANGED <<answer, upstream>>
       \/ Leave(c, Failure(c, "UPSTREAM")) /\ UNCHANGED upstream
    /\ UNCHANGED <<fixed, limiter, tokens, locks, asking>>

ConfirmTarget(c) ==
    /\ pc[c] = "created"
    /\ \/ Exists(Q(c).subject) /\ Leave(c, LastResort("AUTO_BOOTSTRAPPED_SUBJECT"))
       \/ Leave(c, Failure(c, "UPSTREAM"))
    /\ UNCHANGED <<fixed, limiter, tokens, locks, asking, upstream>>

\* releaseLock deletes the row only if it is still the call's.  If it throws,
\* that error is the answer.
Release(c) ==
    LET s == Q(c).subject IN
    /\ pc[c] = "release"
    /\ holding' = holding \ {c}
    /\ \/ /\ lock' = [lock EXCEPT ![s] = IF @ # None /\ @.owner = c THEN None ELSE @]
          /\ Go(c, IF answer[c] = NoAnswer THEN "ask"
                   ELSE IF answer[c].kind = "verdict" THEN "deliver" ELSE "done")
          /\ UNCHANGED answer
       \/ StoreFaults /\ Fail(c, "STORE") /\ UNCHANGED lock
    /\ UNCHANGED <<fixed, limiter, tokens, asking, upstream>>

-----------------------------------------------------------------------------
(* The opinion: resolveTrustWithResilience *)

\* Mutant: one attempt too many.
GiveUpLate(c) ==
    /\ tries' = [tries EXCEPT ![c] = @ + 1]
    /\ Go(c, IF tries[c] < Attempts THEN "ask" ELSE "fallback")
    /\ UNCHANGED <<inHand, cache, answer>>

\* Mutant: a failed attempt is not counted.
AskAgain(c) ==
    /\ Go(c, "ask")
    /\ UNCHANGED <<tries, inHand, cache, answer>>

\* An attempt that fails, times out or cannot be cached.
GiveUp(c) ==
    /\ tries' = [tries EXCEPT ![c] = @ + 1]
    /\ Go(c, IF tries[c] + 1 < Attempts THEN "ask" ELSE "fallback")
    /\ UNCHANGED <<inHand, cache, answer>>

\* The trust API answers about subjects with a passport that is not revoked.
Ask(c) ==
    LET s == Q(c).subject IN
    /\ pc[c] = "ask"
    /\ \/ /\ passport[s] = "active"
          /\ inHand' = [inHand EXCEPT ![c] = opinion[s]]
          /\ Go(c, "cache") /\ UNCHANGED <<tries, cache, answer>>
       \/ GiveUp(c)
    /\ UNCHANGED <<fixed, limiter, tokens, locks, upstream>>

Opinion(mode, reason, rev) ==
    Verdict(mode, reason, Opinions[rev].decision, Opinions[rev].score, rev)

\* Mutant: an opinion that cannot be cached is given all the same.
CacheIfPossible(c) ==
    /\ pc[c] = "cache"
    /\ cache' \in {cache, [cache EXCEPT ![Q(c).subject] = inHand[c]]}
    /\ answer' = [answer EXCEPT ![c] = Opinion("verified", None, inHand[c])]
    /\ Go(c, "deliver")
    /\ UNCHANGED <<fixed, limiter, tokens, locks, upstream, tries, inHand>>

Cache(c) ==
    /\ pc[c] = "cache"
    /\ \/ /\ cache' = [cache EXCEPT ![Q(c).subject] = inHand[c]]
          /\ answer' = [answer EXCEPT ![c] = Opinion("verified", None, inHand[c])]
          /\ Go(c, "deliver") /\ UNCHANGED <<tries, inHand>>
       \/ StoreFaults /\ GiveUp(c)
    /\ UNCHANGED <<fixed, limiter, tokens, locks, upstream>>

Fallback(c) ==
    LET rev == cache[Q(c).subject] IN
    /\ pc[c] = "fallback"
    /\ \/ /\ answer' = [answer EXCEPT ![c] =
                          IF rev = 0 THEN LastResort("SAFE_DEFAULT_FALLBACK")
                          ELSE Opinion("degraded", "CACHED_TRUST_FALLBACK", rev)]
          /\ Go(c, "deliver")
       \/ StoreFaults /\ Fail(c, "STORE")
    /\ UNCHANGED <<fixed, limiter, tokens, locks, asking, upstream>>

\* The route reduces the verdict and records it in the war room, whose store may
\* throw although the call is billed and finished.  RPC callers get it as it is.
Deliver(c) ==
    /\ pc[c] = "deliver"
    /\ \/ /\ answer' = IF Q(c).door = "rpc" THEN answer
                        ELSE [answer EXCEPT ![c] = [@ EXCEPT !.route = Route(answer[c].decision),
                                                                  !.risk = Risk(answer[c].score)]]
          /\ Go(c, "done")
       \/ Q(c).door = "http" /\ StoreFaults /\ Fail(c, "STORE")
    /\ UNCHANGED <<fixed, limiter, tokens, locks, asking, upstream>>

-----------------------------------------------------------------------------
(* Everything else *)

Tick ==
    /\ now < workload.maxNow
    /\ now' = now + 1
    /\ UNCHANGED <<workload, crashes, since, receipts, pc, answer, limiter, tokens, locks, asking, upstream>>

\* Ten seconds after it was taken.
Lapse(s) ==
    /\ Taken(s)
    /\ lock' = [lock EXCEPT ![s].lapsed = TRUE]
    /\ UNCHANGED <<fixed, holding, pc, answer, limiter, tokens, asking, upstream>>

\* The trust API changes its opinion, or the passport is revoked there.
Revise(s) ==
    /\ s \in workload.changing /\ opinion[s] < Newest
    /\ opinion' = [opinion EXCEPT ![s] = @ + 1]
    /\ UNCHANGED <<fixed, locks, pc, answer, limiter, tokens, asking, passport, createdBy>>

Revoke(s) ==
    /\ s \in workload.changing /\ passport[s] = "active"
    /\ passport' = [passport EXCEPT ![s] = "revoked"]
    /\ UNCHANGED <<fixed, locks, pc, answer, limiter, tokens, asking, opinion, createdBy>>

\* An instance restarts: its calls are lost, and with the memory driver, which
\* is only allowed to a single instance, the counters.
Crash(i) ==
    /\ crashes < workload.maxCrashes
    /\ crashes' = crashes + 1
    /\ pc' = [c \in Calls |-> IF Q(c) # None /\ Q(c).instance = i /\ pc[c] \notin {"idle", "done"}
                              THEN "dead" ELSE pc[c]]
    /\ IF Settings.driver = "memory" THEN counters' = <<>> /\ lastMinute' = None
       ELSE UNCHANGED <<counters, lastMinute>>
    /\ UNCHANGED <<workload, now, since, receipts, answer, entered, tokens, locks, asking, upstream>>

Step(c) ==
    \/ Hit(c)
    \/ CheckToken(c) \/ CheckSession(c) \/ SaveSession(c)
    \/ LookupCaller(c) \/ Register(c) \/ ConfirmCaller(c)
    \/ Pay(c) \/ Verify(c) \/ Reserve(c) \/ Settle(c)
    \/ LookupTarget(c) \/ Lock(c) \/ Wait(c) \/ Recheck(c)
    \/ Create(c) \/ ConfirmTarget(c) \/ Release(c)
    \/ Ask(c) \/ Cache(c) \/ Fallback(c) \/ Deliver(c)

Instances == {Q(c).instance : c \in {d \in Calls : Q(d) # None}}

Next ==
    \/ \E c \in Calls : Begin(c) \/ Step(c)
    \/ \E s \in Subjects : Lapse(s) \/ Revise(s) \/ Revoke(s)
    \/ Tick
    \/ \E i \in Instances : Crash(i)

Spec == Init /\ [][Next]_vars

\* A call in flight goes on: every await ends, if only by failing.
FairSpec == Spec /\ \A c \in Calls : WF_vars(Step(c))

-----------------------------------------------------------------------------
(* Properties *)

Stages == {"limit", "token", "session", "save", "caller", "register", "confirmed", "pay", "verify",
           "reserve", "settle", "target", "lock", "wait", "recheck", "create", "created", "release", "ask", "cache", "fallback",
           "deliver"}

\* Every variable has a value of the shape the program gives it.
TypeOK ==
    /\ now \in 0..workload.maxNow
    /\ pc \in [Calls -> Stages \cup {"idle", "done", "dead"}]
    /\ \A c \in Calls : answer[c].kind \in {"none", "verdict", "error"}
    /\ \A i \in DOMAIN counters : counters[i].key \in RateKeys /\ counters[i].count \in 1..Cardinality(Calls)
    /\ \A x \in Sessions : sessions[x] # None => sessions[x].session = x
    /\ \A s \in Subjects : lock[s] # None => lock[s].owner \in Calls
    /\ holding \subseteq Calls /\ passed \subseteq Calls
    /\ tries \in [Calls -> 0..Attempts]
    /\ inHand \in [Calls -> 0..Newest] /\ cache \in [Subjects -> 0..Newest]
    /\ opinion \in [Subjects -> 1..Newest]
    /\ passport \in [Subjects -> {"none", "active", "revoked"}]
    /\ crashes \in 0..workload.maxCrashes

\* A rate key gets no more calls past the limiter in a minute than the limit.
\* The memory driver may forget some of them, but only if the process restarted
\* or more keys called in that minute than it keeps counters for.
Admitted(m) == {c \in Calls : entered[c] = m /\ m # None}

LimitHolds ==
    \A m \in {entered[c] : c \in Calls} :
        \/ \A k \in RateKeys : Cardinality({c \in Admitted(m) : Q(c).key = k}) <= Limit
        \/ /\ Settings.driver = "memory"
           /\ \/ crashes > 0
              \/ Cardinality({Q(c).key : c \in Admitted(m)}) > MaxTracked

\* Two tokens may both claim a session while it has no row: the reads and the
\* write of validate are separate awaits.  Of these, one is token j.
Claimants(x) == {c \in passed : Q(c).token.session = x /\ x \notin since[c].bound}

Contested(x, j) ==
    \E c, d \in Claimants(x) : Q(c).token.jti = j /\ Q(d).token.jti # j

\* A session does not pass from one token to another, unless both claimed it
\* while it had no row.
SessionKeepsToken ==
    [][\A x \in Sessions : \A old \in {sessions[x]} \ {None} :
        sessions'[x].jti # old.jti => Contested(x, old.jti)']_vars

\* A token whose session had run out when the call began is of no use, although
\* the token by itself is accepted for one clock skew longer, unless another
\* token has taken the row of that session.
SessionEnds ==
    \A c \in passed : since[c].over => \E x \in Sessions : Contested(x, Q(c).token.jti)

Verdicts == {c \in Calls : answer[c].kind = "verdict"}

Because(reason) == {c \in Verdicts : answer[c].reason = reason}

FailedWith(code) == {c \in Calls : answer[c].kind = "error" /\ answer[c].code = code}

\* A verdict called verified is no older than the call: the trust API held that
\* opinion, and the passport stood, at some time after the call began.
VerifiedIsFresh ==
    \A c \in {d \in Verdicts : answer[d].mode = "verified"} :
        /\ answer[c].rev >= since[c].rev[Q(c).subject]
        /\ since[c].passport[Q(c).subject] # "revoked"

\* The made-up verdict is a last resort: it is not given about a subject of whom
\* any call had a verified one before this call began.
DefaultIsLastResort ==
    \A c \in Because("SAFE_DEFAULT_FALLBACK") : Q(c).subject \notin since[c].told

\* Only a subject without a passport when the call began is answered as one just
\* bootstrapped, and it has one now; only such a caller is refused for a
\* conflicting registration.
NewcomersWereUnknown ==
    /\ \A c \in Because("AUTO_BOOTSTRAPPED_SUBJECT") :
           since[c].passport[Q(c).subject] = "none" /\ Exists(Q(c).subject)
    /\ \A c \in FailedWith("CONFLICT") : since[c].passport[Q(c).agent.subject] = "none"

\* A call that is over has not kept the bootstrap lock, unless releasing it threw.
LockIsReleased ==
    \A s \in Subjects : lock[s] # None =>
        pc[lock[s].owner] # "done" \/ lock[s].owner \in FailedWith("STORE")

\* However headers, body and configuration put a payment together, a call over
\* the route that was paid with a signed payload was signed for the receiver it is
\* booked for, in the server's asset and for no less than the price it asks; with
\* the provider cdp, for no less than a price the payment names.  It is booked on
\* the network that was signed, unless the body names another configured one, and
\* in production that is the main network.  (Over RPC the client's own terms are
\* verified.)
PaidAsBooked ==
    \A c \in Calls :
        receipts[c] # None /\ Q(c).door = "http" /\ Due(c).payload # None =>
            LET signed == Due(c).payload.signed IN
            /\ signed.payTo = receipts[c].payTo
            /\ signed.asset = Settings.address
            /\ signed.amount >= HeldTo(Settings, Due(c), 1)
            /\ signed.network = Settings.networks[1]
            /\ receipts[c].network \in {signed.network, NormalNetwork(Due(c).network)}
            /\ Production(Settings) =>
                  receipts[c].network = Mainnet /\ signed.network = Mainnet

\* A caller is told what its answer's mode says.
AnswersAreHonest == VerifiedIsFresh /\ DefaultIsLastResort

\* Creations of passports by calls in flight at once neither mislead nor block.
BootstrapIsOrderly == NewcomersWereUnknown /\ LockIsReleased

\* Every call that begins is answered, unless its instance restarts.
EveryCallIsAnswered ==
    \A c \in Calls : (pc[c] # "idle") ~> (pc[c] \in {"done", "dead"})
=============================================================================
