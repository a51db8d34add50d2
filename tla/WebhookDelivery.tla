-------------------------- MODULE WebhookDelivery --------------------------
(***************************************************************************)
(* The webhooks of the trust API (apps/api/lib/platform.mjs): emitEvent    *)
(* hands an event to every registered webhook that matches it, each        *)
(* delivery is a row of webhook_deliveries and at most one live thing of   *)
(* the process, a fetch in flight or a retry timer.  The rows survive the  *)
(* process (apps/api/server.mjs), the fetches and the timers do not.  The  *)
(* database is SQLite, so that a handler runs undisturbed up to its fetch. *)
(***************************************************************************)
EXTENDS Naturals, Sequences

CONSTANTS
    Webhooks,    \* webhooks, identified by their URL
    Events,      \* events a request of the API emits, and their aliases
    AliasOf,     \* the second event emitted with an event, or None
    None,
    MatchedBy,   \* the webhooks whose types and subjects cover an event
    MaxOf,       \* max_attempts of a webhook: 1 to 8
    StoreFaults, \* whether a statement of the database may throw
    MaxCrashes   \* bound: how often the process is stopped or killed

ASSUME WebhookAssumption ==
    /\ None \notin Events
    /\ AliasOf \in [Events -> Events \cup {None}]
    /\ \A e, f \in Events : AliasOf[e] = AliasOf[f] /\ AliasOf[e] # None => e = f
    /\ MatchedBy \in [Events -> SUBSET Webhooks]
    /\ MaxOf \in [Webhooks -> Nat \ {0}]
    /\ StoreFaults \in BOOLEAN
    /\ MaxCrashes \in Nat

VARIABLES
    active,   \* table webhooks, in the order of created_at
    emitted,  \* table trust_events
    row,      \* table webhook_deliveries: status and attempt_count
    live,     \* what the process has under way for a delivery
    try,      \* the attempt that fetch is making, or that timer will make
    closing,  \* shutdown has been called and the process will exit
    crashes,  \* bounded by MaxCrashes
    posts,    \* history: requests sent for a delivery
    acked,    \* history: deliveries whose receiver answered 2xx
    misread,  \* history: acknowledged ones the store failed to record so
    lost      \* history: deliveries that were open when a process ended

webhookVars == <<active, emitted>>
historyVars == <<posts, acked, misread, lost>>
vars == <<webhookVars, row, live, try, closing, crashes, historyVars>>

Deliveries == Events \X Webhooks

Statuses == {"none", "pending", "retry_scheduled", "succeeded", "failed"}
Row(status, count) == [status |-> status, count |-> count]
Open(r) == r.status \in {"pending", "retry_scheduled"}

Init ==
    /\ active = <<>>
    /\ emitted = {}
    /\ row = [d \in Deliveries |-> Row("none", 0)]
    /\ live = [d \in Deliveries |-> "none"]
    /\ try = [d \in Deliveries |-> 1]
    /\ closing = FALSE
    /\ crashes = 0
    /\ posts = [d \in Deliveries |-> 0]
    /\ acked = {}
    /\ misread = {}
    /\ lost = {}

(***************************************************************************)
(* createWebhook refuses a URL that is registered already.                 *)
(***************************************************************************)
Register(w) ==
    /\ \A i \in DOMAIN active : active[i] # w
    /\ active' = Append(active, w)
    /\ UNCHANGED <<emitted, row, live, try, closing, crashes, historyVars>>

(***************************************************************************)
(* emitEvent and dispatchWebhooks.  The webhooks are served in order, a    *)
(* row and a first request each; a statement that throws ends the loop,    *)
(* and with it the alias event, whose turn comes after the event's.        *)
(***************************************************************************)
Served(e, n) == {active[i] : i \in 1 .. n} \cap MatchedBy[e]

Dispatch(ds) ==
    /\ row' = [d \in Deliveries |-> IF d \in ds THEN Row("pending", 0) ELSE row[d]]
    /\ live' = [d \in Deliveries |-> IF d \in ds THEN "fetch" ELSE live[d]]
    /\ posts' = [d \in Deliveries |-> IF d \in ds THEN posts[d] + 1 ELSE posts[d]]
    /\ UNCHANGED <<active, try, closing, crashes, acked, misread, lost>>

EmitPlain(e) ==
    /\ \E n \in 0 .. Len(active) :
          /\ n < Len(active) => StoreFaults
          /\ Dispatch({e} \X Served(e, n))
    /\ emitted' = emitted \cup {e}

EmitWithAlias(e) ==
    /\ AliasOf[e] # None
    /\ \E n \in 0 .. Len(active) :
          /\ n < Len(active) => StoreFaults
          /\ Dispatch(   ({e} \X Served(e, Len(active)))
                    \cup ({AliasOf[e]} \X Served(AliasOf[e], n)))
    /\ emitted' = emitted \cup {e, AliasOf[e]}

Emit(e) ==
    /\ e \notin emitted
    /\ \A f \in Events : AliasOf[f] # e
    /\ \/ /\ AliasOf[e] = None \/ StoreFaults
          /\ EmitPlain(e)
       \/ EmitWithAlias(e)

(***************************************************************************)
(* deliverWebhook, from the answer of the receiver on.                     *)
(***************************************************************************)
\* A bug: one attempt too many.
ShouldRetryOnceMore(d) == try[d] <= MaxOf[d[2]]

ShouldRetry(d) == try[d] < MaxOf[d[2]]

\* The row the catch block writes.
Attempted(d) ==
    Row(IF ShouldRetry(d) THEN "retry_scheduled" ELSE "failed", try[d])

\* A bug: the row promises a retry that nobody schedules.
ScheduleRetryOnPaper(d) ==
    /\ live' = [live EXCEPT ![d] = "none"]
    /\ UNCHANGED try

ScheduleRetry(d) ==
    IF ShouldRetry(d)
    THEN /\ live' = [live EXCEPT ![d] = "timer"]
         /\ try' = [try EXCEPT ![d] = @ + 1]
    ELSE /\ live' = [live EXCEPT ![d] = "none"]
         /\ UNCHANGED try

\* The catch block, entered with the row as r.  A throw in it rejects the
\* promise nobody awaits, and the process shuts down.
Caught(d, r) ==
    \/ /\ row' = [row EXCEPT ![d] = Attempted(d)]
       /\ ScheduleRetry(d)
       /\ UNCHANGED closing
    \/ /\ StoreFaults
       /\ row' \in {[row EXCEPT ![d] = r], [row EXCEPT ![d] = Attempted(d)]}
       /\ live' = [live EXCEPT ![d] = "none"]
       /\ closing' = TRUE
       /\ UNCHANGED try

\* A bug: a retry is scheduled whatever the answer was.
DeliveredAndRetried(d) ==
    /\ live[d] = "fetch"
    /\ row' = [row EXCEPT ![d] = Row("succeeded", try[d])]
    /\ ScheduleRetry(d)
    /\ acked' = acked \cup {d}
    /\ UNCHANGED <<webhookVars, closing, crashes, posts, misread, lost>>

\* The answer is 2xx and is recorded.
Delivered(d) ==
    /\ live[d] = "fetch"
    /\ row' = [row EXCEPT ![d] = Row("succeeded", try[d])]
    /\ live' = [live EXCEPT ![d] = "none"]
    /\ acked' = acked \cup {d}
    /\ UNCHANGED <<webhookVars, try, closing, crashes, posts, misread, lost>>

\* The answer is 2xx, and then the update of the row throws, or after it the
\* event about the success: both inside the try block.
DeliveredUnrecorded(d) ==
    /\ StoreFaults
    /\ live[d] = "fetch"
    /\ acked' = acked \cup {d}
    /\ misread' = misread \cup {d}
    /\ \E r \in {row[d], Row("succeeded", try[d])} : Caught(d, r)
    /\ UNCHANGED <<webhookVars, crashes, posts, lost>>

\* A bug: any answer counts as a delivery, response.ok is not looked at.
UndeliveredTaken(d) ==
    /\ live[d] = "fetch"
    /\ row' = [row EXCEPT ![d] = Row("succeeded", try[d])]
    /\ live' = [live EXCEPT ![d] = "none"]
    /\ UNCHANGED <<webhookVars, try, closing, crashes, historyVars>>

\* The fetch fails, or the answer is another one.
Undelivered(d) ==
    /\ live[d] = "fetch"
    /\ Caught(d, row[d])
    /\ UNCHANGED <<webhookVars, crashes, historyVars>>

\* A bug: the timer sets the next timer, and the request is never made.
TimerFiresIdly(d) ==
    /\ live[d] = "timer"
    /\ live' = [live EXCEPT ![d] = "timer"]
    /\ UNCHANGED <<webhookVars, row, try, closing, crashes, historyVars>>

TimerFires(d) ==
    /\ live[d] = "timer"
    /\ live' = [live EXCEPT ![d] = "fetch"]
    /\ posts' = [posts EXCEPT ![d] = @ + 1]
    /\ UNCHANGED <<webhookVars, row, try, closing, crashes, acked, misread, lost>>

(***************************************************************************)
(* The process ends and another one starts: nothing reads the rows again.  *)
(***************************************************************************)
Restart ==
    /\ live' = [d \in Deliveries |-> "none"]
    /\ lost' = lost \cup {d \in Deliveries : Open(row[d])}
    /\ closing' = FALSE
    /\ UNCHANGED <<webhookVars, row, try, posts, acked, misread>>

\* A signal, or a throw that nobody catches.
Shutdown ==
    /\ closing' = TRUE
    /\ UNCHANGED <<webhookVars, row, live, try, crashes, historyVars>>

Exit ==
    /\ closing
    /\ Restart
    /\ UNCHANGED crashes

Crash ==
    /\ crashes < MaxCrashes
    /\ crashes' = crashes + 1
    /\ Restart

Answer(d) == Delivered(d) \/ DeliveredUnrecorded(d) \/ Undelivered(d)

Next ==
    \/ \E w \in Webhooks : Register(w)
    \/ \E e \in Events : Emit(e)
    \/ \E d \in Deliveries : Answer(d) \/ TimerFires(d)
    \/ Shutdown
    \/ Exit
    \/ Crash

Spec == Init /\ [][Next]_vars

(***************************************************************************)
(* A fetch ends with an answer or an error (undici gives up after its      *)
(* header timeout), timers fire, and shutdown exits within five seconds.   *)
(***************************************************************************)
Fairness ==
    /\ \A d \in Deliveries : WF_vars(Answer(d)) /\ WF_vars(TimerFires(d))
    /\ WF_vars(Exit)

FairSpec == Spec /\ Fairness

-----------------------------------------------------------------------------
\* Types; and no delivery makes more attempts than its webhook allows.
TypeOK ==
    /\ active \in Seq(Webhooks)
    /\ emitted \subseteq Events
    /\ row \in [Deliveries -> [status : Statuses, count : Nat]]
    /\ live \in [Deliveries -> {"none", "fetch", "timer"}]
    /\ try \in [Deliveries -> Nat]
    /\ closing \in BOOLEAN
    /\ crashes \in 0 .. MaxCrashes
    /\ posts \in [Deliveries -> Nat]
    /\ acked \subseteq Deliveries
    /\ misread \subseteq Deliveries
    /\ lost \subseteq Deliveries
    /\ \A d \in Deliveries : posts[d] <= MaxOf[d[2]]

\* A delivery the table shows as pending or due for a retry is being worked
\* on by the process, unless the process is about to exit or the delivery was
\* orphaned by one that did.  Conversely nothing works on a closed delivery.
NobodyForgotten ==
    \A d \in Deliveries :
        IF Open(row[d])
        THEN live[d] # "none" \/ closing \/ d \in lost
        ELSE live[d] = "none"

\* What the table says in the end is what happened: a success was
\* acknowledged, a failure came after every allowed attempt and without an
\* acknowledgement the store took note of, and attempt_count is the number of
\* requests the receiver was sent.
BookedAsHappened ==
    \A d \in Deliveries :
        /\ row[d].status = "succeeded" => d \in acked
        /\ row[d].status = "failed" =>
              /\ d \in acked => d \in misread
              /\ row[d].count = MaxOf[d[2]]
        /\ row[d].status \in {"succeeded", "failed"} => row[d].count = posts[d]

\* A receiver that has acknowledged a delivery is not sent it again, unless
\* recording the acknowledgement failed.
AckIsFinal ==
    [][\A d \in acked \ misread : posts'[d] = posts[d]]_vars

\* Every delivery is closed in the end, or orphaned by a restart.
EveryDeliveryEnds ==
    \A d \in Deliveries :
        Open(row[d]) ~> (~ Open(row[d]) \/ d \in lost)
=============================================================================
