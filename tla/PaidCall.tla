------------------------------ MODULE PaidCall ------------------------------
(***************************************************************************)
(* One paid tool call of the MCP adapter, from the idempotency key to the  *)
(* stored answer: McpServer.executeTool (transport/mcp-server.mjs), the    *)
(* billing it does through EntitlementService.authorizeAndBill             *)
(* (payments/entitlements.mjs) and the SQLite StateStore                   *)
(* (storage/state-store.mjs), whose methods are synchronous and therefore  *)
(* single steps here.  Every await of the code is a point where the other  *)
(* calls, the reconciler or a crash may run.                               *)
(***************************************************************************)
EXTENDS Integers, FiniteSets, ReceiptStatus

CONSTANTS
    Calls,       \* invocations of executeTool: each arrives at most once
    Keys,        \* idempotency keys
    Payloads,    \* request hashes: the arguments without key and timestamp
    Payments,    \* payment authorisations, identified by their nonce
    Payers,
    Refs,        \* verifier references and proof ids
    PaymentOf,   \* the payment a payload carries
    PayerOf,     \* the payer the verifier reports for a payment
    RefOf,       \* the reference the verifier reports for it, or None
    None,        \* the null of every column and field
    LimitOf,     \* the payer's spend limit, in units: the one the payload states,
                 \* or else the configured daily limit
    StoreFaults, \* whether a store call after the reservation may throw
    Expiring     \* payments whose replay window may end while the system runs

ASSUME ConstantsAssumption ==
    /\ PaymentOf \in [Payloads -> Payments]
    /\ PayerOf \in [Payments -> Payers]
    /\ None \notin Calls \cup Keys \cup Payloads \cup Refs
    /\ RefOf \in [Payments -> Refs \cup {None}]
    /\ LimitOf \in [Payloads -> Nat]
    /\ StoreFaults \in BOOLEAN
    /\ Expiring \subseteq Payments

ASSUME CallsAssumption == IsFiniteSet(Calls)

VARIABLES
    pc,       \* where each call is in executeTool
    key,      \* its idempotency key, set when it arrives
    payload,  \* its request hash
    reply,    \* what its caller was told
    source,   \* the call whose execution that answer comes from
    idem,     \* table paid_idempotency
    replay,   \* table replay_nonces: the row of each payment
    receipt,  \* table payment_receipts: the receipt each call created
    billed,   \* calls that hold the billing object authorizeAndBill returned
    usage,    \* table tool_usage_ledger: the row of each call
    ledger,   \* calls with a "paid" row in the billing ledger
    logged,   \* calls with a status 200 row in the request log
    seen,     \* receipts the running reconciliation listed and has yet to visit
    undone,   \* history: calls whose receipt the adapter marked failed
    lapsed    \* history: payments whose replay row has outlived its window

callVars  == <<pc, key, payload, reply, source>>
storeVars == <<idem, replay, receipt, usage, ledger, logged>>
vars == <<callVars, storeVars, billed, seen, undone, lapsed>>

-----------------------------------------------------------------------------
(* Types *)

NoRecord == [status |-> "unused"]

Records == [status: {"open", "success", "failed"}, payload: Payloads,
            owner: Calls, linked: BOOLEAN]

PCs == {"idle", "admit", "reserve", "settle", "run", "undo", "undone", "usage",
        "ledger", "log", "finish", "fail", "report", "done", "dead"}

Replies == {"none", "rejected", "conflict", "busy", "refused", "success", "failed"}

TypeOK ==
    /\ pc \in [Calls -> PCs]
    /\ key \in [Calls -> Keys \cup {None}]
    /\ payload \in [Calls -> Payloads \cup {None}]
    /\ reply \in [Calls -> Replies]
    /\ source \in [Calls -> Calls \cup {None}]
    /\ idem \in [Keys -> Records \cup {NoRecord}]
    /\ replay \in [Payments -> {"absent", "live", "expired"}]
    /\ receipt \in [Calls -> Statuses \cup {"none"}]
    /\ billed \subseteq Calls
    /\ usage \in [Calls -> {"none", "accepted", "failed"}]
    /\ ledger \subseteq Calls
    /\ logged \subseteq Calls
    /\ seen \subseteq Calls
    /\ undone \subseteq Calls
    /\ lapsed \subseteq Payments

Init ==
    /\ pc = [c \in Calls |-> "idle"]
    /\ key = [c \in Calls |-> None]
    /\ payload = [c \in Calls |-> None]
    /\ reply = [c \in Calls |-> "none"]
    /\ source = [c \in Calls |-> None]
    /\ idem = [k \in Keys |-> NoRecord]
    /\ replay = [p \in Payments |-> "absent"]
    /\ receipt = [c \in Calls |-> "none"]
    /\ billed = {}
    /\ usage = [c \in Calls |-> "none"]
    /\ ledger = {}
    /\ logged = {}
    /\ seen = {}
    /\ undone = {}
    /\ lapsed = {}

-----------------------------------------------------------------------------
(* Helpers *)

Payment(c) == PaymentOf[payload[c]]
Payer(c) == PayerOf[Payment(c)]

\* What the unique indexes of replay_nonces compare.
SameReference(p, q) == RefOf[p] # None /\ RefOf[p] = RefOf[q]
SameIdentity(p, q) == p = q \/ SameReference(p, q)

\* Calls that have created a receipt.
Receipted == {c \in Calls : receipt[c] # "none"}

\* A faulty Replayed that trusts the replay table alone.
ReplayedInTable(c) ==
    \E p \in Payments : replay[p] = "live" /\ SameIdentity(p, Payment(c))

\* A row of the replay table, or a receipt, already holds c's identity.
Replayed(c) ==
    \/ \E p \in Payments : replay[p] = "live" /\ SameIdentity(p, Payment(c))
    \/ \E d \in Receipted : SameReference(Payment(d), Payment(c))

\* The receipts spendByDay sums for payer.
Counted(payer) ==
    {c \in Receipted : receipt[c] \in CountedStatuses /\ Payer(c) = payer}

\* A faulty OverLimit that does not count the provisional receipts.
OverLimitOfSettled(c) ==
    Cardinality({d \in Counted(Payer(c)) : receipt[d] = "settled"}) + 1
        > LimitOf[payload[c]]

\* TOOL_PRICING meters resolve_trust at one unit per call.
OverLimit(c) == Cardinality(Counted(Payer(c))) + 1 > LimitOf[payload[c]]

Goto(c, to) == pc' = [pc EXCEPT ![c] = to]

Answer(c, kind, by) ==
    /\ reply' = [reply EXCEPT ![c] = kind]
    /\ source' = [source EXCEPT ![c] = by]

-----------------------------------------------------------------------------
(* The idempotency guard *)

Arrives(c, k, p) ==
    /\ pc[c] = "idle"
    /\ key' = [key EXCEPT ![c] = k]
    /\ payload' = [payload EXCEPT ![c] = p]

\* Invalid input, a timestamp outside its window or a failed key insert.
Reject(c) ==
    /\ pc[c] = "idle"
    /\ Answer(c, "rejected", None)
    /\ Goto(c, "report")
    /\ UNCHANGED <<key, payload, storeVars, billed, seen, undone, lapsed>>

\* A faulty OpenKey that takes over a key whose owner has not answered.
OpenKeyInUse(c, k, p) ==
    /\ Arrives(c, k, p)
    /\ idem[k].status \in {"unused", "open"}
    /\ idem' = [idem EXCEPT ![k] =
                  [status |-> "open", payload |-> p, owner |-> c, linked |-> FALSE]]
    /\ Goto(c, "admit")
    /\ UNCHANGED <<reply, source, replay, receipt, usage, ledger, logged,
                   billed, seen, undone, lapsed>>

\* A faulty OpenKey that lets a client retry a failed key.
OpenKeyAgain(c, k, p) ==
    /\ Arrives(c, k, p)
    /\ idem[k].status \in {"unused", "failed"}
    /\ idem' = [idem EXCEPT ![k] =
                  [status |-> "open", payload |-> p, owner |-> c, linked |-> FALSE]]
    /\ Goto(c, "admit")
    /\ UNCHANGED <<reply, source, replay, receipt, usage, ledger, logged,
                   billed, seen, undone, lapsed>>

OpenKey(c, k, p) ==
    /\ Arrives(c, k, p)
    /\ idem[k] = NoRecord
    /\ idem' = [idem EXCEPT ![k] =
                  [status |-> "open", payload |-> p, owner |-> c, linked |-> FALSE]]
    /\ Goto(c, "admit")
    /\ UNCHANGED <<reply, source, replay, receipt, usage, ledger, logged,
                   billed, seen, undone, lapsed>>

KeyConflict(c, k, p) ==
    /\ Arrives(c, k, p)
    /\ idem[k] # NoRecord
    /\ idem[k].payload # p
    /\ Answer(c, "conflict", None)
    /\ Goto(c, "report")
    /\ UNCHANGED <<storeVars, billed, seen, undone, lapsed>>

KeyBusy(c, k, p) ==
    /\ Arrives(c, k, p)
    /\ idem[k].status = "open"
    /\ idem[k].payload = p
    /\ Answer(c, "busy", None)
    /\ Goto(c, "report")
    /\ UNCHANGED <<storeVars, billed, seen, undone, lapsed>>

\* A faulty ServeCached that does not look whether the answer is there.
ServeCachedEarly(c, k, p) ==
    /\ Arrives(c, k, p)
    /\ idem[k] # NoRecord
    /\ idem[k].payload = p
    /\ Answer(c, idem[k].status, idem[k].owner)
    /\ Goto(c, IF idem[k].status = "success" THEN "done" ELSE "report")
    /\ UNCHANGED <<storeVars, billed, seen, undone, lapsed>>

\* A faulty ServeCached that does not compare the payloads.
ServeCachedToAnyone(c, k, p) ==
    /\ Arrives(c, k, p)
    /\ idem[k].status \in {"success", "failed"}
    /\ Answer(c, idem[k].status, idem[k].owner)
    /\ Goto(c, IF idem[k].status = "success" THEN "done" ELSE "report")
    /\ UNCHANGED <<storeVars, billed, seen, undone, lapsed>>

ServeCached(c, k, p) ==
    /\ Arrives(c, k, p)
    /\ idem[k].status \in {"success", "failed"}
    /\ idem[k].payload = p
    /\ Answer(c, idem[k].status, idem[k].owner)
    /\ Goto(c, IF idem[k].status = "success" THEN "done" ELSE "report")
    /\ UNCHANGED <<storeVars, billed, seen, undone, lapsed>>

\* The rate limiter, the entitlement token or the caller resolution throws
\* outside the try block: nothing finalises the key.
Refuse(c) ==
    /\ pc[c] = "admit"
    /\ Answer(c, "refused", None)
    /\ Goto(c, "report")
    /\ UNCHANGED <<key, payload, storeVars, billed, seen, undone, lapsed>>

-----------------------------------------------------------------------------
(* Billing *)

\* Asset and network checks, and the verifier's verdict (its timeouts are
\* refusals).
Unverified(c) ==
    /\ pc[c] = "admit"
    /\ Goto(c, "fail")
    /\ UNCHANGED <<key, payload, reply, source, storeVars, billed, seen, undone, lapsed>>

Verified(c) ==
    /\ pc[c] = "admit"
    /\ Goto(c, "reserve")
    /\ UNCHANGED <<key, payload, reply, source, storeVars, billed, seen, undone, lapsed>>

\* reservePaidOperation commits: expired rows go, the new row and the
\* receipt come in one transaction.
ReservePayment(c) ==
    /\ pc[c] = "reserve"
    /\ ~Replayed(c)
    /\ ~OverLimit(c)
    /\ replay' = [p \in Payments |->
                    IF p = Payment(c) THEN "live"
                    ELSE IF replay[p] = "expired" THEN "absent" ELSE replay[p]]
    /\ receipt' = [receipt EXCEPT ![c] = "verified"]
    /\ Goto(c, "settle")
    /\ UNCHANGED <<key, payload, reply, source, idem, usage, ledger, logged,
                   billed, seen, undone, lapsed>>

\* reservePaidOperation rolls back.
RefuseReservation(c) ==
    /\ pc[c] = "reserve"
    /\ Replayed(c) \/ OverLimit(c)
    /\ Goto(c, "fail")
    /\ UNCHANGED <<key, payload, reply, source, storeVars, billed, seen, undone, lapsed>>

\* The settle call never blocks the tool: its failure is logged and dropped.
SettlePayment(c) ==
    /\ pc[c] = "settle"
    /\ billed' = billed \cup {c}
    /\ Goto(c, "run")
    /\ UNCHANGED <<key, payload, reply, source, storeVars, seen, undone, lapsed>>

-----------------------------------------------------------------------------
(* The tool and the books *)

ToolSucceeds(c) ==
    /\ pc[c] = "run"
    /\ Goto(c, "usage")
    /\ UNCHANGED <<key, payload, reply, source, storeVars, billed, seen, undone, lapsed>>

\* A faulty ToolFails that leaves the receipt as it is.
ToolFailsUnnoticed(c) ==
    /\ pc[c] = "run"
    /\ Goto(c, "fail")
    /\ UNCHANGED <<key, payload, reply, source, storeVars, billed, seen, undone, lapsed>>

ToolFails(c) ==
    /\ pc[c] = "run"
    /\ Goto(c, "undo")
    /\ UNCHANGED <<key, payload, reply, source, storeVars, billed, seen, undone, lapsed>>

\* The tool failed: the receipt is marked failed unless it is settled or reversed.
UndoReceipt(c) ==
    /\ pc[c] = "undo"
    /\ receipt' = [receipt EXCEPT ![c] = Updated(@, "failed")]
    /\ undone' = IF receipt'[c] = "failed" THEN undone \cup {c} ELSE undone
    /\ Goto(c, "undone")
    /\ UNCHANGED <<key, payload, reply, source, idem, replay, usage, ledger, logged,
                   billed, seen, lapsed>>

\* A faulty RecordFailedUsage that reports the failure without finalising the key.
RecordFailedUsageOnly(c) ==
    /\ pc[c] = "undone"
    /\ usage' = [usage EXCEPT ![c] = "failed"]
    /\ Goto(c, "report")
    /\ UNCHANGED <<key, payload, reply, source, idem, replay, receipt, ledger, logged,
                   billed, seen, undone, lapsed>>

RecordFailedUsage(c) ==
    /\ pc[c] = "undone"
    /\ usage' = [usage EXCEPT ![c] = "failed"]
    /\ Goto(c, "fail")
    /\ UNCHANGED <<key, payload, reply, source, idem, replay, receipt, ledger, logged,
                   billed, seen, undone, lapsed>>

RecordUsage(c) ==
    /\ pc[c] = "usage"
    /\ usage' = [usage EXCEPT ![c] = "accepted"]
    /\ Goto(c, "ledger")
    /\ UNCHANGED <<key, payload, reply, source, idem, replay, receipt, ledger, logged,
                   billed, seen, undone, lapsed>>

RecordBillingLedger(c) ==
    /\ pc[c] = "ledger"
    /\ ledger' = ledger \cup {c}
    /\ Goto(c, "log")
    /\ UNCHANGED <<key, payload, reply, source, idem, replay, receipt, usage, logged,
                   billed, seen, undone, lapsed>>

RecordRequestLog(c) ==
    /\ pc[c] = "log"
    /\ logged' = logged \cup {c}
    /\ Goto(c, "finish")
    /\ UNCHANGED <<key, payload, reply, source, idem, replay, receipt, usage, ledger,
                   billed, seen, undone, lapsed>>

-----------------------------------------------------------------------------
(* The answer *)

\* A faulty Finalize that stores a success whatever happened.
FinalizeAnyway(c, kind) ==
    idem' = [idem EXCEPT ![key[c]].status = "success", ![key[c]].linked = c \in billed]

\* finalizeIdempotencyKey
Finalize(c, kind) ==
    idem' = [idem EXCEPT ![key[c]].status = kind, ![key[c]].linked = c \in billed]

FinishSuccess(c) ==
    /\ pc[c] = "finish"
    /\ Finalize(c, "success")
    /\ Answer(c, "success", c)
    /\ Goto(c, "done")
    /\ UNCHANGED <<key, payload, replay, receipt, usage, ledger, logged,
                   billed, seen, undone, lapsed>>

FinishFailed(c) ==
    /\ pc[c] = "fail"
    /\ Finalize(c, "failed")
    /\ Answer(c, "failed", c)
    /\ Goto(c, "report")
    /\ UNCHANGED <<key, payload, replay, receipt, usage, ledger, logged,
                   billed, seen, undone, lapsed>>

\* A faulty StoreFault that carries on when the billing ledger cannot be written.
StoreFaultIgnored(c) ==
    /\ StoreFaults
    /\ pc[c] \in {"reserve", "settle", "undo", "undone", "usage", "ledger", "log", "finish"}
    /\ Goto(c, IF pc[c] = "ledger" THEN "log" ELSE "fail")
    /\ UNCHANGED <<key, payload, reply, source, storeVars, billed, seen, undone, lapsed>>

\* A store call of the try block throws.  A call whose reservation committed
\* but whose billing object was never returned falls here as well.
StoreFault(c) ==
    /\ StoreFaults
    /\ pc[c] \in {"reserve", "settle", "undo", "undone", "usage", "ledger", "log", "finish"}
    /\ Goto(c, "fail")
    /\ UNCHANGED <<key, payload, reply, source, storeVars, billed, seen, undone, lapsed>>

\* finalizeIdempotencyKey throws in the catch block.
FinalizeFault(c) ==
    /\ StoreFaults
    /\ pc[c] = "fail"
    /\ Answer(c, "failed", c)
    /\ Goto(c, "report")
    /\ UNCHANGED <<key, payload, storeVars, billed, seen, undone, lapsed>>

\* The error leaves executeTool.  handleRequest (JSON-RPC) then marks the
\* usage row failed; the HTTP route only answers.
ReportByRpc(c) ==
    /\ pc[c] = "report"
    /\ usage' = [usage EXCEPT ![c] = IF @ = "none" THEN @ ELSE "failed"]
    /\ Goto(c, "done")
    /\ UNCHANGED <<key, payload, reply, source, idem, replay, receipt, ledger, logged,
                   billed, seen, undone, lapsed>>

ReportByHttp(c) ==
    /\ pc[c] = "report"
    /\ Goto(c, "done")
    /\ UNCHANGED <<key, payload, reply, source, storeVars, billed, seen, undone, lapsed>>

-----------------------------------------------------------------------------
(* Everything that happens around the calls *)

InFlight(c) == pc[c] \notin {"idle", "done", "dead"}

\* The adapter process dies and is restarted: the tables survive.
Crash ==
    /\ \E c \in Calls : InFlight(c)
    /\ pc' = [c \in Calls |-> IF InFlight(c) THEN "dead" ELSE pc[c]]
    /\ seen' = {}
    /\ billed' = {}
    /\ UNCHANGED <<key, payload, reply, source, storeVars, undone, lapsed>>

\* reconcileOnce lists the provisional receipts (those without a reference
\* it skips) and later visits each with the status the verifier reports.
ListUnsettled ==
    /\ seen = {}
    /\ seen' = {c \in Receipted : receipt[c] = "verified" /\ RefOf[Payment(c)] # None}
    /\ seen' # {}
    /\ UNCHANGED <<callVars, storeVars, billed, undone, lapsed>>

Reconcile(c, word) ==
    /\ c \in seen
    /\ seen' = seen \ {c}
    /\ receipt' = [receipt EXCEPT ![c] = Updated(@, MapSettlement(word))]
    /\ UNCHANGED <<callVars, idem, replay, usage, ledger, logged, billed, undone, lapsed>>

\* The window of a replay row ends.  Bound: once per payment.
ReplayWindowEnds(p) ==
    /\ p \in Expiring
    /\ replay[p] = "live"
    /\ p \notin lapsed
    /\ replay' = [replay EXCEPT ![p] = "expired"]
    /\ lapsed' = lapsed \cup {p}
    /\ UNCHANGED <<callVars, idem, receipt, usage, ledger, logged, billed, seen, undone>>

-----------------------------------------------------------------------------

Arrival(c) ==
    \/ Reject(c)
    \/ \E k \in Keys, p \in Payloads :
           \/ OpenKey(c, k, p)
           \/ KeyConflict(c, k, p)
           \/ KeyBusy(c, k, p)
           \/ ServeCached(c, k, p)

\* What the event loop still owes a call that has arrived.
Proceed(c) ==
    \/ Refuse(c) \/ Unverified(c) \/ Verified(c)
    \/ ReservePayment(c) \/ RefuseReservation(c) \/ SettlePayment(c)
    \/ ToolSucceeds(c) \/ ToolFails(c)
    \/ UndoReceipt(c) \/ RecordFailedUsage(c)
    \/ RecordUsage(c) \/ RecordBillingLedger(c) \/ RecordRequestLog(c)
    \/ FinishSuccess(c) \/ FinishFailed(c)
    \/ StoreFault(c) \/ FinalizeFault(c)
    \/ ReportByRpc(c) \/ ReportByHttp(c)

Next ==
    \/ \E c \in Calls : Arrival(c) \/ Proceed(c)
    \/ Crash
    \/ ListUnsettled
    \/ \E c \in Calls, word \in {"pending", "confirmed", "chargeback"} : Reconcile(c, word)
    \/ \E p \in Payments : ReplayWindowEnds(p)

Spec == Init /\ [][Next]_vars

\* Upstream and verifier calls have timeouts and promises are always resumed.
FairSpec == Spec /\ \A c \in Calls : WF_vars(Proceed(c))

-----------------------------------------------------------------------------
(* Properties *)

\* However often a client repeats a key, and whatever payloads it sends under
\* it, at most one call creates a receipt for it (reserveIdempotencyKey is the
\* only gate in front of the billing).
OneReceiptPerKey ==
    \A c, d \in Receipted : key[c] = key[d] => c = d

\* A payment buys one call: two receipts never share a verifier reference or
\* proof id, and share a nonce only if its replay row has outlived the window.
OneReceiptPerPayment ==
    \A c, d \in Receipted :
        c # d => /\ ~SameReference(Payment(c), Payment(d))
                 /\ Payment(c) = Payment(d) => Payment(c) \in lapsed

\* Concurrent reservations never push a payer past its limit: among any receipts
\* that count against it is one whose request allowed that many.  Receipts of
\* failed calls that the verifier settled after all are excepted.
Allowed(S) == \E c \in S : Cardinality(S) <= LimitOf[payload[c]]

SpendWithinLimit ==
    \A payer \in Payers :
        \A S \in SUBSET (Counted(payer) \ undone) : S # {} => Allowed(S)

\* A caller told "success", from the execution or from the cache, can find the
\* receipt, the usage row, the ledger row and the log row of the execution that
\* produced the answer, and that execution had the same payload.
SuccessIsBooked ==
    \A c \in Calls : reply[c] = "success" =>
        LET d == source[c] IN
            /\ d \in Receipted
            /\ receipt[d] # "failed"
            /\ usage[d] = "accepted"
            /\ d \in ledger \cap logged
            /\ payload[d] = payload[c]

\* Two callers of a key that are both told how it ended are told the same.
SameKeySameAnswer ==
    \A c, d \in Calls :
        /\ {reply[c], reply[d]} \subseteq {"success", "failed"}
        /\ key[c] = key[d]
        => <<reply[c], source[c], payload[c]>> = <<reply[d], source[d], payload[d]>>

\* Once a caller has been told its call failed, the receipt of the call is not
\* left verified, counting against the payer for want of a settlement.
FailedCallIsReleased ==
    \A c \in Calls : reply[c] = "failed" /\ source[c] = c => receipt[c] # "verified"

\* A failed call does not count as spend.
FailedCallNotCounted ==
    \A c \in Calls :
        reply[c] = "failed" /\ source[c] = c => receipt[c] \notin CountedStatuses

\* An answer, once stored, is the answer for good.
AnswersKept ==
    \A k \in Keys : idem[k].status \in {"success", "failed"} => idem'[k] = idem[k]

AnswersAreFinal == [][AnswersKept]_vars

\* A reconciler that works from a list it took earlier never takes a settled
\* receipt back to verified or failed, nor a reversed one anywhere, nor brings a
\* failed one back to verified.
ReceiptsAdvance ==
    \A c \in Receipted :
        /\ receipt[c] = "settled" => receipt'[c] \in {"settled", "reversed"}
        /\ receipt[c] = "reversed" => receipt'[c] = "reversed"
        /\ receipt[c] = "failed" => receipt'[c] # "verified"

SettlementOnlyAdvances == [][ReceiptsAdvance]_vars

\* "Idempotent request is already in progress" is said only while the call that
\* opened the key is running, or died with its process.
BusyMeansInProgress ==
    [][\A c \in Calls : reply[c] # "busy" /\ reply'[c] = "busy" =>
          LET owner == idem[key'[c]].owner
          IN  InFlight(owner) \/ pc[owner] = "dead"]_vars

\* A call that got as far as billing finalises its key, unless the process dies.
Answered(c) == key[c] # None /\ idem[key[c]].status \in {"success", "failed"}

BilledCallsFinish ==
    \A c \in Calls : pc[c] = "reserve" ~> pc[c] = "dead" \/ Answered(c)

-----------------------------------------------------------------------------
(* The inductive invariant behind the safety properties *)

\* Calls that hold their idempotency key.
Running(c) == pc[c] \notin {"idle", "report", "done", "dead"}

Owns(c) ==
    /\ key[c] \in Keys
    /\ payload[c] \in Payloads
    /\ idem[key[c]] \in Records
    /\ idem[key[c]].owner = c
    /\ idem[key[c]].payload = payload[c]

\* Who runs, or has a receipt, is the owner of the record of its key.
OwnsItsKey(c) ==
    /\ Running(c) \/ c \in Receipted => Owns(c)
    /\ Running(c) => idem[key[c]].status = "open" /\ reply[c] = "none"

Ownership == \A c \in Calls : OwnsItsKey(c)

\* An idle call has no answer, and the receipt exists from the reservation on.
Stages ==
    /\ seen \subseteq Receipted
    /\ \A c \in Calls :
        /\ pc[c] = "idle" => reply[c] = "none"
        /\ pc[c] \in {"idle", "admit", "reserve"} => receipt[c] = "none"
        /\ pc[c] \in {"settle", "run", "undo", "undone", "usage", "ledger", "log", "finish"}
             => receipt[c] # "none"

\* The replay row of a payment outlives its receipt unless its window ends.
ReplayHeld ==
    \A c \in Receipted : replay[Payment(c)] = "live" \/ Payment(c) \in lapsed

\* Only the adapter fails a receipt, and remembers that it did.
FailedIsUndone == \A c \in Calls : receipt[c] = "failed" => c \in undone

\* The rows a call has written by each stage.
Books ==
    \A c \in Calls :
        /\ pc[c] \in {"settle", "run", "usage", "ledger", "log", "finish"}
             => receipt[c] # "failed"
        /\ pc[c] \in {"ledger", "log", "finish"} => usage[c] = "accepted"
        /\ pc[c] \in {"log", "finish"} => c \in ledger
        /\ pc[c] = "finish" => c \in logged

\* A stored success belongs to a call that is over and has written them all.
StoredSuccess ==
    \A k \in Keys : idem[k].status = "success" =>
        LET d == idem[k].owner IN
            /\ pc[d] \in {"done", "dead"}
            /\ key[d] = k
            /\ receipt[d] \notin {"none", "failed"}
            /\ usage[d] = "accepted"
            /\ d \in ledger \cap logged

\* What a caller was told is what its key's record says, or the record is open
\* because its owner could not write it.
ToldTheTruth ==
    \A c \in Calls : reply[c] \in {"success", "failed"} =>
        /\ key[c] \in Keys
        /\ idem[key[c]] \in Records
        /\ idem[key[c]].payload = payload[c]
        /\ idem[key[c]].owner = source[c]
        /\ \/ idem[key[c]].status = reply[c]
           \/ idem[key[c]].status = "open" /\ source[c] = c /\ reply[c] = "failed"

IInv ==
    /\ TypeOK /\ Ownership /\ Stages
    /\ ReplayHeld /\ OneReceiptPerPayment
    /\ FailedIsUndone /\ SpendWithinLimit
    /\ Books /\ StoredSuccess /\ ToldTheTruth
=============================================================================
