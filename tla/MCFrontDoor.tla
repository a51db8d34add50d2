---------------------------- MODULE MCFrontDoor ----------------------------
(***************************************************************************)
(* FrontDoor on a small instance.  Each workload brings out one stage of a *)
(* call: the door and the limiter, the session, the caller's registration, *)
(* the target's bootstrap, the cached opinion, the payment.                *)
(***************************************************************************)
EXTENDS FrontDoor, TLC

CONSTANTS c1, c2, c3, known, new, k1, k2, k3, x1, x2

MCOpinions == <<[decision |-> "allow", score |-> 82], [decision |-> "deny", score |-> 31]>>

Http == [door |-> "http", xPayment |-> "good", signature |-> "absent", body |-> "unpaid", key |-> k1,
         agent |-> None, payer |-> None, subject |-> known, token |-> None, instance |-> 1,
         sent |-> None]

Rpc == [Http EXCEPT !.door = "rpc"]

\* A test setup: nothing is charged.
Free == [nodeEnv |-> "", environment |-> "test", provider |-> "openfacilitator", url |-> None,
         network |-> None, networks |-> <<"base-sepolia", "base">>, asset |-> None,
         assets |-> <<"USDC">>, address |-> None, payTo |-> None, price |-> None, atomic |-> None,
         testnet |-> FALSE, relaxed |-> FALSE, required |-> FALSE, requireAsset |-> FALSE,
         requireNetwork |-> FALSE, instances |-> 1, driver |-> "memory"]

MCPlain == [env |-> Free, tokenRequired |-> FALSE, lookupOnly |-> FALSE,
          autoBootstrap |-> TRUE, known |-> {known}, changing |-> {}, maxNow |-> 0, maxCrashes |-> 0]

With(config, r1, r2, r3) ==
    config @@ [calls |-> [c \in Calls |-> CASE c = c1 -> r1 [] c = c2 -> r2 [] c = c3 -> r3]]

-----------------------------------------------------------------------------
(* The limiter.  Calls without the token they need end behind it. *)

Guarded == [MCPlain EXCEPT !.tokenRequired = TRUE, !.maxNow = 2, !.maxCrashes = 1]
Other == [Rpc EXCEPT !.key = k2]

Limited ==
    {With(Guarded, Rpc, r, Rpc) : r \in {Rpc, Other}}
    \cup {With([Guarded EXCEPT !.env.driver = "postgres", !.env.instances = 2],
               Rpc, [r EXCEPT !.instance = 2], Rpc) : r \in {Rpc, Other}}

\* What the route turns away by itself, or by a header that hides another.
AtTheDoor ==
    {With([MCPlain EXCEPT !.autoBootstrap = FALSE], [Http EXCEPT !.xPayment = p, !.signature = "good", !.body = b,
                                                             !.subject = s], None, None) :
        p \in {"absent", "bad"}, b \in {"absent", "text", "broken", "unpaid", "paid"}, s \in {None, new}}

-----------------------------------------------------------------------------
(* Tokens: two of the same session, one of another, one used twice *)

Token(j, x) == [jti |-> j, session |-> x, sub |-> known, payer |-> k1, exp |-> 1]
Bearer(t) == [Rpc EXCEPT !.token = t, !.subject = new]

Tokened ==
    {With([MCPlain EXCEPT !.tokenRequired = TRUE, !.autoBootstrap = FALSE, !.maxNow = 2],
          Bearer(Token(1, x1)), [Bearer(Token(j, x)) EXCEPT !.payer = p, !.key = k2], None) :
        j \in {1, 2}, x \in {x1, x2}, p \in {None, k2}}
    \* Three tokens, of which one shares the session, another the id of the first.
    \cup {With([MCPlain EXCEPT !.tokenRequired = TRUE, !.autoBootstrap = FALSE, !.maxNow = 1,
                              !.env.driver = "postgres"],
               Bearer(Token(1, x1)), [Bearer(Token(2, x1)) EXCEPT !.key = k2],
               [Bearer(Token(1, x)) EXCEPT !.key = k3]) : x \in {x1, x2}}

-----------------------------------------------------------------------------
(* Callers and targets *)

Agent(s, l) == [subject |-> s, label |-> l]

Registrations ==
    {With([MCPlain EXCEPT !.autoBootstrap = FALSE, !.lookupOnly = o],
          [Rpc EXCEPT !.agent = Agent(new, 1)], [Rpc EXCEPT !.agent = Agent(s, l), !.key = k2], None) :
        o \in BOOLEAN, s \in {known, new}, l \in {1, 2}}

Bootstraps ==
    {With([MCPlain EXCEPT !.maxCrashes = 1], [Http EXCEPT !.subject = new], r, None) :
        r \in {[Other EXCEPT !.door = "http", !.subject = new], [Other EXCEPT !.agent = Agent(new, 1)]}}

Resolutions == {With([MCPlain EXCEPT !.changing = {known}], Http, Other, None)}

-----------------------------------------------------------------------------
(* Payments, under whatever configuration the adapter starts with *)

Charging ==
    [Free EXCEPT !.required = TRUE, !.price = 2, !.asset = "USDC", !.payTo = "us"]

Deployments ==
    {[Charging EXCEPT !.nodeEnv = IF e = "production" THEN e ELSE "", !.environment = e, !.provider = p,
                      !.url = IF p = "cdp" THEN p ELSE "other", !.network = n, !.address = a] :
        e \in {"local", "production"}, p \in {"openfacilitator", "cdp"},
        n \in {None, "base", "base-sepolia"}, a \in {None, "token"}}

\* Signed on the terms of today, of another network, of last week's price.
Signatures ==
    {[network |-> t[1], asset |-> t[2], payTo |-> "us", amount |-> v] :
        t \in {<<Mainnet, "usdc@mainnet">>, <<Sepolia, "usdc@sepolia">>, <<Mainnet, "token">>}, v \in {1, 2}}

\* How the client describes what it signed.
Descriptions(s) ==
    {None, NoTerms, [s EXCEPT !.amount = None] @@ [maxAmount |-> s.amount],
     [s EXCEPT !.asset = "USDC"] @@ [maxAmount |-> None],
     [s EXCEPT !.amount = None, !.network = "base"] @@ [maxAmount |-> None]}

Payloads == UNION {{[accepted |-> d, signed |-> s] : d \in Descriptions(s)} : s \in Signatures}

InBody(p) == [header |-> None, body |-> [NoPayment EXCEPT !.payload = p, !.requirements = p.accepted]]
Elsewhere(p) == [header |-> None, body |-> [InBody(p).body EXCEPT !.network = "base"]]
InHeader(p) == [header |-> p, body |-> NoPayment]
Unsigned(u, n) == [header |-> None, body |-> [NoPayment EXCEPT !.units = u, !.network = n]]

Sent(door) ==
    (IF door = "http" THEN UNION {{InHeader(p), Elsewhere(p)} : p \in Payloads}
     ELSE {InBody(p) : p \in {q \in Payloads : q.accepted # None}})
    \cup {Unsigned(u, n) : u \in {None, 1}, n \in {None, "base", "other"}}

Payments ==
    UNION {{With([MCPlain EXCEPT !.env = e, !.autoBootstrap = FALSE],
                 [Http EXCEPT !.door = d, !.subject = new, !.sent = s, !.body = "paid"], None, None) :
               e \in Deployments, s \in Sent(d)} : d \in {"http", "rpc"}}

MCWorkloads == Limited \cup AtTheDoor \cup Tokened \cup Registrations \cup Bootstraps \cup Resolutions
               \cup Payments
=============================================================================
