----------------------------- MODULE MCTrustApi -----------------------------
(***************************************************************************)
(* TrustApi on a small instance: event e1 has the alias e2, both webhooks  *)
(* want the event and one of them the alias; three events of an earlier    *)
(* process, of which a stream is replayed two.                             *)
(***************************************************************************)
EXTENDS TrustApi, TLC

CONSTANTS w1, w2, e1, e2, a1, a2, a3, c1, c2, c3, c4

MCAliasOf == [e \in Events |-> IF e = e1 THEN e2 ELSE None]
MCMatchedBy == [e \in Events |-> IF e = e1 THEN {w1, w2} ELSE {w2}]
MCMaxOf == [w \in Webhooks |-> IF w = w1 THEN 3 ELSE 2]

Ask(token, method, path) ==
    [token |-> token, method |-> method, path |-> path, body |-> "good", webhook |-> w1,
     event |-> e1, since |-> [kind |-> "none", n |-> 0], wants |-> {}]

Registering(token, w) == [Ask(token, "POST", "/v1/webhooks") EXCEPT !.webhook = w]
Reporting(token, e) == [Ask(token, "POST", "/v1/evidence") EXCEPT !.event = e]
Streaming(token, kind, n, wants) ==
    [Ask(token, "GET", "/v1/events/stream") EXCEPT
        !.since = [kind |-> kind, n |-> n], !.wants = wants]

Key(token, key, scopes, environment, status) ==
    [token |-> token, key |-> key, scopes |-> scopes, environment |-> environment,
     status |-> status]

\* Two tokens of one key, one token configured twice, and keys that may not
\* do everything.
Keys ==
    << Key("t1", "k1", {}, None, None), Key("t2", "k2", {"read"}, None, None),
       Key("t2", "k1", {"read", "write"}, "prod", "active"),
       Key("reader", None, {"read"}, None, None),
       Key("revoked", "k3", {"read", "write"}, None, "revoked"),
       Key("staging", "k4", {"read", "write"}, "staging", None),
       Key(None, "k5", {"read"}, None, None) >>

Nothing == [bucket \in Buckets |-> 0]

\* The webhooks are registered and the event is emitted, in any order.
Deliveries1 ==
    { [requests |-> (c1 :> Registering("root", w1)) @@ (c2 :> Registering("root", w2))
                       @@ (c3 :> Reporting("root", e1)),
       entries |-> <<>>, log |-> <<>>, notices |-> FALSE, ends |-> {"kill"},
       lastMinute |-> 0, spent |-> Nothing] }

Sinces ==
    {[kind |-> "none", n |-> 0], [kind |-> "junk", n |-> 0]}
        \cup [kind : {"number"}, n : {-1, 0, 1, 2, 4}]

\* Two streams of one key and an event, after different histories.
Streams ==
    { [requests |->
          (c1 :> Streaming("t1", since.kind, since.n, {a1, a2, a3, e1, e2}))
             @@ (c2 :> Streaming("t2", "none", 0, {a2, e2}))
             @@ (c3 :> Reporting("t2", e1)),
       entries |-> Keys, log |-> before, notices |-> TRUE, ends |-> {},
       lastMinute |-> 0, spent |-> Nothing] :
      since \in Sinces, before \in {<<>>, <<a1, a2, a3>>} }

\* A stream of an event, its alias and the failures to deliver them.
Notices ==
    { [requests |->
          (c1 :> Streaming("t1", "none", 0,
                           {e1} \cup {Notice("webhook.delivery.failed", <<e, w2>>) :
                                         e \in {e1, e2}}))
             @@ (c3 :> Reporting("t2", e1))
             @@ (c4 :> Registering("t1", w2)),
       entries |-> Keys, log |-> <<>>, notices |-> TRUE, ends |-> {},
       lastMinute |-> 0, spent |-> Nothing] }

Tokens == {"t1", "t2", "reader", "revoked", "staging", "unknown"}
Bodies == {"good", "huge", "other content type", "not JSON", "invalid", "cut off"}

AtTheDoor ==
    {Ask(token, route.method, route.path) : token \in Tokens, route \in Routes}
        \cup {[Ask("t1", "POST", route.path) EXCEPT !.body = body] :
                 body \in Bodies, route \in {r \in Routes : r.method = "POST"}}
        \cup {Ask("t1", "GET", "/v1/evidence"), Ask("t1", "GET", "/v2"),
              Ask("t1", "GET", "unparsable")}

\* Every route with every key, every body, and addresses that are no route.
Door ==
    { [requests |-> (c1 :> r) @@ (c2 :> Registering("t1", w1)),
       entries |-> Keys, log |-> <<>>, notices |-> TRUE, ends |-> {},
       lastMinute |-> 0, spent |-> Nothing] : r \in AtTheDoor }

\* One more request of each bucket fits into minute 0; the two tokens share
\* the counters.
Limits ==
    { [requests |-> (c1 :> r) @@ (c2 :> [r EXCEPT !.token = "t2"])
                       @@ (c3 :> [r EXCEPT !.body = "invalid"]),
       entries |-> Keys, log |-> <<>>, notices |-> FALSE, 
       ends |-> IF r.path = "/v1/events/stream" THEN {"signal"}
                ELSE IF r.method = "GET" THEN {"kill"} ELSE {},
       lastMinute |-> LastMinute,
       spent |-> [read |-> 1199, write |-> 596, sim |-> 108, stream |-> 112]] :
      r \in {Ask("t1", "POST", "/v1/passports"), Ask("t1", "GET", "/v1/war-room/state"),
             Streaming("t1", "none", 0, {}), Ask("t1", "POST", "/v1/sim/run")} }

MCWorkloads == Deliveries1 \cup Streams \cup Notices \cup Door \cup Limits
=============================================================================
