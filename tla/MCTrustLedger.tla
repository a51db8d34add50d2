--------------------------- MODULE MCTrustLedger ---------------------------
(***************************************************************************)
(* TrustLedger on a small instance: an agent a and a validator v.  Other   *)
(* validators vouch for them from elsewhere (w1, w2, w3).                  *)
(***************************************************************************)
EXTENDS TrustLedger

CONSTANTS a, v, k1, w1, w2, w3, served, boasted, praised, overturned, harm, gone, market

Blank == [type |-> "task.completed", quality |-> 9000, confidence |-> 9000, fast |-> TRUE,
          weight |-> 15000, domain |-> NoDomain, passes |-> {}, fails |-> {},
          exposure |-> 0, highRisk |-> FALSE, at |-> 0]

MCReports == {served, boasted, praised, overturned, harm, gone}

MCAbout == [r \in MCReports |-> IF r \in {praised, gone} THEN v ELSE a]

MCContent == [r \in MCReports \cup {"dispute.opened", "dispute.resolved"} |->
    CASE r = served -> [Blank EXCEPT !.domain = market, !.passes = {v, w1, w2}]
      [] r = boasted -> [Blank EXCEPT !.weight = NaN, !.exposure = NaN]
      [] r = praised -> [Blank EXCEPT !.domain = market, !.passes = {w1, w2, w3}]
      [] r = overturned -> [Blank EXCEPT !.type = "validation.reversed", !.quality = 0,
                                         !.confidence = 0, !.fails = {w1}]
      [] r = harm -> [Blank EXCEPT !.type = "QUARANTINE", !.quality = 0, !.confidence = 0]
      [] r = gone -> [Blank EXCEPT !.type = "passport.revoked", !.quality = 0, !.confidence = 0]
      [] OTHER -> [Blank EXCEPT !.type = r, !.quality = 0, !.confidence = 0]]

MCIdOrder == [s \in Subjects |-> IF s = a THEN 1 ELSE 2]

\* What another installation exported after it crashed between the record of
\* v's revocation and the revocation itself.
MCForeign ==
    {[receipt |-> <<"foreign", 0>>, subject |-> v,
      evidence |-> <<[report |-> gone, at |-> 0], [report |-> praised, at |-> 0]>>,
      snapshot |-> ComputeSnapshot(v, <<MCContent[praised]>>, 0, NoSnapshot, {v})]}

\* a and v are of one house, which counts once both have a passport.
MCSameIssuer == {<<a, v>>, <<v, a>>}
MCSameInfra == {<<a, v>>}

-----------------------------------------------------------------------------
(* Workloads *)

High == [risk |-> "high", domain |-> market]
Moderate == [risk |-> "medium", domain |-> market]
Low == [risk |-> "low", domain |-> NoDomain]

Report(r, stamp, key) == [op |-> "evidence", report |-> r, stamp |-> stamp, key |-> key]
Resolve(s, context, named) ==
    [op |-> "resolve", subject |-> s, context |-> context, named |-> named]

\* v registers, is praised and revoked, here and elsewhere, with retries.
Registration ==
    {[op |-> "passport", subject |-> v, key |-> k1]}
      \cup {Report(praised, NoStamp, NoKey), Report(gone, NoStamp, NoKey),
            Report(gone, NoStamp, k1)}
      \cup {[op |-> "import", mode |-> m] : m \in {"merge", "mirror"}}
      \cup {[op |-> "export", subject |-> v], Resolve(a, High, {v}), Resolve(a, High, Default)}

\* a works, does harm and is asked about, while its evidence ages.
Reputation ==
    {Report(served, NoStamp, NoKey), Report(served, 0, NoKey), Report(harm, NoStamp, NoKey)}
      \cup {Report(boasted, NoStamp, NoKey)}
      \cup {Resolve(a, High, Default), Resolve(a, Low, Default)}

\* a is exported and brought back as it was.
Return ==
    {Report(served, NoStamp, NoKey), Report(harm, NoStamp, NoKey), Resolve(a, High, Default)}
      \cup {[op |-> "export", subject |-> a], [op |-> "import", mode |-> "mirror"]}

Route(s, d) == [op |-> "executors", subject |-> s, candidates |-> <<v, a>>, minimum |-> 1,
                downgrade |-> d, context |-> Moderate]

Elect(candidates, n) == [op |-> "validators", subject |-> a, candidates |-> candidates,
                         required |-> n, context |-> Moderate]

\* Tasks are routed to a and v, who registers meanwhile.
Work ==
    {Report(r, NoStamp, NoKey) : r \in {served, boasted, harm, praised}}
      \cup {[op |-> "passport", subject |-> v, key |-> NoKey], Route(a, FALSE)}
      \cup {Elect(<<v, a>>, 2), Elect(<<v, v>>, 2)}

\* a's work is disputed and overturned, and tasks are still routed to a.
Contention ==
    {Report(served, NoStamp, NoKey), Report(overturned, 0, NoKey), Report(harm, NoStamp, NoKey)}
      \cup {Report(boasted, NoStamp, NoKey)}
      \cup {Route(a, TRUE), Elect(<<a>>, 1)}
      \cup {[op |-> "dispute", subject |-> a, severity |-> "critical", preferred |-> p] :
             p \in {"none", "quarantine_subject"}}

MCWorkloads == {Registration, Reputation, Return, Work, Contention}
=============================================================================
