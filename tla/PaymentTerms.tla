---------------------------- MODULE PaymentTerms ----------------------------
(***************************************************************************)
(* What a paid call is asked to pay, what the payment it brings says, and  *)
(* what of both the verifier is shown (config/env.mjs,                     *)
(* payments/entitlements.mjs, payments/x402-verifier.mjs and the route).   *)
(* Terms are records [network, asset, payTo, amount, maxAmount] in which   *)
(* any field may be None; a payment carries the terms its client accepted, *)
(* those it sent along, and what was really signed.                        *)
(***************************************************************************)
EXTENDS Integers, Sequences, FiniteSets, SequencesExt

CONSTANT None  \* absent

\* a ?? b
Or(a, b) == IF a # None THEN a ELSE b

Mainnet == "eip155:8453"
Sepolia == "eip155:84532"

\* A network has a name of its own and one in the registry of chains.
NormalNetwork(n) ==
    CASE n = "base" -> Mainnet
      [] n = "base-sepolia" -> Sepolia
      [] OTHER -> n

\* canonicalAddressForSymbol: an asset is given by its symbol or by an address.
Address(symbol, network) ==
    CASE symbol = "USDC" /\ network = Mainnet -> "usdc@mainnet"
      [] symbol = "USDC" /\ network = Sepolia -> "usdc@sepolia"
      [] OTHER -> None

IsAddress(asset) == asset \in {"usdc@mainnet", "usdc@sepolia", "token"}

-----------------------------------------------------------------------------
(* The configuration *)

\* loadEnv, of which only what concerns payments and instances is kept.
Config(env) ==
    LET networks == IF env.network # None THEN <<NormalNetwork(env.network)>>
                    ELSE [i \in DOMAIN env.networks |-> NormalNetwork(env.networks[i])]
    IN  [env EXCEPT !.networks = networks,
                    !.assets = IF env.asset # None THEN <<env.asset>> ELSE @,
                    !.address = Or(@, IF Mainnet \in ToSet(networks)
                                      THEN "usdc@mainnet" ELSE "usdc@sepolia"),
                    !.atomic = Or(@, Or(env.price, 1))]

Production(env) == env.nodeEnv = "production" \/ env.environment = "production"

\* validateConfig of a deployment on the main network: it must say so itself.
GoodProduction(env) ==
    Production(env) =>
        /\ env.nodeEnv = "production"
        /\ NormalNetwork(env.network) = Mainnet
        /\ env.asset = "USDC"
        /\ None \notin {env.price, env.payTo, env.url}
        /\ ~env.testnet /\ ~env.relaxed
        /\ Config(env).address = "usdc@mainnet"

GoodProvider(env) ==
    env.provider = "cdp" =>
        /\ env.url = "cdp"
        /\ NormalNetwork(env.network) = Mainnet
        /\ env.asset = "USDC"
        /\ None \notin {env.price, env.payTo}

GoodReceiver(env) ==
    env.required =>
        /\ IsAddress(Config(env).address)
        /\ env.environment \notin {"local", "test"} => env.payTo \notin {None, "placeholder"}
        /\ env.payTo \notin {"zero", "malformed"}

\* Several instances need stores they can share.
GoodInstances(env) == env.instances > 1 => env.driver = "postgres"

\* validateConfig: what it asks of ports, secrets and URLs is left out.
Valid(env) ==
    /\ env.networks # <<>> \/ env.network # None
    /\ env.assets # <<>> \/ env.asset # None
    /\ GoodProduction(env) /\ GoodProvider(env) /\ GoodReceiver(env) /\ GoodInstances(env)

-----------------------------------------------------------------------------
(* The payment of a call *)

\* canonicalPaymentRequirement: what a challenge asks for.
Requirement(config, units) ==
    [network |-> config.networks[1], asset |-> config.address, payTo |-> config.payTo,
     amount |-> None, maxAmount |-> config.atomic * (IF units > 1 THEN units ELSE 1)]

\* paymentFromHeaderSelection
HeaderPayment(payload) ==
    LET accepted == payload.accepted IN
    [payload |-> payload, requirements |-> accepted,
     asset |-> IF accepted = None THEN None ELSE accepted.asset,
     network |-> IF accepted = None THEN None ELSE accepted.network]

\* mergeHeaderPayment: the header wins, also where it has nothing to say.
Merged(body, header) ==
    IF header = None THEN body
    ELSE LET h == HeaderPayment(header) IN
         [f \in DOMAIN body |-> IF f \in DOMAIN h THEN h[f] ELSE body[f]]

NoPayment == [payload |-> None, requirements |-> None, asset |-> None, network |-> None, units |-> None]

\* Mutant: the client's word is taken for what it has to pay.
PresentedAsSent(door, config, sent) == Merged(sent.body, sent.header)

\* The payment executeTool gets.  The route replaces the terms it came with.
Presented(door, config, sent) ==
    LET p == Merged(sent.body, sent.header) IN
    IF door = "http" THEN [p EXCEPT !.requirements = Requirement(config, 1)] ELSE p

PaidAsset(p) ==
    IF p.asset # None THEN p.asset
    ELSE IF p.requirements # None THEN p.requirements.asset ELSE None

PaidNetwork(p) ==
    NormalNetwork(IF p.network # None THEN p.network
                  ELSE IF p.requirements # None THEN p.requirements.network ELSE None)

EffectiveNetwork(config, p) == Or(PaidNetwork(p), config.networks[1])

AcceptedAsset(asset, network, assets) ==
    LET listed == (ToSet(assets) \cup {Address(s, network) : s \in ToSet(assets)}) \ {None} IN
    asset \in listed \/ (~IsAddress(asset) /\ Address(asset, network) \in listed)

\* What authorizeAndBill refuses before anybody is asked.
Acceptable(config, p) ==
    /\ IF PaidAsset(p) = None THEN ~config.requireAsset
       ELSE AcceptedAsset(PaidAsset(p), EffectiveNetwork(config, p), config.assets)
    /\ IF PaidNetwork(p) = None THEN ~config.requireNetwork
       ELSE PaidNetwork(p) \in ToSet(config.networks)

-----------------------------------------------------------------------------
(* What the verifier is shown *)

Stated(p) == Or(p.requirements, IF p.payload = None THEN None ELSE p.payload.accepted)

Native(p) == p.payload # None /\ Stated(p) # None

NoTerms == [network |-> None, asset |-> None, payTo |-> None, amount |-> None, maxAmount |-> None]

\* Terms whose gaps are filled from others, the amount apart.
Filled(t, from) == [f \in DOMAIN t |-> Or(t[f], from[f])]

\* normalizeCdpAccepted
NormalAccepted(accepted, stated) ==
    LET a == Or(accepted, NoTerms) IN
    [Filled(a, stated) EXCEPT
        !.amount = Or(a.amount, Or(stated.amount, Or(a.maxAmount, stated.maxAmount))),
        !.maxAmount = None]

\* normalizeCdpPaymentRequirements
NormalRequirements(stated, accepted) ==
    [Filled(stated, accepted) EXCEPT
        !.amount = Or(stated.amount, Or(accepted.amount, stated.maxAmount)),
        !.maxAmount = None]

\* normalizeCdpPaymentPayloadWithRequirements
NormalPayload(payload, stated) == [payload EXCEPT !.accepted = NormalAccepted(@, stated)]

\* The bodies of /verify and of /settle are made by the same rule.
Shown(provider, p) ==
    LET payload == IF provider = "cdp" THEN NormalPayload(p.payload, Stated(p)) ELSE p.payload IN
    [accepted |-> payload.accepted, signed |-> payload.signed,
     requirements |-> IF provider = "cdp" THEN NormalRequirements(Stated(p), payload.accepted)
                      ELSE Stated(p)]

\* A facilitator approves what was signed for the required network, asset and
\* receiver, and for no less than the required amount.
Approves(shown) ==
    LET s == shown.signed
        r == shown.requirements
        a == shown.accepted IN
    /\ s.network = r.network /\ s.asset = r.asset /\ s.payTo = r.payTo
    /\ Or(r.amount, r.maxAmount) # None
    /\ s.amount >= Or(r.amount, r.maxAmount)
    /\ a # None => a.network \in {None, r.network}

\* Without a signed payload the number of units has to do; the verifier may
\* name it, or leave it to the client.
Verifiable(config, p, units) ==
    IF Native(p) THEN Approves(Shown(config.provider, p))
    ELSE p.units # None /\ p.units >= units

\* settle is for cdp and signed payloads only, and its failure fails nothing.
Settleable(config, p) ==
    config.provider = "cdp" /\ Native(p) /\ Approves(Shown("cdp", p))

\* The metadata of the receipt.
Booked(config, p) ==
    [network |-> EffectiveNetwork(config, p), payTo |-> config.payTo,
     price |-> Or(config.price, config.atomic),
     asset |-> Or(PaidAsset(p), Or(Address(config.assets[1], EffectiveNetwork(config, p)), config.assets[1])),
     settled |-> FALSE]

\* The price a payment under cdp is held to: its own, where it names one.
HeldTo(config, p, units) ==
    LET a == p.payload.accepted
        asked == Requirement(config, units).maxAmount IN
    IF config.provider # "cdp" \/ a = None THEN asked ELSE Or(a.amount, Or(a.maxAmount, asked))
=============================================================================
