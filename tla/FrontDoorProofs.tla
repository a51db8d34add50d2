--------------------------- MODULE FrontDoorProofs ---------------------------
(***************************************************************************)
(* Theorems about FrontDoor, for any calls, subjects, sessions, opinions   *)
(* and configurations, with failing statements, lapsing locks and restarts:*)
(* sessions keep their token, answers are what they call themselves,       *)
(* bootstraps are orderly, payments are booked as they were signed, and    *)
(* rate keys keep to their limit.                                          *)
(***************************************************************************)
EXTENDS FrontDoor, ListProofs

TokenStages == {"limit", "token", "session", "save"}
Underway(c) == pc[c] \in Stages \cup {"idle"}
Domains == DOMAIN pc = Calls /\ DOMAIN answer = Calls /\ DOMAIN since = Calls

\* The configuration and the calls are those of a workload; only calls there are
\* get under way, and past the door they have a subject.
Configured ==
    /\ Domains
    /\ \E w \in Workloads : /\ workload.calls = w.calls
                            /\ Settings = Config(w.env) /\ Valid(w.env)
    /\ \A c \in Calls : Underway(c) => Q(c) # None
    /\ \A c \in Calls : pc[c] \in Stages => Q(c).subject \in Subjects

-----------------------------------------------------------------------------
(* What a step leaves alone *)

\* Past the door a step moves one call, and leaves its environment alone.
LEMMA Moves ==
    ASSUME Domains, NEW c \in Calls, Step(c)
    PROVE  /\ UNCHANGED <<workload, now, since>>
           /\ pc[c] \in Stages /\ pc'[c] \in Stages \cup {"done"}
           /\ Domains'
           /\ \A d \in Calls \ {c} : pc'[d] = pc[d] /\ answer'[d] = answer[d]
<1> USE DEF Domains, fixed, Go, Fail, Leave, Stages
<1>1. CASE Hit(c)
  BY <1>1 DEF Hit
<1>2. CASE CheckToken(c) \/ CheckSession(c) \/ SaveSession(c)
  BY <1>2 DEF CheckToken, CheckSession, SaveSession, AfterToken
<1>3. CASE LookupCaller(c) \/ Register(c) \/ ConfirmCaller(c)
  BY <1>3 DEF LookupCaller, Register, ConfirmCaller
<1>4. CASE Pay(c) \/ Verify(c) \/ Reserve(c) \/ Settle(c)
  BY <1>4 DEF Pay, Verify, Reserve, Settle
<1>5. CASE LookupTarget(c) \/ Lock(c) \/ Wait(c) \/ Recheck(c)
  BY <1>5 DEF LookupTarget, Lock, Wait, Recheck
<1>6. CASE Create(c) \/ ConfirmTarget(c) \/ Release(c)
  BY <1>6 DEF Create, ConfirmTarget, Release
<1>7. CASE Ask(c) \/ Cache(c) \/ Fallback(c) \/ Deliver(c)
  BY <1>7 DEF Ask, Cache, GiveUp, Fallback, Deliver
<1>8. QED
  BY <1>1, <1>2, <1>3, <1>4, <1>5, <1>6, <1>7 DEF Step

\* Begin moves one call, to the limiter or out.
LEMMA Begins ==
    ASSUME Domains, NEW c \in Calls, Begin(c)
    PROVE  /\ UNCHANGED <<workload, now>>
           /\ pc[c] = "idle" /\ pc'[c] \in {"limit", "done"}
           /\ pc'[c] = "limit" /\ Q(c).door = "http" => Q(c).subject # None
           /\ since'[c] = Remembered(c)
           /\ answer'[c] = answer[c] \/ answer'[c].kind = "error"
           /\ Domains'
           /\ \A d \in Calls \ {c} :
                 pc'[d] = pc[d] /\ answer'[d] = answer[d] /\ since'[d] = since[d]
BY DEF Domains, Begin, Go, DoorStatus

\* Nobody moves when the clock ticks, a lock lapses or the trust API changes; a
\* restart ends calls.
LEMMA Stays ==
    ASSUME Domains,
           Tick \/ (\E s \in Subjects : Lapse(s) \/ Revise(s) \/ Revoke(s))
             \/ (\E i \in Instances : Crash(i))
    PROVE  /\ UNCHANGED <<workload, since, answer>>
           /\ Domains'
           /\ \A c \in Calls : pc'[c] = pc[c] \/ (pc'[c] = "dead" /\ pc[c] \notin {"idle", "done"})
BY DEF Domains, Tick, Lapse, Revise, Revoke, Crash, fixed

\* No step changes the workload, or starts a call that is not in it.
LEMMA ConfiguredStep == Configured /\ [Next]_vars => Configured'
<1> SUFFICES ASSUME Configured, [Next]_vars PROVE Configured'
  OBVIOUS
<1> USE DEF Configured, Underway, Q, Settings, Stages
<1>1. ASSUME NEW c \in Calls, Step(c) PROVE Configured'
  BY <1>1, Moves
<1>2. ASSUME NEW c \in Calls, Begin(c) PROVE Configured'
  <2>1. pc'[c] = "limit" => Q(c).subject \in Subjects
    BY <1>2, Begins, CallsAssumption
  <2>2. QED
    BY <1>2, <2>1, Begins
<1>3. CASE \/ Tick \/ (\E s \in Subjects : Lapse(s) \/ Revise(s) \/ Revoke(s))
           \/ (\E i \in Instances : Crash(i))
  BY <1>3, Stays
<1>4. CASE UNCHANGED vars
  BY <1>4 DEF vars, Domains
<1>5. QED
  BY <1>1, <1>2, <1>3, <1>4 DEF Next

\* A behaviour begins with a workload.
LEMMA ConfiguredInit == Init => Configured
<1> SUFFICES ASSUME Init PROVE Configured
  OBVIOUS
<1>1. PICK w \in Workloads : Valid(w.env) /\ workload = [w EXCEPT !.env = Config(@)]
  BY DEF Init
<1>2. {"env", "calls"} \subseteq DOMAIN w
  BY ConfigAssumption
<1>3. workload.calls = w.calls /\ workload.env = Config(w.env)
  BY <1>1, <1>2
<1>4. QED
  BY <1>1, <1>3 DEF Init, Configured, Domains, Underway, Settings, Stages

-----------------------------------------------------------------------------
(* Sessions *)

\* The session of token j had run out, and so had its row, which is in the way of
\* any call that looks for it now.
RunOut(j) ==
    \E x \in Sessions : sessions[x] # None /\ sessions[x].jti = j /\ sessions[x].exp <= now

Vouched(x, j) == \E e \in Claimants(x) : Q(e).token.jti = j

\* A session's row is that of a token that claimed it while it had none.
RowIsClaimed(x) ==
    sessions[x] # None =>
        \E e \in Claimants(x) :
            sessions[x].jti = Q(e).token.jti /\ sessions[x].exp = Q(e).token.exp

\* A call with a token, on its way or through.
Minding(c) == pc[c] \in TokenStages \/ c \in passed

Bound(c) == \A x \in Sessions : x \in since[c].bound => sessions[x] # None

\* A call that is going to write the row of a session that had one when it began
\* has a token that claimed it.
Entitled(c) ==
    LET t == Q(c).token IN
    pc[c] = "save" /\ t.session \in since[c].bound => Vouched(t.session, t.jti)

Late(c) ==
    since[c].over =>
        \/ \E x \in Sessions : Contested(x, Q(c).token.jti)
        \/ c \notin passed /\ pc[c] \notin {"session", "save"} /\ RunOut(Q(c).token.jti)

Bearing(c) ==
    /\ pc[c] \in {"session", "save"} \/ c \in passed => Q(c) # None /\ Q(c).token # None
    /\ c \in passed => pc[c] # "idle"

TInv ==
    /\ now \in Nat /\ DOMAIN sessions = Sessions /\ passed \subseteq Calls
    /\ \A x \in Sessions : RowIsClaimed(x)
    /\ \A c \in Calls : Bearing(c)
    /\ \A c \in Calls : Minding(c) => Bound(c) /\ Entitled(c) /\ Late(c)

\* What the assumptions say of the tokens of this behaviour.
LEMMA Tokens ==
    ASSUME Configured
    PROVE  /\ \A c \in Calls : Q(c) # None /\ Q(c).token # None =>
                 Q(c).token.session \in Sessions /\ Q(c).token.exp \in Nat
           /\ \A c, d \in Calls :
                 /\ None \notin {Q(c), Q(d)} /\ None \notin {Q(c).token, Q(d).token}
                 /\ Q(c).token.jti = Q(d).token.jti
                 /\ Q(c).token.session = Q(d).token.session
                 => Q(c).token.exp = Q(d).token.exp
<1>1. PICK w \in Workloads : workload.calls = w.calls
  BY DEF Configured
<1>2. \A c \in Calls : Q(c) = w.calls[c]
  BY <1>1 DEF Q
<1>3. QED
  BY <1>2, CallsAssumption, TokensAssumption

\* A row has an expiry, that of the token that claimed it.
LEMMA RowsExpire ==
    ASSUME Configured, TInv, NEW x \in Sessions, sessions[x] # None
    PROVE  sessions[x].exp \in Nat
BY Tokens DEF TInv, RowIsClaimed, Claimants, Bearing

\* A claim once made stays one.
LEMMA ClaimsStay ==
    ASSUME TInv, UNCHANGED workload, passed \subseteq passed',
           \A c \in passed : since'[c] = since[c]
    PROVE  /\ \A x \in Sessions : Claimants(x) \subseteq Claimants(x)'
           /\ \A x \in Sessions : \A j : Vouched(x, j) => Vouched(x, j)'
           /\ \A x \in Sessions : \A j : Contested(x, j) => Contested(x, j)'
<1>1. \A x \in Sessions : Claimants(x) \subseteq Claimants(x)'
  BY DEF Claimants, Q
<1>2. QED
  BY <1>1 DEF Vouched, Contested, Q

\* A step that ends no call's business with its token but by ending it.
LEMMA TokensKept ==
    ASSUME Configured, TInv, UNCHANGED <<workload, sessions, passed, since>>,
           now' \in Nat, now' >= now,
           \A c \in Calls :
              \/ pc'[c] = pc[c]
              \/ /\ pc[c] # "idle" /\ pc'[c] \notin {"idle", "session", "save"}
                 /\ pc'[c] \in TokenStages => pc[c] \in TokenStages
    PROVE  TInv'
<1>1. \A x \in Sessions : Claimants(x)' = Claimants(x)
  BY DEF Claimants, Q
<1>2. \A x \in Sessions : RowIsClaimed(x)'
  BY <1>1 DEF TInv, RowIsClaimed, Q
<1>3. \A c \in Calls : Bearing(c)'
  BY DEF TInv, Bearing, Q, TokenStages
<1>4. ASSUME NEW j PROVE RunOut(j) => RunOut(j)'
  BY RowsExpire DEF TInv, RunOut
<1>5. ASSUME NEW c \in Calls, Minding(c)' PROVE Bound(c)' /\ Entitled(c)' /\ Late(c)'
  <2>1. Minding(c) /\ (pc'[c] = pc[c] \/ pc'[c] \notin {"session", "save"})
    BY <1>5 DEF Minding
  <2>2. Bound(c) /\ Entitled(c) /\ Late(c)
    BY <2>1 DEF TInv
  <2>3. Bound(c)'
    BY <2>2 DEF Bound
  <2>4. Entitled(c)'
    <3>1. CASE pc'[c] = "save"
      <4>1. pc[c] = "save" /\ Q(c).token.session \in Sessions
        BY <3>1, Tokens DEF TInv, Bearing, TokenStages
      <4>2. Vouched(Q(c).token.session, Q(c).token.jti)' <=>
               Vouched(Q(c).token.session, Q(c).token.jti)
        BY <4>1, <1>1 DEF Vouched, Q
      <4>3. QED
        BY <4>1, <4>2, <2>2 DEF Entitled, Q
    <3>2. QED
      BY <3>1 DEF Entitled
  <2>5. Late(c)'
    BY <2>1, <2>2, <1>1, <1>4 DEF Late, Contested, Q, TokenStages
  <2>6. QED
    BY <2>3, <2>4, <2>5
<1>6. QED
  BY <1>2, <1>3, <1>5 DEF TInv

\* Another call, while sessions and claims stay.
LEMMA OtherKept ==
    ASSUME Configured, TInv, UNCHANGED <<workload, now, sessions, passed>>,
           \A e \in passed : since'[e] = since[e],
           NEW d \in Calls, pc'[d] = pc[d], since'[d] = since[d], Minding(d)'
    PROVE  Bound(d)' /\ Entitled(d)' /\ Late(d)'
<1>1. Minding(d) /\ Bound(d) /\ Entitled(d) /\ Late(d)
  BY DEF Minding, TInv
<1>2. pc[d] = "save" => Q(d).token.session \in Sessions
  BY Tokens DEF TInv, Bearing
<1>3. \A x \in Sessions : Claimants(x)' = Claimants(x)
  BY DEF Claimants, Q
<1>4. Bound(d)' /\ Entitled(d)'
  BY <1>1, <1>2, <1>3 DEF Bound, Entitled, Vouched, Q
<1>5. RunOut(Q(d).token.jti)' <=> RunOut(Q(d).token.jti)
  BY DEF RunOut, Q
<1>6. Late(d)'
  BY <1>1, <1>3, <1>5 DEF Late, Contested, Q
<1>7. QED
  BY <1>4, <1>6

\* A call begins by remembering which sessions have rows, and which are over.
LEMMA BeginKeepsTokens ==
    ASSUME Configured, TInv, NEW c \in Calls, Begin(c)
    PROVE  TInv'
<1>1. UNCHANGED <<workload, now, sessions, passed>> /\ pc[c] = "idle" /\ c \notin passed
  BY Begins DEF Begin, TInv, Bearing, tokens, Configured
<1>2. pc'[c] \in {"limit", "done"} /\ since'[c] = Remembered(c)
  BY Begins DEF Configured
<1>3. \A d \in Calls \ {c} : pc'[d] = pc[d] /\ since'[d] = since[d]
  BY Begins DEF Configured
<1>4. \A x \in Sessions : Claimants(x)' = Claimants(x)
  BY <1>1, <1>3 DEF Claimants, Q, TInv
<1>5. \A d \in Calls : Bearing(d)'
  BY <1>1, <1>2, <1>3 DEF TInv, Bearing, Q
<1>6. ASSUME NEW d \in Calls \ {c}, Minding(d)' PROVE Bound(d)' /\ Entitled(d)' /\ Late(d)'
  BY <1>1, <1>3, <1>6, OtherKept DEF TInv
<1>7. Bound(c)' /\ Entitled(c)'
  BY <1>1, <1>2 DEF Bound, Entitled, Remembered
<1>8. Late(c)'
  <2>1. Remembered(c).over => RunOut(Q(c).token.jti)
    BY DEF Remembered, RunOut
  <2>2. RunOut(Q(c).token.jti)' <=> RunOut(Q(c).token.jti)
    BY <1>1 DEF RunOut, Q
  <2>3. QED
    BY <1>1, <1>2, <2>1, <2>2 DEF Late, Q
<1>9. QED
  BY <1>1, <1>4, <1>5, <1>6, <1>7, <1>8 DEF TInv, RowIsClaimed, Q

\* The row of a token is looked at before the row of its session: a token that
\* has run out does not get past it.
LEMMA CheckTokenKeepsTokens ==
    ASSUME Configured, TInv, NEW c \in Calls, CheckToken(c)
    PROVE  TInv'
<1>1. /\ UNCHANGED <<workload, now, since, sessions, passed>> /\ pc[c] = "token"
      /\ \A d \in Calls \ {c} : pc'[d] = pc[d]
  BY Moves DEF CheckToken, Configured, tokens, Step
<1>2. CASE pc'[c] # "session"
  <2>1. pc'[c] \notin TokenStages \cup {"idle"}
    BY <1>2 DEF CheckToken, Go, Fail, AfterToken, TokenStages, Configured, Domains
  <2>2. QED
    BY <1>1, <2>1, TokensKept DEF TInv, TokenStages
<1>3. CASE pc'[c] = "session"
  <2>1. Q(c) # None /\ Q(c).token # None
    BY <1>1, <1>3 DEF CheckToken, Go, Fail, AfterToken, Configured, Domains, Underway, Stages
  <2>2. \A x \in OwnRow(Q(c).token) : sessions[x].exp > now
    BY <1>3, <2>1 DEF CheckToken, Go, Fail, Configured, Domains, RowAgrees
  <2>3. ~ RunOut(Q(c).token.jti)
    BY <2>2, RowsExpire DEF RunOut, OwnRow, TInv
  <2>4. Bound(c) /\ Late(c)
    BY <1>1 DEF TInv, Minding, TokenStages
  <2>5. \A x \in Sessions : Claimants(x)' = Claimants(x)
    BY <1>1 DEF Claimants, Q
  <2>6. Bound(c)' /\ Entitled(c)' /\ Late(c)'
    BY <1>1, <1>3, <2>3, <2>4, <2>5 DEF Bound, Entitled, Late, Contested, Q
  <2>7. ASSUME NEW d \in Calls \ {c}, Minding(d)' PROVE Bound(d)' /\ Entitled(d)' /\ Late(d)'
    BY <1>1, <2>7, OtherKept DEF TInv
  <2>8. \A d \in Calls : Bearing(d)'
    BY <1>1, <1>3, <2>1 DEF TInv, Bearing, Q
  <2>9. QED
    BY <1>1, <2>5, <2>6, <2>7, <2>8 DEF TInv, RowIsClaimed, Q
<1>4. QED
  BY <1>2, <1>3

\* A call that may write the row of a session that has one agrees with it, and
\* that row is of a token that claimed the session.
LEMMA CheckSessionKeepsTokens ==
    ASSUME Configured, TInv, NEW c \in Calls, CheckSession(c)
    PROVE  TInv'
<1>1. /\ UNCHANGED <<workload, now, since, sessions, passed>> /\ pc[c] = "session"
      /\ \A d \in Calls \ {c} : pc'[d] = pc[d]
  BY Moves DEF CheckSession, Configured, tokens, Step
<1>2. CASE pc'[c] # "save"
  <2>1. pc'[c] \notin TokenStages \cup {"idle"}
    BY <1>2 DEF CheckSession, Go, Fail, TokenStages, Configured, Domains
  <2>2. QED
    BY <1>1, <2>1, TokensKept DEF TInv, TokenStages
<1>3. CASE pc'[c] = "save"
  <2> DEFINE t == Q(c).token
  <2>1. Q(c) # None /\ t # None /\ t.session \in Sessions
    BY <1>1, Tokens DEF TInv, Bearing
  <2>2. SessionAgrees(t)
    BY <1>3 DEF CheckSession, Go, Fail, Configured, Domains
  <2>3. Bound(c) /\ Late(c)
    BY <1>1 DEF TInv, Minding, TokenStages
  <2>4. \A x \in Sessions : Claimants(x)' = Claimants(x)
    BY <1>1 DEF Claimants, Q
  <2>5. t.session \in since[c].bound => Vouched(t.session, t.jti)
    BY <2>1, <2>2, <2>3 DEF Bound, SessionAgrees, TInv, RowIsClaimed, Vouched
  <2>6. Bound(c)' /\ Entitled(c)' /\ Late(c)'
    BY <1>1, <2>1, <2>3, <2>4, <2>5 DEF Bound, Entitled, Late, Contested, Vouched, Q
  <2>7. \A d \in Calls \ {c} : Minding(d)' => Bound(d)' /\ Entitled(d)' /\ Late(d)'
    BY <1>1, OtherKept DEF TInv
  <2>8. \A d \in Calls : Bearing(d)'
    BY <1>1, <1>3, <2>1 DEF TInv, Bearing, Q
  <2>9. QED
    BY <1>1, <2>4, <2>6, <2>7, <2>8 DEF TInv, RowIsClaimed, Q
<1>4. QED
  BY <1>2, <1>3

\* Who overwrites the row of another token has claimed the session with it, or has
\* a token that somebody claimed it with.
LEMMA SaveSessionKeepsTokens ==
    ASSUME Configured, TInv, NEW c \in Calls, SaveSession(c), passed' = passed \cup {c}
    PROVE  /\ TInv'
           /\ \A x \in Sessions : \A old \in {sessions[x]} \ {None} :
                 sessions'[x].jti # old.jti => Contested(x, old.jti)'
<1>0. PICK t, x : t = Q(c).token /\ x = t.session
  OBVIOUS
<1> USE <1>0
<1>1. /\ UNCHANGED <<workload, now, since>> /\ pc[c] = "save" /\ pc'[c] \notin TokenStages \cup {"idle"}
      /\ \A d \in Calls \ {c} : pc'[d] = pc[d]
  <2>1. pc'[c] \notin TokenStages \cup {"idle"}
    BY DEF SaveSession, Go, Fail, AfterToken, TokenStages, Configured, Domains
  <2>2. QED
    BY <2>1, Moves DEF SaveSession, Configured, Step
<1>2. Q(c) # None /\ t # None /\ x \in Sessions /\ t.exp \in Nat
  BY <1>1, Tokens DEF TInv, Bearing
<1>3. sessions' = [sessions EXCEPT ![x] = t] \/ UNCHANGED sessions
  BY DEF SaveSession
<1>4. /\ \A y \in Sessions : Claimants(y) \subseteq Claimants(y)'
      /\ \A y \in Sessions : \A j : Vouched(y, j) => Vouched(y, j)'
      /\ \A y \in Sessions : \A j : Contested(y, j) => Contested(y, j)'
  BY <1>1, ClaimsStay
<1>5. Vouched(x, t.jti)'
  <2>1. CASE x \in since[c].bound
    BY <1>1, <1>2, <1>4, <2>1 DEF TInv, Minding, TokenStages, Entitled
  <2>2. CASE x \notin since[c].bound
    <3>1. c \in Claimants(x)'
      BY <1>1, <2>2 DEF Claimants, Q
    <3>2. QED
      BY <1>1, <3>1 DEF Vouched, Q
  <2>3. QED
    BY <2>1, <2>2
<1>6. \A e \in Claimants(x)' : Q(e) # None /\ Q(e).token # None /\ Q(e).token.session = x
  BY <1>1, <1>2 DEF TInv, Claimants, Bearing, Q
<1>7. \A j : sessions[x] # None /\ sessions[x].jti = j /\ j # t.jti => Contested(x, j)'
  <2>1. ASSUME NEW j, sessions[x] # None, sessions[x].jti = j, j # t.jti PROVE Contested(x, j)'
    <3>1. PICK e \in Claimants(x) : Q(e).token.jti = j
      BY <1>2, <2>1 DEF TInv, RowIsClaimed
    <3>2. PICK f \in Claimants(x)' : Q(f)'.token.jti = t.jti
      BY <1>5 DEF Vouched
    <3>3. QED
      BY <1>1, <1>2, <1>4, <2>1, <3>1, <3>2 DEF Contested, Q
  <2>2. QED
    BY <2>1
<1>8. sessions[x] # None /\ sessions[x].jti = t.jti => sessions[x].exp = t.exp
  BY <1>2, <1>4, <1>6, Tokens DEF TInv, RowIsClaimed, Claimants
<1>9. \A y \in Sessions : RowIsClaimed(y)'
  <2>1. ASSUME NEW y \in Sessions, sessions'[y] = sessions[y] PROVE RowIsClaimed(y)'
    BY <1>1, <1>4, <2>1 DEF TInv, RowIsClaimed, Q
  <2>2. ASSUME sessions'[x] = t PROVE RowIsClaimed(x)'
    <3>1. PICK e \in Claimants(x)' : Q(e).token.jti = t.jti
      <4>1. PICK e \in Claimants(x)' : Q(e)'.token.jti = t.jti
        BY <1>5 DEF Vouched
      <4>2. QED
        BY <1>1, <4>1 DEF Q
    <3>2. Q(e).token.exp = t.exp
      BY <1>1, <1>2, <1>6, <3>1, Tokens DEF Claimants, TInv
    <3>3. QED
      <4>1. Q(e)' = Q(e)
        BY <1>1 DEF Q
      <4>2. QED
        BY <2>2, <3>1, <3>2, <4>1 DEF RowIsClaimed
  <2>3. QED
    BY <1>2, <1>3, <2>1, <2>2 DEF TInv
<1>10. \A d \in Calls : Bearing(d)'
  BY <1>1, <1>2 DEF TInv, Bearing, Q, TokenStages
<1>11. ASSUME NEW d \in Calls, Minding(d)' PROVE Bound(d)' /\ Entitled(d)' /\ Late(d)'
  <2>1. Minding(d) /\ Bound(d) /\ Entitled(d) /\ Late(d)
    BY <1>1, <1>11 DEF Minding, TInv, TokenStages
  <2>2. Bound(d)'
    BY <1>1, <1>2, <1>3, <2>1 DEF Bound, TInv
  <2>3. Entitled(d)'
    <3>1. pc'[d] = "save" => pc[d] = "save" /\ Q(d).token.session \in Sessions
      BY <1>1, Tokens DEF TInv, Bearing, TokenStages
    <3>2. QED
      BY <1>1, <1>4, <2>1, <3>1 DEF Entitled, Q
  <2>4. ASSUME NEW j, RunOut(j) PROVE RunOut(j)' \/ \E y \in Sessions : Contested(y, j)'
    <3>1. PICK y \in Sessions : sessions[y] # None /\ sessions[y].jti = j /\ sessions[y].exp <= now
      BY <2>4 DEF RunOut
    <3>2. CASE sessions'[y] = sessions[y]
      BY <1>1, <3>1, <3>2 DEF RunOut
    <3>3. CASE y = x /\ sessions'[x] = t
      BY <1>1, <1>2, <1>7, <1>8, <3>1, <3>3 DEF RunOut
    <3>4. QED
      BY <1>3, <3>2, <3>3 DEF TInv
  <2>5. Late(d)'
    <3>1. CASE \E y \in Sessions : Contested(y, Q(d).token.jti)
      BY <1>1, <1>4, <3>1 DEF Late, Q
    <3>2. CASE d \notin passed /\ pc[d] \notin {"session", "save"} /\ RunOut(Q(d).token.jti)
      <4>1. d # c /\ pc'[d] = pc[d] /\ d \notin passed'
        BY <1>1, <3>2
      <4>2. RunOut(Q(d).token.jti)' \/ \E y \in Sessions : Contested(y, Q(d).token.jti)'
        BY <1>1, <2>4, <3>2 DEF RunOut, Contested, Claimants, Q
      <4>3. QED
        BY <3>2, <4>1, <4>2 DEF Late
    <3>3. QED
      BY <1>1, <2>1, <3>1, <3>2 DEF Late
  <2>6. QED
    BY <2>2, <2>3, <2>5
<1>12. TInv'
  BY <1>1, <1>2, <1>3, <1>9, <1>10, <1>11 DEF TInv
<1>13. QED
  BY <1>2, <1>3, <1>7, <1>12 DEF TInv

SessionStep ==
    \A x \in Sessions : \A old \in {sessions[x]} \ {None} :
        sessions'[x].jti # old.jti => Contested(x, old.jti)'

\* Every step keeps TInv, and only a save changes the token of a session.
LEMMA TokensStep ==
    ASSUME Configured, TInv, [Next]_vars
    PROVE  TInv' /\ SessionStep
<1>1. ASSUME TInv', UNCHANGED sessions PROVE TInv' /\ SessionStep
  BY <1>1 DEF SessionStep
<1>2. ASSUME NEW c \in Calls, Step(c) PROVE TInv' /\ SessionStep
  <2>1. UNCHANGED <<workload, now, since>> /\ \A d \in Calls \ {c} : pc'[d] = pc[d]
    BY <1>2, Moves DEF Configured
  <2>2. CASE Hit(c)
    <3>1. pc[c] = "limit" /\ pc'[c] \in {"token", "done"} /\ UNCHANGED <<sessions, passed>>
      BY <2>2 DEF Hit, Go, Fail, tokens, Configured, Domains
    <3>2. QED
      BY <1>1, <2>1, <3>1, TokensKept DEF TInv, TokenStages
  <2>3. CASE CheckToken(c)
    BY <1>1, <2>3, CheckTokenKeepsTokens DEF CheckToken, tokens
  <2>4. CASE CheckSession(c)
    BY <1>1, <2>4, CheckSessionKeepsTokens DEF CheckSession, tokens
  <2>5. CASE SaveSession(c)
    <3>1. CASE passed' = passed \cup {c}
      BY <2>5, <3>1, SaveSessionKeepsTokens DEF SessionStep
    <3>2. CASE passed' # passed \cup {c}
      <4>1. UNCHANGED <<sessions, passed>> /\ pc[c] = "save" /\ pc'[c] = "done"
        BY <2>5, <3>2 DEF SaveSession, Fail, Go, Configured, Domains
      <4>2. QED
        BY <1>1, <2>1, <4>1, TokensKept DEF TInv, TokenStages
    <3>3. QED
      BY <3>1, <3>2
  <2>6. CASE ~ (Hit(c) \/ CheckToken(c) \/ CheckSession(c) \/ SaveSession(c))
    <3> USE <1>2, <2>6 DEF Step, tokens, Go, Fail, Leave, Configured, Domains, TokenStages
    <3>1. /\ UNCHANGED <<sessions, passed>>
          /\ pc[c] # "idle" /\ pc'[c] \notin TokenStages \cup {"idle"}
      <4>1. CASE LookupCaller(c) \/ Register(c) \/ ConfirmCaller(c)
        BY <4>1 DEF LookupCaller, Register, ConfirmCaller
      <4>2. CASE Pay(c) \/ Verify(c) \/ Reserve(c) \/ Settle(c)
        BY <4>2 DEF Pay, Verify, Reserve, Settle
      <4>3. CASE LookupTarget(c) \/ Lock(c) \/ Wait(c) \/ Recheck(c)
        BY <4>3 DEF LookupTarget, Lock, Wait, Recheck
      <4>4. CASE Create(c) \/ ConfirmTarget(c) \/ Release(c)
        BY <4>4 DEF Create, ConfirmTarget, Release
      <4>5. CASE Ask(c) \/ Cache(c) \/ Fallback(c) \/ Deliver(c)
        BY <4>5 DEF Ask, Cache, GiveUp, Fallback, Deliver
      <4>6. QED
        BY <4>1, <4>2, <4>3, <4>4, <4>5
    <3>2. QED
      BY <1>1, <2>1, <3>1, TokensKept DEF TInv
  <2>7. QED
    BY <2>2, <2>3, <2>4, <2>5, <2>6
<1>3. ASSUME NEW c \in Calls, Begin(c) PROVE TInv' /\ SessionStep
  BY <1>1, <1>3, BeginKeepsTokens DEF Begin, tokens
<1>4. CASE \/ Tick \/ (\E s \in Subjects : Lapse(s) \/ Revise(s) \/ Revoke(s))
           \/ (\E i \in Instances : Crash(i))
  <2>1. /\ UNCHANGED <<workload, since>>
        /\ \A c \in Calls : pc'[c] = pc[c] \/ (pc'[c] = "dead" /\ pc[c] \notin {"idle", "done"})
    BY <1>4, Stays DEF Configured
  <2>2. UNCHANGED <<sessions, passed>> /\ now' \in Nat /\ now' >= now
    BY <1>4 DEF Tick, Lapse, Revise, Revoke, Crash, tokens, fixed, TInv
  <2>3. QED
    BY <1>1, <2>1, <2>2, TokensKept DEF TokenStages
<1>5. CASE UNCHANGED vars
  BY <1>1, <1>5, TokensKept DEF vars, TInv
<1>6. QED
  BY <1>2, <1>3, <1>4, <1>5 DEF Next

\* At first there are no sessions.
LEMMA TokensInit == Init => Configured /\ TInv
BY ConfiguredInit DEF Init, TInv, RowIsClaimed, Bearing, Minding, TokenStages

\* Calls of a workload, and the tokens and sessions they use, stay as TInv says.
THEOREM SessionInvariance == Spec => [](Configured /\ TInv)
<1>1. Configured /\ TInv /\ [Next]_vars => (Configured /\ TInv)'
  BY ConfiguredStep, TokensStep
<1>2. QED
  BY <1>1, TokensInit, PTL DEF Spec

\* However calls race, a session passes to another token only if both claimed it
\* while it had no row.
THEOREM SessionsKeepTheirToken == Spec => SessionKeepsToken
<1>1. Configured /\ TInv /\ [Next]_vars => [SessionStep]_vars
  BY TokensStep
<1>2. QED
  BY <1>1, SessionInvariance, PTL DEF Spec, SessionKeepsToken, SessionStep

\* A token whose session had run out when the call began does not get a call
\* through, unless another has taken the row of the session.
THEOREM SessionsEnd == Spec => []SessionEnds
<1>1. TInv => SessionEnds
  BY DEF TInv, SessionEnds, Minding, Late
<1>2. QED
  BY <1>1, SessionInvariance, PTL

-----------------------------------------------------------------------------
(* Answers and newcomers *)

Subject(c) == Q(c).subject

Tables ==
    /\ DOMAIN opinion = Subjects /\ DOMAIN cache = Subjects /\ DOMAIN passport = Subjects
    /\ DOMAIN inHand = Calls
    /\ \A s \in Subjects : opinion[s] \in Nat \ {0}

\* What a call remembers of its beginning has not been undone since.
Remembers(c) ==
    \A s \in Subjects :
        /\ since[c].rev[s] \in Nat /\ since[c].rev[s] <= opinion[s]
        /\ since[c].passport[s] = "revoked" => passport[s] = "revoked"
        /\ passport[s] = "none" => since[c].passport[s] = "none"
        /\ s \in since[c].told => cache[s] # 0

FreshIn(c, rev) ==
    /\ rev \in Nat \ {0} /\ rev >= since[c].rev[Subject(c)]
    /\ since[c].passport[Subject(c)] # "revoked"

\* What a call at a stage knows.
Working(c) ==
    /\ pc[c] = "cache" => FreshIn(c, inHand[c])
    /\ pc[c] \in {"lock", "wait", "recheck", "create", "created"} =>
          since[c].passport[Subject(c)] = "none"
    /\ pc[c] \in {"caller", "register", "confirmed"} =>
          Q(c).agent # None /\ Q(c).agent.subject \in Subjects
    /\ pc[c] \in {"register", "confirmed"} => since[c].passport[Q(c).agent.subject] = "none"
    /\ pc[c] = "deliver" => answer[c].kind = "verdict"
    /\ pc[c] = "idle" => answer[c].kind = "none"

HonestVerdict(c, a) ==
    /\ a = [kind |-> "verdict", mode |-> a.mode, reason |-> a.reason, decision |-> a.decision,
            score |-> a.score, rev |-> a.rev, route |-> a.route, risk |-> a.risk]
    /\ Subject(c) \in Subjects
    /\ a.mode = "verified" => FreshIn(c, a.rev) /\ cache[Subject(c)] # 0
    /\ a.reason = "SAFE_DEFAULT_FALLBACK" => Subject(c) \notin since[c].told
    /\ a.reason = "AUTO_BOOTSTRAPPED_SUBJECT" =>
          since[c].passport[Subject(c)] = "none" /\ Exists(Subject(c))

Honest(c) ==
    /\ answer[c].kind = "verdict" => HonestVerdict(c, answer[c])
    /\ answer[c].kind = "error" /\ answer[c].code = "CONFLICT" =>
          since[c].passport[Q(c).agent.subject] = "none"

OInv ==
    /\ Tables
    /\ \A c \in Calls : pc[c] \in Stages => Remembers(c)
    /\ \A c \in Calls : Working(c) /\ Honest(c)

\* Opinions get newer, passports are not unmade, and the cache is not emptied.
Grows ==
    /\ Tables'
    /\ \A s \in Subjects :
          /\ opinion[s] <= opinion'[s]
          /\ passport[s] = "revoked" => passport'[s] = "revoked"
          /\ passport'[s] = "none" => passport[s] = "none"
          /\ cache[s] # 0 => cache'[s] # 0

\* To create a passport takes nothing away.
LEMMA CreationGrows ==
    ASSUME OInv, NEW s \in Subjects, NEW k, NEW body, Created(<<k, s>>, body), UNCHANGED <<cache, inHand>>
    PROVE  Grows
BY DEF Created, Conflicts, Exists, OInv, Tables, Grows

\* Nor does any other step.
LEMMA WorldGrows ==
    ASSUME Configured, OInv, [Next]_vars
    PROVE  Grows
<1>1. ASSUME UNCHANGED <<asking, upstream>> PROVE Grows
  BY <1>1 DEF asking, upstream, OInv, Tables, Grows
<1>2. ASSUME NEW c \in Calls, Step(c) PROVE Grows
  <2>1. pc[c] \in Stages /\ Subject(c) \in Subjects
    BY <1>2, Moves DEF Configured, Subject
  <2>2. CASE Register(c)
    <3>1. Q(c).agent.subject \in Subjects
      BY <2>2 DEF Register, OInv, Working
    <3>2. QED
      BY <1>1, <2>2, <3>1, CreationGrows DEF Register, asking
  <2>3. CASE Create(c)
    BY <1>1, <2>1, <2>3, CreationGrows DEF Create, asking, Subject
  <2>4. CASE Ask(c) \/ Fallback(c)
    BY <2>1, <2>4 DEF Ask, GiveUp, Fallback, asking, upstream, OInv, Tables, Grows
  <2>5. CASE Cache(c)
    BY <2>1, <2>5 DEF Cache, GiveUp, upstream, OInv, Tables, Grows, Working, FreshIn, Subject
  <2>6. CASE Hit(c) \/ CheckToken(c) \/ CheckSession(c) \/ SaveSession(c)
    BY <1>1, <2>6 DEF Hit, CheckToken, CheckSession, SaveSession
  <2>7. CASE LookupCaller(c) \/ ConfirmCaller(c)
    BY <1>1, <2>7 DEF LookupCaller, ConfirmCaller
  <2>8. CASE Pay(c) \/ Verify(c) \/ Reserve(c) \/ Settle(c)
    BY <1>1, <2>8 DEF Pay, Verify, Reserve, Settle
  <2>9. CASE LookupTarget(c) \/ Lock(c) \/ Wait(c) \/ Recheck(c) \/ ConfirmTarget(c)
              \/ Release(c) \/ Deliver(c)
    BY <1>1, <2>9 DEF LookupTarget, Lock, Wait, Recheck, ConfirmTarget, Release, Deliver
  <2>10. QED
    BY <1>2, <2>2, <2>3, <2>4, <2>5, <2>6, <2>7, <2>8, <2>9 DEF Step
<1>3. ASSUME NEW s \in Subjects, Lapse(s) \/ Revise(s) \/ Revoke(s) PROVE Grows
  BY <1>1, <1>3 DEF Lapse, Revise, Revoke, asking, upstream, OInv, Tables, Grows
<1>4. CASE Tick \/ (\E i \in Instances : Crash(i)) \/ (\E c \in Calls : Begin(c)) \/ UNCHANGED vars
  BY <1>1, <1>4 DEF Tick, Crash, Begin, vars, asking, upstream
<1>5. QED
  BY <1>2, <1>3, <1>4 DEF Next

\* What a call knows stays true while the world grows.
LEMMA MemoryKept ==
    ASSUME OInv, Grows, UNCHANGED workload, NEW c \in Calls, since'[c] = since[c]
    PROVE  /\ pc[c] \in Stages => Remembers(c)'
           /\ answer'[c] = answer[c] => Honest(c)'
<1>1. pc[c] \in Stages => Remembers(c)'
  BY DEF OInv, Grows, Tables, Remembers
<1>2. ASSUME answer'[c] = answer[c] PROVE Honest(c)'
  <2>1. ASSUME answer[c].kind = "verdict" PROVE HonestVerdict(c, answer[c])'
    BY <1>2, <2>1 DEF OInv, Grows, Honest, HonestVerdict, FreshIn, Exists, Subject, Q
  <2>2. QED
    BY <1>2, <2>1 DEF OInv, Honest, Q
<1>3. QED
  BY <1>1, <1>2

\* The other calls know what they knew.
LEMMA OtherCallKept ==
    ASSUME OInv, Grows, UNCHANGED workload, NEW c \in Calls,
           since'[c] = since[c] /\ answer'[c] = answer[c] /\ inHand'[c] = inHand[c],
           pc'[c] = pc[c] \/ pc'[c] = "dead"
    PROVE  (pc'[c] \in Stages => Remembers(c)') /\ Working(c)' /\ Honest(c)'
<1>1. Working(c)'
  BY DEF OInv, Working, FreshIn, Subject, Q
<1>2. QED
  BY <1>1, MemoryKept DEF Stages

\* The agent a call names has a subject.
LEMMA AgentsAreSubjects ==
    ASSUME Configured, NEW c \in Calls, Q(c) # None, Q(c).agent # None
    PROVE  Q(c).agent.subject \in Subjects
BY CallsAssumption DEF Configured, Q

\* What a call learns up to the bootstrap of its target is so.
LEMMA WayToTarget ==
    ASSUME Configured, OInv, Grows, NEW c \in Calls, Step(c),
           \/ Hit(c) \/ CheckToken(c) \/ CheckSession(c) \/ SaveSession(c)
           \/ LookupCaller(c) \/ Register(c) \/ ConfirmCaller(c)
           \/ Pay(c) \/ Verify(c) \/ Reserve(c) \/ Settle(c)
    PROVE  Working(c)' /\ Honest(c)'
<1> USE DEF Go, Fail, Failure, Domains, Configured
<1>1. /\ UNCHANGED <<workload, since>> /\ pc[c] \in Stages /\ Q(c) # None /\ Q(c)' = Q(c)
      /\ Remembers(c) /\ Working(c)
  BY Moves DEF OInv, Underway, Q
<1>2. answer'[c] = answer[c] \/ (answer'[c].kind = "error" /\ answer'[c].code # "CONFLICT")
        \/ (Register(c) /\ answer'[c] = Failure(c, "CONFLICT"))
  <2>1. CASE Hit(c) \/ CheckToken(c) \/ CheckSession(c) \/ SaveSession(c)
    BY <2>1 DEF Hit, CheckToken, CheckSession, SaveSession
  <2>2. CASE LookupCaller(c) \/ Register(c) \/ ConfirmCaller(c)
    BY <2>2 DEF LookupCaller, Register, ConfirmCaller
  <2>3. CASE Pay(c) \/ Verify(c) \/ Reserve(c) \/ Settle(c)
    BY <2>3 DEF Pay, Verify, Reserve, Settle
  <2>4. QED
    BY <2>1, <2>2, <2>3
<1>3. Honest(c)'
  <2>1. CASE answer'[c] = answer[c]
    BY <1>1, <2>1, MemoryKept
  <2>2. CASE answer'[c].kind = "error" /\ answer'[c].code # "CONFLICT"
    BY <2>2 DEF Honest
  <2>3. CASE Register(c) /\ answer'[c] = Failure(c, "CONFLICT")
    BY <1>1, <2>3 DEF Honest, Register, Working
  <2>4. QED
    BY <1>2, <2>1, <2>2, <2>3
<1>4. Working(c)'
  <2> USE <1>1 DEF Working
  <2>1. CASE Hit(c) \/ CheckToken(c) \/ CheckSession(c) \/ SaveSession(c)
    BY <2>1, AgentsAreSubjects DEF Hit, CheckToken, CheckSession, SaveSession, AfterToken
  <2>2. CASE LookupCaller(c)
    BY <2>2 DEF LookupCaller, Exists, Remembers
  <2>3. CASE Register(c) \/ ConfirmCaller(c)
    BY <2>3 DEF Register, ConfirmCaller
  <2>4. CASE Pay(c) \/ Verify(c) \/ Reserve(c) \/ Settle(c)
    BY <2>4 DEF Pay, Verify, Reserve, Settle
  <2>5. QED
    BY <2>1, <2>2, <2>3, <2>4
<1>5. QED
  BY <1>3, <1>4

\* What it answers then is what it was told.
LEMMA WayFromTarget ==
    ASSUME Configured, OInv, Grows, NEW c \in Calls, Step(c),
           \/ LookupTarget(c) \/ Lock(c) \/ Wait(c) \/ Recheck(c)
           \/ Create(c) \/ ConfirmTarget(c) \/ Release(c)
           \/ Ask(c) \/ Cache(c) \/ Fallback(c) \/ Deliver(c)
    PROVE  Working(c)' /\ Honest(c)'
<1> USE DEF Go, Fail, Failure, Leave, Domains, Configured
<1>1. /\ UNCHANGED <<workload, since>> /\ pc[c] \in Stages /\ Q(c) # None /\ Q(c)' = Q(c)
      /\ Remembers(c) /\ Working(c) /\ Subject(c) \in Subjects /\ Subject(c)' = Subject(c)
  BY Moves DEF OInv, Underway, Q, Subject
<1>2. ASSUME answer'[c].kind = "error", answer'[c].code # "CONFLICT" PROVE Honest(c)'
  BY <1>2 DEF Honest
<1>3. answer'[c] = answer[c] => Honest(c)'
  BY <1>1, MemoryKept
<1>4. ASSUME answer'[c] = NoAnswer PROVE Honest(c)'
  BY <1>4 DEF Honest, NoAnswer
<1> USE <1>1 DEF Subject, Working
<1>5. CASE LookupTarget(c)
  BY <1>2, <1>3, <1>5 DEF LookupTarget, Exists, Remembers
<1>6. CASE Lock(c)
  BY <1>2, <1>3, <1>6 DEF Lock
<1>7. CASE Wait(c) \/ Recheck(c)
  BY <1>3, <1>4, <1>7 DEF Wait, Recheck, NoAnswer
<1>8. CASE Create(c)
  BY <1>2, <1>3, <1>8 DEF Create, NoAnswer
<1>9. CASE ConfirmTarget(c)
  <2>1. CASE answer'[c] = Failure(c, "UPSTREAM")
    BY <1>2, <1>9, <2>1 DEF ConfirmTarget, NoAnswer
  <2>2. CASE Exists(Q(c).subject) /\ Leave(c, LastResort("AUTO_BOOTSTRAPPED_SUBJECT"))
    BY <1>9, <2>2 DEF ConfirmTarget, LastResort, Verdict, NoAnswer, Honest, HonestVerdict, Exists, Grows
  <2>3. QED
    BY <1>9, <2>1, <2>2 DEF ConfirmTarget
<1>10. CASE Release(c)
  BY <1>2, <1>3, <1>10 DEF Release
<1>11. CASE Ask(c)
  BY <1>3, <1>11 DEF Ask, GiveUp, Remembers, FreshIn, OInv, Tables
<1>12. CASE Cache(c)
  <2>1. CASE GiveUp(c)
    BY <1>3, <1>12, <2>1 DEF Cache, GiveUp
  <2>2. CASE ~ GiveUp(c)
    <3>1. /\ answer'[c] = Opinion("verified", None, inHand[c]) /\ pc'[c] = "deliver"
          /\ cache' = [cache EXCEPT ![Subject(c)] = inHand[c]]
          /\ inHand' = inHand
          /\ FreshIn(c, inHand[c])
      BY <1>12, <2>2 DEF Cache
    <3>2. cache'[Subject(c)] = inHand[c] /\ inHand[c] # 0
      BY <3>1 DEF OInv, Tables, FreshIn
    <3>3. FreshIn(c, inHand[c])'
      BY <3>1 DEF FreshIn
    <3>4. HonestVerdict(c, answer[c])'
      BY <3>1, <3>2, <3>3, ReasonsAssumption DEF HonestVerdict, Opinion, Verdict
    <3>5. QED
      BY <3>1, <3>4 DEF Honest, Opinion, Verdict
  <2>3. QED
    BY <2>1, <2>2
<1>13. CASE Fallback(c)
  BY <1>2, <1>13 DEF Fallback, LastResort, Opinion, Verdict, Honest, HonestVerdict, Remembers, OInv, Tables, Grows
<1>14. CASE Deliver(c)
  <2>1. CASE answer'[c] = answer[c] /\ pc'[c] = "done"
    BY <1>3, <2>1
  <2>2. CASE Go(c, "done") /\ answer' = [answer EXCEPT ![c] =
                 [@ EXCEPT !.route = Route(answer[c].decision), !.risk = Risk(answer[c].score)]]
    <3> PICK a : a = answer[c]
      OBVIOUS
    <3>1. answer[c].kind = "verdict" /\ HonestVerdict(c, a) /\ HonestVerdict(c, a)'
      <4>1. a.kind = "verdict" /\ HonestVerdict(c, a)
        BY <1>14 DEF Deliver, OInv, Honest
      <4>2. QED
        BY <4>1 DEF HonestVerdict, FreshIn, Exists, Grows
    <3>2. answer'[c] = [kind |-> "verdict", mode |-> a.mode, reason |-> a.reason,
                        decision |-> a.decision, score |-> a.score, rev |-> a.rev,
                        route |-> Route(a.decision), risk |-> Risk(a.score)]
      BY <2>2, <3>1 DEF HonestVerdict
    <3>3. QED
      BY <2>2, <3>1, <3>2 DEF Honest, HonestVerdict, FreshIn, Exists
  <2>3. CASE answer' = [answer EXCEPT ![c] = Failure(c, "STORE")] /\ pc'[c] = "done"
    BY <1>2, <2>3
  <2>4. QED
    BY <1>14, <2>1, <2>2, <2>3 DEF Deliver
<1>15. QED
  BY <1>5, <1>6, <1>7, <1>8, <1>9, <1>10, <1>11, <1>12, <1>13, <1>14

\* A step of one call leaves what another has in hand.
LEMMA AwayFromHand ==
    ASSUME Tables, NEW d \in Calls, Step(d), NEW c \in Calls, c # d
    PROVE  inHand'[c] = inHand[c]
<1>1. CASE Ask(d) \/ Cache(d)
  BY <1>1 DEF Ask, Cache, GiveUp, Tables
<1>2. CASE ~ (Ask(d) \/ Cache(d))
  <2>1. CASE Hit(d) \/ CheckToken(d) \/ CheckSession(d) \/ SaveSession(d)
    BY <2>1 DEF Hit, CheckToken, CheckSession, SaveSession, asking
  <2>2. CASE LookupCaller(d) \/ Register(d) \/ ConfirmCaller(d)
    BY <2>2 DEF LookupCaller, Register, ConfirmCaller, asking
  <2>3. CASE Pay(d) \/ Verify(d) \/ Reserve(d) \/ Settle(d)
    BY <2>3 DEF Pay, Verify, Reserve, Settle, asking
  <2>4. CASE LookupTarget(d) \/ Lock(d) \/ Wait(d) \/ Recheck(d)
    BY <2>4 DEF LookupTarget, Lock, Wait, Recheck, asking
  <2>5. CASE Create(d) \/ ConfirmTarget(d) \/ Release(d) \/ Fallback(d) \/ Deliver(d)
    BY <2>5 DEF Create, ConfirmTarget, Release, Fallback, Deliver, asking
  <2>6. QED
    BY <1>2, <2>1, <2>2, <2>3, <2>4, <2>5 DEF Step
<1>3. QED
  BY <1>1, <1>2

\* A call that begins remembers the world as it is.
LEMMA BeginKeepsOpinions ==
    ASSUME Configured, OInv, Grows, NEW c \in Calls, Begin(c)
    PROVE  (pc'[c] \in Stages => Remembers(c)') /\ Working(c)' /\ Honest(c)'
<1>1. UNCHANGED <<workload, opinion, passport, cache>>
  BY DEF Begin, asking, upstream
<1>2. /\ pc[c] = "idle" /\ pc'[c] \in {"limit", "done"} /\ since'[c] = Remembered(c)
  BY Begins DEF Configured
<1>3. answer'[c].kind \in {"none", "error"} /\ (answer'[c].kind = "error" => answer'[c].code = "DOOR")
  BY <1>2 DEF Begin, OInv, Working, Configured, Domains
<1>4. Remembers(c)'
  <2>1. ASSUME NEW s \in Remembered(c).told PROVE s \in Subjects /\ cache[s] # 0
    <3>1. s \in Subjects /\ \E d \in Calls : /\ answer[d].kind = "verdict"
                                              /\ answer[d].mode = "verified"
                                              /\ Subject(d) = s
      BY <2>1 DEF Remembered, Subject
    <3>2. QED
      BY <3>1 DEF OInv, Honest, HonestVerdict
  <2>2. ASSUME NEW s \in Subjects
        PROVE  /\ Remembered(c).rev[s] = opinion[s]
               /\ Remembered(c).passport[s] = passport[s]
    BY DEF Remembered
  <2>3. QED
    BY <1>1, <1>2, <2>1, <2>2 DEF Remembers, OInv, Tables
<1>5. Working(c)' /\ Honest(c)'
  BY <1>2, <1>3 DEF Working, Honest
<1>6. QED
  BY <1>4, <1>5

\* Every step keeps what calls know, and what their answers say.
LEMMA OpinionsStep ==
    ASSUME Configured, OInv, [Next]_vars
    PROVE  OInv'
<1>1. Grows
  BY WorldGrows
<1>2. SUFFICES ASSUME NEW c \in Calls
               PROVE  (pc'[c] \in Stages => Remembers(c)') /\ Working(c)' /\ Honest(c)'
  BY <1>1, <1>2 DEF OInv, Grows
<1>3. CASE \E d \in Calls : Step(d)
  <2> PICK d \in Calls : Step(d)
    BY <1>3
  <2>1. UNCHANGED <<workload, since>> /\ pc[d] \in Stages
    BY Moves DEF Configured
  <2>2. CASE c = d
    <3>1. Working(c)' /\ Honest(c)'
      BY <1>1, <2>2, WayToTarget, WayFromTarget DEF Step
    <3>2. QED
      BY <1>1, <2>1, <2>2, <3>1, MemoryKept
  <2>3. CASE c # d
    <3>1. pc'[c] = pc[c] /\ answer'[c] = answer[c]
      BY <2>3, Moves DEF Configured
    <3>2. inHand'[c] = inHand[c]
      BY <2>3, AwayFromHand DEF OInv
    <3>3. QED
      BY <1>1, <2>1, <3>1, <3>2, OtherCallKept
  <2>4. QED
    BY <2>2, <2>3
<1>4. CASE \E d \in Calls : Begin(d)
  <2> PICK d \in Calls : Begin(d)
    BY <1>4
  <2>1. UNCHANGED <<workload, inHand>>
    BY DEF Begin, asking
  <2>2. CASE c = d
    BY <1>1, <2>1, <2>2, BeginKeepsOpinions
  <2>3. CASE c # d
    BY <1>1, <2>1, <2>3, Begins, OtherCallKept DEF Configured
  <2>4. QED
    BY <2>2, <2>3
<1>5. CASE \/ Tick \/ (\E s \in Subjects : Lapse(s) \/ Revise(s) \/ Revoke(s))
           \/ (\E i \in Instances : Crash(i))
  <2>1. /\ UNCHANGED <<workload, since>>
        /\ pc'[c] = pc[c] \/ (pc'[c] = "dead" /\ pc[c] \notin {"idle", "done"})
    BY <1>5, Stays DEF Configured
  <2>2. UNCHANGED <<answer, inHand>>
    BY <1>5 DEF Tick, Lapse, Revise, Revoke, Crash, asking
  <2>3. QED
    BY <1>1, <2>1, <2>2, OtherCallKept
<1>6. CASE UNCHANGED vars
  BY <1>1, <1>6, OtherCallKept DEF vars
<1>7. QED
  BY <1>3, <1>4, <1>5, <1>6 DEF Next

\* No call knows anything at first.
LEMMA OpinionsInit == Init => OInv
<1> SUFFICES ASSUME Init PROVE OInv
  OBVIOUS
<1>1. Tables
  BY DEF Init, Tables
<1>2. ASSUME NEW c \in Calls PROVE pc[c] \notin Stages /\ Working(c) /\ Honest(c)
  BY DEF Init, Working, Honest, Stages, NoAnswer
<1>3. QED
  BY <1>1, <1>2 DEF OInv

\* What calls know and what their answers say stays true.
THEOREM OpinionInvariance == Spec => [](Configured /\ OInv)
<1>1. Configured /\ OInv /\ [Next]_vars => (Configured /\ OInv)'
  BY ConfiguredStep, OpinionsStep
<1>2. Init => Configured /\ OInv
  BY ConfiguredInit, OpinionsInit
<1>3. QED
  BY <1>1, <1>2, PTL DEF Spec

\* A verdict called verified is no older than its call, and the made-up verdict
\* is given only about a subject of whom nobody had heard a verified one.
THEOREM AnswersTellTheTruth == Spec => []AnswersAreHonest
<1>1. OInv => AnswersAreHonest
  BY DEF OInv, Honest, HonestVerdict, FreshIn, Subject, Because, Verdicts,
         AnswersAreHonest, VerifiedIsFresh, DefaultIsLastResort
<1>2. QED
  BY <1>1, OpinionInvariance, PTL

-----------------------------------------------------------------------------
(* The bootstrap lock *)

LockStages == {"recheck", "create", "created", "release"}

\* Who is in the table has the lock, or failed to give it back.
Owns(c, s) ==
    /\ Subject(c) = s
    /\ c \in holding \/ (pc[c] = "done" /\ c \in FailedWith("STORE"))

LInv ==
    /\ DOMAIN lock = Subjects /\ holding \subseteq Calls
    /\ \A c \in holding : pc[c] \in LockStages \cup {"dead"}
    /\ \A s \in Subjects : lock[s] # None => lock[s] \in [owner : Calls, lapsed : BOOLEAN]
    /\ \A s \in Subjects : \A c \in Calls :
          lock[s] # None /\ lock[s].owner = c => Owns(c, s)

\* Calls that stay where they are, or die, stay in their rights.
LEMMA RightsStay ==
    ASSUME LInv, UNCHANGED <<workload, holding>>,
           \A c \in Calls : \/ pc'[c] = pc[c] /\ answer'[c] = answer[c]
                            \/ pc[c] # "done" /\ pc'[c] = "dead"
                            \/ pc[c] # "done" /\ c \notin holding
                            \/ pc[c] # "done" /\ pc'[c] \in LockStages,
           \/ lock' = lock
           \/ \E s \in Subjects : lock[s] # None /\ lock' = [lock EXCEPT ![s].lapsed = TRUE]
    PROVE  LInv'
<1>1. ASSUME NEW c \in holding PROVE pc'[c] \in LockStages \cup {"dead"}
  BY <1>1 DEF LInv
<1>2. ASSUME NEW s \in Subjects, lock'[s] # None
      PROVE  lock'[s] \in [owner : Calls, lapsed : BOOLEAN]
             /\ lock[s] # None /\ lock'[s].owner = lock[s].owner
  <2>1. CASE lock'[s] = lock[s]
    BY <1>2, <2>1 DEF LInv
  <2>2. CASE lock[s] # None /\ lock' = [lock EXCEPT ![s].lapsed = TRUE]
    <3>1. lock[s] \in [owner : Calls, lapsed : BOOLEAN]
      BY <2>2 DEF LInv
    <3>2. lock'[s] = [lock[s] EXCEPT !.lapsed = TRUE]
      BY <2>2 DEF LInv
    <3>3. QED
      BY <2>2, <3>1, <3>2
  <2>3. QED
    BY <2>1, <2>2 DEF LInv
<1>3. ASSUME NEW s \in Subjects, NEW c \in Calls, lock'[s] # None, lock'[s].owner = c
      PROVE  Owns(c, s)'
  <2>1. Owns(c, s)
    BY <1>2, <1>3 DEF LInv
  <2>2. QED
    BY <2>1 DEF Owns, Subject, Q, FailedWith
<1>4. DOMAIN lock' = Subjects
  BY DEF LInv
<1>5. QED
  BY <1>1, <1>2, <1>3, <1>4 DEF LInv

\* Every step leaves locks with those who have them, or had and failed to give back.
LEMMA LockStep ==
    ASSUME Configured, LInv, [Next]_vars
    PROVE  LInv'
<1>1. ASSUME NEW c \in Calls, Step(c) PROVE LInv'
  <2> USE <1>1
  <2>1. /\ UNCHANGED workload /\ pc[c] \in Stages /\ Subject(c) \in Subjects
        /\ DOMAIN pc = Calls /\ DOMAIN answer = Calls
        /\ \A d \in Calls \ {c} : pc'[d] = pc[d] /\ answer'[d] = answer[d]
    BY Moves DEF Configured, Domains, Subject
  <2>2. pc[c] # "done"
    BY <2>1 DEF Stages
  <2>3. ASSUME UNCHANGED locks, c \notin holding \/ pc'[c] \in LockStages PROVE LInv'
    BY <2>1, <2>2, <2>3, RightsStay DEF locks
  <2>4. CASE Lock(c)
    <3>1. pc[c] = "lock" /\ c \notin holding
      BY <2>4 DEF Lock, LInv, LockStages
    <3>2. CASE UNCHANGED locks
      BY <2>3, <3>1, <3>2
    <3>3. CASE /\ lock' = [lock EXCEPT ![Subject(c)] = [owner |-> c, lapsed |-> FALSE]]
               /\ holding' = holding \cup {c} /\ pc'[c] = "recheck"
      <4>1. lock'[Subject(c)] = [owner |-> c, lapsed |-> FALSE]
        BY <2>1, <3>3 DEF Owns, Subject, Q, LInv
      <4>2. ASSUME NEW s \in Subjects, NEW d \in Calls, lock'[s] # None, lock'[s].owner = d
            PROVE  lock'[s] \in [owner : Calls, lapsed : BOOLEAN] /\ Owns(d, s)'
        <5>1. CASE s = Subject(c)
          <6>1. d = c
            BY <4>1, <4>2, <5>1
          <6>2. QED
            BY <2>1, <3>3, <5>1, <6>1, <4>1 DEF Owns, Subject, Q, LInv
        <5>2. CASE s # Subject(c)
          <6>1. lock'[s] = lock[s] /\ Owns(d, s)
            BY <3>3, <4>2, <5>2 DEF LInv
          <6>2. QED
            BY <2>1, <2>2, <3>1, <3>3, <4>2, <5>2, <6>1 DEF Owns, Subject, Q, LInv, FailedWith
        <5>3. QED
          BY <5>1, <5>2
      <4>3. \A d \in holding' : pc'[d] \in LockStages \cup {"dead"}
        BY <2>1, <3>3 DEF LInv, LockStages
      <4>4. QED
        BY <2>1, <3>3, <4>1, <4>2, <4>3 DEF LInv
    <3>4. QED
      BY <2>1, <2>4, <3>2, <3>3 DEF Lock, Go, Fail, Subject
  <2>5. CASE Release(c)
    <3>1. /\ holding' = holding \ {c}
          /\ \/ lock' = [lock EXCEPT ![Subject(c)] = IF @ # None /\ @.owner = c THEN None ELSE @]
             \/ lock' = lock /\ pc'[c] = "done" /\ answer'[c] = Failure(c, "STORE")
      BY <2>1, <2>5 DEF Release, Fail, Go, Subject
    <3>2. ASSUME NEW s \in Subjects, NEW o \in Calls, lock'[s] # None, lock'[s].owner = o
          PROVE  Owns(o, s)'
      <4>1. lock'[s] = lock[s] /\ Owns(o, s)
        BY <2>1, <3>1, <3>2 DEF LInv
      <4>2. CASE o # c
        BY <2>1, <3>1, <4>1, <4>2 DEF Owns, Subject, Q, FailedWith
      <4>3. CASE o = c
        <5>1. s = Subject(c)
          BY <4>1, <4>3 DEF Owns
        <5>2. pc'[c] = "done" /\ answer'[c] = Failure(c, "STORE")
          BY <2>1, <3>1, <3>2, <4>1, <4>3, <5>1 DEF LInv
        <5>3. QED
          BY <2>1, <4>3, <5>1, <5>2 DEF Owns, Subject, Q, FailedWith, Failure
      <4>4. QED
        BY <4>2, <4>3
    <3>3. \A d \in holding' : pc'[d] \in LockStages \cup {"dead"}
      BY <2>1, <3>1 DEF LInv
    <3>4. QED
      <4>1. \A s \in Subjects : lock'[s] # None => lock'[s] \in [owner : Calls, lapsed : BOOLEAN]
        BY <2>1, <3>1 DEF LInv
      <4>2. DOMAIN lock' = Subjects /\ holding' \subseteq Calls
        BY <3>1 DEF LInv
      <4>3. QED
        BY <3>2, <3>3, <4>1, <4>2 DEF LInv
  <2>6. CASE Recheck(c) \/ Create(c) \/ ConfirmTarget(c)
    <3>1. UNCHANGED locks /\ (pc'[c] = "release" \/ pc'[c] \in LockStages \/ c \notin holding)
      BY <2>1, <2>6 DEF Recheck, Create, ConfirmTarget, Leave, Go, LockStages
    <3>2. QED
      BY <2>3, <3>1 DEF LockStages
  <2>7. CASE ~ (Lock(c) \/ Release(c) \/ Recheck(c) \/ Create(c) \/ ConfirmTarget(c))
    <3>1. UNCHANGED locks /\ pc[c] \notin LockStages \cup {"dead"}
      <4> USE <2>7 DEF Step, LockStages
      <4>1. CASE Hit(c) \/ CheckToken(c) \/ CheckSession(c) \/ SaveSession(c)
        BY <4>1 DEF Hit, CheckToken, CheckSession, SaveSession
      <4>2. CASE LookupCaller(c) \/ Register(c) \/ ConfirmCaller(c)
        BY <4>2 DEF LookupCaller, Register, ConfirmCaller
      <4>3. CASE Pay(c) \/ Verify(c) \/ Reserve(c) \/ Settle(c)
        BY <4>3 DEF Pay, Verify, Reserve, Settle
      <4>4. CASE LookupTarget(c) \/ Wait(c)
        BY <4>4 DEF LookupTarget, Wait
      <4>5. CASE Ask(c) \/ Cache(c) \/ Fallback(c) \/ Deliver(c)
        BY <4>5 DEF Ask, Cache, Fallback, Deliver
      <4>6. QED
        BY <4>1, <4>2, <4>3, <4>4, <4>5
    <3>2. QED
      BY <2>3, <3>1 DEF LInv
  <2>8. QED
    BY <2>4, <2>5, <2>6, <2>7
<1>2. CASE \E c \in Calls : Begin(c)
  <2> PICK c \in Calls : Begin(c)
    BY <1>2
  <2>1. /\ UNCHANGED <<workload, lock, holding>> /\ pc[c] = "idle"
        /\ \A d \in Calls \ {c} : pc'[d] = pc[d] /\ answer'[d] = answer[d]
    BY Begins DEF Begin, locks, Configured
  <2>2. c \notin holding
    BY <2>1 DEF LInv, LockStages
  <2>3. QED
    BY <2>1, <2>2, RightsStay
<1>3. CASE Tick \/ (\E s \in Subjects : Revise(s) \/ Revoke(s)) \/ (\E i \in Instances : Crash(i))
  <2>1. \A c \in Calls : pc'[c] = pc[c] \/ (pc'[c] = "dead" /\ pc[c] \notin {"idle", "done"})
    BY <1>3, Stays DEF Configured
  <2>2. UNCHANGED <<workload, answer, lock, holding>>
    BY <1>3 DEF Tick, Revise, Revoke, Crash, locks, fixed
  <2>3. QED
    BY <2>1, <2>2, RightsStay
<1>4. CASE \E s \in Subjects : Lapse(s)
  <2> PICK s \in Subjects : Lapse(s)
    BY <1>4
  <2>1. /\ UNCHANGED <<workload, pc, answer, holding>>
        /\ lock[s] # None /\ lock' = [lock EXCEPT ![s].lapsed = TRUE]
    BY DEF Lapse, Taken, fixed
  <2>2. lock'[s].owner = lock[s].owner /\ lock'[s] \in [owner : Calls, lapsed : BOOLEAN]
    BY <2>1 DEF LInv
  <2>3. QED
    BY <2>1, <2>2, RightsStay
<1>5. CASE UNCHANGED vars
  BY <1>5, RightsStay DEF vars
<1>6. QED
  BY <1>1, <1>2, <1>3, <1>4, <1>5 DEF Next

\* No subject is locked at first.
LEMMA LocksInit == Init => LInv
BY DEF Init, LInv

\* Only unknown subjects are bootstrapped, only unknown callers refused for a
\* conflict, and no call that is over has the lock unless releasing it threw.
THEOREM BootstrapsAreOrderly == Spec => []BootstrapIsOrderly
<1>1. Init => LInv
  BY LocksInit
<1>2. Configured /\ LInv /\ [Next]_vars => LInv'
  BY LockStep
<1>3. OInv => NewcomersWereUnknown
  BY DEF OInv, Honest, HonestVerdict, Subject, NewcomersWereUnknown, Because, Verdicts, FailedWith
<1>4. LInv => LockIsReleased
  BY DEF LInv, Owns, LockStages, LockIsReleased
<1>5. QED
  BY <1>1, <1>2, <1>3, <1>4, OpinionInvariance, PTL DEF Spec, BootstrapIsOrderly

-----------------------------------------------------------------------------
(* Payments *)

\* A valid configuration keeps what it was given and has a network, a normal
\* one; in production it is the main network.
LEMMA GoodConfig ==
    ASSUME NEW w \in Workloads, Valid(w.env), NEW config, config = Config(w.env)
    PROVE  /\ config.required = w.env.required
           /\ config.networks[1] # None
           /\ NormalNetwork(config.networks[1]) = config.networks[1]
           /\ config.address # None
           /\ config.provider = "cdp" => config.payTo # None
           /\ Production(config) =>
                  config.networks[1] = Mainnet /\ ToSet(config.networks) = {Mainnet}
           /\ Requirement(config, 1) # None
<1> USE ConfigAssumption
<1> DEFINE env == w.env
<1>1. /\ config.payTo = env.payTo /\ config.provider = env.provider
      /\ config.required = env.required
      /\ config.nodeEnv = env.nodeEnv /\ config.environment = env.environment
      /\ config.networks = IF env.network # None THEN <<NormalNetwork(env.network)>>
                           ELSE [i \in DOMAIN env.networks |-> NormalNetwork(env.networks[i])]
      /\ config.address = Or(env.address, IF Mainnet \in ToSet(config.networks)
                                          THEN "usdc@mainnet" ELSE "usdc@sepolia")
  BY DEF Config
<1>2. \E n : n # None /\ config.networks[1] = NormalNetwork(n)
  <2>1. CASE env.network # None
    BY <1>1, <2>1
  <2>2. CASE env.network = None
    <3>1. env.networks \in Seq(Range(env.networks) \ {None}) /\ env.networks # <<>>
      BY <2>2 DEF Valid
    <3>2. 1 \in DOMAIN env.networks /\ env.networks[1] # None
      BY <3>1
    <3>3. QED
      BY <1>1, <2>2, <3>2
  <2>3. QED
    BY <2>1, <2>2
<1>3. config.networks[1] # None /\ NormalNetwork(config.networks[1]) = config.networks[1]
  BY <1>2 DEF NormalNetwork, Mainnet, Sepolia
<1>4. config.address # None
  BY <1>1 DEF Or
<1>5. config.provider = "cdp" => config.payTo # None
  BY <1>1 DEF Valid, GoodProvider
<1>6. ASSUME Production(config)
      PROVE  config.networks[1] = Mainnet /\ ToSet(config.networks) = {Mainnet}
  <2>1. NormalNetwork(env.network) = Mainnet
    BY <1>1, <1>6 DEF Production, Valid, GoodProduction
  <2>2. env.network # None
    BY <2>1 DEF NormalNetwork, Mainnet
  <2>3. config.networks = <<Mainnet>>
    BY <1>1, <2>1, <2>2
  <2>4. QED
    BY <2>3 DEF ToSet
<1>7. QED
  BY <1>1, <1>3, <1>4, <1>5, <1>6

\* Over the route the terms are the server's, and the payload is the one that came.
LEMMA TermsOfRoute ==
    ASSUME NEW config, NEW sent, DOMAIN sent.body = DOMAIN NoPayment,
           NEW p, p = Presented("http", config, sent)
    PROVE  /\ p.requirements = Requirement(config, 1)
           /\ p.payload \in {sent.header, sent.body.payload}
BY DEF Presented, Merged, HeaderPayment, NoPayment

\* What a facilitator approves was signed as the server asks.
LEMMA SignedAsAsked ==
    ASSUME NEW config, NEW p, p.requirements = Requirement(config, 1), Requirement(config, 1) # None,
           p.payload # None, DOMAIN p.payload = {"accepted", "signed"},
           p.payload.accepted # None => DOMAIN p.payload.accepted = DOMAIN NoTerms,
           config.networks[1] # None, config.address # None,
           config.provider = "cdp" => config.payTo # None,
           Verifiable(config, p, 1)
    PROVE  /\ p.payload.signed.payTo = config.payTo
           /\ p.payload.signed.asset = config.address
           /\ p.payload.signed.amount >= HeldTo(config, p, 1)
           /\ p.payload.signed.network = config.networks[1]
<1> DEFINE r == Requirement(config, 1)
           asked == r.maxAmount
           s == p.payload.signed
<1>1. /\ r.network = config.networks[1] /\ r.asset = config.address /\ r.payTo = config.payTo
      /\ r.amount = None /\ DOMAIN r = {"network", "asset", "payTo", "amount", "maxAmount"}
  BY DEF Requirement
<1>2. Approves(Shown(config.provider, p)) /\ Stated(p) = r
  BY DEF Verifiable, Native, Stated, Or
<1>3. CASE config.provider # "cdp"
  <2>1. /\ s.network = r.network /\ s.asset = r.asset /\ s.payTo = r.payTo
        /\ s.amount >= Or(r.amount, r.maxAmount)
    BY <1>2, <1>3 DEF Approves, Shown
  <2>2. QED
    BY <1>1, <1>3, <2>1 DEF HeldTo, Or
<1>4. CASE config.provider = "cdp"
  <2> DEFINE a == Or(p.payload.accepted, NoTerms)
             acc == NormalAccepted(p.payload.accepted, r)
             n == NormalRequirements(r, acc)
  <2>1. Shown(config.provider, p) = [accepted |-> acc, signed |-> s, requirements |-> n]
    BY <1>2, <1>4 DEF Shown, NormalPayload
  <2>2. DOMAIN a = {"network", "asset", "payTo", "amount", "maxAmount"}
    BY DEF Or, NoTerms
  <2>3. acc.amount = Or(a.amount, Or(a.maxAmount, asked))
    BY <1>1, <2>2 DEF NormalAccepted, Filled, Or
  <2>4. /\ n.network = r.network /\ n.asset = r.asset /\ n.payTo = r.payTo
        /\ n.amount = Or(acc.amount, asked) /\ n.maxAmount = None
    BY <1>1, <1>4 DEF NormalRequirements, Filled, Or
  <2>5. /\ s.network = n.network /\ s.asset = n.asset /\ s.payTo = n.payTo
        /\ n.amount # None /\ s.amount >= n.amount
    BY <1>2, <2>1, <2>4 DEF Approves, Or
  <2>6. n.amount = HeldTo(config, p, 1)
    BY <1>4, <2>3, <2>4, <2>5 DEF HeldTo, Or, NoTerms
  <2>7. QED
    BY <1>1, <2>4, <2>5, <2>6
<1>5. QED
  BY <1>3, <1>4

\* A payment that was booked is one the checks let through.
Accepted(c) == Q(c) # None /\ Settings.required /\ Acceptable(Settings, Due(c))

PaidFor(c) ==
    /\ Accepted(c) /\ Verifiable(Settings, Due(c), 1)
    /\ receipts[c] = [Booked(Settings, Due(c)) EXCEPT !.settled = receipts[c].settled]

PInv ==
    /\ DOMAIN receipts = Calls
    /\ \A c \in Calls : pc[c] \in {"verify", "reserve"} => Accepted(c)
    /\ \A c \in Calls : pc[c] = "reserve" => Verifiable(Settings, Due(c), 1)
    /\ \A c \in Calls : receipts[c] # None \/ pc[c] = "settle" => PaidFor(c)

\* A receipt that stays is as good as it was.
LEMMA ReceiptStays ==
    ASSUME UNCHANGED workload, NEW c \in Calls, receipts'[c] = receipts[c], PaidFor(c)
    PROVE  PaidFor(c)'
BY DEF PaidFor, Accepted, Due, Q, Settings

\* Receipts stay as they are while no call pays.
LEMMA PaymentsStay ==
    ASSUME PInv, UNCHANGED <<workload, receipts>>,
           \A c \in Calls : pc'[c] = pc[c] \/ pc'[c] \notin {"verify", "reserve", "settle"}
    PROVE  PInv'
<1>1. ASSUME NEW c \in Calls, receipts'[c] # None \/ pc'[c] = "settle" PROVE PaidFor(c)'
  BY <1>1, ReceiptStays DEF PInv
<1>2. ASSUME NEW c \in Calls, pc'[c] \in {"verify", "reserve"} PROVE Accepted(c)'
  BY <1>2 DEF PInv, Accepted, Due, Q, Settings
<1>3. ASSUME NEW c \in Calls, pc'[c] = "reserve" PROVE Verifiable(Settings, Due(c), 1)'
  BY <1>3 DEF PInv, Due, Q, Settings
<1>4. QED
  BY <1>1, <1>2, <1>3 DEF PInv

\* A step of a payment books what was shown to be acceptable.
LEMMA PaymentStep ==
    ASSUME Configured, PInv, NEW c \in Calls, Step(c),
           Pay(c) \/ Verify(c) \/ Reserve(c) \/ Settle(c)
    PROVE  PInv'
<1>1. /\ UNCHANGED workload /\ Q(c) # None /\ DOMAIN pc = Calls
      /\ \A d \in Calls \ {c} : pc'[d] = pc[d]
  BY Moves DEF Configured, Underway, Domains
<1>2. DOMAIN receipts = Calls
  BY DEF PInv
<1>3. ASSUME DOMAIN receipts' = Calls, \A d \in Calls \ {c} : receipts'[d] = receipts[d],
             receipts'[c] # None \/ pc'[c] = "settle" => PaidFor(c)',
             pc'[c] \in {"verify", "reserve"} => Accepted(c),
             pc'[c] = "reserve" => Verifiable(Settings, Due(c), 1)
      PROVE  PInv'
  <2>1. ASSUME NEW d \in Calls, receipts'[d] # None \/ pc'[d] = "settle" PROVE PaidFor(d)'
    <3>1. CASE d = c
      BY <1>3, <2>1, <3>1
    <3>2. CASE d # c
      <4>1. receipts'[d] = receipts[d] /\ pc'[d] = pc[d]
        BY <1>1, <1>3, <3>2
      <4>2. QED
        BY <1>1, <2>1, <4>1, ReceiptStays DEF PInv
    <3>3. QED
      BY <3>1, <3>2
  <2>2. ASSUME NEW d \in Calls, pc'[d] \in {"verify", "reserve"} PROVE Accepted(d)'
    BY <1>1, <1>3, <2>2 DEF PInv, Accepted, Due, Q, Settings
  <2>3. ASSUME NEW d \in Calls, pc'[d] = "reserve" PROVE Verifiable(Settings, Due(d), 1)'
    BY <1>1, <1>3, <2>3 DEF PInv, Due, Q, Settings
  <2>4. QED
    BY <1>3, <2>1, <2>2, <2>3 DEF PInv
<1>4. receipts'[c] = receipts[c] /\ pc'[c] # "settle" =>
         (receipts'[c] # None \/ pc'[c] = "settle" => PaidFor(c)')
  BY <1>1, ReceiptStays DEF PInv
<1>5. CASE Pay(c) \/ Verify(c)
  <2>1. receipts' = receipts
    BY <1>5 DEF Pay, Verify, fixed
  <2>2. /\ pc'[c] # "settle"
        /\ pc'[c] \in {"verify", "reserve"} => Accepted(c)
        /\ pc'[c] = "reserve" => Verifiable(Settings, Due(c), 1)
    BY <1>1, <1>5 DEF Pay, Verify, Go, Fail, PInv, Accepted
  <2>3. QED
    BY <1>2, <1>3, <1>4, <2>1, <2>2
<1>6. CASE Reserve(c)
  <2>1. CASE UNCHANGED receipts /\ pc'[c] = "done"
    BY <1>2, <1>3, <1>4, <2>1
  <2>2. CASE receipts' = [receipts EXCEPT ![c] = Booked(Settings, Due(c))] /\ pc'[c] = "settle"
    <3>1. Accepted(c) /\ Verifiable(Settings, Due(c), 1)
      BY <1>6 DEF Reserve, PInv
    <3>2. receipts'[c] = [Booked(Settings, Due(c)) EXCEPT !.settled = receipts'[c].settled]
      BY <1>2, <2>2 DEF Booked
    <3>3. PaidFor(c)'
      BY <1>1, <3>1, <3>2 DEF PaidFor, Accepted, Due, Q, Settings
    <3>4. QED
      BY <1>2, <1>3, <2>2, <3>3
  <2>3. QED
    BY <1>1, <1>6, <2>1, <2>2 DEF Reserve, Go, Fail
<1>7. CASE Settle(c)
  <2>1. PICK done : receipts' = [receipts EXCEPT ![c].settled = done]
    BY <1>7 DEF Settle
  <2>2. PaidFor(c)
    BY <1>7 DEF Settle, PInv
  <2>3. receipts'[c] = [Booked(Settings, Due(c)) EXCEPT !.settled = receipts'[c].settled]
    BY <1>2, <2>1, <2>2 DEF PaidFor, Booked
  <2>4. PaidFor(c)'
    BY <1>1, <2>2, <2>3 DEF PaidFor, Accepted, Due, Q, Settings
  <2>5. pc'[c] \in {"target", "done"}
    BY <1>1, <1>7 DEF Settle, Go, Fail
  <2>6. QED
    BY <1>2, <1>3, <2>1, <2>4, <2>5
<1>8. QED
  BY <1>5, <1>6, <1>7

\* Every step keeps the receipts true.
LEMMA PaymentsStep ==
    ASSUME Configured, PInv, [Next]_vars
    PROVE  PInv'
<1>1. ASSUME NEW c \in Calls, Step(c), ~ (Pay(c) \/ Verify(c) \/ Reserve(c) \/ Settle(c))
      PROVE  PInv'
  <2>1. UNCHANGED workload /\ \A d \in Calls \ {c} : pc'[d] = pc[d]
    BY <1>1, Moves DEF Configured
  <2>2. UNCHANGED receipts /\ pc'[c] \notin {"verify", "reserve", "settle"}
    <3> USE <1>1 DEF Step, fixed, Go, Fail, Leave, Configured, Domains
    <3>1. CASE Hit(c) \/ CheckToken(c) \/ CheckSession(c) \/ SaveSession(c)
      BY <3>1 DEF Hit, CheckToken, CheckSession, SaveSession, AfterToken
    <3>2. CASE LookupCaller(c) \/ Register(c) \/ ConfirmCaller(c)
      BY <3>2 DEF LookupCaller, Register, ConfirmCaller
    <3>3. CASE LookupTarget(c) \/ Lock(c) \/ Wait(c) \/ Recheck(c)
      BY <3>3 DEF LookupTarget, Lock, Wait, Recheck
    <3>4. CASE Create(c) \/ ConfirmTarget(c) \/ Release(c)
      BY <3>4 DEF Create, ConfirmTarget, Release
    <3>5. CASE Ask(c) \/ Cache(c) \/ Fallback(c) \/ Deliver(c)
      BY <3>5 DEF Ask, Cache, GiveUp, Fallback, Deliver
    <3>6. QED
      BY <3>1, <3>2, <3>3, <3>4, <3>5
  <2>3. QED
    BY <2>1, <2>2, PaymentsStay
<1>2. ASSUME NEW c \in Calls, Begin(c) PROVE PInv'
  <2>1. /\ UNCHANGED workload /\ pc'[c] \in {"limit", "done"}
        /\ \A d \in Calls \ {c} : pc'[d] = pc[d]
    BY <1>2, Begins DEF Configured
  <2>2. UNCHANGED receipts
    BY <1>2 DEF Begin
  <2>3. QED
    BY <2>1, <2>2, PaymentsStay
<1>3. CASE \/ Tick \/ (\E s \in Subjects : Lapse(s) \/ Revise(s) \/ Revoke(s))
           \/ (\E i \in Instances : Crash(i))
  <2>1. UNCHANGED workload /\ \A c \in Calls : pc'[c] = pc[c] \/ pc'[c] = "dead"
    BY <1>3, Stays DEF Configured
  <2>2. UNCHANGED receipts
    BY <1>3 DEF Tick, Lapse, Revise, Revoke, Crash, fixed
  <2>3. QED
    BY <2>1, <2>2, PaymentsStay
<1>4. CASE UNCHANGED vars
  BY <1>4, PaymentsStay DEF vars
<1>5. QED
  BY <1>1, <1>2, <1>3, <1>4, PaymentStep DEF Next

\* There are none at first.
LEMMA PaymentsInit == Init => PInv
<1> SUFFICES ASSUME Init PROVE PInv
  OBVIOUS
<1>1. \A c \in Calls : receipts[c] = None /\ pc[c] \in {"idle", "done"}
  BY DEF Init
<1>2. DOMAIN receipts = Calls
  BY DEF Init
<1>3. QED
  BY <1>1, <1>2 DEF PInv

\* What a call over the route paid with a signed payload is booked for is what it
\* was signed for, whatever its headers, its body and the configuration say.
LEMMA BookedAsSigned == Configured /\ PInv => PaidAsBooked
<1> SUFFICES ASSUME Configured, PInv, NEW c \in Calls, receipts[c] # None,
                    Q(c).door = "http", Due(c).payload # None
             PROVE  LET signed == Due(c).payload.signed IN
                    /\ signed.payTo = receipts[c].payTo
                    /\ signed.asset = Settings.address
                    /\ signed.amount >= HeldTo(Settings, Due(c), 1)
                    /\ signed.network = Settings.networks[1]
                    /\ receipts[c].network \in {signed.network, NormalNetwork(Due(c).network)}
                    /\ Production(Settings) =>
                          receipts[c].network = Mainnet /\ signed.network = Mainnet
  BY DEF PaidAsBooked
<1> DEFINE p == Due(c)
<1>1. PICK w \in Workloads : workload.calls = w.calls /\ Settings = Config(w.env) /\ Valid(w.env)
  BY DEF Configured
<1>2. PaidFor(c) /\ Accepted(c)
  BY DEF PInv, PaidFor
<1>3. /\ Settings.required = w.env.required
      /\ Settings.networks[1] # None
      /\ NormalNetwork(Settings.networks[1]) = Settings.networks[1]
      /\ Settings.address # None
      /\ Settings.provider = "cdp" => Settings.payTo # None
      /\ Production(Settings) =>
            Settings.networks[1] = Mainnet /\ ToSet(Settings.networks) = {Mainnet}
      /\ Requirement(Settings, 1) # None
  BY <1>1, GoodConfig
<1>4. /\ DOMAIN Q(c).sent.body = DOMAIN NoPayment
      /\ \A q \in {Q(c).sent.header, Q(c).sent.body.payload} \ {None} :
            /\ DOMAIN q = {"accepted", "signed"}
            /\ q.accepted # None => DOMAIN q.accepted = DOMAIN NoTerms
  <2>1. w \in {v \in Workloads : v.env.required}
    BY <1>1, <1>2, <1>3 DEF Accepted
  <2>2. Q(c).sent \in {w.calls[d].sent : d \in {e \in Calls : w.calls[e] # None}}
    BY <1>1, <1>2 DEF Accepted, Q
  <2>3. QED
    BY <2>1, <2>2, PaymentsAssumption
<1>5. p.requirements = Requirement(Settings, 1) /\ p.payload \in {Q(c).sent.header, Q(c).sent.body.payload}
  BY <1>4, TermsOfRoute DEF Due
<1>6. /\ p.payload.signed.payTo = Settings.payTo
      /\ p.payload.signed.asset = Settings.address
      /\ p.payload.signed.amount >= HeldTo(Settings, p, 1)
      /\ p.payload.signed.network = Settings.networks[1]
  BY <1>2, <1>3, <1>4, <1>5, SignedAsAsked DEF PaidFor
<1>7. receipts[c].payTo = Settings.payTo /\ receipts[c].network = EffectiveNetwork(Settings, p)
  BY <1>2 DEF PaidFor, Booked
<1>8. EffectiveNetwork(Settings, p) \in {Settings.networks[1], NormalNetwork(p.network)}
  BY <1>3, <1>5 DEF EffectiveNetwork, PaidNetwork, Requirement, Or
<1>9. Production(Settings) => EffectiveNetwork(Settings, p) = Mainnet
  BY <1>2, <1>3 DEF Accepted, Acceptable, EffectiveNetwork, Or
<1>10. QED
  BY <1>3, <1>6, <1>7, <1>8, <1>9

\* In every behaviour, receipts of signed payments say what was signed.
THEOREM PaymentsAreBookedAsSigned == Spec => []PaidAsBooked
<1>1. Configured /\ PInv /\ [Next]_vars => (Configured /\ PInv)'
  BY ConfiguredStep, PaymentsStep
<1>2. Init => Configured /\ PInv
  BY ConfiguredInit, PaymentsInit
<1>3. QED
  BY <1>1, <1>2, BookedAsSigned, PTL DEF Spec

-----------------------------------------------------------------------------
(* The rate limiter *)

Entries == [key : RateKeys, minute : Nat, count : Nat]

\* A key has one counter in a minute.
OneEach(list) ==
    \A i, j \in DOMAIN list :
        list[i].key = list[j].key /\ list[i].minute = list[j].minute => i = j

AdmittedWith(m, k) == {c \in Admitted(m) : Q(c).key = k}
KeysOf(m) == {Q(c).key : c \in Admitted(m)}

\* The memory driver may have lost counters of minute m.
Forgot(m) ==
    /\ Settings.driver = "memory"
    /\ crashes > 0 \/ Cardinality(KeysOf(m)) > MaxTracked

\* The counter of a key knows of every call that was let in.
Known(k) ==
    AdmittedWith(Minute, k) # {} =>
        \E i \in Index(counters, k) : Cardinality(AdmittedWith(Minute, k)) <= counters[i].count

Within(m) == \A k \in RateKeys : Cardinality(AdmittedWith(m, k)) <= Limit

\* Calls that the limiter has seen, or never will.
Past == {c \in Calls : pc[c] \notin {"idle", "limit"}}

\* Every counter of this minute is of a key that was let in: if any is, it is the
\* first call.
RInv ==
    /\ now \in Nat /\ crashes \in Nat /\ DOMAIN entered = Calls
    /\ counters \in Seq(Entries) /\ OneEach(counters)
    /\ \A i \in DOMAIN counters : /\ counters[i].minute <= Minute
                                  /\ counters[i].count \in 1 .. Cardinality(Past)
                                  /\ 0 < Limit /\ counters[i].minute = Minute =>
                                        counters[i].key \in KeysOf(Minute)
    /\ \A c \in Calls : /\ entered[c] \in {None} \cup 0 .. Minute
                        /\ pc[c] \in {"idle", "limit"} => entered[c] = None
    /\ Forgot(Minute) \/ \A k \in RateKeys : Known(k)
    /\ \A m \in Nat : Forgot(m) \/ Within(m)

\* Of the assumptions, what the limiter counts with.
LEMMA Bounds ==
    IsFiniteSet(Calls) /\ None \notin Nat /\ Limit \in Nat /\ MaxTracked \in Nat
BY BoundsAssumption

\* A call past the door has a rate key.
LEMMA CallsHaveKeys ==
    ASSUME Configured, NEW c \in Calls, pc[c] \in Stages
    PROVE  Q(c).key \in RateKeys
<1>1. PICK w \in Workloads : workload.calls = w.calls
  BY DEF Configured
<1>2. w.calls[c] # None
  BY <1>1 DEF Configured, Underway, Q
<1>3. QED
  BY <1>1, <1>2, BoundsAssumption DEF Q

\* Finitely many calls have finitely many keys.
LEMMA KeysAreFinite ==
    ASSUME NEW A, A \subseteq Calls
    PROVE  IsFiniteSet({Q(c).key : c \in A})
<1> DEFINE f == [c \in Calls |-> Q(c).key]
<1>1. {Q(c).key : c \in A} = {f[c] : c \in A}
  OBVIOUS
<1> HIDE DEF f
<1>2. IsFiniteSet(A)
  BY Bounds, FS_Subset
<1>3. QED
  BY <1>1, <1>2, ImageIsFinite

\* Calls, and what they are admitted with, are finitely many.
LEMMA AdmittedAreFinite ==
    ASSUME NEW m
    PROVE  /\ IsFiniteSet(KeysOf(m)) /\ Cardinality(KeysOf(m)) \in Nat
           /\ \A k : IsFiniteSet(AdmittedWith(m, k)) /\ Cardinality(AdmittedWith(m, k)) \in Nat
<1>1. IsFiniteSet(Admitted(m))
  BY Bounds, FS_Subset DEF Admitted
<1>2. IsFiniteSet(KeysOf(m))
  <2>1. Admitted(m) \subseteq Calls
    BY DEF Admitted
  <2>2. QED
    BY <2>1, KeysAreFinite DEF KeysOf
<1>3. \A k : IsFiniteSet(AdmittedWith(m, k))
  BY <1>1, FS_Subset DEF AdmittedWith
<1>4. QED
  BY <1>2, <1>3, FS_CardinalityType

\* Calls are finitely many, so are those the limiter is done with.
LEMMA PastIsFinite ==
    /\ IsFiniteSet(Past) /\ Cardinality(Past) \in Nat
    /\ Cardinality(Past) <= Cardinality(Calls)
<1>1. Past \subseteq Calls
  BY DEF Past
<1>2. QED
  BY <1>1, Bounds, FS_Subset, FS_CardinalityType

\* Counters of different keys in one minute are no more than its keys.
LEMMA CountersHaveKeys ==
    ASSUME NEW list \in Seq(Entries), OneEach(list), NEW K, IsFiniteSet(K),
           \A i \in DOMAIN list : list[i].minute = Minute /\ list[i].key \in K
    PROVE  Len(list) <= Cardinality(K)
<1> DEFINE f == [i \in 1 .. Len(list) |-> list[i].key]
<1>1. DOMAIN list = 1 .. Len(list) /\ Len(list) \in Nat
  OBVIOUS
<1>2. f \in Injection(1 .. Len(list), K)
  <2>1. f \in [1 .. Len(list) -> K]
    BY <1>1
  <2>2. \A i, j \in 1 .. Len(list) : f[i] = f[j] => i = j
    BY <1>1, Zenon DEF OneEach
  <2>3. QED
    BY <2>1, <2>2 DEF Injection, IsInjective
<1> HIDE DEF f
<1>3. PICK n \in Nat : n = Len(list) /\ Cardinality(1 .. n) = n
  <2>1. \A m \in Nat : Cardinality(1 .. m) = m
    BY FS_Interval
  <2>2. QED
    BY <1>1, <2>1
<1>4. Cardinality(1 .. Len(list)) <= Cardinality(K)
  BY <1>2, FS_Injection
<1>5. QED
  BY <1>3, <1>4

\* What is pruned of a list of counters.
Shortened(list, longer) ==
    /\ list \in Seq(Entries) /\ OneEach(list)
    /\ \A i \in DOMAIN list : \E j \in DOMAIN longer : list[i] = longer[j]

\* Pruning keeps the counters of this minute, unless they are too many.
LEMMA PrunedIsShorter ==
    ASSUME RInv
    PROVE  /\ Shortened(Pruned(counters), counters)
           /\ \/ \A i \in DOMAIN counters : counters[i].minute = Minute =>
                    \E j \in DOMAIN Pruned(counters) : Pruned(counters)[j] = counters[i]
              \/ 0 < Limit => Cardinality(KeysOf(Minute)) > MaxTracked
<1> DEFINE S == {e \in Listed(counters) : e.minute >= Minute}
           fresh == Filtered(counters, S)
<1>1. counters \in Seq(Entries) /\ OneEach(counters) /\ DOMAIN counters = 1 .. Len(counters)
      /\ Len(counters) \in Nat /\ Minute \in Nat
  BY DEF RInv, Minute
<1>2. fresh \in Seq(Entries) /\ DOMAIN fresh = 1 .. Len(fresh) /\ Len(fresh) \in Nat
  BY <1>1, FilteredType
<1>3. PICK h : Picks(h, counters, S)
  BY <1>1, FilteredIsTaken
<1>4. /\ \A i \in 1 .. Len(fresh) : /\ h[i] \in DOMAIN counters /\ fresh[i] = counters[h[i]]
                                     /\ fresh[i] \in S
      /\ \A n \in DOMAIN counters : counters[n] \in S => \E i \in 1 .. Len(fresh) : h[i] = n
      /\ \A i, j \in 1 .. Len(fresh) : i < j => h[i] < h[j]
  BY <1>1, <1>3 DEF Picks
<1> HIDE DEF fresh
<1>5. OneEach(fresh)
  <2> SUFFICES ASSUME NEW i \in 1 .. Len(fresh), NEW j \in 1 .. Len(fresh),
                      fresh[i].key = fresh[j].key, fresh[i].minute = fresh[j].minute
               PROVE  i = j
    BY <1>2 DEF OneEach
  <2>1. /\ h[i] \in DOMAIN counters /\ h[j] \in DOMAIN counters
        /\ fresh[i] = counters[h[i]] /\ fresh[j] = counters[h[j]]
    BY <1>4
  <2>2. h[i] = h[j]
    BY <1>1, <2>1, Zenon DEF OneEach
  <2>3. h[i] \in Nat
    BY <1>1, <2>1
  <2>4. ~ (i < j) /\ ~ (j < i)
    BY <1>4, <2>2, <2>3
  <2>5. QED
    BY <1>2, <2>4
<1>6. Shortened(fresh, counters)
  BY <1>2, <1>4, <1>5 DEF Shortened
<1>7. \A i \in DOMAIN counters : counters[i].minute = Minute =>
          \E j \in DOMAIN fresh : fresh[j] = counters[i]
  <2> SUFFICES ASSUME NEW i \in DOMAIN counters, counters[i].minute = Minute
               PROVE  \E j \in DOMAIN fresh : fresh[j] = counters[i]
    OBVIOUS
  <2>1. counters[i] \in S
    BY <1>1 DEF Listed
  <2>2. QED
    BY <1>2, <1>4, <2>1
<1>8. CASE lastMinute = Minute /\ Len(counters) <= MaxTracked
  <2>1. Pruned(counters) = counters
    BY <1>8 DEF Pruned
  <2>2. QED
    BY <1>1, <2>1 DEF Shortened
<1>9. CASE ~ (lastMinute = Minute /\ Len(counters) <= MaxTracked) /\ Len(fresh) <= MaxTracked
  <2>1. Pruned(counters) = fresh
    BY <1>9 DEF Pruned, fresh
  <2>2. QED
    BY <1>6, <1>7, <2>1
<1>10. CASE ~ (lastMinute = Minute /\ Len(counters) <= MaxTracked) /\ ~ (Len(fresh) <= MaxTracked)
  <2> DEFINE from == Len(fresh) - MaxTracked + 1
             last == SubSeq(fresh, from, Len(fresh))
  <2>1. Pruned(counters) = last
    BY <1>10 DEF Pruned, fresh
  <2>2. from \in 1 .. Len(fresh) + 1 /\ MaxTracked \in Nat
    BY <1>2, <1>10, Bounds
  <2>3. /\ last \in Seq(Entries) /\ Len(last) = MaxTracked /\ DOMAIN last = 1 .. MaxTracked
        /\ \A i \in 1 .. MaxTracked : last[i] = fresh[from + i - 1]
    BY <1>2, <2>2
  <2>4. \A i \in 1 .. MaxTracked : from + i - 1 \in DOMAIN fresh
    BY <1>2, <2>2
  <2> HIDE DEF last
  <2>5. OneEach(last)
    <3> SUFFICES ASSUME NEW i \in 1 .. MaxTracked, NEW j \in 1 .. MaxTracked,
                        last[i].key = last[j].key, last[i].minute = last[j].minute
                 PROVE  i = j
      BY <2>3 DEF OneEach
    <3>1. PICK m, n : m = from + i - 1 /\ n = from + j - 1
      OBVIOUS
    <3>2. m \in DOMAIN fresh /\ n \in DOMAIN fresh /\ last[i] = fresh[m] /\ last[j] = fresh[n]
      BY <2>3, <2>4, <3>1
    <3>3. m = n
      BY <1>5, <3>2, Zenon DEF OneEach
    <3>4. QED
      BY <1>2, <2>2, <3>1, <3>3
  <2>6. Shortened(last, counters)
    <3> SUFFICES ASSUME NEW i \in 1 .. MaxTracked PROVE \E j \in DOMAIN counters : last[i] = counters[j]
      BY <2>3, <2>5 DEF Shortened
    <3>1. PICK m : m = from + i - 1
      OBVIOUS
    <3>2. m \in 1 .. Len(fresh) /\ last[i] = fresh[m]
      BY <1>2, <2>3, <2>4, <3>1
    <3>3. h[m] \in DOMAIN counters /\ fresh[m] = counters[h[m]]
      BY <1>4, <3>2
    <3>4. QED
      BY <3>2, <3>3
  <2>7. ASSUME 0 < Limit PROVE Cardinality(KeysOf(Minute)) > MaxTracked
    <3>1. ASSUME NEW i \in DOMAIN fresh PROVE fresh[i].minute = Minute /\ fresh[i].key \in KeysOf(Minute)
      <4>1. h[i] \in DOMAIN counters /\ fresh[i] = counters[h[i]] /\ fresh[i].minute >= Minute
        BY <1>2, <1>4, <3>1
      <4>2. \A j \in DOMAIN counters : counters[j].minute \in Nat /\ counters[j].minute <= Minute
        <5>1. \A j \in DOMAIN counters : counters[j] \in Entries
          BY <1>1
        <5>2. \A j \in DOMAIN counters : counters[j].minute \in Nat
          BY <5>1 DEF Entries
        <5>3. QED
          BY <5>2 DEF RInv
      <4>3. counters[h[i]].minute = Minute
        BY <1>1, <4>1, <4>2
      <4>4. QED
        BY <2>7, <4>1, <4>3 DEF RInv
    <3>2. Len(fresh) <= Cardinality(KeysOf(Minute))
      BY <1>2, <1>5, <3>1, AdmittedAreFinite, CountersHaveKeys
    <3>3. QED
      BY <1>2, <1>10, <2>2, <3>2, AdmittedAreFinite
  <2>8. QED
    BY <2>1, <2>6, <2>7
<1>11. QED
  BY <1>8, <1>9, <1>10

\* What list is after a call with key k was counted at place i of it.
CountedAt(list, was, k, i) ==
    /\ list \in Seq(Entries) /\ OneEach(list)
    /\ Index(list, k) = {i} /\ i \in DOMAIN list
    /\ list[i].key = k /\ list[i].minute = Minute
    /\ \/ Index(was, k) = {} /\ i \notin DOMAIN was /\ list[i].count = 1
       \/ i \in Index(was, k) /\ list[i].count = was[i].count + 1
    /\ \A j \in DOMAIN list \ {i} : j \in DOMAIN was /\ list[j] = was[j]
    /\ \A j \in DOMAIN was \ {i} : j \in DOMAIN list /\ list[j] = was[j]

\* A call is counted once, at the one counter of its key.
LEMMA CountedOnce ==
    ASSUME NEW was \in Seq(Entries), OneEach(was), NEW k \in RateKeys, Minute \in Nat
    PROVE  \E i : CountedAt(Counted(was, k), was, k, i)
<1>1. DOMAIN was = 1 .. Len(was) /\ Len(was) \in Nat /\ \A j \in DOMAIN was : was[j] \in Entries
  OBVIOUS
<1>2. CASE Index(was, k) = {}
  <2> DEFINE e == [key |-> k, minute |-> Minute, count |-> 1]
             list == Append(was, e)
             n == Len(was) + 1
  <2>1. Counted(was, k) = list
    BY <1>2 DEF Counted
  <2>2. e \in Entries
    BY DEF Entries
  <2>3. /\ list \in Seq(Entries) /\ DOMAIN list = 1 .. n /\ list[n] = e
        /\ \A j \in 1 .. Len(was) : list[j] = was[j]
    BY <1>1, <2>2
  <2>4. n \notin DOMAIN was /\ n \in DOMAIN list /\ n \in Nat
    BY <1>1, <2>3
  <2>5. \A j \in DOMAIN was : ~ (was[j].key = k /\ was[j].minute = Minute)
    BY <1>2 DEF Index
  <2>6. e.key = k /\ e.minute = Minute /\ e.count = 1
    OBVIOUS
  <2>7. \A j \in DOMAIN list : j # n => j \in DOMAIN was
    BY <1>1, <2>3
  <2>8. \A j \in DOMAIN was : j # n /\ j \in DOMAIN list
    BY <1>1, <2>3
  <2> HIDE DEF list, n, e
  <2>9. Index(list, k) = {n}
    BY <1>1, <2>3, <2>4, <2>5, <2>6, <2>7 DEF Index
  <2>10. OneEach(list)
    BY <1>1, <2>3, <2>4, <2>5, <2>6, <2>7 DEF OneEach
  <2>11. CountedAt(list, was, k, n)
    BY <1>1, <1>2, <2>3, <2>4, <2>6, <2>7, <2>8, <2>9, <2>10 DEF CountedAt
  <2>12. QED
    BY <2>1, <2>11
<1>3. CASE Index(was, k) # {}
  <2> DEFINE list == [i \in DOMAIN was |-> IF i \in Index(was, k)
                                          THEN [was[i] EXCEPT !.count = @ + 1] ELSE was[i]]
  <2>1. Counted(was, k) = list
    BY <1>3 DEF Counted
  <2>2. PICK n \in DOMAIN was : was[n].key = k /\ was[n].minute = Minute
    BY <1>3 DEF Index
  <2>3. Index(was, k) = {n}
    BY <2>2 DEF Index, OneEach
  <2>4. \A j \in DOMAIN was \ {n} : list[j] = was[j]
    BY <2>3
  <2>5. was[n] \in Entries /\ list[n] = [was[n] EXCEPT !.count = @ + 1]
    BY <1>1, <2>2, <2>3
  <2>6. /\ list[n] \in Entries /\ list[n].key = k /\ list[n].minute = Minute
        /\ list[n].count = was[n].count + 1
    BY <2>2, <2>5 DEF Entries
  <2>7. DOMAIN list = DOMAIN was
    OBVIOUS
  <2>8. list \in Seq(Entries)
    <3>1. list \in [1 .. Len(was) -> Entries]
      <4>1. \A j \in DOMAIN was : list[j] \in Entries
        BY <1>1, <2>4, <2>6
      <4>2. QED
        BY <1>1, <4>1
    <3>2. QED
      BY <1>1, <3>1
  <2> HIDE DEF list
  <2>9. \A j \in DOMAIN was : list[j].key = was[j].key /\ list[j].minute = was[j].minute
    BY <2>2, <2>4, <2>6
  <2>10. Index(list, k) = {n} /\ OneEach(list)
    BY <2>3, <2>7, <2>9 DEF Index, OneEach
  <2>11. CountedAt(list, was, k, n)
    BY <2>2, <2>3, <2>4, <2>6, <2>7, <2>8, <2>10 DEF CountedAt
  <2>12. QED
    BY <2>1, <2>11
<1>4. QED
  BY <1>2, <1>3

\* Counters of this minute that are in list.
Keeps(list) ==
    \A i \in DOMAIN counters : counters[i].minute = Minute =>
        \E j \in DOMAIN list : list[j] = counters[i]

Seen(c, was, i) ==
    /\ Shortened(was, counters)
    /\ Keeps(was) \/ (0 < Limit => Forgot(Minute))
    /\ CountedAt(counters', was, Q(c).key, i)
    /\ \/ counters'[i].count > Limit /\ entered' = entered /\ pc'[c] = "done"
       \/ /\ ~ (counters'[i].count > Limit)
          /\ entered' = [entered EXCEPT ![c] = Minute] /\ pc'[c] = "token"

\* What the limiter does with a call.
LEMMA HitIsSeen ==
    ASSUME Configured, RInv, NEW c \in Calls, Hit(c)
    PROVE  \E was, i : Seen(c, was, i)
<1> DEFINE k == Q(c).key
           was == IF Settings.driver = "memory" THEN Pruned(counters) ELSE counters
<1>1. pc[c] = "limit" /\ counters' = Counted(was, k)
  BY DEF Hit
<1>2. k \in RateKeys
  BY <1>1, CallsHaveKeys DEF Stages
<1>3. Shortened(was, counters) /\ (Keeps(was) \/ (0 < Limit => Forgot(Minute)))
  <2>1. CASE Settings.driver = "memory"
    <3>1. /\ Shortened(Pruned(counters), counters)
          /\ Keeps(Pruned(counters)) \/ (0 < Limit => Cardinality(KeysOf(Minute)) > MaxTracked)
      BY PrunedIsShorter DEF Keeps
    <3>2. QED
      BY <2>1, <3>1 DEF Forgot
  <2>2. CASE Settings.driver # "memory"
    <3>1. Shortened(counters, counters) /\ Keeps(counters)
      BY DEF RInv, Shortened, Keeps
    <3>2. QED
      BY <2>2, <3>1
  <2>3. QED
    BY <2>1, <2>2
<1> HIDE DEF was
<1>4. Minute \in Nat
  BY DEF RInv, Minute
<1>5. PICK i : CountedAt(counters', was, k, i)
  BY <1>1, <1>2, <1>3, <1>4, CountedOnce DEF Shortened
<1>6. (CHOOSE j \in Index(counters', k) : TRUE) = i
  BY <1>5 DEF CountedAt
<1>7. \/ counters'[i].count > Limit /\ entered' = entered /\ pc'[c] = "done"
      \/ ~ (counters'[i].count > Limit) /\ entered' = [entered EXCEPT ![c] = Minute] /\ pc'[c] = "token"
  <2>1. counters'[CHOOSE j \in Index(counters', k) : TRUE].count = counters'[i].count
    BY <1>6
  <2>2. LET count == counters'[CHOOSE j \in Index(counters', k) : TRUE].count IN
        \/ count > Limit /\ entered' = entered /\ pc'[c] = "done"
        \/ ~ (count > Limit) /\ entered' = [entered EXCEPT ![c] = Minute] /\ pc'[c] = "token"
    BY <1>1 DEF Hit, Fail, Go, Configured, Domains, was
  <2>3. QED
    BY <2>1, <2>2
<1>8. Seen(c, was, i)
  BY <1>3, <1>5, <1>7 DEF Seen
<1>9. QED
  BY <1>8

\* A call that is let in is one more of its key.
LEMMA OneMore ==
    ASSUME UNCHANGED <<workload, now>>, DOMAIN entered = Calls, Minute \in Nat, NEW c \in Calls,
           entered[c] = None, entered' = [entered EXCEPT ![c] = Minute]
    PROVE  /\ Q(c).key \in KeysOf(Minute)'
           /\ \A m : KeysOf(m) \subseteq KeysOf(m)'
           /\ \A m, k : m # Minute \/ k # Q(c).key => AdmittedWith(m, k)' = AdmittedWith(m, k)
           /\ c \notin AdmittedWith(Minute, Q(c).key)
           /\ AdmittedWith(Minute, Q(c).key)' = AdmittedWith(Minute, Q(c).key) \cup {c}
<1>1. Minute # None /\ Minute' = Minute /\ \A d \in Calls : Q(d)' = Q(d)
  BY Bounds DEF Q, Minute
<1>2. \A d \in Calls : entered'[d] = IF d = c THEN Minute ELSE entered[d]
  OBVIOUS
<1>3. /\ \A m : m # Minute => Admitted(m)' = Admitted(m)
      /\ c \notin Admitted(Minute) /\ Admitted(Minute)' = Admitted(Minute) \cup {c}
  <2>1. ASSUME NEW m, m # Minute PROVE Admitted(m)' = Admitted(m)
    <3>1. \A d \in Calls : entered'[d] = m /\ m # None <=> entered[d] = m /\ m # None
      BY <1>2, <2>1
    <3>2. QED
      BY <3>1 DEF Admitted
  <2>2. c \notin Admitted(Minute) /\ Admitted(Minute)' = Admitted(Minute) \cup {c}
    BY <1>2, <1>1 DEF Admitted
  <2>3. QED
    BY <2>1, <2>2
<1>4. \A m : Admitted(m) \subseteq Admitted(m)' /\ Admitted(m)' \subseteq Calls
  BY <1>3 DEF Admitted
<1>5. c \in Admitted(Minute)' /\ Q(c)' = Q(c)
  BY <1>1, <1>3
<1>6. Q(c).key \in KeysOf(Minute)' /\ \A m : KeysOf(m) \subseteq KeysOf(m)'
  BY <1>1, <1>4, <1>5 DEF KeysOf
<1>7. ASSUME NEW m, NEW k PROVE m # Minute \/ k # Q(c).key => AdmittedWith(m, k)' = AdmittedWith(m, k)
  <2>1. \A d \in Admitted(m)' \cup Admitted(m) : Q(d)' = Q(d)
    BY <1>1, <1>4
  <2>2. CASE m # Minute
    BY <1>3, <2>1, <2>2 DEF AdmittedWith
  <2>3. CASE m = Minute /\ k # Q(c).key
    <3>1. \A d : d \in Admitted(m)' /\ Q(d)'.key = k <=> d \in Admitted(m) /\ Q(d).key = k
      BY <1>1, <1>3, <2>1, <2>3
    <3>2. QED
      BY <3>1 DEF AdmittedWith
  <2>4. QED
    BY <2>2, <2>3
<1>8. /\ c \notin AdmittedWith(Minute, Q(c).key)
      /\ AdmittedWith(Minute, Q(c).key)' = AdmittedWith(Minute, Q(c).key) \cup {c}
  BY <1>1, <1>3, <1>4 DEF AdmittedWith
<1>9. QED
  BY <1>6, <1>7, <1>8

\* Whether it lets a call in or not, the limiter keeps account.
LEMMA HitKeepsLimit ==
    ASSUME Configured, RInv, NEW c \in Calls, Hit(c)
    PROVE  RInv'
<1>1. PICK k : k = Q(c).key
  OBVIOUS
<1>2. /\ UNCHANGED <<workload, now, crashes>> /\ pc[c] = "limit" /\ entered[c] = None
      /\ pc'[c] \in {"token", "done"} /\ \A d \in Calls \ {c} : pc'[d] = pc[d]
  BY Moves DEF Hit, Go, Fail, fixed, Configured, RInv, Domains
<1>3. /\ Minute' = Minute /\ Minute \in Nat /\ Settings' = Settings
      /\ DOMAIN entered = Calls /\ \A d \in Calls : Q(d)' = Q(d)
  BY <1>2 DEF Minute, Settings, Q, RInv
<1>4. k \in RateKeys
  BY <1>1, <1>2, CallsHaveKeys DEF Stages
<1>5. PICK was, i : Seen(c, was, i)
  BY HitIsSeen
<1>6. was \in Seq(Entries) /\ CountedAt(counters', was, Q(c).key, i)
  BY <1>5 DEF Seen, Shortened
<1>7. counters' \in Seq(Entries) /\ OneEach(counters') /\ OneEach(was)
  BY <1>5, <1>6 DEF CountedAt, Seen, Shortened
<1>8. /\ i \in DOMAIN counters' /\ counters'[i].key = k /\ counters'[i].minute = Minute
      /\ \/ i \notin DOMAIN was /\ counters'[i].count = 1 /\ Index(was, k) = {}
         \/ /\ i \in DOMAIN was /\ was[i].key = k /\ was[i].minute = Minute
            /\ counters'[i].count = was[i].count + 1
      /\ \A j \in DOMAIN counters' \ {i} : j \in DOMAIN was /\ counters'[j] = was[j]
      /\ \A j \in DOMAIN was \ {i} : j \in DOMAIN counters' /\ counters'[j] = was[j]
  BY <1>1, <1>6 DEF CountedAt, Index
<1>9. \A j \in DOMAIN was : \E n \in DOMAIN counters : was[j] = counters[n]
  BY <1>5 DEF Seen, Shortened
<1>10. /\ \A m : KeysOf(m) \subseteq KeysOf(m)'
       /\ \A m, l : m # Minute \/ l # k => AdmittedWith(m, l)' = AdmittedWith(m, l)
       /\ \A d \in Calls \ {c} : entered'[d] = entered[d]
       /\ DOMAIN entered' = Calls
       /\ \/ /\ counters'[i].count > Limit /\ entered'[c] = None
             /\ AdmittedWith(Minute, k)' = AdmittedWith(Minute, k)
          \/ /\ ~ (counters'[i].count > Limit) /\ entered'[c] = Minute
             /\ k \in KeysOf(Minute)'
             /\ AdmittedWith(Minute, k)' = AdmittedWith(Minute, k) \cup {c}
             /\ c \notin AdmittedWith(Minute, k)
  <2>1. CASE counters'[i].count > Limit /\ entered' = entered
    <3>1. \A m : Admitted(m)' = Admitted(m)
      BY <2>1 DEF Admitted
    <3>2. \A m : KeysOf(m)' = KeysOf(m) /\ \A l : AdmittedWith(m, l)' = AdmittedWith(m, l)
      BY <1>3, <3>1 DEF KeysOf, AdmittedWith, Admitted
    <3>3. AdmittedWith(Minute, k)' = AdmittedWith(Minute, k)
      BY <1>3, <3>2
    <3>4. QED
      BY <1>2, <1>3, <2>1, <3>2, <3>3
  <2>2. CASE ~ (counters'[i].count > Limit) /\ entered' = [entered EXCEPT ![c] = Minute]
    <3>1. /\ Q(c).key \in KeysOf(Minute)'
          /\ \A m : KeysOf(m) \subseteq KeysOf(m)'
          /\ \A m, l : m # Minute \/ l # Q(c).key => AdmittedWith(m, l)' = AdmittedWith(m, l)
          /\ c \notin AdmittedWith(Minute, Q(c).key)
          /\ AdmittedWith(Minute, Q(c).key)' = AdmittedWith(Minute, Q(c).key) \cup {c}
      BY <1>2, <1>3, <2>2, OneMore
    <3>2. QED
      BY <1>1, <1>3, <2>2, <3>1
  <2>3. QED
    BY <1>5, <2>1, <2>2 DEF Seen
<1>11. \A m : Forgot(m) => Forgot(m)'
  <2>1. ASSUME NEW m PROVE Cardinality(KeysOf(m)) <= Cardinality(KeysOf(m)')
    <3>1. KeysOf(m)' = {Q(d).key : d \in Admitted(m)'} /\ Admitted(m)' \subseteq Calls
      BY <1>3 DEF KeysOf, Admitted
    <3>2. IsFiniteSet(KeysOf(m)')
      BY <3>1, KeysAreFinite
    <3>3. QED
      BY <1>10, <3>2, FS_Subset
  <2>2. QED
    <3>1. ASSUME NEW m, Forgot(m) PROVE Forgot(m)'
      <4>1. KeysOf(m)' = {Q(d).key : d \in Admitted(m)'} /\ Admitted(m)' \subseteq Calls
        BY <1>3 DEF KeysOf, Admitted
      <4>2. Cardinality(KeysOf(m)') \in Nat
        BY <4>1, KeysAreFinite, FS_CardinalityType
      <4>3. QED
        BY <1>2, <1>3, <2>1, <3>1, <4>2, AdmittedAreFinite, Bounds DEF Forgot
    <3>2. QED
      BY <3>1
<1>12. Cardinality(Past') = Cardinality(Past) + 1 /\ Cardinality(Past) \in Nat
  <2>1. Past' = Past \cup {c} /\ c \notin Past
    BY <1>2 DEF Past
  <2>2. QED
    BY <2>1, PastIsFinite, FS_AddElement
<1>13. PICK past \in Nat : past = Cardinality(Past) /\ Cardinality(Past') = past + 1
  BY <1>12
<1>14. \A j \in DOMAIN was : was[j].minute <= Minute
  BY <1>9 DEF RInv
<1>15. \A j \in DOMAIN was : was[j].count \in 1 .. past
  BY <1>9, <1>13 DEF RInv
<1>16. \A j \in DOMAIN was : 0 < Limit /\ was[j].minute = Minute => was[j].key \in KeysOf(Minute)
  BY <1>9 DEF RInv
<1>17. \A j \in DOMAIN counters' :
          /\ counters'[j].minute <= Minute
          /\ counters'[j].count \in 1 .. Cardinality(Past')
          /\ 0 < Limit /\ counters'[j].minute = Minute => counters'[j].key \in KeysOf(Minute)'
  <2> SUFFICES ASSUME NEW j \in DOMAIN counters'
               PROVE  /\ counters'[j].minute <= Minute
                      /\ counters'[j].count \in 1 .. Cardinality(Past')
                      /\ 0 < Limit /\ counters'[j].minute = Minute =>
                            counters'[j].key \in KeysOf(Minute)'
    OBVIOUS
  <2>0. KeysOf(Minute) \subseteq KeysOf(Minute)'
    BY <1>3, <1>10
  <2>1. CASE j # i
    <3>1. j \in DOMAIN was /\ counters'[j] = was[j]
      BY <1>8, <2>1
    <3>2. was[j].count \in 1 .. Cardinality(Past')
      BY <1>13, <1>15, <3>1
    <3>3. was[j].minute <= Minute
      BY <1>14, <3>1
    <3>4. 0 < Limit /\ was[j].minute = Minute => was[j].key \in KeysOf(Minute)'
      BY <1>16, <2>0, <3>1
    <3>5. QED
      BY <3>1, <3>2, <3>3, <3>4
  <2>2. CASE j = i
    <3>1. counters'[i].count \in 1 .. past + 1
      <4>1. CASE i \in DOMAIN was
        BY <1>8, <1>15, <4>1
      <4>2. CASE i \notin DOMAIN was
        BY <1>8, <4>2
      <4>3. QED
        BY <4>1, <4>2
    <3>2. ASSUME 0 < Limit PROVE k \in KeysOf(Minute)'
      <4>1. CASE i \in DOMAIN was
        <5>1. was[i].key = k /\ was[i].minute = Minute
          BY <1>8, <4>1
        <5>2. k \in KeysOf(Minute)
          BY <1>16, <3>2, <4>1, <5>1
        <5>3. QED
          BY <2>0, <5>2
      <4>2. CASE i \notin DOMAIN was
        <5>1. ~ (counters'[i].count > Limit)
          BY <1>8, <3>2, <4>2, Bounds
        <5>2. QED
          BY <1>10, <5>1
      <4>3. QED
        BY <4>1, <4>2
    <3>3. QED
      BY <1>3, <1>8, <1>13, <2>2, <3>1, <3>2
  <2>3. QED
    BY <2>1, <2>2
<1>18. \A d \in Calls : /\ entered'[d] \in {None} \cup 0 .. Minute
                        /\ pc'[d] \in {"idle", "limit"} => entered'[d] = None
  BY <1>2, <1>3, <1>10 DEF RInv
<1>19. ASSUME ~ Forgot(Minute)
       PROVE  /\ \A l \in RateKeys \ {k} : Known(l)'
              /\ Cardinality(AdmittedWith(Minute, k)) < counters'[i].count
  <2>1. /\ \A l \in RateKeys : Known(l)
        /\ \A l \in RateKeys : Cardinality(AdmittedWith(Minute, l)) <= Limit
        /\ 0 < Limit => Keeps(was)
    BY <1>3, <1>5, <1>19 DEF RInv, Seen, Within
  <2>2. ASSUME NEW l \in RateKeys, AdmittedWith(Minute, l) # {}
        PROVE  \E j \in DOMAIN was :
                  /\ was[j].key = l /\ was[j].minute = Minute
                  /\ Cardinality(AdmittedWith(Minute, l)) <= was[j].count
    <3>1. 0 < Cardinality(AdmittedWith(Minute, l))
      BY <2>2, AdmittedAreFinite, FS_EmptySet
    <3>2. Keeps(was)
      BY <2>1, <3>1, AdmittedAreFinite, Bounds
    <3>3. PICK n \in DOMAIN counters :
             /\ counters[n].key = l /\ counters[n].minute = Minute
             /\ Cardinality(AdmittedWith(Minute, l)) <= counters[n].count
      BY <2>1, <2>2 DEF Known, Index
    <3>4. PICK j \in DOMAIN was : was[j] = counters[n]
      BY <3>2, <3>3 DEF Keeps
    <3>5. QED
      BY <3>3, <3>4
  <2>3. ASSUME NEW l \in RateKeys \ {k} PROVE Known(l)'
    <3>1. AdmittedWith(Minute, l)' = AdmittedWith(Minute, l)
      BY <1>3, <1>10
    <3>2. ASSUME AdmittedWith(Minute, l) # {}
          PROVE  \E n \in Index(counters, l)' :
                    Cardinality(AdmittedWith(Minute, l)) <= counters'[n].count
      <4>1. PICK j \in DOMAIN was :
               /\ was[j].key = l /\ was[j].minute = Minute
               /\ Cardinality(AdmittedWith(Minute, l)) <= was[j].count
        BY <2>2, <3>2
      <4>2. j \in DOMAIN counters' /\ counters'[j] = was[j]
        BY <1>8, <4>1
      <4>3. QED
        BY <1>3, <4>1, <4>2 DEF Index
    <3>3. QED
      BY <3>1, <3>2 DEF Known
  <2>4. Cardinality(AdmittedWith(Minute, k)) < counters'[i].count
    <3>1. CASE AdmittedWith(Minute, k) = {}
      BY <1>8, <1>15, <3>1, FS_EmptySet
    <3>2. CASE AdmittedWith(Minute, k) # {}
      <4>1. PICK j \in DOMAIN was :
               /\ was[j].key = k /\ was[j].minute = Minute
               /\ Cardinality(AdmittedWith(Minute, k)) <= was[j].count
        BY <1>4, <2>2, <3>2
      <4>2. j \in Index(was, k)
        BY <4>1 DEF Index
      <4>3. i \in DOMAIN was /\ was[i].key = k /\ was[i].minute = Minute
        BY <1>8, <4>2
      <4>4. j = i
        BY <1>7, <4>1, <4>3 DEF OneEach
      <4>5. counters'[i].count = was[i].count + 1 /\ was[i].count \in Nat
        BY <1>8, <1>15, <4>2, <4>3
      <4>6. Cardinality(AdmittedWith(Minute, k)) \in Nat
        BY AdmittedAreFinite
      <4>7. QED
        BY <4>1, <4>4, <4>5, <4>6
    <3>3. QED
      BY <3>1, <3>2
  <2>5. QED
    BY <2>3, <2>4
<1>20. ASSUME ~ Forgot(Minute)
       PROVE  /\ Cardinality(AdmittedWith(Minute, k)') <= Limit
              /\ Cardinality(AdmittedWith(Minute, k)') <= counters'[i].count
  <2>0. /\ Cardinality(AdmittedWith(Minute, k)) <= Limit
        /\ Cardinality(AdmittedWith(Minute, k)) < counters'[i].count
    BY <1>3, <1>4, <1>19, <1>20 DEF RInv, Within
  <2>1. counters'[i].count \in Nat
    BY <1>8, <1>17
  <2>2. /\ IsFiniteSet(AdmittedWith(Minute, k))
        /\ Cardinality(AdmittedWith(Minute, k)) \in Nat
    BY AdmittedAreFinite
  <2>3. CASE AdmittedWith(Minute, k)' = AdmittedWith(Minute, k)
    BY <2>0, <2>1, <2>2, <2>3
  <2>4. CASE ~ (AdmittedWith(Minute, k)' = AdmittedWith(Minute, k))
    <3>1. Cardinality(AdmittedWith(Minute, k)') = Cardinality(AdmittedWith(Minute, k)) + 1
      BY <1>10, <2>2, <2>4, FS_AddElement
    <3>2. counters'[i].count <= Limit
      BY <1>10, <2>1, <2>4, Bounds
    <3>3. QED
      BY <2>0, <2>1, <2>2, <3>1, <3>2, Bounds
  <2>5. QED
    BY <2>3, <2>4
<1>21. Forgot(Minute)' \/ \A l \in RateKeys : Known(l)'
  <2>1. ASSUME ~ Forgot(Minute) PROVE Known(k)'
    <3>1. i \in Index(counters, k)'
      BY <1>3, <1>8 DEF Index
    <3>2. QED
      BY <1>3, <1>20, <2>1, <3>1 DEF Known
  <2>2. Forgot(Minute) => Forgot(Minute)'
    BY <1>3, <1>11
  <2>3. QED
    BY <1>19, <2>1, <2>2
<1>22. ASSUME NEW m \in Nat PROVE Forgot(m)' \/ Within(m)'
  <2>1. CASE Forgot(m)
    BY <1>11, <2>1
  <2>2. CASE ~ Forgot(m)
    <3>1. \A l \in RateKeys : Cardinality(AdmittedWith(m, l)) <= Limit
      BY <2>2 DEF RInv, Within
    <3>2. ASSUME NEW l \in RateKeys PROVE Cardinality(AdmittedWith(m, l)') <= Limit
      <4>1. CASE m # Minute \/ l # k
        BY <1>10, <3>1, <4>1
      <4>2. CASE m = Minute /\ l = k
        <5>1. AdmittedWith(Minute, k)' = AdmittedWith(m, l)'
          BY <1>3, <4>2
        <5>2. QED
          BY <1>20, <2>2, <4>2, <5>1
      <4>3. QED
        BY <4>1, <4>2
    <3>3. QED
      BY <3>2 DEF Within
  <2>3. QED
    BY <2>1, <2>2
<1>23. QED
  BY <1>2, <1>3, <1>7, <1>10, <1>17, <1>18, <1>21, <1>22 DEF RInv

\* What else a step may do to the limiter.
LEMMA LimitKept ==
    ASSUME RInv, UNCHANGED workload, entered' = entered, now' \in Nat, now' >= now, crashes' \in Nat,
           \/ UNCHANGED <<counters, crashes>>
           \/ crashes' > 0 /\ Settings.driver = "memory" /\ counters' = <<>>
           \/ crashes' > 0 /\ Settings.driver # "memory" /\ UNCHANGED counters,
           \A c \in Calls : /\ pc'[c] \in {"idle", "limit"} => pc[c] \in {"idle", "limit"}
    PROVE  RInv'
<1>1. /\ Minute \in Nat /\ Minute' \in Nat /\ Minute' >= Minute
      /\ Settings' = Settings /\ \A c : Q(c)' = Q(c)
  BY DEF RInv, Minute, Settings, Q
<1>2. \A m : Admitted(m)' = Admitted(m)
  BY DEF Admitted
<1>3. /\ \A m : KeysOf(m)' = KeysOf(m)
      /\ \A m, k : AdmittedWith(m, k)' = AdmittedWith(m, k)
  BY <1>1, <1>2 DEF KeysOf, AdmittedWith
<1>4. ASSUME NEW m, Forgot(m) PROVE Forgot(m)'
  BY <1>1, <1>3, <1>4 DEF Forgot, RInv
<1>5. Cardinality(Past) <= Cardinality(Past') /\ Cardinality(Past) \in Nat /\ Cardinality(Past') \in Nat
  <2>1. Past \subseteq Past' /\ Past' \subseteq Calls
    BY DEF Past
  <2>2. IsFiniteSet(Past') /\ Cardinality(Past') \in Nat
    BY <2>1, Bounds, FS_Subset, FS_CardinalityType
  <2>3. QED
    BY <2>1, <2>2, PastIsFinite, FS_Subset
<1>6. /\ DOMAIN entered' = Calls
      /\ \A c \in Calls : /\ entered'[c] \in {None} \cup 0 .. Minute'
                          /\ pc'[c] \in {"idle", "limit"} => entered'[c] = None
  BY <1>1 DEF RInv
<1>7. ASSUME Minute' # Minute, NEW k PROVE AdmittedWith(Minute, k)' = {}
  <2>1. \A c \in Calls : entered[c] = Minute' => Minute' = None
    BY <1>1, <1>7 DEF RInv
  <2>2. Admitted(Minute)' = {}
    BY <2>1 DEF Admitted
  <2>3. QED
    BY <2>2 DEF AdmittedWith
<1>8. /\ counters' \in Seq(Entries) /\ OneEach(counters')
      /\ \A i \in DOMAIN counters' :
            /\ counters'[i].minute <= Minute'
            /\ counters'[i].count \in 1 .. Cardinality(Past')
            /\ 0 < Limit /\ counters'[i].minute = Minute' => counters'[i].key \in KeysOf(Minute)'
  <2>1. CASE counters' = counters
    <3>1. counters \in Seq(Entries) /\ OneEach(counters)
      BY DEF RInv
    <3>2. SUFFICES ASSUME NEW i \in DOMAIN counters
                   PROVE  /\ counters[i].minute <= Minute'
                          /\ counters[i].count \in 1 .. Cardinality(Past')
                          /\ 0 < Limit /\ counters[i].minute = Minute' =>
                                counters[i].key \in KeysOf(Minute)'
      BY <2>1, <3>1 DEF OneEach
    <3>3. counters[i].minute \in Nat
      <4>1. counters[i] \in Entries
        BY <3>1
      <4>2. QED
        BY <4>1 DEF Entries
    <3>4. counters[i].minute <= Minute /\ counters[i].count \in 1 .. Cardinality(Past)
      BY DEF RInv
    <3>5. counters[i].minute <= Minute' /\ counters[i].count \in 1 .. Cardinality(Past')
      BY <1>1, <1>5, <3>3, <3>4
    <3>6. ASSUME 0 < Limit, counters[i].minute = Minute' PROVE counters[i].key \in KeysOf(Minute)'
      <4>1. Minute' = Minute
        BY <1>1, <3>4, <3>6
      <4>2. counters[i].key \in KeysOf(Minute)
        BY <3>6, <4>1 DEF RInv
      <4>3. QED
        BY <1>3, <4>1, <4>2
    <3>7. QED
      BY <3>5, <3>6
  <2>2. CASE counters' = <<>>
    BY <2>2 DEF OneEach
  <2>3. QED
    BY <2>1, <2>2
<1>9. Forgot(Minute)' \/ \A k \in RateKeys : Known(k)'
  <2>1. CASE crashes' > 0 /\ Settings.driver = "memory"
    BY <1>1, <2>1 DEF Forgot
  <2>2. CASE Minute' # Minute
    BY <1>7, <2>2 DEF Known
  <2>3. CASE Minute' = Minute /\ counters' = counters
    <3>1. ASSUME NEW k \in RateKeys, Known(k) PROVE Known(k)'
      <4>1. AdmittedWith(Minute, k)' = AdmittedWith(Minute, k) /\ Index(counters, k)' = Index(counters, k)
        BY <1>3, <2>3 DEF Index
      <4>2. QED
        BY <2>3, <3>1, <4>1 DEF Known
    <3>2. Forgot(Minute) => Forgot(Minute)'
      BY <1>4, <2>3
    <3>3. QED
      BY <3>1, <3>2 DEF RInv
  <2>4. QED
    BY <2>1, <2>2, <2>3
<1>10. ASSUME NEW m \in Nat PROVE Forgot(m)' \/ Within(m)'
  BY <1>3, <1>4 DEF RInv, Within
<1>11. QED
  BY <1>6, <1>8, <1>9, <1>10 DEF RInv

\* Every step keeps the account: only a restart or a full table loses of it.
LEMMA LimitStep ==
    ASSUME Configured, RInv, [Next]_vars
    PROVE  RInv'
<1>1. ASSUME NEW c \in Calls, Step(c) PROVE RInv'
  <2>1. UNCHANGED <<workload, now>> /\ pc'[c] \in Stages \cup {"done"}
        /\ \A d \in Calls \ {c} : pc'[d] = pc[d]
    BY <1>1, Moves DEF Configured
  <2>2. CASE Hit(c)
    BY <2>2, HitKeepsLimit
  <2>3. CASE ~ Hit(c)
    <3> USE <1>1, <2>3 DEF Step, limiter, fixed, Go, Fail, Leave, Configured, Domains
    <3>1. UNCHANGED <<counters, entered, crashes>> /\ pc'[c] \notin {"idle", "limit"}
      <4>1. CASE CheckToken(c) \/ CheckSession(c) \/ SaveSession(c)
        BY <4>1 DEF CheckToken, CheckSession, SaveSession, AfterToken
      <4>2. CASE LookupCaller(c) \/ Register(c) \/ ConfirmCaller(c)
        BY <4>2 DEF LookupCaller, Register, ConfirmCaller
      <4>3. CASE Pay(c) \/ Verify(c) \/ Reserve(c) \/ Settle(c)
        BY <4>3 DEF Pay, Verify, Reserve, Settle
      <4>4. CASE LookupTarget(c) \/ Lock(c) \/ Wait(c) \/ Recheck(c)
        BY <4>4 DEF LookupTarget, Lock, Wait, Recheck
      <4>5. CASE Create(c) \/ ConfirmTarget(c) \/ Release(c)
        BY <4>5 DEF Create, ConfirmTarget, Release
      <4>6. CASE Ask(c) \/ Cache(c) \/ Fallback(c) \/ Deliver(c)
        BY <4>6 DEF Ask, Cache, GiveUp, Fallback, Deliver
      <4>7. QED
        BY <4>1, <4>2, <4>3, <4>4, <4>5, <4>6
    <3>2. now \in Nat /\ crashes \in Nat
      BY DEF RInv
    <3> HIDE <1>1, <2>3 DEF Step, limiter, fixed, Go, Fail, Leave, Configured, Domains
    <3>3. QED
      BY <2>1, <3>1, <3>2, LimitKept
  <2>4. QED
    BY <2>2, <2>3
<1>2. ASSUME NEW c \in Calls, Begin(c) PROVE RInv'
  <2>1. /\ UNCHANGED <<workload, now>> /\ pc[c] = "idle"
        /\ \A d \in Calls \ {c} : pc'[d] = pc[d]
    BY <1>2, Begins DEF Configured
  <2>2. UNCHANGED <<counters, entered, crashes>>
    BY <1>2 DEF Begin, limiter
  <2>3. QED
    BY <2>1, <2>2, LimitKept DEF RInv
<1>3. CASE \/ Tick \/ (\E s \in Subjects : Lapse(s) \/ Revise(s) \/ Revoke(s))
           \/ (\E i \in Instances : Crash(i))
  <2>1. UNCHANGED workload /\ \A c \in Calls : pc'[c] = pc[c] \/ pc'[c] = "dead"
    BY <1>3, Stays DEF Configured
  <2>2. /\ now \in Nat /\ crashes \in Nat
    BY DEF RInv
  <2>3. CASE \E i \in Instances : Crash(i)
    <3>1. UNCHANGED <<now, entered>> /\ crashes' = crashes + 1
      BY <2>3 DEF Crash
    <3>2. \/ Settings.driver = "memory" /\ counters' = <<>>
          \/ Settings.driver # "memory" /\ UNCHANGED counters
      BY <2>3 DEF Crash
    <3>3. QED
      BY <2>1, <2>2, <3>1, <3>2, LimitKept
  <2>4. CASE Tick \/ (\E s \in Subjects : Lapse(s) \/ Revise(s) \/ Revoke(s))
    <3>1. UNCHANGED <<counters, entered, crashes>> /\ now' \in {now, now + 1}
      BY <2>4 DEF Tick, Lapse, Revise, Revoke, limiter, fixed
    <3>2. QED
      BY <2>1, <2>2, <3>1, LimitKept
  <2>5. QED
    BY <1>3, <2>3, <2>4
<1>4. CASE UNCHANGED vars
  BY <1>4, LimitKept DEF vars, RInv
<1>5. QED
  BY <1>1, <1>2, <1>3, <1>4 DEF Next

\* There is nothing to account for at first.
LEMMA LimitInit == Init => RInv
<1> SUFFICES ASSUME Init PROVE RInv
  OBVIOUS
<1>1. /\ now = 0 /\ crashes = 0 /\ counters = <<>>
      /\ DOMAIN entered = Calls /\ \A c \in Calls : entered[c] = None
  BY DEF Init
<1>2. ASSUME NEW m PROVE Admitted(m) = {}
  BY <1>1 DEF Admitted
<1>3. ASSUME NEW m, NEW k PROVE AdmittedWith(m, k) = {} /\ Cardinality(AdmittedWith(m, k)) = 0
  BY <1>2, FS_EmptySet DEF AdmittedWith
<1>4. counters \in Seq(Entries) /\ OneEach(counters) /\ DOMAIN counters = {}
  BY <1>1 DEF OneEach
<1>5. (\A k \in RateKeys : Known(k)) /\ \A m \in Nat : Within(m)
  BY <1>3, Bounds DEF Known, Within
<1>6. QED
  BY <1>1, <1>4, <1>5 DEF RInv

\* The counters are those of the calls that were let in, but for what was lost.
THEOREM LimitInvariance == Spec => [](Configured /\ RInv)
<1>1. Configured /\ RInv /\ [Next]_vars => (Configured /\ RInv)'
  BY ConfiguredStep, LimitStep
<1>2. Init => Configured /\ RInv
  BY ConfiguredInit, LimitInit
<1>3. QED
  BY <1>1, <1>2, PTL DEF Spec

\* No rate key gets past the limiter more often than the limit in a minute, unless
\* the process that counts in memory restarted or counts too many keys.
THEOREM TheLimitHolds == Spec => []LimitHolds
<1>1. RInv => LimitHolds
  <2> SUFFICES ASSUME RInv, NEW m \in {entered[c] : c \in Calls}
               PROVE  \/ \A k \in RateKeys : Cardinality({c \in Admitted(m) : Q(c).key = k}) <= Limit
                      \/ /\ Settings.driver = "memory"
                         /\ \/ crashes > 0
                            \/ Cardinality({Q(c).key : c \in Admitted(m)}) > MaxTracked
    BY DEF LimitHolds
  <2>1. CASE m = None
    <3>1. \A k : AdmittedWith(m, k) = {}
      BY <2>1 DEF AdmittedWith, Admitted
    <3>2. QED
      <4>1. \A k : Cardinality(AdmittedWith(m, k)) = 0 /\ 0 <= Limit
        BY <3>1, FS_EmptySet, Bounds
      <4>2. QED
        BY <4>1 DEF AdmittedWith
  <2>2. CASE m # None
    <3>1. m \in Nat
      BY <2>2 DEF RInv, Minute
    <3>2. QED
      BY <3>1 DEF RInv, Forgot, Within, AdmittedWith, KeysOf
  <2>3. QED
    BY <2>1, <2>2
<1>2. QED
  BY <1>1, LimitInvariance, PTL

-----------------------------------------------------------------------------
(* Shapes *)

Kinds == {"none", "verdict", "error"}

\* Attempts are over.
Asked == {"fallback", "deliver", "done", "dead"}

Numbers ==
    /\ workload.maxNow \in Nat /\ now \in 0 .. workload.maxNow
    /\ workload.maxCrashes \in Nat /\ crashes \in 0 .. workload.maxCrashes

Places ==
    /\ pc \in [Calls -> Stages \cup {"idle", "done", "dead"}]
    /\ \A c \in Calls : answer[c].kind \in Kinds

Attempted ==
    /\ tries \in [Calls -> 0 .. Attempts]
    /\ \A c \in Calls : pc[c] \notin Asked => tries[c] < Attempts
    /\ inHand \in [Calls -> 0 .. Newest] /\ cache \in [Subjects -> 0 .. Newest]

World ==
    /\ opinion \in [Subjects -> 1 .. Newest]
    /\ passport \in [Subjects -> {"none", "active", "revoked"}]

\* What TypeOK says beside what other invariants do, and that a call in flight
\* has attempts left.
SInv ==
    /\ Numbers /\ Places /\ Attempted /\ World
    /\ \A x \in Sessions : sessions[x] # None => sessions[x].session = x

\* What a call does to its place and its answer.
LEMMA StepPlaces ==
    ASSUME Configured, OInv, Places, NEW c \in Calls, Step(c)
    PROVE  /\ Places' /\ UNCHANGED crashes
           /\ pc[c] \in Asked => pc'[c] \in Asked
<1> USE DEF Configured, Domains, Places, fixed, Go, Fail, Leave, Failure, Verdict, Opinion, LastResort,
            Kinds, Stages, Asked
<1>1. CASE Hit(c)
  BY <1>1 DEF Hit
<1>2. CASE CheckToken(c) \/ CheckSession(c) \/ SaveSession(c)
  BY <1>2 DEF CheckToken, CheckSession, SaveSession, AfterToken
<1>3. CASE LookupCaller(c) \/ Register(c) \/ ConfirmCaller(c)
  BY <1>3 DEF LookupCaller, Register, ConfirmCaller
<1>4. CASE Pay(c) \/ Verify(c) \/ Reserve(c) \/ Settle(c)
  BY <1>4 DEF Pay, Verify, Reserve, Settle
<1>5. CASE LookupTarget(c) \/ Lock(c) \/ Wait(c) \/ Recheck(c)
  BY <1>5 DEF LookupTarget, Lock, Wait, Recheck, NoAnswer
<1>6. CASE Create(c) \/ ConfirmTarget(c) \/ Release(c)
  BY <1>6 DEF Create, ConfirmTarget, Release
<1>7. CASE Ask(c) \/ Cache(c) \/ Fallback(c)
  BY <1>7 DEF Ask, Cache, GiveUp, Fallback
<1>8. CASE Deliver(c)
  <2>1. HonestVerdict(c, answer[c])
    BY <1>8 DEF Deliver, OInv, Working, Honest
  <2>2. PICK a : a = answer[c] /\ a = [kind |-> "verdict", mode |-> a.mode, reason |-> a.reason,
                    decision |-> a.decision, score |-> a.score, rev |-> a.rev, route |-> a.route,
                    risk |-> a.risk]
    BY <2>1 DEF HonestVerdict
  <2>3. \A r, k : [a EXCEPT !.route = r, !.risk = k].kind = "verdict"
    BY <2>2
  <2>4. PICK r, k : r = Route(a.decision) /\ k = Risk(a.score)
    OBVIOUS
  <2>5. \/ answer' = answer
        \/ answer' = [answer EXCEPT ![c] = [a EXCEPT !.route = r, !.risk = k]]
        \/ answer' = [answer EXCEPT ![c] = [kind |-> "error", code |-> "STORE",
                                           status |-> IF Q(c).door = "http" THEN StatusOf("STORE") ELSE None]]
    BY <1>8, <2>2, <2>4 DEF Deliver
  <2>6. \A d \in Calls : answer'[d].kind \in Kinds
    <3>1. PICK e : e = [kind |-> "error", code |-> "STORE",
                       status |-> IF Q(c).door = "http" THEN StatusOf("STORE") ELSE None]
      OBVIOUS
    <3>2. PICK v : v = [a EXCEPT !.route = r, !.risk = k]
      OBVIOUS
    <3>3. e.kind = "error" /\ v.kind = "verdict"
      BY <2>3, <3>1, <3>2
    <3>4. answer' = answer \/ answer' = [answer EXCEPT ![c] = v] \/ answer' = [answer EXCEPT ![c] = e]
      BY <2>5, <3>1, <3>2
    <3>5. DOMAIN answer = Calls /\ \A d \in Calls : answer[d].kind \in Kinds
      OBVIOUS
    <3>6. QED
      BY <3>3, <3>4, <3>5
  <2>7. QED
    BY <1>8, <2>6 DEF Deliver
<1>9. QED
  BY <1>1, <1>2, <1>3, <1>4, <1>5, <1>6, <1>7, <1>8 DEF Step

\* Attempts are counted, and what they bring back is an opinion there is.
LEMMA StepAttempts ==
    ASSUME Configured, OInv, SInv, NEW c \in Calls, Step(c)
    PROVE  Attempted'
<1>1. /\ pc[c] \in Stages /\ Q(c).subject \in Subjects /\ \A d \in Calls \ {c} : pc'[d] = pc[d]
      /\ DOMAIN pc = Calls
  BY Moves DEF Configured, Domains
<1>2. pc[c] \in Asked => pc'[c] \in Asked
  BY StepPlaces DEF SInv
<1>3. Attempted /\ World
  BY DEF SInv
<1>4. Newest \in Nat \ {0} /\ Attempts \in Nat \ {0}
  BY BoundsAssumption
<1>5. ASSUME UNCHANGED asking PROVE Attempted'
  BY <1>1, <1>2, <1>3, <1>5 DEF Attempted, asking
<1>6. ASSUME GiveUp(c), pc[c] \notin Asked PROVE Attempted'
  BY <1>1, <1>3, <1>4, <1>6 DEF Attempted, GiveUp, Go, Asked
<1>7. CASE Ask(c)
  <2>1. CASE GiveUp(c)
    BY <1>6, <1>7, <2>1 DEF Ask, Asked
  <2>2. CASE ~ GiveUp(c)
    <3>1. opinion[Q(c).subject] \in 0 .. Newest
      BY <1>1, <1>3, <1>4 DEF World
    <3>2. inHand' = [inHand EXCEPT ![c] = opinion[Q(c).subject]] /\ UNCHANGED <<tries, cache>>
      BY <1>7, <2>2 DEF Ask
    <3>3. QED
      BY <1>1, <1>2, <1>3, <3>1, <3>2, <1>7 DEF Attempted, Ask, Asked
  <2>3. QED
    BY <2>1, <2>2
<1>8. CASE Cache(c)
  <2>1. CASE GiveUp(c)
    BY <1>6, <1>8, <2>1 DEF Cache, Asked
  <2>2. CASE ~ GiveUp(c)
    <3>1. /\ cache' = [cache EXCEPT ![Q(c).subject] = inHand[c]] /\ UNCHANGED <<tries, inHand>>
          /\ pc'[c] = "deliver"
      BY <1>1, <1>8, <2>2 DEF Cache, Go
    <3>2. QED
      BY <1>1, <1>3, <3>1 DEF Attempted, Asked
  <2>3. QED
    BY <2>1, <2>2
<1>9. CASE Hit(c) \/ CheckToken(c) \/ CheckSession(c) \/ SaveSession(c)
  BY <1>5, <1>9 DEF Hit, CheckToken, CheckSession, SaveSession
<1>10. CASE LookupCaller(c) \/ Register(c) \/ ConfirmCaller(c)
  BY <1>5, <1>10 DEF LookupCaller, Register, ConfirmCaller
<1>11. CASE Pay(c) \/ Verify(c) \/ Reserve(c) \/ Settle(c)
  BY <1>5, <1>11 DEF Pay, Verify, Reserve, Settle
<1>12. CASE LookupTarget(c) \/ Lock(c) \/ Wait(c) \/ Recheck(c)
  BY <1>5, <1>12 DEF LookupTarget, Lock, Wait, Recheck
<1>13. CASE Create(c) \/ ConfirmTarget(c) \/ Release(c) \/ Fallback(c) \/ Deliver(c)
  BY <1>5, <1>13 DEF Create, ConfirmTarget, Release, Fallback, Deliver
<1>14. QED
  BY <1>7, <1>8, <1>9, <1>10, <1>11, <1>12, <1>13 DEF Step

\* Passports are made, opinions stay.
LEMMA StepWorld ==
    ASSUME Configured, OInv, SInv, NEW c \in Calls, Step(c)
    PROVE  World'
<1>1. World
  BY DEF SInv
<1>2. ASSUME UNCHANGED upstream PROVE World'
  BY <1>1, <1>2 DEF World, upstream
<1>3. ASSUME NEW key, NEW body, Created(key, body) PROVE World'
  BY <1>1, <1>3 DEF Created, World
<1>4. CASE Register(c) \/ Create(c)
  BY <1>2, <1>3, <1>4 DEF Register, Create
<1>5. CASE Hit(c) \/ CheckToken(c) \/ CheckSession(c) \/ SaveSession(c)
  BY <1>2, <1>5 DEF Hit, CheckToken, CheckSession, SaveSession
<1>6. CASE LookupCaller(c) \/ ConfirmCaller(c)
  BY <1>2, <1>6 DEF LookupCaller, ConfirmCaller
<1>7. CASE Pay(c) \/ Verify(c) \/ Reserve(c) \/ Settle(c)
  BY <1>2, <1>7 DEF Pay, Verify, Reserve, Settle
<1>8. CASE LookupTarget(c) \/ Lock(c) \/ Wait(c) \/ Recheck(c)
  BY <1>2, <1>8 DEF LookupTarget, Lock, Wait, Recheck
<1>9. CASE ConfirmTarget(c) \/ Release(c) \/ Ask(c) \/ Cache(c) \/ Fallback(c) \/ Deliver(c)
  BY <1>2, <1>9 DEF ConfirmTarget, Release, Ask, Cache, Fallback, Deliver
<1>10. QED
  BY <1>4, <1>5, <1>6, <1>7, <1>8, <1>9 DEF Step

\* A session's row is of a token of that session.
LEMMA StepSessions ==
    ASSUME Configured, TInv, SInv, NEW c \in Calls, Step(c)
    PROVE  \A x \in Sessions : sessions'[x] # None => sessions'[x].session = x
<1>1. \A x \in Sessions : sessions[x] # None => sessions[x].session = x
  BY DEF SInv
<1>2. CASE UNCHANGED tokens
  BY <1>1, <1>2 DEF tokens
<1>3. CASE SaveSession(c)
  BY <1>1, <1>3 DEF SaveSession, TInv
<1>4. CASE Hit(c) \/ CheckToken(c) \/ CheckSession(c)
  BY <1>2, <1>4 DEF Hit, CheckToken, CheckSession
<1>5. CASE LookupCaller(c) \/ Register(c) \/ ConfirmCaller(c)
  BY <1>2, <1>5 DEF LookupCaller, Register, ConfirmCaller
<1>6. CASE Pay(c) \/ Verify(c) \/ Reserve(c) \/ Settle(c)
  BY <1>2, <1>6 DEF Pay, Verify, Reserve, Settle
<1>7. CASE LookupTarget(c) \/ Lock(c) \/ Wait(c) \/ Recheck(c)
  BY <1>2, <1>7 DEF LookupTarget, Lock, Wait, Recheck
<1>8. CASE \/ Create(c) \/ ConfirmTarget(c) \/ Release(c)
           \/ Ask(c) \/ Cache(c) \/ Fallback(c) \/ Deliver(c)
  BY <1>2, <1>8 DEF Create, ConfirmTarget, Release, Ask, Cache, Fallback, Deliver
<1>9. QED
  BY <1>3, <1>4, <1>5, <1>6, <1>7, <1>8 DEF Step

\* Every step keeps the shapes.
LEMMA ShapesStep ==
    ASSUME Configured, TInv, OInv, SInv, [Next]_vars
    PROVE  SInv'
<1>1. Numbers /\ Places /\ Attempted /\ World
      /\ \A x \in Sessions : sessions[x] # None => sessions[x].session = x
  BY DEF SInv
<1>2. ASSUME NEW c \in Calls, Step(c) PROVE SInv'
  <2>1. UNCHANGED <<workload, now, crashes>>
    BY <1>1, <1>2, Moves, StepPlaces DEF Configured
  <2>2. Numbers'
    BY <1>1, <2>1 DEF Numbers
  <2>3. QED
    BY <1>1, <1>2, <2>2, StepPlaces, StepAttempts, StepWorld, StepSessions DEF SInv
<1>3. ASSUME NEW c \in Calls, Begin(c) PROVE SInv'
  <2>1. /\ UNCHANGED <<workload, now>> /\ pc[c] = "idle" /\ pc'[c] \in {"limit", "done"}
        /\ answer'[c] = answer[c] \/ answer'[c].kind = "error"
        /\ \A d \in Calls \ {c} : pc'[d] = pc[d] /\ answer'[d] = answer[d]
    BY <1>3, Begins DEF Configured
  <2>2. UNCHANGED <<crashes, tokens, asking, upstream>>
    BY <1>3 DEF Begin
  <2>3. Numbers' /\ World' /\ \A x \in Sessions : sessions'[x] # None => sessions'[x].session = x
    BY <1>1, <2>1, <2>2 DEF Numbers, World, upstream, tokens
  <2>4. pc' \in [Calls -> Stages \cup {"idle", "done", "dead"}]
    BY <1>1, <1>3, <2>1 DEF Begin, Go, Places, Stages
  <2>5. Places' /\ Attempted'
    BY <1>1, <2>1, <2>2, <2>4 DEF Places, Attempted, asking, Asked, Kinds
  <2>6. QED
    BY <2>3, <2>5 DEF SInv
<1>4. CASE \/ Tick \/ (\E s \in Subjects : Lapse(s) \/ Revise(s) \/ Revoke(s))
           \/ (\E i \in Instances : Crash(i))
  <2>1. UNCHANGED <<workload, answer>> /\ \A c \in Calls : pc'[c] = pc[c] \/ pc'[c] = "dead"
    BY <1>4, Stays DEF Configured
  <2>2. UNCHANGED <<tokens, asking>>
    BY <1>4 DEF Tick, Lapse, Revise, Revoke, Crash
  <2>3. Numbers'
    BY <1>1, <1>4 DEF Tick, Lapse, Revise, Revoke, Crash, Numbers, fixed
  <2>4. World'
    <3>1. Newest \in Nat \ {0}
      BY BoundsAssumption
    <3>2. CASE UNCHANGED <<opinion, passport>>
      BY <1>1, <3>2 DEF World
    <3>3. CASE \E s \in Subjects : Revise(s) \/ Revoke(s)
      BY <1>1, <3>1, <3>3 DEF World, Revise, Revoke
    <3>4. QED
      BY <1>4, <3>2, <3>3 DEF Tick, Lapse, Crash, upstream
  <2>5. pc' \in [Calls -> Stages \cup {"idle", "done", "dead"}]
    BY <1>1, <1>4, <2>1 DEF Places, Tick, Lapse, Revise, Revoke, Crash
  <2>6. Places' /\ Attempted'
    BY <1>1, <2>1, <2>2, <2>5 DEF Places, Attempted, asking, Asked
  <2>7. QED
    BY <1>1, <2>2, <2>3, <2>4, <2>6 DEF SInv, tokens
<1>5. CASE UNCHANGED vars
  BY <1>1, <1>5 DEF vars, SInv, Numbers, Places, Attempted, World
<1>6. QED
  BY <1>2, <1>3, <1>4, <1>5 DEF Next

\* They are there to begin with.
LEMMA ShapesInit == Init => SInv
<1> SUFFICES ASSUME Init PROVE SInv
  OBVIOUS
<1>1. PICK w \in Workloads : workload = [w EXCEPT !.env = Config(@)]
  BY DEF Init
<1>2. /\ {"maxNow", "maxCrashes"} \subseteq DOMAIN w /\ w.maxNow \in Nat /\ w.maxCrashes \in Nat
      /\ Newest \in Nat \ {0} /\ Attempts \in Nat \ {0}
  BY BoundsAssumption
<1>3. workload.maxNow = w.maxNow /\ workload.maxCrashes = w.maxCrashes
  BY <1>1, <1>2
<1>4. Numbers
  BY <1>2, <1>3 DEF Init, Numbers
<1>5. Places
  BY DEF Init, Places, Kinds, NoAnswer
<1>6. Attempted /\ World
  BY <1>2 DEF Init, Attempted, World
<1>7. QED
  BY <1>4, <1>5, <1>6 DEF Init, SInv

\* Every variable keeps the shape the program gives it: a row is of its session, a
\* lock of a call, an attempt one of those there may be, and a counter has counted
\* calls.
THEOREM ShapesAreKept == Spec => []TypeOK
<1>1. /\ Configured /\ TInv /\ OInv /\ LInv /\ RInv /\ SInv /\ [Next]_vars
      => (Configured /\ TInv /\ OInv /\ LInv /\ RInv /\ SInv)'
  BY ConfiguredStep, TokensStep, OpinionsStep, LockStep, LimitStep, ShapesStep
<1>2. Init => Configured /\ TInv /\ OInv /\ LInv /\ RInv /\ SInv
  BY TokensInit, OpinionsInit, LocksInit, LimitInit, ShapesInit
<1>3. TInv /\ LInv /\ RInv /\ SInv => TypeOK
  <2> SUFFICES ASSUME TInv, LInv, RInv, SInv PROVE TypeOK
    OBVIOUS
  <2>1. \A i \in DOMAIN counters :
            counters[i].key \in RateKeys /\ counters[i].count \in 1 .. Cardinality(Calls)
    <3> SUFFICES ASSUME NEW i \in DOMAIN counters
                 PROVE  counters[i].key \in RateKeys /\ counters[i].count \in 1 .. Cardinality(Calls)
      OBVIOUS
    <3>1. counters[i] \in Entries /\ counters[i].count \in 1 .. Cardinality(Past)
      BY DEF RInv
    <3>2. Cardinality(Calls) \in Nat
      BY Bounds, FS_CardinalityType
    <3>3. counters[i].count \in 1 .. Cardinality(Calls)
      BY <3>1, <3>2, PastIsFinite
    <3>4. QED
      BY <3>1, <3>3 DEF Entries
  <2>2. \A s \in Subjects : lock[s] # None => lock[s].owner \in Calls
    BY DEF LInv
  <2>3. QED
    BY <2>1, <2>2 DEF TypeOK, TInv, LInv, SInv, Numbers, Places, Attempted, World, Kinds
<1>4. QED
  BY <1>1, <1>2, <1>3, PTL DEF Spec
=============================================================================
