--------------------------- MODULE TrustApiProofs ---------------------------
(***************************************************************************)
(* Theorems about WebhookDelivery, for any number of webhooks, events and  *)
(* attempts, with failing statements, crashes and restarts; and about      *)
(* TrustApi, for any requests, keys and events: the API does to its        *)
(* webhooks only what WebhookDelivery says, so that the theorems about     *)
(* deliveries hold of the whole, keys are metered, and an open stream has  *)
(* sent what it should.                                                    *)
(***************************************************************************)
EXTENDS TrustApi, ListProofs

-----------------------------------------------------------------------------
(* The invariant of the deliveries *)

USE WebhookAssumption DEF WebhookAssumption

\* A delivery has a row only once its event is out, and an alias event is out
\* only after its event: so what is dispatched is dispatched for the first time.
Fresh ==
    /\ \A d \in Deliveries : row[d].status # "none" => d[1] \in emitted
    /\ \A f \in Events : AliasOf[f] \in emitted => f \in emitted

\* Nothing has happened to a delivery that has no row.
Untouched(d) ==
    row[d].status = "none" =>
        /\ try[d] = 1
        /\ posts[d] = 0
        /\ d \notin acked

\* While something is under way for a delivery, the attempts are counted right
\* and no acknowledgement the store knows of has come in.
Working(d) ==
    live[d] # "none" =>
        /\ try[d] <= MaxOf[d[2]]
        /\ try[d] = posts[d] + (IF live[d] = "timer" THEN 1 ELSE 0)
        /\ d \in acked => d \in misread

\* The parts of NobodyForgotten and BookedAsHappened that speak of d.
Remembered(d) ==
    IF Open(row[d])
    THEN live[d] # "none" \/ closing \/ d \in lost
    ELSE live[d] = "none"

Booked(d) ==
    /\ row[d].status = "succeeded" => d \in acked
    /\ row[d].status = "failed" =>
          /\ d \in acked => d \in misread
          /\ row[d].count = MaxOf[d[2]]
    /\ row[d].status \in {"succeeded", "failed"} => row[d].count = posts[d]

Sound(d) == Untouched(d) /\ Working(d) /\ Remembered(d) /\ Booked(d)

IInv ==
    /\ TypeOK
    /\ Fresh
    /\ \A d \in Deliveries : Sound(d)

-----------------------------------------------------------------------------
(* Lemmas on the steps *)

\* The system starts in the invariant.
LEMMA InitSound == Init => IInv
<1> SUFFICES ASSUME Init PROVE IInv
  OBVIOUS
<1> USE DEF Init, Row, Open
<1>1. TypeOK
  <2>1. \A d \in Deliveries : MaxOf[d[2]] \in Nat \ {0}
    BY DEF Deliveries
  <2>2. row \in [Deliveries -> [status : Statuses, count : Nat]]
    BY DEF Statuses
  <2>3. active \in Seq(Webhooks)
    OBVIOUS
  <2>4. \A d \in Deliveries : posts[d] <= MaxOf[d[2]]
    BY <2>1
  <2>5. /\ live \in [Deliveries -> {"none", "fetch", "timer"}]
        /\ try \in [Deliveries -> Nat] /\ posts \in [Deliveries -> Nat]
    OBVIOUS
  <2>6. crashes \in 0 .. MaxCrashes
    OBVIOUS
  <2>7. emitted \subseteq Events /\ closing \in BOOLEAN
    OBVIOUS
  <2>8. acked \subseteq Deliveries /\ misread \subseteq Deliveries /\ lost \subseteq Deliveries
    OBVIOUS
  <2>9. QED
    <3> HIDE DEF Init
    <3>1. QED
      BY <2>2, <2>3, <2>4, <2>5, <2>6, <2>7, <2>8 DEF TypeOK
<1>2. Fresh
  BY DEF Fresh
<1>3. ASSUME NEW d \in Deliveries PROVE Sound(d)
  BY DEF Sound, Untouched, Working, Remembered, Booked
<1>4. QED
  BY <1>1, <1>2, <1>3 DEF IInv

\* Dispatching deliveries that have no row yet is sound.
LEMMA DispatchStep ==
    ASSUME IInv, NEW ds \in SUBSET Deliveries, Dispatch(ds),
           \A d \in ds : row[d].status = "none",
           emitted' \subseteq Events, emitted \subseteq emitted'
    PROVE  /\ TypeOK'
           /\ \A d \in Deliveries : Sound(d)'
<1>1. \A d \in Deliveries :
         /\ row[d] \in [status : Statuses, count : Nat]
         /\ try[d] \in Nat /\ posts[d] \in Nat
         /\ MaxOf[d[2]] \in Nat \ {0}
  BY DEF IInv, TypeOK, Deliveries
<1>2. ASSUME NEW d \in Deliveries PROVE Sound(d)' /\ posts'[d] <= MaxOf[d[2]]
  <2>1. CASE d \in ds
    BY <1>1, <2>1 DEF IInv, Sound, Untouched, Working, Remembered, Booked, Dispatch, Row, Open
  <2>2. CASE d \notin ds
    <3>1. row'[d] = row[d] /\ live'[d] = live[d] /\ posts'[d] = posts[d] /\ try'[d] = try[d]
      BY <2>2 DEF Dispatch
    <3>2. Sound(d) /\ posts[d] <= MaxOf[d[2]]
      BY DEF IInv, TypeOK
    <3>3. QED
      BY <3>1, <3>2 DEF Sound, Untouched, Working, Remembered, Booked, Dispatch
  <2>3. QED
    BY <2>1, <2>2
<1>3. TypeOK'
  BY <1>1, <1>2 DEF IInv, TypeOK, Dispatch, Row, Statuses
<1>4. QED
  BY <1>2, <1>3

\* Emitting an event dispatches new deliveries only.
LEMMA EmitStep == ASSUME IInv, NEW e \in Events, Emit(e) PROVE IInv'
<1>1. e \notin emitted /\ \A f \in Events : AliasOf[f] # e
  BY DEF Emit
<1>2. \A f \in Events, n \in 0 .. Len(active) : {f} \X Served(f, n) \subseteq Deliveries
  BY DEF Served, Deliveries
<1>3. \A d \in Deliveries : d[1] \notin emitted => row[d].status = "none"
  BY DEF IInv, Fresh
<1>4. CASE EmitPlain(e)
  <2>1. PICK n \in 0 .. Len(active) : Dispatch({e} \X Served(e, n))
    BY <1>4 DEF EmitPlain
  <2> DEFINE ds == {e} \X Served(e, n)
  <2>2. ds \in SUBSET Deliveries /\ \A d \in ds : d[1] = e
    BY <1>2
  <2>3. emitted' = emitted \cup {e}
    BY <1>4 DEF EmitPlain
  <2>4. emitted \subseteq Events
    BY DEF IInv, TypeOK
  <2>5. \A d \in ds : row[d].status = "none"
    BY <1>1, <1>3, <2>2
  <2>6. TypeOK' /\ \A d \in Deliveries : Sound(d)'
    <3> HIDE DEF ds
    <3>1. Dispatch(ds)
      BY <2>1 DEF ds
    <3>2. QED
      BY <2>2, <2>3, <2>4, <2>5, <3>1, DispatchStep
  <2>7. Fresh'
    <3> HIDE DEF ds
    <3>1. Dispatch(ds)
      BY <2>1 DEF ds
    <3>2. \A d \in Deliveries : row'[d].status # "none" => d[1] \in emitted'
      BY <2>2, <2>3, <3>1 DEF IInv, Fresh, Dispatch
    <3>3. \A f \in Events : AliasOf[f] \in emitted' => f \in emitted'
      BY <1>1, <2>3 DEF IInv, Fresh
    <3>4. QED
      BY <3>2, <3>3 DEF Fresh
  <2>8. QED
    BY <2>6, <2>7 DEF IInv
<1>5. CASE EmitWithAlias(e)
  <2> DEFINE a == AliasOf[e]
  <2>1. PICK n \in 0 .. Len(active) :
           Dispatch(({e} \X Served(e, Len(active))) \cup ({a} \X Served(a, n)))
    BY <1>5 DEF EmitWithAlias
  <2> DEFINE ds == ({e} \X Served(e, Len(active))) \cup ({a} \X Served(a, n))
  <2>2. a \in Events /\ a # None
    BY <1>5 DEF EmitWithAlias
  <2>3. Len(active) \in 0 .. Len(active)
    BY DEF IInv, TypeOK
  <2>4. ds \in SUBSET Deliveries /\ \A d \in ds : d[1] \in {e, a}
    BY <1>2, <2>2, <2>3
  <2>5. emitted' = emitted \cup {e, a}
    BY <1>5 DEF EmitWithAlias
  <2>6. emitted \subseteq Events
    BY DEF IInv, TypeOK
  <2>7. a \notin emitted
    BY <1>1 DEF IInv, Fresh
  <2>8. \A d \in ds : row[d].status = "none"
    BY <1>1, <1>3, <2>4, <2>7
  <2>9. TypeOK' /\ \A d \in Deliveries : Sound(d)'
    <3> HIDE DEF ds
    <3>1. Dispatch(ds)
      BY <2>1 DEF ds
    <3>2. QED
      BY <2>2, <2>4, <2>5, <2>6, <2>8, <3>1, DispatchStep
  <2>10. Fresh'
    <3> HIDE DEF ds
    <3>1. Dispatch(ds)
      BY <2>1 DEF ds
    <3>2. \A d \in Deliveries : row'[d].status # "none" => d[1] \in emitted'
      BY <2>4, <2>5, <3>1 DEF IInv, Fresh, Dispatch
    <3>3. ASSUME NEW f \in Events, AliasOf[f] \in emitted' PROVE f \in emitted'
      BY <1>1, <2>2, <2>5, <3>3 DEF IInv, Fresh
    <3>4. QED
      BY <3>2, <3>3 DEF Fresh
  <2>11. QED
    BY <2>9, <2>10 DEF IInv
<1>6. QED
  BY <1>4, <1>5 DEF Emit

\* A step that leaves the tables and what is under way for x alone keeps x
\* sound: closing may be set by it, and other deliveries may become lost.
LEMMA Frame ==
    ASSUME NEW x \in Deliveries, Sound(x),
           row'[x] = row[x], live'[x] = live[x], try'[x] = try[x], posts'[x] = posts[x],
           x \in acked' <=> x \in acked, x \in misread' <=> x \in misread,
           closing => closing', x \in lost => x \in lost'
    PROVE  Sound(x)'
BY DEF Sound, Untouched, Working, Remembered, Booked

\* What the catch block leaves behind is sound: a scheduled retry, the end of
\* the attempts, or a process that is about to exit.
LEMMA CaughtStep ==
    ASSUME IInv, NEW d \in Deliveries, live[d] = "fetch",
           NEW r \in [status : Statuses, count : Nat], Caught(d, r),
           r = row[d] \/ r = Row("succeeded", try[d]),
           UNCHANGED <<webhookVars, crashes, posts, lost>>,
           \/ UNCHANGED <<acked, misread>>  /\ r = row[d]
           \/ acked' = acked \cup {d} /\ misread' = misread \cup {d}
    PROVE  IInv'
<1> USE DEF webhookVars
<1>1. /\ row[d] \in [status : Statuses, count : Nat]
      /\ try[d] \in Nat /\ posts[d] \in Nat /\ MaxOf[d[2]] \in Nat \ {0}
      /\ try[d] <= MaxOf[d[2]] /\ try[d] = posts[d]
      /\ Open(row[d]) /\ Sound(d)
  BY DEF IInv, TypeOK, Deliveries, Sound, Working, Remembered
<1>2. Attempted(d) \in [status : Statuses, count : Nat]
  BY <1>1 DEF Attempted, Row, Statuses
<1>3. \E s \in [status : Statuses, count : Nat] :
         row' = [row EXCEPT ![d] = s] /\ (s = r \/ s = Attempted(d))
  BY <1>2 DEF Caught
<1>4. TypeOK'
  <2>1. row' \in [Deliveries -> [status : Statuses, count : Nat]]
    BY <1>3 DEF IInv, TypeOK
  <2>2. /\ live' \in [Deliveries -> {"none", "fetch", "timer"}]
        /\ try' \in [Deliveries -> Nat]
        /\ closing' \in BOOLEAN
    <3>1. CASE ScheduleRetry(d) /\ UNCHANGED closing
      <4>1. try[d] + 1 \in Nat
        BY <1>1
      <4>2. \/ live' = [live EXCEPT ![d] = "timer"] /\ try' = [try EXCEPT ![d] = try[d] + 1]
            \/ live' = [live EXCEPT ![d] = "none"] /\ try' = try
        BY <3>1 DEF ScheduleRetry
      <4>3. live \in [Deliveries -> {"none", "fetch", "timer"}] /\ try \in [Deliveries -> Nat]
        BY DEF IInv, TypeOK
      <4>4. live' \in [Deliveries -> {"none", "fetch", "timer"}]
        BY <4>2, <4>3
      <4>5. try' \in [Deliveries -> Nat]
        BY <4>1, <4>2, <4>3
      <4>6. QED
        BY <3>1, <4>4, <4>5 DEF IInv, TypeOK
    <3>2. CASE live' = [live EXCEPT ![d] = "none"] /\ closing' = TRUE /\ UNCHANGED try
      BY <3>2 DEF IInv, TypeOK
    <3>3. QED
      BY <3>1, <3>2 DEF Caught
  <2>3. acked' \subseteq Deliveries /\ misread' \subseteq Deliveries
    BY DEF IInv, TypeOK
  <2>4. QED
    BY <2>1, <2>2, <2>3 DEF IInv, TypeOK
<1>5. Fresh'
  BY <1>1, <1>3 DEF IInv, Fresh, TypeOK, Open
<1>6. ASSUME NEW x \in Deliveries, x # d PROVE Sound(x)'
  <2>1. row'[x] = row[x] /\ live'[x] = live[x] /\ try'[x] = try[x]
    BY <1>3, <1>6 DEF IInv, TypeOK, Caught, ScheduleRetry
  <2>2. Sound(x) /\ (closing => closing')
    BY DEF IInv, Caught
  <2>3. QED
    BY <1>6, <2>1, <2>2, Frame
<1>7. Sound(d)'
  <2>1. CASE row' = [row EXCEPT ![d] = Attempted(d)] /\ ScheduleRetry(d)
    BY <1>1, <2>1 DEF IInv, TypeOK, ScheduleRetry, Attempted, ShouldRetry, Row, Open,
         Sound, Untouched, Working, Remembered, Booked
  <2>2. CASE closing' /\ live' = [live EXCEPT ![d] = "none"] /\ try' = try
    <3>1. live'[d] = "none"
      BY <2>2 DEF IInv, TypeOK
    <3>2. PICK s \in {r, Attempted(d)} : row'[d] = s
      BY <1>3 DEF IInv, TypeOK
    <3>3. QED
      BY <1>1, <2>2, <3>1, <3>2 DEF Attempted, ShouldRetry, Row, Open,
           Sound, Untouched, Working, Remembered, Booked
  <2>3. QED
    BY <2>1, <2>2 DEF Caught
<1>8. QED
  BY <1>4, <1>5, <1>6, <1>7 DEF IInv

\* An answer of the receiver keeps the invariant.
LEMMA AnswerStep == ASSUME IInv, NEW d \in Deliveries, Answer(d) PROVE IInv'
<1>1. /\ live[d] = "fetch"
      /\ row[d] \in [status : Statuses, count : Nat]
      /\ try[d] \in Nat /\ Open(row[d]) /\ try[d] = posts[d]
  <2>1. live[d] = "fetch"
    BY DEF Answer, Delivered, DeliveredUnrecorded, Undelivered
  <2>2. /\ row[d] \in [status : Statuses, count : Nat]
        /\ try[d] \in Nat /\ posts[d] \in Nat
    BY DEF IInv, TypeOK
  <2>3. QED
    BY <2>1, <2>2 DEF IInv, Sound, Working, Remembered
<1>2. Row("succeeded", try[d]) \in [status : Statuses, count : Nat]
  BY <1>1 DEF Row, Statuses
<1>3. CASE Delivered(d)
  <2>1. TypeOK'
    BY <1>2, <1>3 DEF IInv, TypeOK, Delivered, webhookVars
  <2>2. Fresh'
    BY <1>1, <1>3 DEF IInv, TypeOK, Fresh, Delivered, Open, webhookVars
  <2>3. ASSUME NEW x \in Deliveries, x # d PROVE Sound(x)'
    <3>1. Sound(x) /\ row'[x] = row[x] /\ live'[x] = live[x]
      BY <1>3, <2>3 DEF IInv, TypeOK, Delivered
    <3>2. QED
      BY <1>3, <2>3, <3>1, Frame DEF Delivered
  <2>4. Sound(d)'
    <3>1. row'[d] = Row("succeeded", try[d]) /\ live'[d] = "none"
      BY <1>3 DEF IInv, TypeOK, Delivered
    <3>2. QED
      BY <1>1, <1>3, <3>1 DEF Delivered, Row, Open, Sound, Untouched, Working, Remembered, Booked
  <2>5. QED
    BY <2>1, <2>2, <2>3, <2>4 DEF IInv
<1>4. CASE DeliveredUnrecorded(d)
  <2>1. PICK r \in {row[d], Row("succeeded", try[d])} : Caught(d, r)
    BY <1>4 DEF DeliveredUnrecorded
  <2>2. QED
    BY <1>1, <1>2, <1>4, <2>1, CaughtStep DEF DeliveredUnrecorded
<1>5. CASE Undelivered(d)
  BY <1>1, <1>5, CaughtStep DEF Undelivered, historyVars
<1>6. QED
  BY <1>3, <1>4, <1>5 DEF Answer

\* A retry keeps the invariant.
LEMMA TimerStep == ASSUME IInv, NEW d \in Deliveries, TimerFires(d) PROVE IInv'
<1> USE DEF TimerFires, webhookVars
<1>1. /\ try[d] \in Nat /\ posts[d] \in Nat /\ MaxOf[d[2]] \in Nat \ {0}
      /\ live[d] = "timer" /\ Sound(d)
  BY DEF IInv, TypeOK, Deliveries
<1>2. live'[d] = "fetch" /\ posts'[d] = posts[d] + 1
  BY DEF IInv, TypeOK
<1>3. posts'[d] <= MaxOf[d[2]] /\ Sound(d)'
  BY <1>1, <1>2 DEF Sound, Untouched, Working, Remembered, Booked, Open
<1>4. ASSUME NEW x \in Deliveries, x # d PROVE posts'[x] <= MaxOf[x[2]] /\ Sound(x)'
  <2>1. Sound(x) /\ posts[x] <= MaxOf[x[2]]
    BY DEF IInv, TypeOK
  <2>2. live'[x] = live[x] /\ posts'[x] = posts[x]
    BY <1>4 DEF IInv, TypeOK
  <2>3. QED
    BY <1>4, <2>1, <2>2, Frame
<1>5. TypeOK'
  <2>1. live' \in [Deliveries -> {"none", "fetch", "timer"}] /\ posts' \in [Deliveries -> Nat]
    BY <1>1 DEF IInv, TypeOK
  <2>2. QED
    BY <1>3, <1>4, <2>1 DEF IInv, TypeOK
<1>6. QED
  BY <1>3, <1>4, <1>5 DEF IInv, Fresh

\* A restart keeps the invariant: what it drops becomes lost.
LEMMA RestartStep == ASSUME IInv, Restart, crashes' \in 0 .. MaxCrashes PROVE IInv'
<1> USE DEF Restart, webhookVars
<1>1. TypeOK' /\ Fresh'
  BY DEF IInv, TypeOK, Fresh
<1>2. ASSUME NEW d \in Deliveries PROVE Sound(d)'
  BY DEF IInv, Sound, Untouched, Working, Remembered, Booked
<1>3. QED
  BY <1>1, <1>2 DEF IInv

-----------------------------------------------------------------------------
(* The theorems *)

\* IInv is an invariant.
THEOREM WebhookInvariance == Spec => []IInv
<1>1. IInv /\ [Next]_vars => IInv'
  <2> SUFFICES ASSUME IInv, [Next]_vars PROVE IInv'
    OBVIOUS
  <2>1. ASSUME NEW w \in Webhooks, Register(w) PROVE IInv'
    <3> USE <2>1 DEF Register, historyVars
    <3>1. TypeOK' /\ Fresh'
      BY DEF IInv, TypeOK, Fresh
    <3>2. ASSUME NEW d \in Deliveries PROVE Sound(d)'
      BY Frame DEF IInv
    <3>3. QED
      BY <3>1, <3>2 DEF IInv
  <2>2. ASSUME NEW e \in Events, Emit(e) PROVE IInv'
    BY <2>2, EmitStep
  <2>3. ASSUME NEW d \in Deliveries, Answer(d) PROVE IInv'
    BY <2>3, AnswerStep
  <2>4. ASSUME NEW d \in Deliveries, TimerFires(d) PROVE IInv'
    BY <2>4, TimerStep
  <2>5. CASE Exit
    BY <2>5, RestartStep DEF Exit, IInv, TypeOK
  <2>6. CASE Crash
    <3>1. crashes' \in 0 .. MaxCrashes
      BY <2>6 DEF Crash, IInv, TypeOK
    <3>2. QED
      BY <2>6, <3>1, RestartStep DEF Crash
  <2>7. CASE UNCHANGED vars
    <3> USE <2>7 DEF vars, webhookVars, historyVars
    <3>1. TypeOK' /\ Fresh'
      BY DEF IInv, TypeOK, Fresh
    <3>2. ASSUME NEW d \in Deliveries PROVE Sound(d)'
      BY Frame DEF IInv
    <3>3. QED
      BY <3>1, <3>2 DEF IInv
  <2>8. CASE Shutdown
    <3> USE <2>8 DEF Shutdown, webhookVars, historyVars
    <3>1. TypeOK' /\ Fresh'
      BY DEF IInv, TypeOK, Fresh
    <3>2. ASSUME NEW d \in Deliveries PROVE Sound(d)'
      BY DEF IInv, Sound, Untouched, Working, Remembered, Booked
    <3>3. QED
      BY <3>1, <3>2 DEF IInv
  <2>9. QED
    BY <2>1, <2>2, <2>3, <2>4, <2>5, <2>6, <2>7, <2>8 DEF Next
<1>2. QED
  BY <1>1, InitSound, PTL DEF Spec

\* No webhook is sent an event more often than its max_attempts.
THEOREM WebhookTyping == Spec => []TypeOK
<1>1. IInv => TypeOK
  BY DEF IInv
<1>2. QED
  BY <1>1, WebhookInvariance, PTL

\* No interleaving of failures, retries and new events makes a running process
\* forget a delivery it owes.
THEOREM DeliveriesAreRemembered == Spec => []NobodyForgotten
<1>1. IInv => NobodyForgotten
  BY DEF IInv, Sound, Remembered, NobodyForgotten
<1>2. QED
  BY <1>1, WebhookInvariance, PTL

\* A closed delivery tells truly how it ended and after how many requests.
THEOREM DeliveriesAreBooked == Spec => []BookedAsHappened
<1>1. IInv => BookedAsHappened
  BY DEF IInv, Sound, Booked, BookedAsHappened
<1>2. QED
  BY <1>1, WebhookInvariance, PTL

\* A delivery recorded as acknowledged is never sent again.
THEOREM AckedIsNotResent == Spec => AckIsFinal
<1> DEFINE Kept == \A d \in acked \ misread : posts'[d] = posts[d]
<1>1. IInv /\ [Next]_vars => [Kept]_vars
  <2> SUFFICES ASSUME IInv, Next, NEW d \in acked \ misread PROVE posts'[d] = posts[d]
    OBVIOUS
  <2>1. d \in Deliveries /\ Sound(d) /\ live[d] = "none"
    BY DEF IInv, TypeOK, Sound, Working
  <2>2. d[1] \in emitted
    BY <2>1 DEF IInv, Fresh, Sound, Untouched
  <2>3. ASSUME NEW e \in Events, Emit(e) PROVE posts'[d] = posts[d]
    <3>1. e # d[1] /\ AliasOf[e] # d[1]
      BY <2>2, <2>3 DEF Emit, IInv, Fresh
    <3>2. ASSUME NEW ds, Dispatch(ds), d \notin ds PROVE posts'[d] = posts[d]
      BY <2>1, <3>2 DEF Dispatch
    <3>3. CASE EmitPlain(e)
      <4>1. PICK n \in 0 .. Len(active) : Dispatch({e} \X Served(e, n))
        BY <3>3 DEF EmitPlain
      <4>2. QED
        BY <3>1, <3>2, <4>1
    <3>4. CASE EmitWithAlias(e)
      <4>1. PICK n \in 0 .. Len(active) :
               Dispatch(   ({e} \X Served(e, Len(active)))
                      \cup ({AliasOf[e]} \X Served(AliasOf[e], n)))
        BY <3>4 DEF EmitWithAlias
      <4>2. d \notin {e} \X Served(e, Len(active)) /\ d \notin {AliasOf[e]} \X Served(AliasOf[e], n)
        BY <3>1
      <4>3. QED
        BY <3>2, <4>1, <4>2
    <3>5. QED
      BY <2>3, <3>3, <3>4 DEF Emit
  <2>4. ASSUME NEW x \in Deliveries, TimerFires(x) PROVE posts'[d] = posts[d]
    BY <2>1, <2>4 DEF TimerFires, IInv, TypeOK
  <2>5. ASSUME NEW x \in Deliveries, Answer(x) PROVE posts' = posts
    BY <2>5 DEF Answer, Delivered, DeliveredUnrecorded, Undelivered, historyVars
  <2>6. QED
    BY <2>3, <2>4, <2>5 DEF Next, Register, Shutdown, Exit, Crash, Restart, historyVars
<1>2. QED
  BY <1>1, WebhookInvariance, PTL DEF Spec, AckIsFinal

-----------------------------------------------------------------------------
(* The invariant of the API *)

\* What the assumption says of the numbers of an instance.
Numbers ==
    /\ None \notin {"read", "write"}
    /\ {ReplayLimit, MaxStreams, LastMinute} \subseteq Nat
    /\ IsFiniteSet(Requests)
    /\ \A w \in Workloads :
          /\ w.lastMinute \in 0 .. LastMinute
          /\ \A b \in Buckets : w.spent[b] \in 0 .. Policy(b).limit
          /\ \A c \in DOMAIN w.requests : w.requests[c].webhook \in Webhooks
                                      /\ w.requests[c].event \in Events

\* They are within their bounds.
LEMMA NumbersAreSo == Numbers
BY ApiAssumption DEF ApiAssumption, Numbers

USE NumbersAreSo DEF Numbers

Keys == DOMAIN slots

Stages == {"new", "reading", "streaming", "closed", "done"}

OpenStreams(k) == {c \in Requests : stage[c] = "streaming" /\ KeyOf(c) = k}

\* The workload is one of Workloads, and its keys are the ones counted.
Configured ==
    /\ \E w \in Workloads : /\ workload.requests = w.requests
                            /\ workload.lastMinute = w.lastMinute
    /\ Keys = {workload.registry[t].key : t \in DOMAIN workload.registry}
    /\ minute \in 0 .. workload.lastMinute

\* A request that passed the door was let in, and one with a stream asked for it.
MayBe(c, s) ==
    /\ s \in {"new", "reading"} => c \in DOMAIN workload.requests
    /\ s \in {"reading", "streaming"} => Refusal(c) = 0
    /\ s = "streaming" => RouteOf(c).id = "events.stream"

Admitted ==
    /\ stage \in [Requests -> Stages]
    /\ \A c \in Requests : MayBe(c, stage[c])

\* A slot is held at least as often as a stream is open; a process that is
\* about to exit may have lost count.
Balanced(k) ==
    /\ Cardinality(OpenStreams(k)) <= slots[k]
    /\ closing \/ Cardinality(OpenStreams(k)) = slots[k]

Counted ==
    /\ slots \in [Keys -> 0 .. MaxStreams]
    /\ \A k \in Keys : Balanced(k)

\* What a process admitted this minute it has counted.
WithinFor(k, b) ==
    /\ charged[<<k, b>>] <= used[<<k, b, minute>>]
    /\ used[<<k, b, minute>>] <= Policy(b).limit
    /\ \A m \in 0 .. LastMinute : m > minute => used[<<k, b, m>>] = 0

Within ==
    /\ used \in [Keys \X Buckets \X (0 .. LastMinute) -> Nat]
    /\ charged \in [Keys \X Buckets -> Nat]
    /\ \A k \in Keys, b \in Buckets : WithinFor(k, b)

ApiInv == Configured /\ Admitted /\ Counted /\ Within

-----------------------------------------------------------------------------
(* Lemmas on routes *)

\* A request that is not refused for its address has a route.
LEMMA Routed ==
    ASSUME NEW c, Unrouted(RequestOf(c)) = 0
    PROVE  /\ RouteOf(c) \in Routes
           /\ RouteOf(c).path = RequestOf(c).path
           /\ RouteOf(c).method = RequestOf(c).method
<1>1. \E route \in Routes :
         route.path = RequestOf(c).path /\ route.method = RequestOf(c).method
  BY DEF Unrouted, Status
<1>2. QED
  BY <1>1 DEF RouteOf

\* A metered route has a bucket.
LEMMA MeteredRoutes ==
    /\ \A route \in Routes : route.scope # None => route.bucket \in Buckets
    /\ \A route \in Routes : route.id = "events.stream" => route.scope = "read"
<1> USE DEF Route, Buckets
<1>1. \A route \in PublicRoutes : route.scope = None /\ route.id # "events.stream"
  BY DEF PublicRoutes
<1>2. \A route \in SubjectRoutes : route.bucket \in Buckets /\ route.id # "events.stream"
  BY DEF SubjectRoutes
<1>3. \A route \in TrustRoutes : route.bucket \in Buckets /\ route.id # "events.stream"
  BY DEF TrustRoutes
<1>4. \A route \in ObserverRoutes :
         route.bucket \in Buckets /\ (route.id = "events.stream" => route.scope = "read")
  BY DEF ObserverRoutes
<1>5. QED
  BY <1>1, <1>2, <1>3, <1>4 DEF Routes

\* A request that passes the door of a metered route has a key that is
\* counted, and a bucket.
LEMMA Known ==
    ASSUME Configured, NEW c, Refusal(c) = 0
    PROVE  /\ RouteOf(c).id = "events.stream" => Metered(c)
           /\ Metered(c) => KeyOf(c) \in Keys /\ RouteOf(c).bucket \in Buckets
<1>1. Unrouted(RequestOf(c)) = 0
  BY DEF Refusal
<1>2. RouteOf(c) \in Routes
  BY <1>1, Routed
<1>3. RouteOf(c).id = "events.stream" => Metered(c)
  BY <1>2, MeteredRoutes DEF Metered
<1>4. ASSUME Metered(c) PROVE RequestOf(c).token \in DOMAIN workload.registry
  BY <1>1, <1>4 DEF Refusal, Unauthorized, Status
<1>5. QED
  BY <1>2, <1>3, <1>4, MeteredRoutes DEF Metered, Configured, KeyOf

\* A request that is let in with a body is metered.
LEMMA AdmittedIsMetered ==
    ASSUME NEW c, Refusal(c) = 0, HasBody(c)
    PROVE  Metered(c)
<1> USE DEF Route
<1>1. \A route \in PublicRoutes : route.method # "POST"
  BY DEF PublicRoutes
<1>2. \A route \in SubjectRoutes \cup TrustRoutes \cup ObserverRoutes : route.scope # None
  <2>1. \A route \in SubjectRoutes : route.scope # None
    BY DEF SubjectRoutes
  <2>2. \A route \in TrustRoutes : route.scope # None
    BY DEF TrustRoutes
  <2>3. \A route \in ObserverRoutes : route.scope # None
    BY DEF ObserverRoutes
  <2>4. QED
    BY <2>1, <2>2, <2>3
<1>3. RouteOf(c) \in Routes /\ RouteOf(c).method = "POST"
  BY Routed DEF Refusal, HasBody
<1>4. QED
  BY <1>1, <1>2, <1>3 DEF Routes, Metered

-----------------------------------------------------------------------------
(* What the API does to its webhooks *)

\* A handler registers a webhook, emits an event, starts the shutdown, or
\* leaves the webhooks alone.
LEMMA HandlerStep ==
    ASSUME NEW c, c \in DOMAIN workload.requests, Configured, HandleGet(c) \/ HandlePost(c)
    PROVE  [Next]_vars
<1>1. RequestOf(c).webhook \in Webhooks /\ RequestOf(c).event \in Events
  BY DEF Configured, RequestOf
<1>2. CASE RegisterWebhook(c)
  BY <1>1, <1>2 DEF RegisterWebhook, Next
<1>3. CASE Emitting(c)
  BY <1>1, <1>3 DEF Emitting, EmitAndPublish, Next
<1>4. CASE Read(c)
  BY <1>4 DEF Read
<1>5. CASE OpenStream(c)
  BY <1>5 DEF OpenStream, Subscribe, SubscribeInVain, TooManyStreams, Next
<1>6. QED
  BY <1>2, <1>3, <1>4, <1>5 DEF HandleGet, HandlePost

\* So does every step.
LEMMA WebhookStep == ASSUME Configured, Admitted, [ApiNext]_allVars PROVE [Next]_vars
<1>1. ASSUME NEW c \in Requests, RequestStep(c) PROVE [Next]_vars
  <2>1. CASE TurnAway(c) \/ Throttle(c) \/ Admit(c) \/ RefuseBody(c)
    BY <2>1 DEF TurnAway, Throttle, Admit, RefuseBody
  <2>2. CASE Serve(c)
    BY <2>2, HandlerStep DEF Serve, Admitted, MayBe
  <2>3. CASE ServeBody(c)
    BY <2>3, HandlerStep DEF ServeBody, Admitted, MayBe
  <2>4. QED
    BY <1>1, <2>1, <2>2, <2>3 DEF RequestStep
<1>2. ASSUME NEW c \in Requests, HangUp(c) \/ HangUpAgain(c) PROVE [Next]_vars
  BY <1>2 DEF HangUp, HangUpAgain
<1>3. ASSUME NEW d \in Deliveries, Deliver(d) \/ Retry(d) PROVE [Next]_vars
  BY <1>3 DEF Deliver, Retry, Answer, Next
<1>4. CASE Tick
  BY <1>4 DEF Tick
<1>5. CASE Terminate \/ ExitAndForget \/ CrashAndForget
  BY <1>5 DEF Terminate, ExitAndForget, CrashAndForget, Next
<1>6. CASE UNCHANGED allVars
  BY <1>6 DEF allVars
<1>7. QED
  BY <1>1, <1>2, <1>3, <1>4, <1>5, <1>6 DEF ApiNext

\* Steps of the webhooks never revoke a shutdown but by ending the process.
LEMMA ClosingStays ==
    ASSUME Configured, NEW c, c \in DOMAIN workload.requests, closing,
           HandleGet(c) \/ HandlePost(c)
    PROVE  closing'
<1> USE DEF vars, webhookVars, historyVars
<1>1. CASE RegisterWebhook(c)
  BY <1>1 DEF RegisterWebhook, Register
<1>2. CASE Emitting(c)
  BY <1>2 DEF Emitting, EmitAndPublish, Emit, EmitPlain, EmitWithAlias, Dispatch
<1>3. CASE Read(c)
  BY <1>3 DEF Read
<1>4. CASE OpenStream(c)
  BY <1>4 DEF OpenStream, Subscribe, SubscribeInVain, TooManyStreams, Shutdown
<1>5. QED
  BY <1>1, <1>2, <1>3, <1>4 DEF HandleGet, HandlePost

-----------------------------------------------------------------------------
(* Metering *)

\* Every bucket has a cost and a limit.
LEMMA Policies == \A b \in Buckets : Policy(b).cost \in Nat /\ Policy(b).limit \in Nat
BY DEF Buckets, Policy

\* The cleanup leaves the counters of the running minute alone.
LEMMA CleanedKeeps ==
    ASSUME Configured, Within
    PROVE  /\ Cleaned \in [Keys \X Buckets \X (0 .. LastMinute) -> Nat]
           /\ \A k \in Keys, b \in Buckets, m \in 0 .. LastMinute :
                 m >= minute => Cleaned[<<k, b, m>>] = used[<<k, b, m>>]
<1>1. minute \in 0 .. LastMinute
  BY DEF Configured
<1>2. CASE pruned = minute
  BY <1>2 DEF Cleaned, Within
<1>3. CASE pruned # minute
  <2>1. Cleaned = [x \in DOMAIN used |-> IF x[3] < minute - 2 THEN 0 ELSE used[x]]
    BY <1>3 DEF Cleaned, CleanedAt
  <2>2. ASSUME NEW k \in Keys, NEW b \in Buckets, NEW m \in 0 .. LastMinute, m >= minute
        PROVE  Cleaned[<<k, b, m>>] = used[<<k, b, m>>]
    <3>1. <<k, b, m>> \in DOMAIN used
      BY DEF Within
    <3>2. ~ (<<k, b, m>>[3] < minute - 2)
      BY <1>1, <2>2
    <3>3. QED
      BY <2>1, <3>1, <3>2
  <2>3. Cleaned \in [Keys \X Buckets \X (0 .. LastMinute) -> Nat]
    BY <2>1 DEF Within
  <2>4. QED
    BY <2>2, <2>3
<1>4. QED
  BY <1>2, <1>3

\* A request that is let in stays within the limit.
LEMMA ChargeStep ==
    ASSUME Configured, Within, NEW c, Refusal(c) = 0, Metered(c), Charge(c),
           minute' = minute, Keys' = Keys
    PROVE  Within'
<1> DEFINE key == KeyOf(c)
           bucket == RouteOf(c).bucket
           cost == Policy(bucket).cost
           limit == Policy(bucket).limit
           at == <<key, bucket, minute>>
<1>1. key \in Keys /\ bucket \in Buckets
  BY Known
<1>2. cost \in Nat /\ limit \in Nat
  BY <1>1, Policies
<1>3. minute \in 0 .. LastMinute
  BY DEF Configured
<1>4. at \in Keys \X Buckets \X (0 .. LastMinute) /\ at = Counter(c)
  BY <1>1, <1>3 DEF Counter
<1>5. Cleaned[at] = used[at] /\ used[at] \in Nat
  BY <1>1, <1>3, <1>4, CleanedKeeps DEF Within
<1>6. used[at] + cost <= limit
  BY <1>2, <1>4, <1>5 DEF Charge, OverLimit
<1>7. /\ used' = [Cleaned EXCEPT ![at] = used[at] + cost]
      /\ charged' = [charged EXCEPT ![<<key, bucket>>] = charged[<<key, bucket>>] + cost]
  BY <1>4, <1>5 DEF Charge
<1>8. charged[<<key, bucket>>] \in Nat /\ charged[<<key, bucket>>] <= used[at]
  BY <1>1 DEF Within, WithinFor
<1> HIDE DEF key, bucket, cost, limit
<1>9. used' \in [Keys \X Buckets \X (0 .. LastMinute) -> Nat]
  BY <1>2, <1>4, <1>5, <1>7, CleanedKeeps
<1>10. charged' \in [Keys \X Buckets -> Nat]
  BY <1>1, <1>2, <1>7, <1>8 DEF Within
<1>11. ASSUME NEW k \in Keys, NEW b \in Buckets, NEW m \in 0 .. LastMinute, m >= minute,
              <<k, b, m>> # at
       PROVE  used'[<<k, b, m>>] = used[<<k, b, m>>]
  BY <1>7, <1>11, CleanedKeeps
<1>12. ASSUME NEW k \in Keys, NEW b \in Buckets
       PROVE  /\ charged'[<<k, b>>] <= used'[<<k, b, minute>>]
              /\ used'[<<k, b, minute>>] <= Policy(b).limit
  <2>1. CASE k = key /\ b = bucket
    <3>1. used'[at] = used[at] + cost
      BY <1>4, <1>7, CleanedKeeps
    <3>2. charged'[<<key, bucket>>] = charged[<<key, bucket>>] + cost
      BY <1>1, <1>7 DEF Within
    <3>3. Policy(bucket).limit = limit
      BY DEF limit
    <3>4. QED
      BY <1>2, <1>5, <1>6, <1>8, <2>1, <3>1, <3>2, <3>3
  <2>2. CASE ~ (k = key /\ b = bucket)
    <3>1. used'[<<k, b, minute>>] = used[<<k, b, minute>>]
      BY <1>3, <1>11, <2>2
    <3>2. charged'[<<k, b>>] = charged[<<k, b>>]
      BY <1>7, <2>2 DEF Within
    <3>3. QED
      BY <3>1, <3>2 DEF Within, WithinFor
  <2>3. QED
    BY <2>1, <2>2
<1>13. ASSUME NEW k \in Keys, NEW b \in Buckets, NEW m \in 0 .. LastMinute, m > minute
       PROVE  used'[<<k, b, m>>] = 0
  <2>1. m >= minute /\ m # minute
    BY <1>3, <1>13
  <2>2. used'[<<k, b, m>>] = used[<<k, b, m>>]
    BY <1>11, <2>1
  <2>3. used[<<k, b, m>>] = 0
    BY <1>13 DEF Within, WithinFor
  <2>4. QED
    BY <2>2, <2>3
<1>14. ASSUME NEW k \in Keys, NEW b \in Buckets PROVE WithinFor(k, b)'
  BY <1>12, <1>13 DEF WithinFor
<1>15. QED
  BY <1>9, <1>10, <1>14 DEF Within

\* A cleanup alone changes nothing that counts.
LEMMA CleanupStep ==
    ASSUME Configured, Within, used' = Cleaned, UNCHANGED <<minute, charged>>, Keys' = Keys
    PROVE  Within'
<1>1. minute \in 0 .. LastMinute
  BY DEF Configured
<1>2. used' \in [Keys \X Buckets \X (0 .. LastMinute) -> Nat]
  BY CleanedKeeps
<1>3. \A k \in Keys, b \in Buckets, m \in 0 .. LastMinute :
         m >= minute => used'[<<k, b, m>>] = used[<<k, b, m>>]
  BY CleanedKeeps
<1>4. ASSUME NEW k \in Keys, NEW b \in Buckets PROVE WithinFor(k, b)'
  BY <1>1, <1>3 DEF WithinFor, Within
<1>5. charged' \in [Keys \X Buckets -> Nat]
  BY DEF Within
<1>6. QED
  BY <1>2, <1>4, <1>5 DEF Within

\* A new minute starts from nothing.
LEMMA TickStep == ASSUME Configured, Within, Tick PROVE Within'
<1>1. minute \in 0 .. LastMinute /\ minute' \in 0 .. LastMinute /\ minute' = minute + 1
  BY DEF Configured, Tick
<1>2. used' = used /\ Keys' = Keys /\ charged' = [x \in Keys \X Buckets |-> 0]
  BY DEF Tick, Within, Keys
<1>3. charged' \in [Keys \X Buckets -> Nat]
  BY <1>2
<1>4. ASSUME NEW k \in Keys, NEW b \in Buckets
      PROVE  /\ charged'[<<k, b>>] = 0
             /\ \A m \in 0 .. LastMinute : m >= minute' => used'[<<k, b, m>>] = 0
  <2>1. charged'[<<k, b>>] = 0
    BY <1>2
  <2>2. \A m \in 0 .. LastMinute : m > minute => used[<<k, b, m>>] = 0
    BY DEF Within, WithinFor
  <2>3. QED
    BY <1>1, <1>2, <2>1, <2>2
<1>5. ASSUME NEW k \in Keys, NEW b \in Buckets PROVE WithinFor(k, b)'
  BY <1>1, <1>4, Policies DEF WithinFor
<1>6. used' \in [Keys \X Buckets \X (0 .. LastMinute) -> Nat]
  BY <1>2 DEF Within
<1>7. QED
  BY <1>2, <1>3, <1>5, <1>6 DEF Within

\* So does a new process.
LEMMA ForgetMeters == ASSUME Configured, Within, Forget PROVE Within'
<1>1. minute' = minute /\ minute \in 0 .. LastMinute
  BY DEF Configured, Forget
<1>2. /\ Keys' = Keys
      /\ used' = [x \in Keys \X Buckets \X (0 .. LastMinute) |-> 0]
      /\ charged' = [x \in Keys \X Buckets |-> 0]
  <2>1. Keys' = Keys
    BY DEF Forget, Keys
  <2>2. DOMAIN used = Keys \X Buckets \X (0 .. LastMinute) /\ DOMAIN charged = Keys \X Buckets
    BY DEF Within
  <2>3. QED
    BY <2>1, <2>2 DEF Forget
<1>3. ASSUME NEW k \in Keys, NEW b \in Buckets
      PROVE  charged'[<<k, b>>] = 0 /\ \A m \in 0 .. LastMinute : used'[<<k, b, m>>] = 0
  BY <1>2
<1>4. ASSUME NEW k \in Keys, NEW b \in Buckets PROVE WithinFor(k, b)'
  BY <1>1, <1>3, Policies DEF WithinFor
<1>5. /\ used' \in [Keys \X Buckets \X (0 .. LastMinute) -> Nat]
      /\ charged' \in [Keys \X Buckets -> Nat]
  BY <1>2
<1>6. QED
  BY <1>2, <1>4, <1>5 DEF Within

-----------------------------------------------------------------------------
(* Requests and their stages *)

\* A request is the same while the workload is.
LEMMA SameRequest ==
    ASSUME NEW c, UNCHANGED workload
    PROVE  /\ RequestOf(c)' = RequestOf(c)
           /\ RouteOf(c)' = RouteOf(c)
           /\ KeyOf(c)' = KeyOf(c)
           /\ Refusal(c)' = Refusal(c)
<1>1. RequestOf(c)' = RequestOf(c)
  BY DEF RequestOf
<1>2. RouteOf(c)' = RouteOf(c)
  BY <1>1 DEF RouteOf
<1>3. KeyOf(c)' = KeyOf(c)
  BY <1>1 DEF KeyOf
<1>4. Refusal(c)' = Refusal(c)
  BY <1>1, <1>2 DEF Refusal, Unrouted, Unauthorized, Metered
<1>5. QED
  BY <1>1, <1>2, <1>3, <1>4

\* Whatever a handler does, it answers, or opens a stream.
LEMMA HandlerMoves ==
    ASSUME NEW c, Refusal(c) = 0, HandleGet(c) \/ HandlePost(c)
    PROVE  \E s \in {"done", "streaming"} :
              stage' = [stage EXCEPT ![c] = s] /\ MayBe(c, s)
<1> USE DEF Reply, MayBe
<1>1. CASE RegisterWebhook(c)
  BY <1>1 DEF RegisterWebhook
<1>2. CASE Emitting(c)
  BY <1>2 DEF Emitting
<1>3. CASE Read(c)
  BY <1>3 DEF Read
<1>4. CASE OpenStream(c)
  BY <1>4 DEF OpenStream, Subscribe, SubscribeInVain, TooManyStreams
<1>5. QED
  BY <1>1, <1>2, <1>3, <1>4 DEF HandleGet, HandlePost

\* So does every step of a request.
LEMMA RequestMoves ==
    ASSUME Admitted, NEW c \in Requests, RequestStep(c) \/ HangUp(c) \/ HangUpAgain(c)
    PROVE  \E s \in Stages : stage' = [stage EXCEPT ![c] = s] /\ MayBe(c, s)
<1> USE DEF Stages
<1>1. stage[c] \in Stages /\ MayBe(c, stage[c])
  BY DEF Admitted
<1>2. CASE TurnAway(c) \/ Throttle(c) \/ RefuseBody(c) \/ HangUp(c) \/ HangUpAgain(c)
  BY <1>2 DEF TurnAway, Throttle, RefuseBody, HangUp, HangUpAgain, Reply, MayBe
<1>3. CASE Admit(c)
  BY <1>1, <1>3 DEF Admit, MayBe
<1>4. CASE Serve(c)
  BY <1>4, HandlerMoves DEF Serve
<1>5. CASE ServeBody(c)
  <2>1. Refusal(c) = 0
    BY <1>1, <1>5 DEF ServeBody, MayBe
  <2>2. QED
    BY <1>5, <2>1, HandlerMoves DEF ServeBody
<1>6. QED
  BY <1>2, <1>3, <1>4, <1>5 DEF RequestStep

\* The configuration stays.
LEMMA ConfiguredStep ==
    ASSUME Configured, [ApiNext]_allVars
    PROVE  Configured' /\ Keys' = Keys /\ UNCHANGED workload
<1>1. ASSUME NEW c, HandleGet(c) \/ HandlePost(c) PROVE DOMAIN slots' = DOMAIN slots
  BY <1>1 DEF HandleGet, HandlePost, RegisterWebhook, Emitting, Read, OpenStream,
              Subscribe, SubscribeInVain, TooManyStreams
<1>2. /\ UNCHANGED workload
      /\ DOMAIN slots' = DOMAIN slots
      /\ UNCHANGED minute \/ (minute < workload.lastMinute /\ minute' = minute + 1)
  <2>1. ASSUME NEW c \in Requests, RequestStep(c)
        PROVE  UNCHANGED <<workload, minute>> /\ DOMAIN slots' = DOMAIN slots
    <3>1. CASE TurnAway(c) \/ Throttle(c) \/ Admit(c) \/ RefuseBody(c)
      BY <3>1 DEF TurnAway, Throttle, Admit, RefuseBody
    <3>2. CASE Serve(c) \/ ServeBody(c)
      BY <1>1, <3>2 DEF Serve, ServeBody
    <3>3. QED
      BY <2>1, <3>1, <3>2 DEF RequestStep
  <2>2. ASSUME NEW c \in Requests, HangUp(c) \/ HangUpAgain(c)
        PROVE  UNCHANGED <<workload, minute>> /\ DOMAIN slots' = DOMAIN slots
    BY <2>2 DEF HangUp, HangUpAgain, Release
  <2>3. ASSUME NEW d \in Deliveries, Deliver(d) \/ Retry(d)
        PROVE  UNCHANGED <<workload, minute, slots>>
    BY <2>3 DEF Deliver, Retry, apiVars, doorVars
  <2>4. CASE Tick
    BY <2>4 DEF Tick
  <2>5. CASE Terminate
    BY <2>5 DEF Terminate, apiVars, doorVars
  <2>6. CASE ExitAndForget \/ CrashAndForget
    BY <2>6 DEF ExitAndForget, CrashAndForget, Forget
  <2>7. CASE UNCHANGED allVars
    BY <2>7 DEF allVars, apiVars, doorVars
  <2>8. QED
    BY <2>1, <2>2, <2>3, <2>4, <2>5, <2>6, <2>7 DEF ApiNext
<1>3. minute' \in 0 .. workload'.lastMinute
  <2>1. minute \in 0 .. workload.lastMinute /\ workload.lastMinute \in Nat
    BY DEF Configured
  <2>2. QED
    BY <1>2, <2>1
<1>4. QED
  BY <1>2, <1>3 DEF Configured, Keys

\* Requests go their way.
LEMMA AdmittedStep == ASSUME Configured, Admitted, [ApiNext]_allVars PROVE Admitted'
<1>1. UNCHANGED workload
  BY ConfiguredStep
<1>2. \A c, s : MayBe(c, s)' <=> MayBe(c, s)
  <2>1. SUFFICES ASSUME NEW c, NEW s PROVE MayBe(c, s)' <=> MayBe(c, s)
    OBVIOUS
  <2>2. QED
    BY <1>1, SameRequest DEF MayBe
<1>3. ASSUME NEW c \in Requests, NEW s \in Stages, stage' = [stage EXCEPT ![c] = s],
             MayBe(c, s)
      PROVE  Admitted'
  BY <1>2, <1>3 DEF Admitted
<1>4. CASE UNCHANGED stage
  BY <1>2, <1>4 DEF Admitted
<1>5. ASSUME NEW c \in Requests, RequestStep(c) \/ HangUp(c) \/ HangUpAgain(c)
      PROVE  Admitted'
  BY <1>3, <1>5, RequestMoves
<1>6. CASE \/ \E d \in Deliveries : Deliver(d) \/ Retry(d)
           \/ Tick \/ Terminate \/ UNCHANGED allVars
  BY <1>4, <1>6 DEF Deliver, Retry, Tick, Terminate, allVars, apiVars, doorVars
<1>7. CASE ExitAndForget \/ CrashAndForget
  <2>1. stage' = [c \in Requests |-> IF stage[c] = "new" THEN "new" ELSE "done"]
    BY <1>7 DEF ExitAndForget, CrashAndForget, Forget
  <2>2. stage' \in [Requests -> Stages]
    BY <2>1 DEF Stages
  <2>3. ASSUME NEW c \in Requests PROVE MayBe(c, stage'[c])
    <3>1. MayBe(c, stage[c])
      BY DEF Admitted
    <3>2. QED
      BY <2>1, <3>1 DEF MayBe
  <2>4. QED
    BY <1>2, <2>2, <2>3 DEF Admitted
<1>8. QED
  BY <1>5, <1>6, <1>7 DEF ApiNext

-----------------------------------------------------------------------------
(* Counting streams *)

\* The open streams are finitely many.
LEMMA OpenFinite ==
    ASSUME NEW k
    PROVE  IsFiniteSet(OpenStreams(k)) /\ Cardinality(OpenStreams(k)) \in Nat
<1>1. OpenStreams(k) \subseteq Requests
  BY DEF OpenStreams
<1>2. QED
  BY <1>1, FS_Subset, FS_CardinalityType

\* They stay the same while no stream is opened or closed.
LEMMA SameStreams ==
    ASSUME UNCHANGED workload,
           \A c \in Requests : stage'[c] = "streaming" <=> stage[c] = "streaming",
           NEW k
    PROVE  OpenStreams(k)' = OpenStreams(k)
<1>1. \A c : KeyOf(c)' = KeyOf(c)
  BY SameRequest
<1>2. QED
  BY <1>1 DEF OpenStreams

\* The count stays right while neither side changes.
LEMMA SameCount ==
    ASSUME Counted, Keys' = Keys, UNCHANGED <<workload, slots>>, closing => closing',
           \A c \in Requests : stage'[c] = "streaming" <=> stage[c] = "streaming"
    PROVE  Counted'
<1>1. \A k : OpenStreams(k)' = OpenStreams(k)
  BY SameStreams
<1>2. ASSUME NEW k \in Keys PROVE Balanced(k)'
  <2>1. Balanced(k)
    BY DEF Counted
  <2>2. QED
    BY <1>1, <2>1 DEF Balanced
<1>3. QED
  BY <1>2 DEF Counted

\* A stream that opens takes a slot.
LEMMA SubscribeCounts ==
    ASSUME Configured, Admitted, Counted, NEW c \in Requests, Refusal(c) = 0,
           RouteOf(c).id = "events.stream", stage[c] # "streaming", Subscribe(c),
           UNCHANGED workload, Keys' = Keys
    PROVE  Counted'
<1>1. PICK key \in Keys : key = KeyOf(c)
  BY Known
<1>2. /\ stage' = [stage EXCEPT ![c] = "streaming"]
      /\ slots' = [slots EXCEPT ![key] = slots[key] + 1]
      /\ slots[key] < MaxStreams
      /\ UNCHANGED closing
  BY <1>1 DEF Subscribe, vars
<1>3. \A r : KeyOf(r)' = KeyOf(r)
  BY SameRequest
<1>4. /\ stage'[c] = "streaming"
      /\ \A r \in Requests \ {c} : stage'[r] = stage[r]
  BY <1>2 DEF Admitted
<1>5. OpenStreams(key)' = OpenStreams(key) \cup {c} /\ c \notin OpenStreams(key)
  BY <1>1, <1>3, <1>4 DEF OpenStreams
<1>6. \A k \in Keys \ {key} : OpenStreams(k)' = OpenStreams(k)
  BY <1>1, <1>3, <1>4 DEF OpenStreams
<1>7. slots[key] \in Nat /\ slots' \in [Keys -> 0 .. MaxStreams]
  BY <1>1, <1>2 DEF Counted
<1>8. Balanced(key)'
  <2>1. Cardinality(OpenStreams(key)') = Cardinality(OpenStreams(key)) + 1
    <3> HIDE DEF WebhookAssumption, Numbers
    <3>1. PICK open : open = OpenStreams(key)
      OBVIOUS
    <3>2. IsFiniteSet(open) /\ c \notin open
      BY <1>5, <3>1, OpenFinite
    <3>3. Cardinality(open \cup {c}) = Cardinality(open) + 1
      BY <3>2, FS_AddElement
    <3>4. QED
      BY <1>5, <3>1, <3>3
  <2>2. slots'[key] = slots[key] + 1
    BY <1>1, <1>2 DEF Counted
  <2>3. Balanced(key) /\ Cardinality(OpenStreams(key)) \in Nat
    BY <1>1, OpenFinite DEF Counted
  <2>4. QED
    BY <1>2, <1>7, <2>1, <2>2, <2>3 DEF Balanced
<1>9. ASSUME NEW k \in Keys, k # key PROVE Balanced(k)'
  <2>1. slots'[k] = slots[k] /\ Balanced(k)
    BY <1>2, <1>9 DEF Counted
  <2>2. QED
    BY <1>2, <1>6, <1>9, <2>1 DEF Balanced
<1>10. QED
  BY <1>7, <1>8, <1>9 DEF Counted

\* A slot that is lost is lost by a process about to exit.
LEMMA SubscribeInVainCounts ==
    ASSUME Configured, Admitted, Counted, NEW c \in Requests, Refusal(c) = 0,
           RouteOf(c).id = "events.stream", stage[c] # "streaming", SubscribeInVain(c),
           UNCHANGED workload, Keys' = Keys
    PROVE  Counted'
<1> DEFINE key == KeyOf(c)
<1>1. key \in Keys
  BY Known
<1>2. /\ slots' = [slots EXCEPT ![key] = slots[key] + 1]
      /\ slots[key] < MaxStreams
      /\ closing'
  BY DEF SubscribeInVain, Shutdown
<1>3. \A r \in Requests : stage'[r] = "streaming" <=> stage[r] = "streaming"
  BY DEF SubscribeInVain, Reply, Admitted
<1>4. \A k : OpenStreams(k)' = OpenStreams(k)
  BY <1>3, SameStreams
<1>5. slots' \in [Keys -> 0 .. MaxStreams]
  BY <1>1, <1>2 DEF Counted
<1> HIDE DEF key
<1>6. ASSUME NEW k \in Keys PROVE Balanced(k)'
  <2>1. slots'[k] >= slots[k] /\ slots[k] \in Nat /\ slots'[k] \in Nat
    BY <1>1, <1>2 DEF Counted
  <2>2. Cardinality(OpenStreams(k)) <= slots[k] /\ Cardinality(OpenStreams(k)) \in Nat
    BY OpenFinite DEF Counted, Balanced
  <2>3. QED
    BY <1>2, <1>4, <2>1, <2>2 DEF Balanced
<1>7. QED
  BY <1>5, <1>6 DEF Counted

\* A stream that ends gives its slot back.
LEMMA HangUpCounts ==
    ASSUME Configured, Admitted, Counted, NEW c \in Requests, HangUp(c), Keys' = Keys
    PROVE  Counted'
<1>1. stage[c] = "streaming" /\ Refusal(c) = 0 /\ RouteOf(c).id = "events.stream"
  BY DEF HangUp, Admitted, MayBe
<1>2. PICK key \in Keys : key = KeyOf(c)
  BY <1>1, Known
<1>3. /\ stage' = [stage EXCEPT ![c] = "closed"]
      /\ slots' = [slots EXCEPT ![key] = IF slots[key] <= 1 THEN 0 ELSE slots[key] - 1]
      /\ UNCHANGED <<closing, workload>>
  BY <1>2 DEF HangUp, Release, vars
<1>4. \A r : KeyOf(r)' = KeyOf(r)
  BY <1>3, SameRequest
<1>5. /\ stage'[c] = "closed"
      /\ \A r \in Requests \ {c} : stage'[r] = stage[r]
  BY <1>3 DEF Admitted
<1>6. OpenStreams(key)' = OpenStreams(key) \ {c} /\ c \in OpenStreams(key)
  BY <1>1, <1>2, <1>4, <1>5 DEF OpenStreams
<1>7. \A k \in Keys \ {key} : OpenStreams(k)' = OpenStreams(k)
  BY <1>2, <1>4, <1>5 DEF OpenStreams
<1>8. slots[key] \in 0 .. MaxStreams /\ slots \in [Keys -> 0 .. MaxStreams]
  BY <1>2 DEF Counted
<1>9. slots'[key] = (IF slots[key] <= 1 THEN 0 ELSE slots[key] - 1)
  BY <1>2, <1>3, <1>8
<1>10. slots' \in [Keys -> 0 .. MaxStreams]
  <2>1. (IF slots[key] <= 1 THEN 0 ELSE slots[key] - 1) \in 0 .. MaxStreams
    BY <1>8
  <2>2. QED
    BY <1>2, <1>3, <1>8, <2>1
<1>11. Balanced(key)'
  <2>1. /\ Cardinality(OpenStreams(key)') = Cardinality(OpenStreams(key)) - 1
        /\ Cardinality(OpenStreams(key)) \in Nat
    BY <1>6, OpenFinite, FS_RemoveElement
  <2>2. Cardinality(OpenStreams(key)) # 0
    BY <1>6, OpenFinite, FS_EmptySet
  <2>3. Balanced(key)
    BY <1>2 DEF Counted
  <2>4. QED
    BY <1>3, <1>8, <1>9, <2>1, <2>2, <2>3 DEF Balanced
<1>12. ASSUME NEW k \in Keys, k # key PROVE Balanced(k)'
  <2>1. slots'[k] = slots[k] /\ Balanced(k)
    BY <1>3, <1>8, <1>12 DEF Counted
  <2>2. QED
    BY <1>3, <1>7, <1>12, <2>1 DEF Balanced
<1>13. QED
  BY <1>10, <1>11, <1>12 DEF Counted

\* A new process has no streams.
LEMMA ForgetCounts ==
    ASSUME Configured, Forget, Keys' = Keys
    PROVE  Counted'
<1>1. slots' = [k \in Keys |-> 0]
  BY DEF Forget, Keys
<1>2. \A c \in Requests : stage'[c] # "streaming"
  BY DEF Forget
<1>3. \A k : OpenStreams(k)' = {}
  BY <1>2 DEF OpenStreams
<1>4. ASSUME NEW k \in Keys PROVE Balanced(k)'
  <2>1. slots'[k] = 0
    BY <1>1
  <2>2. Cardinality(OpenStreams(k)') = 0
    BY <1>3, FS_EmptySet
  <2>3. QED
    BY <2>1, <2>2 DEF Balanced
<1>5. slots' \in [Keys -> 0 .. MaxStreams]
  BY <1>1
<1>6. QED
  BY <1>4, <1>5 DEF Counted

\* A handler counts its streams.
LEMMA HandlerCounts ==
    ASSUME Configured, Admitted, Counted, NEW c \in Requests, c \in DOMAIN workload.requests,
           Refusal(c) = 0, stage[c] # "streaming", HandleGet(c) \/ HandlePost(c),
           UNCHANGED workload, Keys' = Keys
    PROVE  Counted'
<1>1. closing => closing'
  BY ClosingStays
<1>2. ASSUME RegisterWebhook(c) \/ Emitting(c) \/ Read(c) PROVE Counted'
  <2>1. \E status : Reply(c, status)
    BY <1>2 DEF RegisterWebhook, Emitting, Read
  <2>2. \A r \in Requests : stage'[r] = "streaming" <=> stage[r] = "streaming"
    BY <2>1 DEF Reply, Admitted
  <2>3. UNCHANGED slots
    BY <1>2 DEF RegisterWebhook, Emitting, Read
  <2>4. QED
    BY <1>1, <2>2, <2>3, SameCount
<1>3. ASSUME OpenStream(c) PROVE Counted'
  <2>1. CASE Subscribe(c)
    BY <1>3, <2>1, SubscribeCounts DEF OpenStream
  <2>2. CASE SubscribeInVain(c)
    BY <1>3, <2>2, SubscribeInVainCounts DEF OpenStream
  <2>3. CASE TooManyStreams(c)
    <3>1. \A r \in Requests : stage'[r] = "streaming" <=> stage[r] = "streaming"
      BY <2>3 DEF TooManyStreams, Reply, Admitted
    <3>2. QED
      BY <1>1, <2>3, <3>1, SameCount DEF TooManyStreams
  <2>4. QED
    BY <1>3, <2>1, <2>2, <2>3 DEF OpenStream
<1>4. QED
  BY <1>2, <1>3 DEF HandleGet, HandlePost

\* Every step does.
LEMMA CountedStep ==
    ASSUME Configured, Admitted, Counted, [ApiNext]_allVars
    PROVE  Counted'
<1>1. UNCHANGED workload /\ Keys' = Keys
  BY ConfiguredStep
<1>2. ASSUME UNCHANGED <<stage, slots>>, closing => closing' PROVE Counted'
  BY <1>1, <1>2, SameCount
<1>3. ASSUME NEW c \in Requests, NEW s \in Stages \ {"streaming"}, stage[c] # "streaming",
             stage' = [stage EXCEPT ![c] = s], UNCHANGED <<slots, closing>>
      PROVE  Counted'
  <2>1. \A r \in Requests : stage'[r] = "streaming" <=> stage[r] = "streaming"
    BY <1>3 DEF Admitted
  <2>2. QED
    BY <1>1, <1>3, <2>1, SameCount
<1>4. ASSUME NEW c \in Requests, RequestStep(c) PROVE Counted'
  <2>1. CASE TurnAway(c) \/ Throttle(c) \/ Admit(c) \/ RefuseBody(c)
    BY <1>3, <2>1 DEF TurnAway, Throttle, Admit, RefuseBody, Reply, Stages, vars
  <2>2. CASE Serve(c)
    <3>1. stage[c] = "new" /\ Refusal(c) = 0 /\ HandleGet(c) /\ c \in DOMAIN workload.requests
      BY <2>2 DEF Serve, Admitted, MayBe
    <3>2. QED
      BY <1>1, <3>1, HandlerCounts
  <2>3. CASE ServeBody(c)
    <3>1. stage[c] = "reading" /\ Refusal(c) = 0 /\ HandlePost(c)
          /\ c \in DOMAIN workload.requests
      BY <2>3 DEF ServeBody, Admitted, MayBe
    <3>2. QED
      BY <1>1, <3>1, HandlerCounts
  <2>4. QED
    BY <1>4, <2>1, <2>2, <2>3 DEF RequestStep
<1>5. ASSUME NEW c \in Requests, HangUp(c) \/ HangUpAgain(c) PROVE Counted'
  <2>1. CASE HangUp(c)
    BY <1>1, <2>1, HangUpCounts
  <2>2. CASE HangUpAgain(c)
    BY <1>3, <2>2 DEF HangUpAgain, Stages, vars
  <2>3. QED
    BY <1>5, <2>1, <2>2
<1>6. ASSUME NEW d \in Deliveries, Deliver(d) \/ Retry(d) PROVE Counted'
  <2>1. UNCHANGED <<stage, slots>>
    BY <1>6 DEF Deliver, Retry, apiVars, doorVars
  <2>2. CASE Deliver(d)
    <3>1. closing => closing'
      BY <2>2 DEF Deliver, Delivered, DeliveredUnrecorded, Undelivered, Caught
    <3>2. QED
      BY <1>2, <2>1, <3>1
  <2>3. CASE Retry(d)
    BY <1>2, <2>1, <2>3 DEF Retry, TimerFires
  <2>4. QED
    BY <1>6, <2>2, <2>3
<1>7. CASE Tick \/ Terminate \/ UNCHANGED allVars
  BY <1>2, <1>7 DEF Tick, Terminate, Shutdown, allVars, apiVars, doorVars, vars
<1>8. CASE ExitAndForget \/ CrashAndForget
  BY <1>1, <1>8, ForgetCounts DEF ExitAndForget, CrashAndForget
<1>9. QED
  BY <1>4, <1>5, <1>6, <1>7, <1>8 DEF ApiNext

\* Every step keeps to the limits.
LEMMA WithinStep ==
    ASSUME Configured, Within, [ApiNext]_allVars
    PROVE  Within'
<1>1. Keys' = Keys
  BY ConfiguredStep
<1>2. ASSUME UNCHANGED <<used, charged, minute>> PROVE Within'
  <2>1. ASSUME NEW k \in Keys, NEW b \in Buckets PROVE WithinFor(k, b)'
    BY <1>2 DEF Within, WithinFor
  <2>2. QED
    BY <1>1, <1>2, <2>1 DEF Within
<1>3. ASSUME NEW c \in Requests, RequestStep(c) PROVE Within'
  <2>1. CASE TurnAway(c) \/ RefuseBody(c) \/ ServeBody(c)
    BY <1>2, <2>1 DEF TurnAway, RefuseBody, ServeBody
  <2>2. CASE Throttle(c)
    BY <1>1, <2>2, CleanupStep DEF Throttle
  <2>3. CASE Serve(c)
    <3>1. Refusal(c) = 0 /\ minute' = minute
      BY <2>3 DEF Serve
    <3>2. CASE Metered(c)
      BY <1>1, <2>3, <3>1, <3>2, ChargeStep DEF Serve
    <3>3. CASE ~ Metered(c)
      BY <1>2, <2>3, <3>3 DEF Serve
    <3>4. QED
      BY <3>2, <3>3
  <2>4. CASE Admit(c)
    <3>1. Metered(c)
      BY <2>4, AdmittedIsMetered DEF Admit
    <3>2. QED
      BY <1>1, <2>4, <3>1, ChargeStep DEF Admit
  <2>5. QED
    BY <1>3, <2>1, <2>2, <2>3, <2>4 DEF RequestStep
<1>4. CASE \/ \E c \in Requests : HangUp(c) \/ HangUpAgain(c)
           \/ \E d \in Deliveries : Deliver(d) \/ Retry(d)
           \/ Terminate \/ UNCHANGED allVars
  BY <1>2, <1>4 DEF HangUp, HangUpAgain, Deliver, Retry, Terminate, allVars, apiVars, doorVars
<1>5. CASE Tick
  BY <1>5, TickStep
<1>6. CASE ExitAndForget \/ CrashAndForget
  BY <1>6, ForgetMeters DEF ExitAndForget, CrashAndForget
<1>7. QED
  BY <1>3, <1>4, <1>5, <1>6 DEF ApiNext

-----------------------------------------------------------------------------
(* The theorems *)

\* The API starts in the invariant.
LEMMA ApiStarts == ApiInit => ApiInv
<1> SUFFICES ASSUME ApiInit PROVE ApiInv
  OBVIOUS
<1>1. PICK w \in Workloads :
         /\ workload.requests = w.requests
         /\ workload.lastMinute = w.lastMinute
         /\ workload.registry = Registry(w.entries)
         /\ slots = [k \in {workload.registry[t].key : t \in DOMAIN workload.registry} |-> 0]
         /\ charged = [x \in Keys \X Buckets |-> w.spent[x[2]]]
         /\ used = [x \in Keys \X Buckets \X (0 .. LastMinute) |->
                       IF x[3] = 0 THEN w.spent[x[2]] ELSE 0]
  BY DEF ApiInit, Keys
<1>2. /\ minute = 0
      /\ stage = [c \in Requests |-> IF c \in DOMAIN workload.requests THEN "new" ELSE "done"]
  BY DEF ApiInit
<1>3. Configured
  <2>1. minute \in 0 .. workload.lastMinute
    BY <1>1, <1>2
  <2>2. QED
    BY <1>1, <2>1 DEF Configured, Keys
<1>4. Admitted
  BY <1>2 DEF Admitted, MayBe, Stages
<1>5. Counted
  <2>1. slots = [k \in Keys |-> 0]
    BY <1>1 DEF Keys
  <2>2. \A k : OpenStreams(k) = {}
    BY <1>2 DEF OpenStreams
  <2>3. ASSUME NEW k \in Keys PROVE Balanced(k)
    <3>1. slots[k] = 0
      BY <2>1
    <3>2. Cardinality(OpenStreams(k)) = 0
      BY <2>2, FS_EmptySet
    <3>3. QED
      BY <3>1, <3>2 DEF Balanced
  <2>4. slots \in [Keys -> 0 .. MaxStreams]
    BY <2>1
  <2>5. QED
    BY <2>3, <2>4 DEF Counted
<1>6. Within
  <2>1. \A b \in Buckets :
           w.spent[b] \in Nat /\ Policy(b).limit \in Nat /\ w.spent[b] <= Policy(b).limit
    <3>1. \A b \in Buckets : w.spent[b] \in 0 .. Policy(b).limit
      OBVIOUS
    <3>2. QED
      BY <3>1, Policies
  <2>2. used \in [Keys \X Buckets \X (0 .. LastMinute) -> Nat]
    <3>1. \A x \in Keys \X Buckets \X (0 .. LastMinute) :
             (IF x[3] = 0 THEN w.spent[x[2]] ELSE 0) \in Nat
      BY <2>1
    <3>2. QED
      BY <1>1, <3>1
  <2>3. charged \in [Keys \X Buckets -> Nat]
    BY <1>1, <2>1
  <2>4. ASSUME NEW k \in Keys, NEW b \in Buckets PROVE WithinFor(k, b)
    <3>1. charged[<<k, b>>] = w.spent[b]
      BY <1>1
    <3>2. \A m \in 0 .. LastMinute : used[<<k, b, m>>] = IF m = 0 THEN w.spent[b] ELSE 0
      BY <1>1
    <3>3. 0 \in 0 .. LastMinute
      OBVIOUS
    <3>4. QED
      BY <1>2, <2>1, <3>1, <3>2, <3>3 DEF WithinFor
  <2>5. QED
    BY <2>2, <2>3, <2>4 DEF Within
<1>7. QED
  BY <1>3, <1>4, <1>5, <1>6 DEF ApiInv

\* The invariant of the API, for any requests, keys and workloads.
THEOREM ApiInvariance == ApiSpec => []ApiInv
<1>1. ApiInit => ApiInv
  BY ApiStarts
<1>2. ApiInv /\ [ApiNext]_allVars => ApiInv'
  BY ConfiguredStep, AdmittedStep, CountedStep, WithinStep DEF ApiInv
<1>3. QED
  BY <1>1, <1>2, PTL DEF ApiSpec

\* Keys are metered: no key has more streams open than it may have, a process
\* that is not about to exit counts them right, and the requests it admits
\* within a minute keep to the limit.
THEOREM KeysAreCounted == ApiSpec => []KeysAreMetered
<1>1. ApiInv => KeysAreMetered
  <2> SUFFICES ASSUME ApiInv PROVE KeysAreMetered
    OBVIOUS
  <2>1. ASSUME NEW k \in Keys
        PROVE  /\ closing \/ slots[k] = Cardinality(OpenStreams(k))
               /\ Cardinality(OpenStreams(k)) <= MaxStreams
    <3>1. slots[k] \in 0 .. MaxStreams /\ Balanced(k)
      BY DEF ApiInv, Counted
    <3>2. Cardinality(OpenStreams(k)) \in Nat
      BY OpenFinite
    <3>3. QED
      BY <3>1, <3>2 DEF Balanced
  <2>2. ASSUME NEW k \in Keys, NEW b \in Buckets PROVE charged[<<k, b>>] <= Policy(b).limit
    <3>1. minute \in 0 .. LastMinute
      BY DEF ApiInv, Configured
    <3>2. /\ charged[<<k, b>>] \in Nat
          /\ used[<<k, b, minute>>] \in Nat
          /\ WithinFor(k, b)
      BY <3>1 DEF ApiInv, Within
    <3>3. QED
      BY <3>2, Policies DEF WithinFor
  <2>3. ASSUME NEW x \in DOMAIN charged PROVE charged[x] <= Policy(x[2]).limit
    <3>1. DOMAIN charged = Keys \X Buckets
      BY DEF ApiInv, Within
    <3>2. PICK k \in Keys, b \in Buckets : x = <<k, b>>
      BY <3>1
    <3>3. QED
      BY <2>2, <3>2
  <2>4. QED
    BY <2>1, <2>3 DEF KeysAreMetered, Keys, OpenStreams
<1>2. QED
  BY <1>1, ApiInvariance, PTL

\* What the API does to its webhooks is a behaviour of WebhookDelivery.
THEOREM ApiImplementsDeliveries == ApiSpec => Spec
<1>1. ApiInit => Init
  BY DEF ApiInit
<1>2. ApiInv /\ [ApiNext]_allVars => [Next]_vars
  BY WebhookStep DEF ApiInv
<1>3. QED
  BY <1>1, <1>2, ApiInvariance, PTL DEF ApiSpec, Spec

\* So what WebhookDelivery promises its receivers the whole API promises: no
\* delivery is forgotten by a running process, the table says what happened,
\* and an acknowledged delivery is not sent again.
THEOREM ApiKeepsDeliveries ==
    ApiSpec => []NobodyForgotten /\ []BookedAsHappened /\ AckIsFinal
<1>1. QED
  BY ApiImplementsDeliveries, DeliveriesAreRemembered, DeliveriesAreBooked, AckedIsNotResent

-----------------------------------------------------------------------------
(* What the streams have sent *)

HIDE DEF WebhookAssumption, Numbers

Stream(T) == [sent : Seq(T), first : Nat \ {0}, last : Nat, live : Nat]

StreamsTyped == \E T : log \in Seq(T) /\ stream \in [Requests -> Stream(T)]

\* A stream s of a list has sent what it wants of two parts of it, the one it
\* replayed and everything since it subscribed.
SentBy(s, list, wants) ==
    /\ s.last < s.live /\ s.live <= Len(list) + 1
    /\ s.sent = Filtered(SubSeq(list, s.first, s.last) \o SubSeq(list, s.live, Len(list)), wants)

\* It replayed what was asked for, as far as it may.
AskedFor(s, since) ==
    /\ s.last = s.live - 1 \/ s.last - s.first + 1 = ReplayLimit
    /\ since.kind = "number" /\ since.n > 0 => s.first = since.n + 1

StreamsKept ==
    /\ StreamsTyped
    /\ \A c \in Requests : stage[c] = "streaming" =>
          SentBy(stream[c], log, RequestOf(c).wants) /\ AskedFor(stream[c], RequestOf(c).since)

\* A stream that is sent what it wants of what is added has sent what it should.
LEMMA SentMore ==
    ASSUME NEW T, NEW list \in Seq(T), NEW more \in Seq(T), NEW s \in Stream(T), NEW wants,
           SentBy(s, list, wants)
    PROVE  /\ [s EXCEPT !.sent = @ \o Filtered(more, wants)] \in Stream(T)
           /\ SentBy([s EXCEPT !.sent = @ \o Filtered(more, wants)], list \o more, wants)
<1>1. s.first \in Nat \ {0} /\ s.last \in Nat /\ s.live \in Nat /\ s.sent \in Seq(T)
  BY DEF Stream
<1>2. s.last < s.live /\ s.live <= Len(list) + 1
  BY DEF SentBy
<1>3. PICK f \in Nat \ {0}, l \in Nat, v \in Nat : f = s.first /\ l = s.last /\ v = s.live
  BY <1>1
<1>10. list \o more \in Seq(T) /\ PartsFilter(list \o more, list, more, f, l, v, wants)
  <2>2. l < v /\ v <= Len(list) + 1
    BY <1>2, <1>3
  <2>3. QED
    BY <2>2, FilteredPartsGrow
<1>4. PICK added \in Seq(T) : added = Filtered(more, wants)
  BY FilteredType
<1>5. PICK t : t = [s EXCEPT !.sent = @ \o added]
  OBVIOUS
<1>6. /\ t.first = s.first /\ t.last = s.last /\ t.live = s.live /\ t.sent = s.sent \o added
      /\ t = [sent |-> s.sent \o added, first |-> s.first, last |-> s.last, live |-> s.live]
  BY <1>5 DEF Stream
<1>7. s.sent \o added \in Seq(T)
  BY <1>1
<1>8. t \in Stream(T)
  BY <1>1, <1>6, <1>7 DEF Stream
<1>9. SentBy(t, list \o more, wants)
  BY <1>2, <1>3, <1>4, <1>6, <1>10, Zenon DEF SentBy, PartsFilter
<1>11. QED
  BY <1>4, <1>5, <1>8, <1>9, Zenon

\* The replay is a part of the log, and the part that was asked for.
LEMMA Replayed ==
    ASSUME NEW since, since.kind \in {"none", "junk", "number"},
           since.kind = "number" => since.n \in Int, Len(log) \in Nat, ReplayLimit \in Nat
    PROVE  \E first \in Nat \ {0}, last \in 0 .. Len(log) :
              /\ Positions(since) = [first |-> first, last |-> last]
              /\ last = Len(log) \/ last - first + 1 = ReplayLimit
              /\ since.kind = "number" /\ since.n > 0 => first = since.n + 1
<1>1. PICK n \in Nat : n = Len(log)
  OBVIOUS
<1>2. PICK most \in Nat : most = ReplayLimit
  OBVIOUS
<1> DEFINE latest == IF n > most THEN n - most + 1 ELSE 1
<1>3. latest \in Nat \ {0} /\ n + 1 \in Nat \ {0} /\ n \in 0 .. n
  OBVIOUS
<1> HIDE DEF latest
<1>4. CASE since.kind = "junk"
  <2>1. Positions(since) = [first |-> n + 1, last |-> n]
    BY <1>1, <1>4 DEF Positions
  <2>2. QED
    BY <1>1, <1>3, <1>4, <2>1
<1>5. CASE since.kind = "none"
  <2>1. Positions(since) = [first |-> latest, last |-> n]
    BY <1>1, <1>2, <1>5 DEF Positions, latest
  <2>2. QED
    BY <1>1, <1>3, <1>5, <2>1
<1>6. CASE since.kind = "number"
  <2>1. PICK k \in Int : k = since.n
    BY <1>6
  <2>2. CASE k = 0
    <3>1. Positions(since) = [first |-> latest, last |-> n]
      BY <1>1, <1>2, <1>6, <2>1, <2>2 DEF Positions, latest
    <3>2. ~ (since.n > 0)
      BY <2>1, <2>2
    <3>3. QED
      BY <1>1, <1>3, <3>1, <3>2
  <2>3. CASE k # 0
    <3> DEFINE f == IF k < 0 THEN 1 ELSE k + 1
               l == IF n - f + 1 > most THEN f + most - 1 ELSE n
    <3>1. f \in Nat \ {0} /\ (k > 0 => f = k + 1)
      BY <2>3
    <3>2. Positions(since) = [first |-> f, last |-> l]
      BY <1>1, <1>2, <1>6, <2>1, <2>3 DEF Positions
    <3> HIDE DEF f
    <3>3. l \in 0 .. n /\ (l = n \/ l - f + 1 = most)
      BY <3>1
    <3> HIDE DEF l
    <3>4. since.n > 0 => f = since.n + 1
      BY <2>1, <3>1
    <3>5. QED
      BY <1>1, <1>2, <3>1, <3>2, <3>3, <3>4
  <2>4. QED
    BY <2>2, <2>3
<1>7. QED
  BY <1>4, <1>5, <1>6


\* The parts of the invariant that speak of one request.
StreamKept(c) ==
    stage[c] = "streaming" =>
       SentBy(stream[c], log, RequestOf(c).wants) /\ AskedFor(stream[c], RequestOf(c).since)

\* Lists of one kind are lists of more kinds, and so are streams.
LEMMA ListsWiden ==
    ASSUME NEW T, NEW U, T \subseteq U
    PROVE  (\A list \in Seq(T) : list \in Seq(U)) /\ Stream(T) \subseteq Stream(U)
<1>1. ASSUME NEW list \in Seq(T) PROVE list \in Seq(U)
  <2>1. Len(list) \in Nat /\ \A i \in 1 .. Len(list) : list[i] \in U
    OBVIOUS
  <2>2. list = [i \in 1 .. Len(list) |-> list[i]]
    OBVIOUS
  <2>3. QED
    BY <2>1, <2>2
<1>2. ASSUME NEW s \in Stream(T) PROVE s \in Stream(U)
  BY <1>1 DEF Stream
<1>3. QED
  BY <1>1, <1>2

\* What is emitted reaches the open streams that want it.
LEMMA PublishKeeps ==
    ASSUME StreamsKept, Configured, NEW U, NEW events \in Seq(U), Publish(events), UNCHANGED workload,
           \A c \in Requests : stage'[c] = "streaming" => stage[c] = "streaming"
    PROVE  StreamsKept'
<1>1. PICK T0 : log \in Seq(T0) /\ stream \in [Requests -> Stream(T0)]
  BY DEF StreamsKept, StreamsTyped
<1>2. PICK T : T = T0 \cup U
  OBVIOUS
<1>3. log \in Seq(T) /\ events \in Seq(T) /\ Stream(T0) \subseteq Stream(T)
  <2>1. T0 \subseteq T /\ U \subseteq T
    BY <1>2
  <2>2. QED
    BY <1>1, <2>1, ListsWiden
<1>4. log' = log \o events
  BY DEF Publish
<1>5. log' \in Seq(T)
  BY <1>3, <1>4
<1>6. ASSUME NEW c \in Requests
      PROVE  /\ stream[c] \in Stream(T)
             /\ stream'[c] = IF stage[c] = "streaming"
                             THEN [stream[c] EXCEPT !.sent = @ \o Filtered(events, RequestOf(c).wants)]
                             ELSE stream[c]
             /\ RequestOf(c)' = RequestOf(c)
  BY <1>1, <1>3 DEF Publish, Wanted, RequestOf
<1>7. ASSUME NEW c \in Requests PROVE stream'[c] \in Stream(T) /\ StreamKept(c)'
  <2>1. CASE stage[c] # "streaming"
    BY <1>6, <2>1 DEF StreamKept
  <2>2. CASE stage[c] = "streaming"
    <3>1. PICK s \in Stream(T) : s = stream[c]
      BY <1>6
    <3>2. PICK wants : wants = RequestOf(c).wants
      OBVIOUS
    <3>3. SentBy(s, log, wants) /\ AskedFor(s, RequestOf(c).since)
      BY <2>2, <3>1, <3>2 DEF StreamsKept
    <3>4. PICK t : t = [s EXCEPT !.sent = @ \o Filtered(events, wants)]
      OBVIOUS
    <3>5. t \in Stream(T) /\ SentBy(t, log \o events, wants)
      BY <1>3, <3>3, <3>4, SentMore
    <3>6. t.first = s.first /\ t.last = s.last /\ t.live = s.live
      BY <3>4 DEF Stream
    <3>7. AskedFor(t, RequestOf(c).since)
      BY <3>3, <3>6 DEF AskedFor
    <3>8. stream'[c] = t
      BY <1>6, <2>2, <3>1, <3>2, <3>4
    <3>9. QED
      BY <1>4, <1>6, <3>2, <3>5, <3>7, <3>8, Zenon DEF StreamKept, SentBy, AskedFor
  <2>3. QED
    BY <2>1, <2>2
<1>8. stream' \in [Requests -> Stream(T)]
  BY <1>7 DEF Publish
<1>9. QED
  BY <1>5, <1>7, <1>8, Zenon DEF StreamsKept, StreamsTyped, StreamKept

\* A step that touches neither the log nor the streams opens none.
LEMMA FrameKeeps ==
    ASSUME StreamsKept, UNCHANGED <<workload, log, stream>>,
           \A c \in Requests : stage'[c] = "streaming" => stage[c] = "streaming"
    PROVE  StreamsKept'
<1>1. StreamsTyped'
  BY DEF StreamsKept, StreamsTyped
<1>2. ASSUME NEW c \in Requests, stage'[c] = "streaming"
      PROVE  SentBy(stream'[c], log', RequestOf(c).wants') /\ AskedFor(stream'[c], RequestOf(c).since')
  <2>1. RequestOf(c)' = RequestOf(c)
    BY DEF RequestOf
  <2>2. SentBy(stream[c], log, RequestOf(c).wants) /\ AskedFor(stream[c], RequestOf(c).since)
    BY <1>2 DEF StreamsKept
  <2>3. QED
    BY <2>1, <2>2
<1>3. QED
  BY <1>1, <1>2 DEF StreamsKept

\* A new stream has sent what it replayed, and nothing has been emitted since.
LEMMA SubscribeKeeps ==
    ASSUME StreamsKept, Configured, Admitted, NEW c \in Requests, c \in DOMAIN workload.requests,
           Subscribe(c), UNCHANGED workload
    PROVE  StreamsKept'
<1>1. PICK T : log \in Seq(T) /\ stream \in [Requests -> Stream(T)]
  BY DEF StreamsKept, StreamsTyped
<1>2. PICK since : since = RequestOf(c).since
  OBVIOUS
<1>3. /\ since.kind \in {"none", "junk", "number"} /\ (since.kind = "number" => since.n \in Int)
      /\ ReplayLimit \in Nat
  BY <1>2, ApiAssumption DEF ApiAssumption, Configured, RequestOf
<1>4. PICK n \in Nat : n = Len(log)
  BY <1>1
<1>5. PICK first \in Nat \ {0}, last \in 0 .. n :
         /\ Positions(since) = [first |-> first, last |-> last]
         /\ last = n \/ last - first + 1 = ReplayLimit
         /\ since.kind = "number" /\ since.n > 0 => first = since.n + 1
  BY <1>3, <1>4, Replayed
<1>6. PICK part : part = SubSeq(log, first, last)
  OBVIOUS
<1>7. part \in Seq(T) /\ SubSeq(log, n + 1, n) = <<>>
  <2>1. last \in Nat /\ n + 1 \in Nat /\ last < n + 1 /\ n + 1 <= Len(log) + 1
    BY <1>4
  <2>2. <<>> \in Seq(T) /\ log \o <<>> = log
    BY <1>1
  <2>3. PartsGrow(T, log, log, <<>>, first, last, n + 1)
    BY <1>1, <2>1, <2>2, LaterParts
  <2>4. SubSeq(log, n + 1, n) \in Seq(T) /\ Len(SubSeq(log, n + 1, n)) = 0
    BY <1>1, <1>4
  <2>5. SubSeq(log, n + 1, n) = <<>>
    BY <2>4
  <2>6. QED
    BY <1>6, <2>3, <2>5, Zenon DEF PartsGrow
<1>8. part \o SubSeq(log, n + 1, n) = part
  BY <1>7
<1>9. PICK new : new = [sent |-> Filtered(part, RequestOf(c).wants),
                        first |-> first, last |-> last, live |-> n + 1]
  OBVIOUS
<1>10. new \in Stream(T)
  <2>1. Filtered(part, RequestOf(c).wants) \in Seq(T)
    BY <1>7, FilteredType
  <2>2. last \in Nat /\ n + 1 \in Nat
    OBVIOUS
  <2>3. QED
    BY <1>9, <2>1, <2>2 DEF Stream
<1>11. SentBy(new, log, RequestOf(c).wants)
  <2>1. new.last < new.live /\ new.live <= Len(log) + 1
    BY <1>4, <1>9
  <2>2. new.sent = Filtered(SubSeq(log, new.first, new.last) \o SubSeq(log, new.live, Len(log)),
                            RequestOf(c).wants)
    BY <1>4, <1>6, <1>8, <1>9, Zenon
  <2>3. QED
    BY <2>1, <2>2 DEF SentBy
<1>12. AskedFor(new, since)
  <2>1. new.last = last /\ new.first = first /\ new.live = n + 1
    BY <1>9
  <2>2. last = n => last = (n + 1) - 1
    OBVIOUS
  <2>3. QED
    BY <1>5, <2>1, <2>2 DEF AskedFor
<1>13. stream' = [stream EXCEPT ![c] = new] /\ UNCHANGED log
  <2>1. PICK at : at = Positions(RequestOf(c).since)
    OBVIOUS
  <2>2. stream' = [stream EXCEPT ![c] =
           [sent |-> Wanted(c, SubSeq(log, at.first, at.last)),
            first |-> at.first, last |-> at.last, live |-> Len(log) + 1]]
    BY <2>1, Zenon DEF Subscribe
  <2>3. at.first = first /\ at.last = last
    BY <1>2, <1>5, <2>1
  <2>4. Wanted(c, SubSeq(log, at.first, at.last)) = Filtered(part, RequestOf(c).wants)
    BY <1>6, <2>3, Zenon DEF Wanted
  <2>5. UNCHANGED log
    BY DEF Subscribe
  <2>6. QED
    BY <1>4, <1>9, <2>2, <2>3, <2>4, <2>5, Zenon
<1>14. stream' \in [Requests -> Stream(T)]
  BY <1>1, <1>10, <1>13
<1>15. ASSUME NEW x \in Requests, stage'[x] = "streaming"
       PROVE  SentBy(stream'[x], log', RequestOf(x).wants') /\ AskedFor(stream'[x], RequestOf(x).since')
  <2>1. RequestOf(x)' = RequestOf(x)
    BY DEF RequestOf
  <2>2. CASE x = c
    BY <1>1, <1>2, <1>11, <1>12, <1>13, <2>1, <2>2
  <2>3. CASE x # c
    <3>1. stage[x] = "streaming" /\ stream'[x] = stream[x]
      BY <1>1, <1>13, <1>15, <2>3 DEF Subscribe, Admitted
    <3>2. SentBy(stream[x], log, RequestOf(x).wants) /\ AskedFor(stream[x], RequestOf(x).since)
      BY <3>1 DEF StreamsKept
    <3>3. QED
      BY <1>13, <2>1, <3>1, <3>2
  <2>4. QED
    BY <2>2, <2>3
<1>16. QED
  BY <1>1, <1>13, <1>14, <1>15 DEF StreamsKept, StreamsTyped

\* A handler keeps the streams whole.
LEMMA HandlerKeeps ==
    ASSUME StreamsKept, Configured, Admitted, NEW c \in Requests, c \in DOMAIN workload.requests,
           HandleGet(c) \/ HandlePost(c), UNCHANGED workload
    PROVE  StreamsKept'
<1>1. ASSUME NEW status, Reply(c, status)
      PROVE  \A x \in Requests : stage'[x] = "streaming" => stage[x] = "streaming"
  BY <1>1 DEF Reply, Admitted
<1>2. CASE RegisterWebhook(c)
  BY <1>1, <1>2, FrameKeeps DEF RegisterWebhook
<1>3. CASE Emitting(c)
  <2>1. \A x \in Requests : stage'[x] = "streaming" => stage[x] = "streaming"
    BY <1>1, <1>3 DEF Emitting
  <2>2. CASE UNCHANGED <<log, stream>>
    BY <2>1, <2>2, FrameKeeps
  <2>3. CASE EmitAndPublish(RequestOf(c).event)
    <3>1. PICK e : e = RequestOf(c).event
      OBVIOUS
    <3>2. <<e, AliasOf[e]>> \in Seq({e, AliasOf[e]}) /\ <<e>> \in Seq({e, AliasOf[e]})
      OBVIOUS
    <3>3. \E events \in Seq({e, AliasOf[e]}) : Publish(events)
      BY <2>3, <3>1, <3>2 DEF EmitAndPublish
    <3>4. QED
      BY <2>1, <3>3, PublishKeeps
  <2>4. QED
    BY <1>3, <2>2, <2>3 DEF Emitting
<1>4. CASE Read(c)
  BY <1>1, <1>4, FrameKeeps DEF Read
<1>5. CASE OpenStream(c)
  <2>1. CASE Subscribe(c)
    BY <2>1, SubscribeKeeps
  <2>2. CASE SubscribeInVain(c) \/ TooManyStreams(c)
    BY <1>1, <2>2, FrameKeeps DEF SubscribeInVain, TooManyStreams
  <2>3. QED
    BY <1>5, <2>1, <2>2 DEF OpenStream
<1>6. QED
  BY <1>2, <1>3, <1>4, <1>5 DEF HandleGet, HandlePost

\* So does a delivery, which emits a notice or does not.
LEMMA DeliverKeeps ==
    ASSUME StreamsKept, Configured, NEW d \in Deliveries, Deliver(d)
    PROVE  StreamsKept'
<1>1. UNCHANGED <<workload, stage>>
  BY DEF Deliver, doorVars
<1>2. CASE UNCHANGED <<log, stream>>
  BY <1>1, <1>2, FrameKeeps
<1>3. ASSUME NEW type, PublishNotice(type, d) PROVE StreamsKept'
  <2>1. CASE UNCHANGED <<log, stream>>
    BY <1>2, <2>1
  <2>2. CASE Publish(<<Notice(type, d)>>)
    <3>1. PICK events : events = <<Notice(type, d)>>
      OBVIOUS
    <3>2. events \in Seq({Notice(type, d)})
      BY <3>1
    <3>3. QED
      BY <1>1, <2>2, <3>1, <3>2, PublishKeeps
  <2>3. QED
    BY <1>3, <2>1, <2>2 DEF PublishNotice
<1>4. QED
  BY <1>2, <1>3 DEF Deliver, AnnounceFailure

\* So does every step.
LEMMA StreamsStep ==
    ASSUME StreamsKept, Configured, Admitted, [ApiNext]_allVars
    PROVE  StreamsKept'
<1>1. UNCHANGED workload
  BY ConfiguredStep
<1>2. ASSUME NEW c \in Requests, RequestStep(c) PROVE StreamsKept'
  <2>1. CASE TurnAway(c) \/ Throttle(c) \/ Admit(c) \/ RefuseBody(c)
    <3>1. \A x \in Requests : stage'[x] = "streaming" => stage[x] = "streaming"
      BY <2>1 DEF TurnAway, Throttle, Admit, RefuseBody, Reply, Admitted
    <3>2. UNCHANGED <<log, stream>>
      BY <2>1 DEF TurnAway, Throttle, Admit, RefuseBody
    <3>3. QED
      BY <1>1, <3>1, <3>2, FrameKeeps
  <2>2. CASE Serve(c) \/ ServeBody(c)
    <3>1. c \in DOMAIN workload.requests
      BY <2>2 DEF Serve, ServeBody, Admitted, MayBe
    <3>2. HandleGet(c) \/ HandlePost(c)
      BY <2>2 DEF Serve, ServeBody
    <3>3. QED
      BY <1>1, <3>1, <3>2, HandlerKeeps
  <2>3. QED
    BY <1>2, <2>1, <2>2 DEF RequestStep
<1>3. ASSUME NEW c \in Requests, HangUp(c) \/ HangUpAgain(c) PROVE StreamsKept'
  <2>1. \A x \in Requests : stage'[x] = "streaming" => stage[x] = "streaming"
    BY <1>3 DEF HangUp, HangUpAgain, Admitted
  <2>2. QED
    BY <1>1, <1>3, <2>1, FrameKeeps DEF HangUp, HangUpAgain
<1>4. CASE \/ \E d \in Deliveries : Retry(d)
           \/ Tick \/ Terminate \/ UNCHANGED allVars
  <2>1. UNCHANGED <<log, stream, stage>>
    BY <1>4 DEF Retry, Tick, Terminate, allVars, apiVars, doorVars
  <2>2. QED
    BY <1>1, <2>1, FrameKeeps
<1>5. CASE ExitAndForget \/ CrashAndForget
  <2>1. UNCHANGED <<log, stream>> /\ \A x \in Requests : stage'[x] \in {"new", "done"}
    BY <1>5 DEF ExitAndForget, CrashAndForget, Forget
  <2>2. QED
    BY <1>1, <2>1, FrameKeeps
<1>6. ASSUME NEW d \in Deliveries, Deliver(d) PROVE StreamsKept'
  BY <1>6, DeliverKeeps
<1>7. QED
  BY <1>2, <1>3, <1>4, <1>5, <1>6 DEF ApiNext

\* At the start no stream is open.
LEMMA StreamsStart == ApiInit => StreamsKept
<1> SUFFICES ASSUME ApiInit PROVE StreamsKept
  OBVIOUS
<1>1. PICK w \in Workloads : log = w.log
  BY DEF ApiInit
<1>2. log \in Seq(Earlier)
  BY <1>1, ApiAssumption DEF ApiAssumption
<1>3. stream \in [Requests -> Stream(Earlier)]
  <2>1. [sent |-> <<>>, first |-> 1, last |-> 0, live |-> 1] \in Stream(Earlier)
    BY DEF Stream
  <2>2. QED
    BY <2>1 DEF ApiInit
<1>4. \A c \in Requests : stage[c] # "streaming"
  BY DEF ApiInit
<1>5. QED
  BY <1>2, <1>3, <1>4 DEF StreamsKept, StreamsTyped

\* An open stream has sent what it replayed of the log and everything that was
\* emitted since, in order and once, whatever failed on the way.
THEOREM StreamsAreKept == ApiSpec => []StreamsAreWhole
<1>1. ApiInv => Configured /\ Admitted
  BY DEF ApiInv
<1>2. StreamsKept /\ Configured /\ Admitted /\ [ApiNext]_allVars => StreamsKept'
  BY StreamsStep
<1>3. StreamsKept => StreamsAreWhole
  BY DEF StreamsKept, StreamsAreWhole, SentBy, AskedFor, Wanted
<1>4. QED
  BY <1>1, <1>2, <1>3, StreamsStart, ApiInvariance, PTL DEF ApiSpec
=============================================================================
