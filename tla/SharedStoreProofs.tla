-------------------------- MODULE SharedStoreProofs --------------------------
(***************************************************************************)
(* Proofs about the service over a shared store, for any number of calls,  *)
(* handlers and webhooks: its types, that sessions stay sound whatever     *)
(* overlaps, and that the call lifecycle is left only by a put that        *)
(* overwrites one it has not seen.                                         *)
(***************************************************************************)
EXTENDS SharedStore, IvrMachineProofs

-----------------------------------------------------------------------------
(* The invariant *)

StoreOk(st) ==
  /\ DOMAIN st \subseteq Calls
  /\ \A c \in DOMAIN st : SessionOk(st[c])

CountsOk == writes \in [Calls -> Nat] /\ seen \in [Handlers -> Nat]

\* What a handler with record r, that knows of n puts to its call, relies on when
\* the store is st and w counts the puts.  If it knows of all of them, its own put
\* would be an arrow of the lifecycle.
HandlerOk(r, n, st, w) ==
  \/ r = Idle
  \/ /\ r.at \in {"guard", "get", "recover", "put"}
     /\ r.call \in Calls /\ r.webhook \in Webhook
     /\ SessionOk(r.session)
     /\ r.at \in {"recover", "put"} => n <= w[r.call]
     /\ r.at = "recover" /\ n = w[r.call] => r.call \notin DOMAIN st
     /\ r.at = "put" /\ n = w[r.call]
          => r.call \in DOMAIN st /\ Arrow(st[r.call], r.session)

HandlersOk ==
  /\ DOMAIN handler = Handlers
  /\ \A h \in Handlers : HandlerOk(handler[h], seen[h], store, writes)

SInv == StoreOk(store) /\ CountsOk /\ HandlersOk

LEMMA WebhookFields ==
  ASSUME NEW webhook \in Webhook
  PROVE  webhook.event \in InputEvent
BY DEF Webhook, InputEvent

\* What a method makes of its copy is a session, along an arrow of the lifecycle.
LEMMA UpdatedIsOk ==
  ASSUME NEW s, SessionOk(s), NEW webhook \in Webhook
  PROVE  SessionOk(Updated(s, webhook)) /\ Arrow(s, Updated(s, webhook))
<1>1. CASE webhook.method = "handle_webhook"
  BY <1>1, WebhookFields, AdvanceIsOk, AdvanceIsAnArrow DEF Updated
<1>2. CASE webhook.method = "finalize_call"
  <2> DEFINE u == [s EXCEPT !.state = "COMPLETED", !.ended = TRUE]
  <2>1. Updated(s, webhook) = u
    BY <1>2 DEF Updated
  <2>2. SessionOk(u) /\ PlaceOf(u) = "ended"
    BY ClosedIsOk
  <2> HIDE DEF u
  <2>3. QED BY <2>1, <2>2 DEF Arrow, SpokenIn
<1>3. CASE webhook.method \notin {"handle_webhook", "finalize_call"}
  BY <1>3 DEF Updated, Arrow
<1>4. QED BY <1>1, <1>2, <1>3

\* A handler that has just read or put session s, the one in the store.
LEMMA AfterGetIsOk ==
  ASSUME NEW c \in Calls, NEW webhook \in Webhook, NEW s, SessionOk(s),
         NEW st, NEW w \in [Calls -> Nat], c \in DOMAIN st, st[c] = s
  PROVE  HandlerOk(AfterGet(c, webhook, s), w[c], st, w)
<1>1. CASE webhook.method = "serve_otp_prompt"
  BY <1>1 DEF HandlerOk, AfterGet
<1>2. CASE webhook.method # "serve_otp_prompt"
  <2> DEFINE u == Updated(s, webhook)
  <2>1. SessionOk(u) /\ Arrow(s, u)
    BY UpdatedIsOk
  <2>2. AfterGet(c, webhook, s) = InFlight("put", c, webhook, u)
    BY <1>2 DEF AfterGet
  <2>3. w[c] \in Nat
    OBVIOUS
  <2> HIDE DEF u
  <2>4. QED BY <2>1, <2>2, <2>3 DEF HandlerOk, InFlight
<1>3. QED BY <1>1, <1>2

\* A handler in flight has the fields it was given.
LEMMA InFlightIsOk ==
  ASSUME SInv, NEW h \in Handlers, handler[h].at \in {"guard", "get", "recover", "put"}
  PROVE  /\ handler[h] # Idle
         /\ handler[h].call \in Calls /\ handler[h].webhook \in Webhook
         /\ SessionOk(handler[h].session)
BY DEF SInv, HandlersOk, HandlerOk, Idle

-----------------------------------------------------------------------------
(* The steps *)

\* A step in which handler h only reads, or comes or goes.
LEMMA ReadStep ==
  ASSUME SInv, NEW h \in Handlers, NEW r, NEW n \in Nat, HandlerOk(r, n, store, writes),
         handler' = [handler EXCEPT ![h] = r], seen' = [seen EXCEPT ![h] = n],
         UNCHANGED <<store, writes>>
  PROVE  SInv'
<1>1. CountsOk'
  BY DEF SInv, CountsOk
<1>2. HandlersOk'
  BY DEF SInv, HandlersOk, CountsOk
<1>3. QED BY <1>1, <1>2 DEF SInv

\* A put by handler h leaves every other handler right, or behind.
LEMMA PutStep ==
  ASSUME SInv, NEW h \in Handlers, handler[h].call \in Calls, NEW s, SessionOk(s),
         Write(h, s), NEW r, handler' = [handler EXCEPT ![h] = r],
         HandlerOk(r, writes[handler[h].call] + 1, store', writes')
  PROVE  SInv'
<1> DEFINE c == handler[h].call
<1>1. /\ DOMAIN store' = DOMAIN store \cup {c}
      /\ \A x \in DOMAIN store' : store'[x] = IF x = c THEN s ELSE store[x]
      /\ writes' = [writes EXCEPT ![c] = @ + 1]
      /\ seen' = [seen EXCEPT ![h] = writes[c] + 1]
  BY DEF Write
<1>2. c \in Calls /\ writes[c] \in Nat
  BY DEF SInv, CountsOk
<1> HIDE DEF c
<1>3. StoreOk(store')
  BY <1>1, <1>2 DEF SInv, StoreOk
<1>4. CountsOk'
  BY <1>1, <1>2 DEF SInv, CountsOk
<1>5. ASSUME NEW g \in Handlers
      PROVE  HandlerOk(handler'[g], seen'[g], store', writes')
  <2>1. CASE g = h
    BY <1>1, <2>1 DEF SInv, HandlersOk, CountsOk, c
  <2>2. CASE g # h
    <3>1. handler'[g] = handler[g] /\ seen'[g] = seen[g] /\ seen[g] \in Nat
      BY <1>1, <2>2 DEF SInv, HandlersOk, CountsOk
    <3>2. HandlerOk(handler[g], seen[g], store, writes)
      BY DEF SInv, HandlersOk
    <3>3. CASE handler[g] = Idle
      BY <3>1, <3>3 DEF HandlerOk
    <3>4. CASE handler[g] # Idle
      <4>1. handler[g].call \in Calls /\ writes[handler[g].call] \in Nat
        BY <3>2, <3>4 DEF HandlerOk, SInv, CountsOk
      <4>2. writes'[handler[g].call] = IF handler[g].call = c
                                       THEN writes[c] + 1 ELSE writes[handler[g].call]
        BY <1>1, <4>1 DEF SInv, CountsOk
      <4>3. QED BY <1>1, <1>2, <3>1, <3>2, <3>4, <4>1, <4>2 DEF HandlerOk
    <3>5. QED BY <3>3, <3>4
  <2>3. QED BY <2>1, <2>2
<1>6. DOMAIN handler' = Handlers
  BY DEF SInv, HandlersOk
<1>7. QED BY <1>3, <1>4, <1>5, <1>6 DEF SInv, HandlersOk

LEMMA InitIsOk == Init => SInv
BY DEF Init, SInv, StoreOk, CountsOk, HandlersOk, HandlerOk

LEMMA StepIsOk == SInv /\ [Next]_vars => SInv'
<1> SUFFICES ASSUME SInv, [Next]_vars  PROVE SInv'
  OBVIOUS
<1>a. \A h \in Handlers : seen[h] \in Nat /\ seen = [seen EXCEPT ![h] = seen[h]]
  BY DEF SInv, CountsOk
<1>1. ASSUME NEW h \in Handlers, NEW c \in Calls, NEW webhook \in Webhook,
             Arrive(h, c, webhook)
      PROVE  SInv'
  <2> DEFINE r == InFlight(IF webhook.method = "language" THEN "guard" ELSE "get",
                           c, webhook, NewSession)
  <2>1. HandlerOk(r, seen[h], store, writes)
    BY NewSessionIsOk DEF HandlerOk, InFlight
  <2>2. handler' = [handler EXCEPT ![h] = r] /\ UNCHANGED <<store, writes, seen>>
    BY <1>1 DEF Arrive
  <2> HIDE DEF r
  <2>3. QED BY <1>a, <2>1, <2>2, ReadStep
<1>2. ASSUME NEW h \in Handlers, CheckGuard(h)
      PROVE  SInv'
  <2>1. handler[h].call \in Calls /\ handler[h].webhook \in Webhook
    BY <1>2, InFlightIsOk DEF CheckGuard
  <2> DEFINE passes == handler[h].call \in DOMAIN store /\ store[handler[h].call].authenticated
             webhook == [method |-> IF passes THEN "handle_webhook" ELSE "serve_otp_prompt",
                         event  |-> IF passes THEN handler[h].webhook.event ELSE NoInput]
             r == InFlight("get", handler[h].call, webhook, NewSession)
  <2>2. webhook \in Webhook
    BY <2>1, WebhookFields DEF Webhook
  <2>3. handler' = [handler EXCEPT ![h] = r]
    BY <1>2 DEF CheckGuard
  <2> HIDE DEF webhook
  <2>4. HandlerOk(r, seen[h], store, writes)
    BY <2>1, <2>2, NewSessionIsOk DEF HandlerOk, InFlight
  <2>5. UNCHANGED <<store, writes, seen>>
    BY <1>2 DEF CheckGuard
  <2> HIDE DEF r
  <2>6. QED BY <1>a, <2>3, <2>4, <2>5, ReadStep
<1>3. ASSUME NEW h \in Handlers, Get(h)
      PROVE  SInv'
  <2> DEFINE c == handler[h].call
             webhook == handler[h].webhook
             r == IF c \in DOMAIN store THEN AfterGet(c, webhook, store[c])
                  ELSE InFlight("recover", c, webhook, NewSession)
  <2>1. c \in Calls /\ webhook \in Webhook /\ writes[c] \in Nat
    BY <1>3, InFlightIsOk DEF Get, SInv, CountsOk
  <2>2. /\ handler' = [handler EXCEPT ![h] = r]
        /\ seen' = [seen EXCEPT ![h] = writes[c]]
        /\ UNCHANGED <<store, writes>>
    BY <1>3 DEF Get, Found
  <2> HIDE DEF c, webhook
  <2>3. CASE c \in DOMAIN store
    <3>1. SessionOk(store[c])
      BY <2>3 DEF SInv, StoreOk
    <3>2. QED BY <2>1, <2>2, <2>3, <3>1, AfterGetIsOk, ReadStep DEF SInv, CountsOk
  <2>4. CASE c \notin DOMAIN store
    <3>1. HandlerOk(InFlight("recover", c, webhook, NewSession), writes[c], store, writes)
      BY <2>1, <2>4, NewSessionIsOk DEF HandlerOk, InFlight
    <3>2. QED BY <2>1, <2>2, <2>4, <3>1, ReadStep
  <2>5. QED BY <2>3, <2>4
<1>4. ASSUME NEW h \in Handlers, Recover(h)
      PROVE  SInv'
  <2> DEFINE c == handler[h].call
             r == AfterGet(c, handler[h].webhook, NewSession)
  <2>1. c \in Calls /\ handler[h].webhook \in Webhook
    BY <1>4, InFlightIsOk DEF Recover
  <2>2. handler' = [handler EXCEPT ![h] = r] /\ Write(h, NewSession)
    BY <1>4 DEF Recover, SInv, HandlersOk
  <2>3. writes' \in [Calls -> Nat] /\ writes'[c] = writes[c] + 1
    BY <2>1, <2>2 DEF Write, SInv, CountsOk
  <2>4. c \in DOMAIN store' /\ store'[c] = NewSession
    BY <2>2 DEF Write
  <2>5. HandlerOk(r, writes[c] + 1, store', writes')
    BY <2>1, <2>3, <2>4, NewSessionIsOk, AfterGetIsOk
  <2> HIDE DEF r
  <2>6. QED BY <2>1, <2>2, <2>5, NewSessionIsOk, PutStep
<1>5. ASSUME NEW h \in Handlers, PutSession(h)
      PROVE  SInv'
  <2>1. handler[h].call \in Calls /\ SessionOk(handler[h].session)
    BY <1>5, InFlightIsOk DEF PutSession
  <2>2. handler' = [handler EXCEPT ![h] = Idle] /\ Write(h, handler[h].session)
    BY <1>5 DEF PutSession
  <2>3. HandlerOk(Idle, writes[handler[h].call] + 1, store', writes')
    BY DEF HandlerOk
  <2>4. QED BY <2>1, <2>2, <2>3, PutStep
<1>6. ASSUME NEW h \in Handlers, Die(h)
      PROVE  SInv'
  <2>1. HandlerOk(Idle, seen[h], store, writes)
    BY DEF HandlerOk
  <2>2. QED BY <1>a, <1>6, <2>1, ReadStep DEF Die
<1>7. CASE UNCHANGED vars
  BY <1>7 DEF vars, SInv, StoreOk, CountsOk, HandlersOk
<1>8. QED BY <1>1, <1>2, <1>3, <1>4, <1>5, <1>6, <1>7 DEF Next

-----------------------------------------------------------------------------
(* Types *)

\* The records handlers are in have just the fields of Handler, and webhooks are
\* counted to their bound.
FramesOk == handler \in [Handlers -> Handler] /\ webhooks \in 0 .. MaxWebhooks

LEMMA InFlightType ==
  ASSUME NEW at \in {"guard", "get", "recover", "put"}, NEW c \in Calls,
         NEW webhook \in Webhook, NEW s, SessionOk(s)
  PROVE  InFlight(at, c, webhook, s) \in Handler
BY DEF InFlight, Handler, SessionOk

LEMMA AfterGetType ==
  ASSUME NEW c \in Calls, NEW webhook \in Webhook, NEW s, SessionOk(s)
  PROVE  AfterGet(c, webhook, s) \in Handler
BY InFlightType, UpdatedIsOk DEF AfterGet, Handler

\* A step of handler h alone.
LEMMA FrameStep ==
  ASSUME SInv, FramesOk, NEW h \in Handlers, NEW r \in Handler,
         handler' = [handler EXCEPT ![h] = r], webhooks' \in 0 .. MaxWebhooks
  PROVE  FramesOk'
BY DEF SInv, HandlersOk, FramesOk

LEMMA FramesStep ==
  ASSUME SInv, FramesOk, [Next]_vars
  PROVE  FramesOk'
<1>a. webhooks \in 0 .. MaxWebhooks /\ Idle \in Handler
  BY DEF FramesOk, Handler
<1>1. ASSUME NEW h \in Handlers, NEW c \in Calls, NEW webhook \in Webhook,
             Arrive(h, c, webhook)
      PROVE  FramesOk'
  <2> DEFINE r == InFlight(IF webhook.method = "language" THEN "guard" ELSE "get",
                           c, webhook, NewSession)
  <2>1. r \in Handler
    BY NewSessionIsOk, InFlightType
  <2>2. handler' = [handler EXCEPT ![h] = r] /\ webhooks' \in 0 .. MaxWebhooks
    BY <1>a, <1>1, SharedAssumption DEF Arrive
  <2> HIDE DEF r
  <2>3. QED BY <2>1, <2>2, FrameStep
<1>2. ASSUME NEW h \in Handlers, CheckGuard(h)
      PROVE  FramesOk'
  <2>1. handler[h].call \in Calls /\ handler[h].webhook \in Webhook
    BY <1>2, InFlightIsOk DEF CheckGuard
  <2> DEFINE passes == handler[h].call \in DOMAIN store /\ store[handler[h].call].authenticated
             webhook == [method |-> IF passes THEN "handle_webhook" ELSE "serve_otp_prompt",
                         event  |-> IF passes THEN handler[h].webhook.event ELSE NoInput]
             r == InFlight("get", handler[h].call, webhook, NewSession)
  <2>2. webhook \in Webhook
    BY <2>1, WebhookFields DEF Webhook
  <2>3. handler' = [handler EXCEPT ![h] = r] /\ webhooks' = webhooks
    BY <1>2 DEF CheckGuard
  <2> HIDE DEF webhook
  <2>4. r \in Handler
    BY <2>1, <2>2, NewSessionIsOk, InFlightType
  <2> HIDE DEF r
  <2>5. QED BY <1>a, <2>3, <2>4, FrameStep
<1>3. ASSUME NEW h \in Handlers, Get(h)
      PROVE  FramesOk'
  <2> DEFINE c == handler[h].call
             webhook == handler[h].webhook
             r == IF c \in DOMAIN store THEN AfterGet(c, webhook, store[c])
                  ELSE InFlight("recover", c, webhook, NewSession)
  <2>1. c \in Calls /\ webhook \in Webhook
    BY <1>3, InFlightIsOk DEF Get
  <2>2. handler' = [handler EXCEPT ![h] = r] /\ webhooks' = webhooks
    BY <1>3 DEF Get, Found
  <2>3. c \in DOMAIN store => SessionOk(store[c])
    BY DEF SInv, StoreOk
  <2> HIDE DEF c, webhook
  <2>4. r \in Handler
    BY <2>1, <2>3, NewSessionIsOk, AfterGetType, InFlightType
  <2> HIDE DEF r
  <2>5. QED BY <1>a, <2>2, <2>4, FrameStep
<1>4. ASSUME NEW h \in Handlers, Recover(h)
      PROVE  FramesOk'
  <2> DEFINE r == AfterGet(handler[h].call, handler[h].webhook, NewSession)
  <2>1. r \in Handler
    BY <1>4, InFlightIsOk, NewSessionIsOk, AfterGetType DEF Recover
  <2>2. handler' = [handler EXCEPT ![h] = r] /\ webhooks' = webhooks
    BY <1>4 DEF Recover, Write, SInv, HandlersOk
  <2> HIDE DEF r
  <2>3. QED BY <1>a, <2>1, <2>2, FrameStep
<1>5. CASE \E h \in Handlers : PutSession(h) \/ Die(h)
  <2>1. PICK h \in Handlers : handler' = [handler EXCEPT ![h] = Idle] /\ webhooks' = webhooks
    BY <1>5 DEF PutSession, Write, Die
  <2>2. QED BY <1>a, <2>1, FrameStep
<1>6. CASE UNCHANGED vars
  BY <1>6 DEF vars, FramesOk
<1>7. QED BY <1>1, <1>2, <1>3, <1>4, <1>5, <1>6 DEF Next

-----------------------------------------------------------------------------
(* Theorems *)

\* The invariant of whatever handlers overlap, and whichever instances die.
THEOREM Invariance == Spec => []SInv
BY InitIsOk, StepIsOk, PTL DEF Spec

\* Type correctness: what is stored, and every copy a handler holds across an await,
\* is a session the dataclass can build, of a known call.
THEOREM TypeCorrect == Spec => []TypeOK
<1>1. Init => FramesOk
  BY SharedAssumption DEF Init, FramesOk, Handler
<1>2. SInv /\ FramesOk => TypeOK
  BY DEF SInv, StoreOk, SessionOk, CountsOk, HandlersOk, FramesOk, TypeOK
<1>3. SInv /\ FramesOk /\ [Next]_vars => (SInv /\ FramesOk)'
  BY StepIsOk, FramesStep
<1>4. QED BY <1>1, <1>2, <1>3, InitIsOk, PTL DEF Spec

\* Whatever overlaps, the store and the handlers' copies hold sound sessions: no
\* overlap lets a caller past the code or leaves a document without its language.
THEOREM SessionsStaySound == Spec => []SessionsAreSound
<1>1. SInv => SessionsAreSound
  BY DEF SInv, StoreOk, HandlersOk, HandlerOk, SessionsAreSound
<1>2. QED BY <1>1, Invariance, PTL

-----------------------------------------------------------------------------
(* The call lifecycle *)

\* Storing the next session of one call is a step of the lifecycle.
LEMMA StoringAnArrowIsAStep ==
  ASSUME NEW c \in Calls, NEW t, Arrow(Stored(c), t),
         store' = [x \in DOMAIN store \cup {c} |-> IF x = c THEN t ELSE store[x]]
  PROVE  Lifecycle!Next
<1> DEFINE s == Stored(c)
           places    == [x \in Calls |-> PlaceOf(Stored(x))]
           languages == [x \in Calls |-> SpokenIn(Stored(x))]
<1>1. \A x : Stored(x)' = IF x = c THEN t ELSE Stored(x)
  BY DEF Stored
<1>2. /\ places'    = [places EXCEPT ![c] = PlaceOf(t)]
      /\ languages' = [languages EXCEPT ![c] = SpokenIn(t)]
  BY <1>1
<1>3. places[c] = PlaceOf(s) /\ languages[c] = SpokenIn(s)
  OBVIOUS
<1>4. (DOMAIN store)' = DOMAIN store \cup {c}
  OBVIOUS
<1>5. SpokenIn(t) = languages[c] => languages' = languages
  BY <1>2
<1>6. PlaceOf(t) = places[c] => places' = places
  BY <1>2
<1> HIDE DEF places, languages, s
<1>7. \/ Lifecycle!PassGate(c) \/ Lifecycle!ChooseLanguage(c)
      \/ Lifecycle!ChangeLanguage(c) \/ Lifecycle!EnterLeaf(c)
      \/ Lifecycle!LeaveLeaf(c) \/ Lifecycle!End(c) \/ Lifecycle!Stay(c)
  <2> USE DEF Lifecycle!Move, places, languages
  <2>1. CASE PlaceOf(t) = PlaceOf(s) /\ SpokenIn(t) = SpokenIn(s)
    BY <1>3, <1>5, <1>6, <2>1 DEF Lifecycle!Stay
  <2>2. CASE PlaceOf(s) = "gate" /\ PlaceOf(t) = "language" /\ SpokenIn(t) = SpokenIn(s)
    BY <1>2, <1>3, <1>5, <2>2 DEF Lifecycle!PassGate
  <2>3. CASE PlaceOf(s) = "language" /\ PlaceOf(t) = "action" /\ SpokenIn(t) \in Locale
    BY <1>2, <1>3, <2>3 DEF Lifecycle!ChooseLanguage
  <2>4. CASE PlaceOf(s) = "action" /\ PlaceOf(t) = "language" /\ SpokenIn(t) = NoLocale
    BY <1>2, <1>3, <2>4 DEF Lifecycle!ChangeLanguage
  <2>5. CASE PlaceOf(s) = "action" /\ PlaceOf(t) = "leaf" /\ SpokenIn(t) = SpokenIn(s)
    BY <1>2, <1>3, <1>5, <2>5 DEF Lifecycle!EnterLeaf
  <2>6. CASE PlaceOf(s) = "leaf" /\ PlaceOf(t) = "action" /\ SpokenIn(t) = SpokenIn(s)
    BY <1>2, <1>3, <1>5, <2>6 DEF Lifecycle!LeaveLeaf
  <2>7. CASE PlaceOf(t) = "ended" /\ SpokenIn(t) = NoLocale
    BY <1>2, <2>7 DEF Lifecycle!End
  <2>8. QED BY <2>1, <2>2, <2>3, <2>4, <2>5, <2>6, <2>7 DEF Arrow, s
<1>8. Lifecycle!Turn(c)
  BY <1>4, <1>7 DEF Lifecycle!Turn
<1>9. QED BY <1>8 DEF Lifecycle!Next

\* What put replaces is the session the handler read, unless it overwrites another.
THEOREM OnlyOverwritesLeaveTheLifecycle == Spec => LifecycleUnlessOverwritten
<1> DEFINE Allowed == (\E h \in Handlers : Overwrites(h)) \/ [Lifecycle!Next]_(Lifecycle!vars)
<1>1. SInv /\ [Next]_vars => [Allowed]_vars
  <2> SUFFICES ASSUME SInv, Next  PROVE Allowed
    OBVIOUS
  <2>1. CASE store' = store
    <3>1. (\A x : Stored(x)' = Stored(x)) /\ (DOMAIN store)' = DOMAIN store
      BY <2>1 DEF Stored
    <3>2. QED BY <3>1 DEF Lifecycle!vars
  <2>2. ASSUME NEW h \in Handlers, NEW s, Write(h, s), handler[h].call \in Calls,
               seen[h] = writes[handler[h].call] => Arrow(Stored(handler[h].call), s),
               handler[h].at \in {"recover", "put"}, handler'[h] # handler[h], store' # store
        PROVE  Allowed
    <3>1. CASE seen[h] = writes[handler[h].call]
      BY <2>2, <3>1, StoringAnArrowIsAStep DEF Write
    <3>2. CASE seen[h] # writes[handler[h].call]
      BY <2>2, <3>2 DEF Overwrites
    <3>3. QED BY <3>1, <3>2
  <2>3. ASSUME NEW h \in Handlers, Recover(h), store' # store
        PROVE  Allowed
    <3>1. /\ handler[h].at = "recover" /\ handler[h].call \in Calls
          /\ Write(h, NewSession)
      BY <2>3, InFlightIsOk DEF Recover
    <3>2. seen[h] = writes[handler[h].call] => Stored(handler[h].call) = NewSession
      BY <3>1 DEF SInv, HandlersOk, HandlerOk, Idle, Stored
    <3>3. handler'[h] = AfterGet(handler[h].call, handler[h].webhook, NewSession)
      BY <2>3 DEF Recover, SInv, HandlersOk
    <3>4. handler'[h].at # "recover"
      BY <3>3 DEF AfterGet, InFlight, Idle
    <3>5. Arrow(NewSession, NewSession)
      BY DEF Arrow
    <3>6. QED BY <2>2, <2>3, <3>1, <3>2, <3>4, <3>5
  <2>4. ASSUME NEW h \in Handlers, PutSession(h), store' # store
        PROVE  Allowed
    <3>1. /\ handler[h].at = "put" /\ handler[h].call \in Calls
          /\ Write(h, handler[h].session)
      BY <2>4, InFlightIsOk DEF PutSession
    <3>2. seen[h] = writes[handler[h].call]
            => Arrow(Stored(handler[h].call), handler[h].session)
      BY <3>1 DEF SInv, HandlersOk, HandlerOk, Idle, Stored
    <3>3. handler'[h] # handler[h]
      BY <2>4, <3>1 DEF PutSession, SInv, HandlersOk, Idle
    <3>4. QED BY <2>2, <2>4, <3>1, <3>2, <3>3
  <2>5. QED BY <2>1, <2>3, <2>4 DEF Next, Arrive, CheckGuard, Get, Die
<1>2. QED BY <1>1, Invariance, PTL DEF Spec, LifecycleUnlessOverwritten
=============================================================================
