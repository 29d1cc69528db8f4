----------------------------- MODULE SharedStore -----------------------------
(***************************************************************************)
(* The call service over a shared store: the deployment store.py and       *)
(* docs/ARCHITECTURE.md ("What changes to run more than one instance") are *)
(* written for, where another CallStateStore takes the place of the        *)
(* dictionary and no caller of the store changes.                          *)
(*                                                                         *)
(* The callers are those of app/calls/service.py, cut at each of their     *)
(* awaits.  The store is external, and modelled from its protocol: get     *)
(* returns a copy of the session, put replaces it, each is atomic, and     *)
(* between two of them any other handler may run, in this instance or in   *)
(* another one, also for the same call.  An instance that dies takes its   *)
(* handlers with it and leaves the store.                                  *)
(*                                                                         *)
(* CallService.tla has the program as it runs today, in one process.       *)
(***************************************************************************)
EXTENDS IvrMachine

CONSTANTS
  Calls,
  Handlers,       \* handlers that may be in flight at once
  MaxWebhooks     \* bound of the model: webhooks in all

ASSUME SharedAssumption == MaxWebhooks \in Nat

VARIABLES
  store,     \* the shared store, from call ids to sessions
  handler,   \* each handler: the await it is at, its webhook, its copy of the session
  writes,    \* history: how many times each call's session was put
  seen,      \* history: the writes to its call each handler knows of
  webhooks   \* webhooks so far

vars == <<store, handler, writes, seen, webhooks>>

\* A webhook: the method its route calls and the event it is given.  /voice/language
\* decides which method after it has looked at the session.
Webhook ==
  [method : {"handle_webhook"}, event : InputEvent]
    \cup [method : {"language"}, event : {DigitsInput(d) : d \in Digits}]
    \cup [method : {"serve_otp_prompt", "finalize_call"}, event : {NoInput}]

Idle == [at |-> "idle"]
InFlight(at, c, webhook, session) ==
  [at |-> at, call |-> c, webhook |-> webhook, session |-> session]

Handler ==
  {Idle} \cup [at : {"guard", "get", "recover", "put"}, call : Calls,
               webhook : Webhook, session : CallSession]

Init ==
  /\ store = [c \in {} |-> NewSession]
  /\ handler = [h \in Handlers |-> Idle]
  /\ writes = [c \in Calls |-> 0]
  /\ seen = [h \in Handlers |-> 0]
  /\ webhooks = 0

-----------------------------------------------------------------------------
(* The handlers *)

Arrive(h, c, webhook) ==
  /\ handler[h] = Idle /\ webhooks < MaxWebhooks
  /\ webhooks' = webhooks + 1
  /\ LET at == IF webhook.method = "language" THEN "guard" ELSE "get"
     IN  handler' = [handler EXCEPT ![h] = InFlight(at, c, webhook, NewSession)]
  /\ UNCHANGED <<store, writes, seen>>

\* get_session() in /voice/language.
CheckGuard(h) ==
  LET c      == handler[h].call
      passes == c \in DOMAIN store /\ store[c].authenticated
      method == IF passes THEN "handle_webhook" ELSE "serve_otp_prompt"
      event  == IF passes THEN handler[h].webhook.event ELSE NoInput
  IN  /\ handler[h].at = "guard"
      /\ handler' = [handler EXCEPT ![h] =
                       InFlight("get", c, [method |-> method, event |-> event], NewSession)]
      /\ UNCHANGED <<store, writes, seen, webhooks>>

\* What the method makes of its copy of the session.
Updated(s, webhook) ==
  CASE webhook.method = "handle_webhook" -> Advance(s, webhook.event).session
    [] webhook.method = "finalize_call"  -> [s EXCEPT !.state = "COMPLETED", !.ended = TRUE]
    [] OTHER                             -> s

\* Where a handler goes once it has a session: the code prompt is not put again.
AfterGet(c, webhook, s) ==
  IF webhook.method = "serve_otp_prompt" THEN Idle
  ELSE InFlight("put", c, webhook, Updated(s, webhook))

Found__NotEnded(c) == c \in DOMAIN store /\ ~store[c].ended

Found(c) == c \in DOMAIN store

\* _get_or_recover_session(), its get.
Get(h) ==
  LET c       == handler[h].call
      webhook == handler[h].webhook
  IN  /\ handler[h].at = "get"
      /\ seen' = [seen EXCEPT ![h] = writes[c]]
      /\ handler' = [handler EXCEPT ![h] = IF Found(c) THEN AfterGet(c, webhook, store[c])
                                           ELSE InFlight("recover", c, webhook, NewSession)]
      /\ UNCHANGED <<store, writes, webhooks>>

Write(h, s) ==
  LET c == handler[h].call
  IN  /\ store' = [x \in DOMAIN store \cup {c} |-> IF x = c THEN s ELSE store[x]]
      /\ writes' = [writes EXCEPT ![c] = @ + 1]
      /\ seen' = [seen EXCEPT ![h] = writes[c] + 1]
      /\ UNCHANGED webhooks

\* _get_or_recover_session(), the put of a fresh session.
Recover(h) ==
  /\ handler[h].at = "recover"
  /\ Write(h, NewSession)
  /\ handler' = [handler EXCEPT ![h] = AfterGet(@.call, @.webhook, NewSession)]

PutSession__StateOnly(h) ==
  /\ handler[h].at = "put"
  /\ Write(h, [store[handler[h].call] EXCEPT !.state = handler[h].session.state])
  /\ handler' = [handler EXCEPT ![h] = Idle]

\* The put at the end of handle_webhook() and of finalize_call().
PutSession(h) ==
  /\ handler[h].at = "put"
  /\ Write(h, handler[h].session)
  /\ handler' = [handler EXCEPT ![h] = Idle]

\* The handler's instance dies.
Die(h) ==
  /\ handler[h] # Idle
  /\ handler' = [handler EXCEPT ![h] = Idle]
  /\ UNCHANGED <<store, writes, seen, webhooks>>

Next ==
  \E h \in Handlers :
    \/ \E c \in Calls, webhook \in Webhook : Arrive(h, c, webhook)
    \/ CheckGuard(h) \/ Get(h) \/ Recover(h) \/ PutSession(h) \/ Die(h)

Spec == Init /\ [][Next]_vars

-----------------------------------------------------------------------------
(* Properties *)

\* What the store and the handlers' copies hold are sessions the dataclass can build,
\* for known calls.
TypeOK ==
  /\ DOMAIN store \subseteq Calls /\ \A c \in DOMAIN store : store[c] \in CallSession
  /\ handler \in [Handlers -> Handler]
  /\ writes \in [Calls -> Nat] /\ seen \in [Handlers -> Nat]
  /\ webhooks \in 0 .. MaxWebhooks

\* What is true of a session alone survives any overlap, since put replaces whole
\* sessions: it holds in the store and in every copy about to be put there.
SessionsAreSound ==
  /\ \A c \in DOMAIN store : SessionOk(store[c])
  /\ \A h \in Handlers : handler[h] # Idle => SessionOk(handler[h].session)

Stored(c) == IF c \in DOMAIN store THEN store[c] ELSE NewSession

Lifecycle == INSTANCE CallLifecycle WITH
  Languages  <- Locale,
  NoLanguage <- NoLocale,
  place      <- [c \in Calls |-> PlaceOf(Stored(c))],
  language   <- [c \in Calls |-> SpokenIn(Stored(c))],
  known      <- DOMAIN store

\* Handler h puts a session without knowing of the last one put for its call.
Overwrites(h) ==
  /\ handler[h].at \in {"recover", "put"} /\ handler'[h] # handler[h] /\ store' # store
  /\ seen[h] # writes[handler[h].call]

\* Overlap for one call is all that is lost by the exchange of stores: every
\* step keeps to the call lifecycle (CallLifecycle.tla), as in one process,
\* unless it overwrites a put it has not seen.
LifecycleUnlessOverwritten ==
  [][(\E h \in Handlers : Overwrites(h)) \/ [Lifecycle!Next]_(Lifecycle!vars)]_vars

\* docs/ARCHITECTURE.md: with a shared store no caller of the store would need to
\* change.  In one process a call that has ended stays ended; here a menu webhook
\* that overlaps the hangup's puts its copy of the session over the ended one.
EndedStays ==
  [][\A c \in DOMAIN store : store[c].ended => c \in DOMAIN store' /\ store'[c].ended]_vars
=============================================================================
