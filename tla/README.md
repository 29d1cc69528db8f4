# A formal model of the Plivo IVR console

TLA+ modules for the IVR service in `app/` (a FastAPI program that answers Plivo's
webhooks), TLC configurations that check them on small instances, and proofs that TLAPS
checks for every value of the constants. Paths below are relative to the repository.

## The system

| Component | State it keeps | Operations | Talks to |
| --- | --- | --- | --- |
| IVR state machine (`app/ivr/machine.py`, `states.py`) | none: a function of session and event (it mutates the session it is given) | `advance` and its helpers | called by the service |
| XML documents (`app/telephony/xml_builder.py`, `prompts.py`, `app/ivr/handlers.py`) | none | `render` | called by the service |
| Call service (`app/calls/service.py`) | owns store, timeline, bus, rate limiter | `serve_otp_prompt`, `handle_webhook`, `finalize_call`, `register_outbound_call` | store, timeline, bus |
| Session store (`app/calls/store.py`) | dictionary from call id to session | `get`, `put`, `all_active`, `delete`, `evict_expired` | called by the service |
| Webhook routes (`app/api/routes_voice.py`, `routes_events.py`) | none | eleven POST handlers: parse the form, call the service, return the document | Plivo |
| Timeline, event bus, live feed (`app/observability/timeline.py`, `EventBus`, `app/api/routes_ws.py`) | last 50 events per call; a queue of 200 per socket | record, publish; replay then stream | service, browsers |
| Outbound trigger (`app/api/routes_calls.py`, `rate_limit.py`, `app/telephony/client.py`) | attempt times per destination | `place_call` | Plivo's REST API, service |
| Web console (`web/src`) | selected call, graph, timelines, documents, known states | apply live events, poll, select | `/ws/live`, `/api/calls` |
| Offline simulator (`scripts/simulate_call.py`) | none | posts what a leg would, from a table of its own | the routes |
| Call legs (Plivo and the caller; not in the repository) | the document being executed | post a webhook, wait, hang up | the routes |

Everything runs in one process on one asyncio event loop. Between reading its form and
returning, a webhook handler awaits nothing but the store's lock, and no holder of that
lock ever suspends; an uncontended `asyncio.Lock` is acquired without suspending. So a
handler's effect on the service is atomic, and what interleaves is whole webhooks - of
several calls, late ones, lost ones - and, in `/ws/live`, the sends of a replay. The store is
meant to be exchanged for one that does suspend (`docs/ARCHITECTURE.md`); then handlers interleave
at every call of it.

### What is hard, and what makes it correct

* **Any URL, any order.** Digits are interpreted by the session's state, not by the URL they
  are posted to, so protection is the state machine's. No sequence of webhooks may pass the
  code prompt, reach an action prompt without a language (`render` asserts one), or hang up
  on a caller whose call is not over.
* **Caller and server must agree.** A webhook may be lost, refused, answered too late, or
  handled after the hangup; the process may restart and forget every session. The document
  being played must still be the one of the session's state.
* **Ends.** A call that is over must be recorded as over and not be revived; a clip or
  transfer must come back, and never end the call.
* **Derived reports.** `_digits_will_advance` predicts what `advance` is about to do.
* **The feed.** A browser that connects mid call is sent a replay while new events are
  published; queues and timelines are bounded.
* **The page.** Events, answers that overtake each other and clicks write the same few variables.
* **A shared store.** Sessions are read, changed and put back whole; overlap for one call loses puts.
* **Tables kept twice.** The simulator, the graph's edges and `_digits_will_advance` each repeat a part of
  the state machine.

## Modules

| Module | What it is |
| --- | --- |
| `IvrMachine` | The pure part: session, events, `Advance` (one operator per helper of `machine.py`), `Render` and the documents. |
| `CallLifecycle` | The abstract specification: a caller at the gate, choosing a language, in the action menu, in a leaf, or ended; `Forget` is the restart. |
| `CallService` | Store, timeline and replies; one atomic action per webhook route; any webhook may arrive at any time. Refines `CallLifecycle`. |
| `CallFlow` | `CallService` composed with call legs, a network, restarts and the simulator's table: what can happen to whole calls. |
| `SharedStore`, `MCSharedStore` | The service's handlers cut at their awaits, over a store shared by instances that may die; compared with `CallLifecycle`. |
| `LiveFeed` | Bus, timelines and `/ws/live` sockets. |
| `Outbound`, `MCOutbound` | `POST /api/calls`: number normalisation, rate limiter, REST call, placeholder session, and the store's eviction by age. |
| `Console`, `MCConsole` | The browser page over a reduced server: live events, polls that overtake each other, clicks, a socket that comes and goes; the rows and the three panels. |
| `IvrMachineProofs` | Lemmas about `Advance` and `Render`, used by the modules with calls that follow. |
| `CallServiceProofs` | The theorems about `CallService`. |
| `CallFlowProofs`, `CallFlowAgreement` | The theorems about `CallFlow`: types and authentication; agreement of caller and server; how calls end. |
| `SharedStoreProofs` | The theorems about `SharedStore`. |
| `LiveFeedProofs`, `OutboundProofs`, `ConsoleProofs` | The theorems about `LiveFeed`, `Outbound` and `Console`. |

```
IvrMachine <- CallService (refines CallLifecycle) <- CallFlow
           <- SharedStore (refines CallLifecycle unless a put is overwritten)
           <- Console
LiveFeed        Outbound
```

Operators whose name contains `__` are wrong variants of the definition that follows
them. They show that a property can fail: put in place of the real one, the property
named beside it in `PROJECT.json` is violated.

### How the model corresponds to the code

*IvrMachine.* A session is a record of the fields that decide anything: `authenticated`
and `ended` stand for "the timestamp is not None". A digit string is a menu key, the
access code or one of `OtherDigits`; the settings accept a four digit code only, hence
`OtpCodeAssumption`. A document is its verb, the digits it collects, the URLs it
posts and redirects to, whether the answer to what it posts is followed (a Dial may say
no), its language, and which of the prompt's texts it speaks (the code prompt has four). The
clip has no language: it is one URL for everybody. Wording and voices are left out.

*CallService.* `sessions` is the store's dictionary, a function on the ids it holds;
`GetOrRecover` is `_get_or_recover_session`; `HandleWebhook` does what `handle_webhook` does
in its order, including the store before the render: a failed assertion leaves the
new state stored and the apology of the application's exception handler as the
reply. `reply` is the last XML answer given to each call. The outbound placeholder is a
session under an id no webhook carries. `Restart` empties store and timelines.

*CallFlow.* A leg is idle, waiting for the answer to one URL, playing a document, or over.
`PressDigits`, `Silence` and `DocumentEnds` post for the next document; `CallerHangsUp`,
`Goodbye` and a `GiveUp` end the leg and post `/events/hangup`; a `GiveUp` on the first
document posts `/events/fallback` instead. `DocumentEnds` reports the outcome of a transfer to its action URL and goes on to
the redirect; were the answer to the report followed, as `follows` says, there would be no next document, since `dial_status` answers
with an empty body, and the leg would be over. `Handle` runs the route of any request in
flight and hands the reply to the leg if the leg still waits for it and the response is
not lost. `entered` and `chosen` are history: who entered the code, and which language
each caller chose last, `left` who has hung up, `forgotten` which ended calls a restart lost. `EndpointByState` is the simulator's table;
`SimulatorFollowsDocuments` compares it with the document each leg plays.

*SharedStore.* A handler is idle or at one of its awaits on the store: `guard` (`get_session` in `/voice/language`),
`get` and `recover` (`_get_or_recover_session`), `put` (the end of `handle_webhook` and `finalize_call`); its record holds the
webhook and its own copy of the session. Each of `CheckGuard`, `Get`, `Recover`, `PutSession` is what the code does
from one await to the next, so what `Advance` makes of the copy is part of the step that got it.
`writes` and `seen` are history: a put overwrites when its handler does not know of the last one.
Events and replies are left out: they do not touch the store.

*LiveFeed.* An event is its position in `log`. `Connect` is everything up to the first
send: subscribe, list active calls, read the first history. `Enter`, `StartReplay` and `StartStream` are the loop over calls and its end. `Replay` and `Stream` are
one send each; between two of them anything may be published. A handler learns that
its client left when it next sends, as in the code.

*Outbound.* `callsAt` is the limiter's dictionary of attempt times, under the normalised number (`LimiterKey`): `Typed` is what
users type, `Normalize` the library's reading of it. `created` are the placeholders in the
store, `clock` the time in seconds; any number of requests may come at one instant. A request is one
atomic step with three outcomes: `PlaceCall`, `RestFails` (Plivo's client raises after the attempt was
counted), `Refuse`. `answers` is history: what each request was told. `Restart` empties the limiter and keeps what the old
process answered in `past`, since its calls have been placed. `EvictionRuns` says whether
something has started `run_eviction_loop`: nothing does, so it is FALSE for the program as it is.

*Console.* The server's side of the socket is the handler of `routes_ws.py`, as in `LiveFeed` but for one socket and with whole events:
`SocketOpens` subscribes, lists the active calls and reads the first history, `SendReplay` and `SendQueued` are one send each, with a
history read (`ReplayNext`) when the one before it has been sent; webhooks publish between any two sends, to the timelines and to a `queue`
of `QUEUE_SIZE` that drops its oldest event when it is full. `feed` is what is on its way to the page. `missed` is history: the calls whose latest event
the queue had to drop.

The page's side has one action per JavaScript handler, since handlers do not interleave: `HandleLiveEvent`, `Select`,
`PollTimer`, and `refreshCallList` cut at its `await` into `Refresh`, `AnswerFetch` (the server reads its store) and
`ApplyFetch`. `selected`, `known` and `lastDigits` are `selectedCallUuid`, `knownCallStates` and `lastDigitsByCall` of
`main.ts`; `highlighted` and `listed` the selection and rows of `call-list.ts`; `recorded` and `documents` the `perCall` of
`timeline.ts` and `xml-inspector.ts`; `taken` the edges `state-graph.ts` has marked per call, whose ends are its visited
nodes. `timeline`, `document` and `graph` are the panels: the call each was last drawn for, and what it shows. `pills` is
the digit pill on each edge, which is drawn once and stays whichever call is shown. On the server, a call's next
state is that of `IvrMachine`'s `Advance`, and each webhook publishes the events the service publishes; a state change carries,
for `PillsAreCauses` only, the digits of its webhook. A request for the list beyond `Fetches` fails at once, as requests may.

## Runs

| Run | Module | Shows |
| --- | --- | --- |
| `webhooks` | CallService | `OtpGate`, `LocaleMatchesState`, `EndedIffTerminal`, `GoodbyeOnlyWhenOver`, `DtmfReportAgrees` (digits reported accepted are followed by their state change, rejected ones by none), and the refinement `ImplementsLifecycle`, for any order of webhooks |
| `flow` | CallFlow | `Coherent`: what plays belongs to the session's state and attempt count; `HearsChosenLanguage`; `CodeWasEntered`; `SimulatorFollowsDocuments`; `StaysOnTheLine`: nobody is cut off while a document plays; `NoGhost` and `OverIsRecorded`: a call that is over ends and stays ended; `LeafResolves`; two restarts anywhere |
| `shared` | MCSharedStore | `SessionsAreSound`; `LifecycleUnlessOverwritten`: overlap for one call is all that a store that suspends costs |
| `feed` | LiveFeed | `QueueIsNewest`, `NothingMissed`, `CaughtUpIsCurrent`, `ResentOnlyIfRecent` (an event is sent twice at most, and only if it is recent and of a replayed call), and in the long run `CatchesUp`, `LeaversAreDropped` |
| `page` | MCConsole | `SelectionsAgree`, `PanelsAreOfSelected`: rows, timeline and document belong to one call however it was selected; `EdgesWereTaken`: the graph marks nothing a call did not do; `ChangesHaveEdges`: it lacks no edge of `advance`; `PageIsCurrent`: whatever was lost with a socket or published during a replay, a page that has caught up shows the latest document of every active call, unless the full queue dropped it; `KnownConverges`, `RowsConverge`: lost and dropped events, failed requests and overtaken answers do no lasting harm |
| `trigger` | MCOutbound | `WindowBound`: in no window, wherever it ends and however the number is spelled, does a process place more calls than the limit; `RefusedOnlyWhenBusy`: whoever lets a window pass is never refused, and destinations do not count against each other; `PlaceholdersAgeOut`, were the eviction loop started |
| `flow_completed` | CallFlow | violated: `CompletedIsFinal` |
| `shared_lost` | SharedStore | violated: `EndedStays` |
| `page_graph` | MCConsole | violated: `GraphIsOfSelected` |
| `page_pill` | MCConsole | violated: `PillsAreCauses` |
| `limit_calls` | MCOutbound | violated: `RefusalFollowsCalls` |
| `eviction_missing` | MCOutbound | violated: `PlaceholdersAgeOut`, for the program as it is |

### Bounds

`MaxAttempts` (3 or 4 where the texts of the code prompt matter: the text is the same from the
third attempt on), `MaxRestarts` (2: one restart can meet a leg in every phase, a second one
a recovered session), `MaxEvents` (6 with queues and timelines of 2, so both overflow while
a replay is in progress). Sockets share only the bus, which gives each its own queue, so one is enough
there, and the proofs have any number. One call is enough for the runs of `CallService` and `CallFlow` because calls share nothing but the dictionary and
`Restart`; that nothing one call does reaches the other - in `CodeWasEntered`, say - the runs therefore do not show, but the proofs do, which have any number
of calls, for every safety property there. In `SharedStore`, where handlers of two calls really interleave, the run has two.
`OtherDigits` needs one member; a timeline of three holds a menu turn.
`Outbound` allows two calls in a window of three seconds, with four requests (`MaxRequests`) to two
destinations, each number spelled in two ways, seven instants (`MaxClock`) and one restart (`MaxRestarts`): enough for a window to fill, expire in
part and fill again, and to fill on both sides of a restart.
`SharedStore` has two handlers (a lost put takes two) and five webhooks: four take one call to a leaf, and one more overlaps there, or both calls
get past the code.
`Console` has two calls and a placeholder, `MaxChanges` 2 (two changes of one call, which answers can be older
than, or one of each of two calls: up to six events), two requests for the list so that one can overtake the other, one lost socket (`MaxCloses`),
a server's timeline of two, a queue of two and a page's timeline of one, so that all of them overflow. One message is on its way to the page at a
time (`MaxOnWire`; the proofs have any number): the page handles messages in order, and what waits behind it waits in the queue. `page_pill` has the
four changes that lead through a clip instead. Two changes reach two of the seven edges of `advance`; `TheGraphHasEveryEdge` is about all of them.
The runs of `CallFlow`, `SharedStore`, `LiveFeed` and `Outbound` do not check for deadlock: when every leg is over, or the
events, requests or seconds of the bound are used up, the system really has nothing left to do.

### Fairness

`CallFlow`: Plivo plays documents to their end, does not wait for ever for a webhook, and repeats
the hangup report until it is taken; a request that is not lost is handled, since the event loop
serves every connection. Callers owe nothing. `LiveFeed`: a send to a client that is there
completes, and one to a client that is not raises; nobody owes an event or a connection. `Console`: the timer fires,
an answer that has arrived is applied, and a request for the list that is made again and again is at some point answered
(strong fairness of `AnswerFetch`: it may fail any number of times); nobody owes an event, a webhook, a click or a socket, so that the list
comes right by polling alone.

### Disagreements with the documentation

* **COMPLETED is not final.** `advance` on a terminal state returns FAILED (`machine.py:84`) and
  `handle_webhook` stores it, so a webhook still in flight at hangup turns a completed call into
  a failed one. The diagram in `docs/CALL_FLOW.md` has no arrow out of COMPLETED, nor FAILED.
* **The clip has one language.** `play_audio_document` takes the caller's locale and ignores it (`xml_builder.py:82-86`): there is one audio URL, and
  English and Spanish callers hear the same clip, where `README.md:88` says the language is "selected once and carried through the rest of the
  call". It is carried through every menu and the transfer (`HearsChosenLanguage`). No run states it: it follows from the document alone.
* **The limit is one process's.** The limiter is in memory (`rate_limit.py:20`), so a window with a restart in it may hold up to twice the limit.
  `WindowBound` is stated per process. No document promises otherwise.
* **Requests use up the rate limit, not calls.** `allow` records refused requests, and requests whose REST call
  then fails, so a destination that keeps being tried is refused without three calls having been placed to it.
* **The graph is not of the selected call.** `handleLiveEvent` draws every call's state change before it asks which
  call is selected; `StateGraph.render` says it renders "whichever call is currently selected". With two calls
  at once the graph shows one and the timeline and document the other.
* **A pill is not the digit that caused the change.** `lastDigitsByCall` is never cleared, so a clip or transfer that ends is
  drawn with the digit that started it (`main.ts:64`, against the comment of `applyTransition`).
* **A shared store is not a drop in replacement.** `docs/ARCHITECTURE.md` says no caller of the store would need to change. A
  menu webhook that overlaps the hangup's puts its copy over the ended session (`service.py:159`), and the call is active again.
  `LifecycleUnlessOverwritten` says how much of the one-process behaviour remains: all of it, but for such puts.
* **The end of a call is not drawn.** `call_ended` redraws nothing (`main.ts:67`), though step 11 of `docs/TESTING.md` asks to
  confirm that the graph shows it; it does after the row is clicked, while there is a row. No run states it: it
  follows from the handler alone.
* **Edges nobody takes.** `state-graph.ts` draws three edges into COMPLETED. The service publishes the end of a call as `call_ended`, never as
  a `state_change`, and `applyTransition` is called for state changes only. No run states it: it follows from the two handlers.
* **Nothing is ever evicted.** `run_eviction_loop` is never started; placeholders of placed calls stay in the list of
  active calls. Were it started it would go by the age of a session, not by idleness as `README.md` says.

That an event can be sent to a socket twice is not one of them: the socket subscribes before it replays on purpose, so as to
miss nothing. `ResentOnlyIfRecent` and `CaughtUpIsCurrent` say how often, and that a client which applies what it is sent in order
ends with the true state.

## Proofs

All in TLAPS, for every value of the constants that satisfies the named assumptions.

`IvrMachineProofs`. The key lemma is `AdvanceIsOk`: from a session that is `SessionOk`, `advance` makes one, and a
prompt that `render` accepts. `AdvanceIsAnArrow` says the transition is an arrow of the lifecycle or a stutter.

`CallServiceProofs`. The inductive invariant `IInv` is the conjunction of `TypeOK`, `OtpGate`,
`LocaleMatchesState` and `EndedIffTerminal`; per session it is `SessionOk`. The
conjuncts are not inductive one by one: `OtpGate` needs the types, so that every session is in one of the
states `advance` has a helper for, and that a prompt has its language needs `LocaleMatchesState`, which in
turn needs the gate, because a session that could reach a leaf unauthenticated need not have chosen a
language. Lemmas per kind of step (a menu turn, a code prompt, a hangup, a registration, a
restart) give `Invariance`, from which:

* `TypeCorrect`, `GateHolds`, `LocaleHolds`, `EndedHolds` - the four invariants;
* `GoodbyeHolds` - the action property: only a terminal session is told goodbye;
* `Refinement` - `Spec => CallLifecycle's Spec` under the refinement mapping `PlaceOf`, `SpokenIn`, `DOMAIN sessions`:
  `StoringAnArrowIsAStep` lifts `AdvanceIsAnArrow` from one session to the store;
* `ReportAgreesWithAdvance` - for every session at a menu and every digit string,
  `_digits_will_advance` holds exactly when `advance` changes the state;
* `ReportsHold` - the same over every timeline. `DtmfReportAgrees` is not inductive: a rejected digit at the very end of a
  timeline would be belied by a state change that came next. `Reports` adds that no digits of a menu are ever last,
  because a turn publishes its digits, its change and its document together; it survives the deque dropping its oldest events.

`CallFlowProofs`. `FInv` adds to `IInv` what may be in flight: a request carries digits only to a URL that reads them, and the
access code only if its caller entered it; and that the documents legs play post digits nowhere else, and go on to their redirect when a clip or
transfer is over. `LegsDriveTheService` proves `FlowSpec => Spec`, so
that all the theorems above hold of whole calls; `FlowTypes`, `NobodyElseLetsIn` and `NobodyIsCutOff` follow from `FInv`.

`CallFlowAgreement`. `Coherent` says nothing about requests on their way, each of which may change the session under the
caller. `Agreement` says, for every phase of a leg, what may be on its way: with a playing leg nothing the service would act
on; with a waiting leg at most the one request it waits for, which finds the session where the leg's document was, or no session
after a restart; with a leg on the apology also the answer webhook it gave up on. From it:
`CallerAndServerAgree`, `LanguageIsKept`, and `SimulatorPostsWhereALegDoes`, since the document of a state names its URLs.

How calls end is a second invariant there, `Ending`: while a call is over, at most one menu turn of it is still on its way, and its hangup report is
too, or its session has ended, or a restart forgot it and what is left is at the code prompt, or in the language
menu with no turn to come. `NoGhosts` follows.

`SharedStoreProofs`. `SInv` says of every handler that its copy is `SessionOk`, and that if it knows of every put to its call, the
put it is about to make is an arrow of the lifecycle from what is stored. A put that another overtook keeps the first part
and loses the second, which is why `SessionsStaySound` needs no proviso and `OnlyOverwritesLeaveTheLifecycle` does.
`TypeCorrect` takes the type of what is stored from `SInv`, whose sessions are sound, and adds `FramesOk`, the fields of a handler that `SInv` has no
use for.

`OutboundProofs`. The limiter remembers only what it has not pruned, so `OInv` ties its lists to `answers`, which forgets nothing:
`Chronological` (answers come in the order of their times, none from the future) and `Remembers` (the list is the times of
the last answers, and those before have left the window; a restart empties both, and `PastOk` keeps the bounds of the processes that are over).
Since times never go back, pruning drops a prefix (`RecentAreTheLast`), so the list is as long as the answers
in the window are many: `RefusedWhenBusy` follows at once. `Bounded` is the bound for windows that end in the future as well,
because the step that places a call makes every window that reaches it fuller, not only the one ending now. `PlaceholdersOk` says of the placeholders
what their type needs. From `Invariance`: `TypeCorrect`, `WindowsAreBounded`, `OnlyTheBusyAreRefused`. Nothing is proved of
`PlaceholdersAgeOut`: it is about a loop nothing starts, and the program as it is violates it.

`ConsoleProofs`. `SelectionsNeverPart`: `SelectionsAgree` is inductive and needs nothing of the server. The rest needs `CInv`:
`ServerOk` and `WireOk` say that timelines, queue and all that is replayed or on its way hold only events that could be `Told`, a state change only after its call
made it; `FetchOk` and `PageOk` that answers and what the page knows are states of some calls; `TakenOk` that marked edges
were made; `PanelsOk` that while nothing is selected there is nothing to show, without which `PanelsAreOfSelected` is not inductive:
the first event of any call selects it. From `Invariance`: `TypeCorrect`, `PanelsShowTheSelected`, `OnlyTakenEdgesAreMarked`.
`TheGraphHasEveryEdge` rests on `NextState`, a case split over `advance`, from any state and not only from sound sessions.

`ConnectedPagesAreCurrent` has an invariant of its own, `CurrentOk`: of every active call the last event published is a document, and
unless the queue dropped it, it is in the queue, or in a history still to be read, or the last of its call in what is being replayed or is on its
way, or nothing of the call is and the page shows it. `KeptEnds` says what publishing to a queue that may be full
leaves of that, `HeadMoves` what a send does, `ReplayIsCurrent` that reading a history makes good what an earlier socket lost.

`LiveFeedProofs`. `NothingMissed` is not inductive: publishing to a full queue loses an event. `SubscribedWhen` adds
that a queue never holds more than was published since its socket subscribed, so a queue that is full belongs to
a socket `NothingMissed` excuses, and `ReplayHasMore` that a replaying handler has something left to send.
`PublishStep` is the step that lengthens the log; `OtherSockets` reduces every other step to the one socket that
takes it. From `Invariance`: `TypeCorrect`, `QueuesKeepTheNewest`, `SocketsMissNothing`.

What a client was sent has a second invariant, `SentOk`, which needs the first. A client's sequence splits in two:
the first `n` events are its replay (`Replayed`: of the calls it watches, nothing twice), the rest came from its queue
(`Streamed`: rising, and newer than the subscription; `Following`: without a gap, as long as no overflow is possible).
While a history is replayed, `Replaying` says that what is left of it is newer than all already sent of its call, and
`LastOf` that every call whose history is done was sent last its newest event at the time. `TimelineOk` ties the
timelines to the log. The lemmas `...Stays` say that publishing disturbs none of this, `...OneMore` what one send does.
From `SentInvariance`: `ResentAtMostOnce` (an event that is sent twice is once in each part) and
`CaughtUpSocketsAreCurrent` (the latest event of a call is the last of its timeline: if it is newer than the
subscription it is in the second part, at its place; otherwise `LastOf` applies).

Only model-checked: liveness (`LeafResolves`, `OverIsRecorded`, `CatchesUp`, `LeaversAreDropped`, `KnownConverges`, `RowsConverge`).
Liveness, ENABLED and the library's induction theorems are out of the prover's reach; the project uses no RECURSIVE operator. Every safety property of a passing
run is the conclusion of a theorem, but for `PlaceholdersAgeOut`, whose hypothesis the program does not meet.

## Not modelled

Configuration parsing, logging, dependency wiring, the wording of prompts, the signature's HMAC (a
refused request is one that is lost), the parsing of numbers (`Normalize` is any reading), Docker and CI, the tests and
the simulator's printing, and the console's layout, animation, pretty-printing, form and connection lamp.
`DTMFEntry`/`dtmf_log` and `WebhookResult`'s consumers are
never read by the program; `delete` of the store and `upsert` of the call list have no caller. A leg that posts the same
webhook twice is in `CallService` (any webhook, any time),
not in `CallFlow`: there a repeated menu webhook can leave caller and server in different places, which is why
`Coherent` is stated for legs that post each request once. `SharedStore` has no bus: what a feed across instances
would need is not in the code.

## Plan

1. *(done)* `IvrMachine`, `CallService`, `CallLifecycle`, `CallFlow`, `LiveFeed`, `Outbound`, `Console`; proofs of `CallService`
   and `LiveFeed`.
2. *(done)* `SharedStore`; the document panel, edges and pills of `Console`; the simulator; the spelling of numbers; proofs of
   `CallFlow`, `SharedStore`, `ReportsHold`, and `SelectionsAgree`.
3. *(done)* Proofs of `ResentOnlyIfRecent` and `CaughtUpIsCurrent`.
4. *(done)* Proofs of the types of `SharedStore`, of `Outbound`, and of `Console`; `PageIsCurrent` and `ChangesHaveEdges`.
5. An abstract feed that `LiveFeed` and the feed of `Console` both implement, so that what is proved of one socket holds of the page.
