----------------------------- MODULE CallService -----------------------------
(***************************************************************************)
(* The webhook half of the program (app/calls/service.py with its store    *)
(* and timeline, driven by app/api/routes_voice.py and routes_events.py).  *)
(*                                                                         *)
(* A handler is one atomic action.  asyncio runs one handler at a time,    *)
(* and between reading the form and returning, a handler suspends only at  *)
(* the store's lock; no holder of that lock ever suspends, so acquiring it *)
(* never does either.                                                      *)
(*                                                                         *)
(* The environment is the widest there is: any webhook may arrive for any  *)
(* call at any time, which covers webhooks that are repeated, delayed,     *)
(* reordered, or posted for a call that is over.  CallFlow.tla narrows it  *)
(* to what a call leg that executes the served documents can send.         *)
(***************************************************************************)
EXTENDS IvrMachine, Sequences

CONSTANTS
  Calls,                \* Plivo CallUUIDs
  RequestUuids,         \* ids returned by the outbound REST call
  MAX_EVENTS_PER_CALL,  \* length of a call's timeline
  MaxAttempts           \* bound of the model: webhooks that would count more
                        \* failed attempts than this are not posted

\* DECISIONS.md 6: the answer webhook carries a different id than the REST call
\* that placed the call.
ASSUME IdsAssumption == Calls \cap RequestUuids = {}
ASSUME BoundsAssumption ==
  /\ MAX_EVENTS_PER_CALL \in Nat \ {0}
  /\ MaxAttempts \in Nat \ {0}

CallIds == Calls \cup RequestUuids

VARIABLES
  sessions,   \* the store's dictionary, from call ids to sessions
  timeline,   \* the last events recorded for each call
  reply       \* the last XML response to each call: endpoint and document

vars == <<sessions, timeline, reply>>

\* A dictionary with key k set to v.
Put(dict, k, v) ==
  [x \in DOMAIN dict \cup {k} |-> IF x = k THEN v ELSE dict[x]]

-----------------------------------------------------------------------------
(* Events *)

DtmfEvent(level, accepted) == [type |-> "dtmf", level |-> level, accepted |-> accepted]
StateChange(from, to)      == [type |-> "state_change", from |-> from, to |-> to]
XmlServed(endpoint)        == [type |-> "xml_served", endpoint |-> endpoint]
CallEnded                  == [type |-> "call_ended"]

CallEvent ==
  {DtmfEvent(l, a) : l \in CallState, a \in BOOLEAN}
    \cup {StateChange(f, t) : f \in CallState, t \in CallState}
    \cup {XmlServed(u) : u \in CallbackUrls}
    \cup {CallEnded}

\* deque(maxlen=n): appending to a full deque drops from the other end.
LastOf(seq, n) == IF Len(seq) <= n THEN seq ELSE SubSeq(seq, Len(seq) - n + 1, Len(seq))

Record__Unbounded(c, events) == timeline' = [timeline EXCEPT ![c] = @ \o events]

Record(c, events) ==
  timeline' = [timeline EXCEPT ![c] = LastOf(@ \o events, MAX_EVENTS_PER_CALL)]

-----------------------------------------------------------------------------
(* CallService *)

Init ==
  /\ sessions = [c \in {} |-> NewSession]
  /\ timeline = [c \in Calls |-> <<>>]
  /\ reply    = [c \in {} |-> [endpoint |-> NoUrl, document |-> ErrorDocument]]

\* An unknown id starts a fresh session.
GetOrRecover(c) == IF c \in DOMAIN sessions THEN sessions[c] ELSE NewSession

Served(c, endpoint, document) ==
  reply' = Put(reply, c, [endpoint |-> endpoint, document |-> document])

ServeOtpPrompt__Resets(c, endpoint) ==
  LET s == [GetOrRecover(c) EXCEPT !.state = "AWAITING_OTP", !.authenticated = FALSE]
  IN  /\ sessions' = Put(sessions, c, s)
      /\ Record(c, <<XmlServed(endpoint)>>)
      /\ Served(c, endpoint, Render(OtpPrompt(s.otp_attempts)))

\* The code prompt, without going through advance(): the session is stored (it
\* may be new) but does not change.
ServeOtpPrompt(c, endpoint) ==
  LET s == GetOrRecover(c)
  IN  /\ sessions' = Put(sessions, c, s)
      /\ Record(c, <<XmlServed(endpoint)>>)
      /\ Served(c, endpoint, Render(OtpPrompt(s.otp_attempts)))

DigitsWillAdvance__StaleKeys(s, d) ==
  CASE s.state = "AWAITING_OTP"  -> d = OtpCode
    [] s.state = "LANGUAGE_MENU" -> d \in {"1", "2"}
    [] s.state = "ACTION_MENU"   -> d \in {"1", "2"}
    [] OTHER                     -> FALSE

DigitsWillAdvance(s, d) ==
  CASE s.state = "AWAITING_OTP"  -> d = OtpCode
    [] s.state = "LANGUAGE_MENU" -> d \in {"1", "2"}
    [] s.state = "ACTION_MENU"   -> d \in {"1", "2", "9"}
    [] OTHER                     -> FALSE

\* One menu turn.  A prompt that cannot be rendered raises after the session
\* has been stored and the change published; the application's exception
\* handler then answers with the error document.
HandleWebhook(c, endpoint, e) ==
  LET s      == GetOrRecover(c)
      t      == Advance(s, e)
      dtmf   == IF e.kind = "digits"
                THEN <<DtmfEvent(s.state, DigitsWillAdvance(s, e.digits))>> ELSE <<>>
      change == IF t.session.state # s.state
                THEN <<StateChange(s.state, t.session.state)>> ELSE <<>>
      xml    == IF RenderFails(t.prompt) THEN <<>> ELSE <<XmlServed(endpoint)>>
  IN  /\ t.session.otp_attempts <= MaxAttempts
      /\ sessions' = Put(sessions, c, t.session)
      /\ Record(c, dtmf \o change \o xml)
      /\ Served(c, endpoint, IF RenderFails(t.prompt) THEN ErrorDocument ELSE Render(t.prompt))

FinalizeCall__StateOnly(c) ==
  /\ sessions' = Put(sessions, c, [GetOrRecover(c) EXCEPT !.state = "COMPLETED"])
  /\ Record(c, <<CallEnded>>)
  /\ UNCHANGED reply

FinalizeCall__Deletes(c) ==
  /\ sessions' = [x \in DOMAIN sessions \ {c} |-> sessions[x]]
  /\ Record(c, <<CallEnded>>)
  /\ UNCHANGED reply

FinalizeCall(c) ==
  /\ sessions' = Put(sessions, c,
                     [GetOrRecover(c) EXCEPT !.state = "COMPLETED", !.ended = TRUE])
  /\ Record(c, <<CallEnded>>)
  /\ UNCHANGED reply

\* The placeholder of a call that was just placed.  The REST call is made
\* without yielding to the event loop and returns an id not used before.
RegisterOutboundCall(r) ==
  /\ r \notin DOMAIN sessions
  /\ sessions' = Put(sessions, r, NewSession)
  /\ UNCHANGED <<timeline, reply>>

-----------------------------------------------------------------------------
(* Routes *)

Answer(c)             == ServeOtpPrompt(c, "/voice/answer")
Otp(c, d)             == HandleWebhook(c, "/voice/otp", DigitsInput(d))
OtpTimeout(c)         == HandleWebhook(c, "/voice/otp-timeout", NoInput)
LanguageTimeout(c)    == HandleWebhook(c, "/voice/language-timeout", NoInput)
Action(c, d)          == HandleWebhook(c, "/voice/action", DigitsInput(d))
ActionTimeout(c)      == HandleWebhook(c, "/voice/action-timeout", NoInput)
ActionMenu(c)         == HandleWebhook(c, "/voice/action-menu", ActionDone)
Hangup(c)             == FinalizeCall(c)
DialStatus(c)         == UNCHANGED vars

\* The guard on this URL: a call that is not authenticated gets the code prompt.
Language(c, d) ==
  IF c \in DOMAIN sessions /\ sessions[c].authenticated
  THEN HandleWebhook(c, "/voice/language", DigitsInput(d))
  ELSE ServeOtpPrompt(c, "/voice/language")

Fallback(c) ==
  /\ Served(c, "/events/fallback", ErrorDocument)
  /\ UNCHANGED <<sessions, timeline>>

\* The process dies and is started again: nothing is persisted.  What the
\* callers last heard is not the program's to lose.
Restart ==
  /\ sessions' = [c \in {} |-> NewSession]
  /\ timeline' = [c \in Calls |-> <<>>]
  /\ UNCHANGED reply

\* The handlers of the callback URLs that carry no digits, and of those that do.
Callback(c, url) ==
  CASE url = "/voice/answer"           -> Answer(c)
    [] url = "/voice/otp-timeout"      -> OtpTimeout(c)
    [] url = "/voice/language-timeout" -> LanguageTimeout(c)
    [] url = "/voice/action-timeout"   -> ActionTimeout(c)
    [] url = "/voice/action-menu"      -> ActionMenu(c)
    [] url = "/events/hangup"          -> Hangup(c)
    [] url = "/events/fallback"        -> Fallback(c)
    [] url = "/events/dial-status"     -> DialStatus(c)

DigitsCallback(c, url, d) ==
  CASE url = "/voice/otp"      -> Otp(c, d)
    [] url = "/voice/language" -> Language(c, d)
    [] url = "/voice/action"   -> Action(c, d)

Next ==
  \/ \E c \in Calls :
       \/ Answer(c) \/ OtpTimeout(c) \/ LanguageTimeout(c) \/ ActionTimeout(c)
       \/ ActionMenu(c) \/ Hangup(c) \/ Fallback(c)
       \/ \E d \in Digits : Otp(c, d) \/ Language(c, d) \/ Action(c, d)
  \/ \E r \in RequestUuids : RegisterOutboundCall(r)
  \/ Restart

Spec == Init /\ [][Next]_vars

-----------------------------------------------------------------------------
(* Properties *)

\* Every variable holds what the code can put there: sessions built by the
\* dataclass, timelines that never outgrow their deque, and replies that are
\* documents the XML builder can build.
TypeOK ==
  /\ DOMAIN sessions \subseteq CallIds
  /\ \A c \in DOMAIN sessions :
       sessions[c] \in CallSession /\ sessions[c].otp_attempts <= MaxAttempts
  /\ timeline \in [Calls -> Seq(CallEvent)]
  /\ \A c \in Calls : Len(timeline[c]) <= MAX_EVENTS_PER_CALL
  /\ DOMAIN reply \subseteq Calls
  /\ \A c \in DOMAIN reply : /\ reply[c].endpoint \in CallbackUrls
                             /\ reply[c].document \in Document

\* The code gate (/voice/language's guard and _advance_otp): whatever URL is
\* posted in whatever order, nothing past the code prompt is reached without the
\* code having been accepted, and an accepted code is never asked for again.
OtpGate ==
  \A c \in DOMAIN sessions :
    /\ sessions[c].state \in {"LANGUAGE_MENU", "ACTION_MENU"} \cup LeafStates
         => sessions[c].authenticated
    /\ sessions[c].state = "AWAITING_OTP" => ~sessions[c].authenticated

\* A session has a language exactly where the documents need one (the asserts of
\* render()): in the action menu and its leaves, and not before.
LocaleMatchesState ==
  \A c \in DOMAIN sessions :
    /\ sessions[c].state \in {"ACTION_MENU"} \cup LeafStates => sessions[c].locale \in Locale
    /\ sessions[c].state \in {"AWAITING_OTP", "LANGUAGE_MENU"}
         => sessions[c].locale = NoLocale

\* all_active() goes by ended_at and everything else by the state: the two never
\* disagree on whether a call is over.
EndedIffTerminal ==
  \A c \in DOMAIN sessions : sessions[c].ended <=> sessions[c].state \in TERMINAL_STATES

\* What the dtmf event reports is computed apart from advance() and before it
\* (_digits_will_advance).  In the timeline, digits reported as accepted are
\* followed by the state change they cause, and digits a menu rejects by none.
DtmfReportAgrees ==
  \A c \in Calls : \A i \in 1 .. Len(timeline[c]) :
    LET e == timeline[c][i]
        changes == /\ i < Len(timeline[c])
                   /\ timeline[c][i + 1].type = "state_change"
                   /\ timeline[c][i + 1].from = e.level
    IN  e.type = "dtmf" /\ e.level \in CollectingStates => (e.accepted <=> changes)

\* A caller whose call is not over is never told goodbye and hung up on by a
\* /voice URL: every menu turn ends in a prompt, whatever was posted (README:
\* silence and bad digits re-prompt instead of ending the call).
GoodbyeStep ==
  \A c \in DOMAIN reply' :
    /\ reply'[c].endpoint \in VoiceUrls
    /\ reply'[c].document = ErrorDocument
    => \/ c \in DOMAIN reply /\ reply'[c] = reply[c]
       \/ c \in DOMAIN sessions /\ sessions[c].ended

GoodbyeOnlyWhenOver == [][GoodbyeStep]_vars

Lifecycle == INSTANCE CallLifecycle WITH
  Calls      <- CallIds,
  Languages  <- Locale,
  NoLanguage <- NoLocale,
  place      <- [c \in CallIds |-> PlaceOf(GetOrRecover(c))],
  language   <- [c \in CallIds |-> SpokenIn(GetOrRecover(c))],
  known      <- DOMAIN sessions

\* The sessions implement the call lifecycle: every webhook, in any order, moves
\* a call along one of its arrows or leaves it where it is, and no call is ever
\* forgotten but by a restart, which forgets them all.
ImplementsLifecycle == Lifecycle!Spec
=============================================================================
