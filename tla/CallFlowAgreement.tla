-------------------------- MODULE CallFlowAgreement --------------------------
(***************************************************************************)
(* Proofs that caller and server agree, for any number of calls and of     *)
(* restarts: what a leg plays is a document of its session's state, in the *)
(* language its caller chose.  The invariant says what may be on its way   *)
(* for a call in each phase of its leg.                                    *)
(*                                                                         *)
(* Then, that a call that is over leaves no live session behind: while its *)
(* hangup report is on its way something is still to come, once it is      *)
(* handled the session has ended and nothing late revives it, and after a  *)
(* restart that forgot it the one late menu request there can be gets no   *)
(* further than the language menu.                                         *)
(***************************************************************************)
EXTENDS CallFlowProofs

-----------------------------------------------------------------------------
(* The invariant *)

\* The states of the session whose documents post to url.
StatesFor(url) ==
  CASE url \in {"/voice/otp", "/voice/otp-timeout"}           -> {"AWAITING_OTP"}
    [] url \in {"/voice/language", "/voice/language-timeout"} -> {"LANGUAGE_MENU"}
    [] url \in {"/voice/action", "/voice/action-timeout"}     -> {"ACTION_MENU"}
    [] url = "/voice/action-menu"                             -> LeafStates
    [] OTHER                                                  -> {}

MenuStates == {"ACTION_MENU"} \cup LeafStates

\* A leg that has not begun has no session and nothing on its way.
IdleOk(c) ==
  leg[c].phase = "idle" => c \notin DOMAIN sessions /\ \A r \in inbox : r.call # c

\* While a leg lives nobody has reported its end, and its session, if a restart
\* has not lost it, is not over and has the language its caller chose.
LiveOk(c) ==
  leg[c].phase \in {"waiting", "playing"} =>
    /\ \A r \in inbox : r.call = c => r.url # "/events/hangup"
    /\ c \in DOMAIN sessions =>
         /\ sessions[c].state \notin TERMINAL_STATES
         /\ sessions[c].state \in MenuStates => sessions[c].locale = chosen[c]

\* The one request a waiting leg has on its way, if any, finds the session where
\* the leg was, or no session, and a language key in it is the caller's choice.
WaitingOk(c) ==
  leg[c].phase = "waiting" /\ leg[c].awaits # "/events/fallback" =>
    \A r \in inbox : r.call = c /\ r.url # "/events/dial-status" =>
      /\ r.url = leg[c].awaits
      /\ \A q \in inbox : q.call = c /\ q.url = r.url => q = r
      /\ c \in DOMAIN sessions => sessions[c].state \in StatesFor(r.url)
      /\ r.url = "/voice/language" /\ r.digits \in DOMAIN LocaleOfKey
           => chosen[c] = LocaleOfKey[r.digits]

\* A leg that is to play the apology may have left its first request behind.
Apologised(c) ==
  \/ leg[c].phase = "waiting" /\ leg[c].awaits = "/events/fallback"
  \/ leg[c].phase = "playing" /\ leg[c].document = ErrorDocument

ApologyOk(c) ==
  Apologised(c) => \A r \in inbox : r.call = c =>
    r.url \in {"/voice/answer", "/events/fallback", "/events/dial-status"}

\* What the action menu and the transfer say is in the language chosen.
InChosenLanguage(doc, c) ==
  doc.action = "/voice/action" \/ doc.verb = "Dial" => doc.locale = chosen[c]

\* A leg that plays has nothing on its way that the service would act on.
PlayingOk(c) ==
  leg[c].phase = "playing" /\ leg[c].document # ErrorDocument =>
    /\ \A r \in inbox : r.call = c => r.url = "/events/dial-status"
    /\ c \in DOMAIN sessions => leg[c].document \in DocumentsFor(sessions[c])
    /\ \E s \in CallSession : SessionOk(s) /\ leg[c].document \in DocumentsFor(s)
    /\ InChosenLanguage(leg[c].document, c)

LegAgrees(c) == IdleOk(c) /\ LiveOk(c) /\ WaitingOk(c) /\ ApologyOk(c) /\ PlayingOk(c)

Agreement == DOMAIN chosen = Calls /\ \A c \in Calls : LegAgrees(c)

-----------------------------------------------------------------------------
(* Documents and the states they belong to *)

\* Whatever a document asks for next finds the session where the document was,
\* and what it plays in a language is in the session's.
LEMMA DocumentsBelong ==
  ASSUME NEW s, SessionOk(s), NEW doc \in DocumentsFor(s)
  PROVE  /\ doc # ErrorDocument
         /\ doc.verb \in {"GetDigits", "Play", "Dial"}
         /\ doc.verb = "GetDigits" => s.state \in StatesFor(doc.action)
         /\ s.state \in StatesFor(doc.redirect)
         /\ doc.verb = "Play" => doc.action = NoUrl
         /\ doc.verb = "Dial" => doc.action = "/events/dial-status"
         /\ doc.action = "/voice/action" \/ doc.verb = "Dial"
              => s.state \in MenuStates /\ doc.locale = s.locale
<1> USE DEF DocumentsFor, StatesFor, MenuStates, LeafStates, ErrorDocument, NoUrl
<1>1. CASE s.state = "AWAITING_OTP"
  BY <1>1 DEF OtpDocument, MenuDocument
<1>2. CASE s.state = "LANGUAGE_MENU"
  BY <1>2 DEF LanguageMenuDocument, MenuDocument
<1>3. CASE s.state = "ACTION_MENU"
  BY <1>3 DEF ActionMenuDocument, MenuDocument
<1>4. CASE s.state = "PLAYING_AUDIO"
  BY <1>4 DEF PlayAudioDocument
<1>5. CASE s.state = "TRANSFERRING"
  BY <1>5 DEF TransferDocument
<1>6. QED BY <1>1, <1>2, <1>3, <1>4, <1>5

\* A call that is neither over nor authenticated is asked for the code.
LEMMA OtpPromptBelongs ==
  ASSUME NEW s, SessionOk(s), s.state = "AWAITING_OTP"
  PROVE  Render(OtpPrompt(s.otp_attempts)) \in DocumentsFor(s)
BY DEF Render, OtpPrompt, DocumentsFor

\* What a turn leaves of the agreement: a live session, in the caller's language
\* where it has one, and a document of its state.
TurnOk(u, doc, l) ==
  /\ SessionOk(u)
  /\ u.state \notin TERMINAL_STATES
  /\ u.state \in MenuStates => u.locale = l
  /\ doc \in DocumentsFor(u)

LEMMA GotoDocument ==
  ASSUME NEW s \in CallSession, NEW next \in CallState, NEW prompt, NEW doc, NEW l,
         SessionOk(Goto(s, next, prompt).session),
         next \notin TERMINAL_STATES,
         next \in MenuStates => s.locale = l,
         doc = Render(prompt),
         CASE next = "AWAITING_OTP"  -> doc = OtpDocument(s.otp_attempts)
           [] next = "LANGUAGE_MENU" -> doc \in {LanguageMenuDocument(n) : n \in {0, 1}}
           [] next = "ACTION_MENU"   -> doc \in {ActionMenuDocument(s.locale, n) : n \in {0, 1}}
           [] next = "PLAYING_AUDIO" -> doc = PlayAudioDocument
           [] next = "TRANSFERRING"  -> doc = TransferDocument(s.locale)
           [] OTHER                  -> FALSE
  PROVE  TurnOk(Goto(s, next, prompt).session, Render(Goto(s, next, prompt).prompt), l)
<1> DEFINE t == Goto(s, next, prompt)
<1>1. /\ t.session.state = next /\ t.session.locale = s.locale
      /\ t.session.otp_attempts = s.otp_attempts /\ t.prompt = prompt
  BY GotoFields
<1> HIDE DEF t
<1>2. doc \in DocumentsFor(t.session)
  BY <1>1 DEF DocumentsFor
<1>3. QED BY <1>1, <1>2 DEF TurnOk, t

LEMMA TurnAgrees ==
  ASSUME NEW s, SessionOk(s), s.state \notin TERMINAL_STATES, NEW e \in InputEvent, NEW l,
         s.state \in MenuStates => s.locale = l,
         s.state = "LANGUAGE_MENU" =>
           \A d \in DOMAIN LocaleOfKey : e = DigitsInput(d) => l = LocaleOfKey[d]
  PROVE  TurnOk(Advance(s, e).session, Render(Advance(s, e).prompt), l)
<1> DEFINE t == Advance(s, e)
<1> USE DEF CallState, CollectingStates, LeafStates, TERMINAL_STATES, MenuStates
<1>a. s \in CallSession /\ s.state \in CallState /\ s.otp_attempts \in Nat
  BY DEF SessionOk, CallSession
<1>b. SessionOk(t.session)
  BY AdvanceIsOk
<1>c. Render(Prompt("language_menu", NoLocale)) = LanguageMenuDocument(0)
      /\ Render(Prompt("language_retry", NoLocale)) = LanguageMenuDocument(1)
  BY DEF Render, Prompt
<1>d. \A x : /\ Render(Prompt("action_menu", x)) = ActionMenuDocument(x, 0)
             /\ Render(Prompt("action_retry", x)) = ActionMenuDocument(x, 1)
             /\ Render(Prompt("play_audio", x)) = PlayAudioDocument
             /\ Render(Prompt("transfer", x)) = TransferDocument(x)
  BY DEF Render, Prompt
<1>1. CASE s.state = "AWAITING_OTP"
  <2>1. CASE e = DigitsInput(OtpCode)
    <3> DEFINE u == [s EXCEPT !.authenticated = TRUE]
    <3>1. t = Goto(u, "LANGUAGE_MENU", Prompt("language_menu", NoLocale))
      BY <1>1, <2>1 DEF Advance, AdvanceOtp
    <3>2. u \in CallSession
      BY <1>a DEF CallSession
    <3> HIDE DEF u
    <3>3. QED BY <1>b, <1>c, <3>1, <3>2, GotoDocument
  <2>2. CASE e # DigitsInput(OtpCode)
    <3> DEFINE n == s.otp_attempts + 1
               u == [s EXCEPT !.otp_attempts = n]
    <3>1. t = Goto(u, "AWAITING_OTP", OtpPrompt(n))
      BY <1>1, <2>2 DEF Advance, AdvanceOtp
    <3>2. u \in CallSession /\ u.otp_attempts = n
      BY <1>a DEF CallSession
    <3>3. Render(OtpPrompt(n)) = OtpDocument(n)
      BY DEF Render, OtpPrompt
    <3> HIDE DEF u, n
    <3>4. QED BY <1>b, <3>1, <3>2, <3>3, GotoDocument
  <2>3. QED BY <2>1, <2>2
<1>2. CASE s.state = "LANGUAGE_MENU"
  <2>1. ASSUME NEW d \in DOMAIN LocaleOfKey, e = DigitsInput(d)
        PROVE  TurnOk(t.session, Render(t.prompt), l)
    <3> DEFINE u == [s EXCEPT !.locale = l]
    <3>1. l = LocaleOfKey[d] /\ l \in AnyLocale
      BY <1>2, <2>1 DEF LocaleOfKey, AnyLocale, Locale
    <3>2. t = Goto(u, "ACTION_MENU", Prompt("action_menu", l))
      BY <1>2, <2>1, <3>1 DEF Advance, AdvanceLanguage, DigitsInput
    <3>3. u \in CallSession /\ u.locale = l
      BY <1>a, <3>1 DEF CallSession
    <3> HIDE DEF u
    <3>4. QED BY <1>b, <1>d, <3>2, <3>3, GotoDocument
  <2>2. CASE ~ \E d \in DOMAIN LocaleOfKey : e = DigitsInput(d)
    <3>1. t = Goto(s, "LANGUAGE_MENU", Prompt("language_retry", NoLocale))
      BY <1>2, <2>2 DEF Advance, AdvanceLanguage
    <3>2. QED BY <1>a, <1>b, <1>c, <3>1, GotoDocument
  <2>3. QED BY <2>1, <2>2
<1>3. CASE s.state = "ACTION_MENU"
  <2>1. CASE e = DigitsInput("9")
    <3> DEFINE u == [s EXCEPT !.locale = NoLocale]
    <3>1. t = Goto(u, "LANGUAGE_MENU", Prompt("language_menu", NoLocale))
      BY <1>3, <2>1 DEF Advance, AdvanceActionMenu, DigitsInput, ActionDone
    <3>2. u \in CallSession
      BY <1>a DEF CallSession, AnyLocale
    <3> HIDE DEF u
    <3>3. QED BY <1>b, <1>c, <3>1, <3>2, GotoDocument
  <2>2. CASE e # DigitsInput("9")
    <3>1. PICK next, id :
            /\ \/ next = "ACTION_MENU" /\ id \in {"action_menu", "action_retry"}
               \/ next = "PLAYING_AUDIO" /\ id = "play_audio"
               \/ next = "TRANSFERRING" /\ id = "transfer"
            /\ t = Goto(s, next, Prompt(id, s.locale))
      BY <1>3, <2>2 DEF Advance, AdvanceActionMenu
    <3>2. CASE next = "ACTION_MENU"
      BY <1>3, <1>a, <1>b, <1>d, <3>1, <3>2, GotoDocument
    <3>3. CASE next = "PLAYING_AUDIO"
      BY <1>3, <1>a, <1>b, <1>d, <3>1, <3>3, GotoDocument
    <3>4. CASE next = "TRANSFERRING"
      BY <1>3, <1>a, <1>b, <1>d, <3>1, <3>4, GotoDocument
    <3>5. QED BY <3>1, <3>2, <3>3, <3>4
  <2>3. QED BY <2>1, <2>2
<1>4. CASE s.state \in LeafStates
  <2>1. t = Goto(s, "ACTION_MENU", Prompt("action_menu", s.locale))
    BY <1>4 DEF Advance, AdvanceLeaf
  <2>2. QED BY <1>4, <1>a, <1>b, <1>d, <2>1, GotoDocument
<1>5. QED BY <1>1, <1>2, <1>3, <1>4, <1>a

-----------------------------------------------------------------------------
(* The steps of a leg *)

\* A call of which a step loses requests, or the session, and nothing else.
Quiet(c) ==
  /\ leg'[c] = leg[c] /\ chosen'[c] = chosen[c]
  /\ \A r \in inbox' : r.call = c => r \in inbox
  /\ c \in DOMAIN sessions' => c \in DOMAIN sessions /\ sessions'[c] = sessions[c]

LEMMA QuietIsOk ==
  ASSUME NEW c \in Calls, LegAgrees(c), Quiet(c)
  PROVE  LegAgrees(c)'
<1>1. IdleOk(c)'
  BY DEF LegAgrees, IdleOk, Quiet
<1>2. LiveOk(c)'
  BY DEF LegAgrees, LiveOk, Quiet
<1>3. WaitingOk(c)'
  BY DEF LegAgrees, WaitingOk, Quiet
<1>4. ApologyOk(c)'
  BY DEF LegAgrees, ApologyOk, Apologised, Quiet
<1>5. PlayingOk(c)'
  BY DEF LegAgrees, PlayingOk, InChosenLanguage, Quiet
<1>6. QED BY <1>1, <1>2, <1>3, <1>4, <1>5 DEF LegAgrees

\* A leg that is over owes nothing.
LEMMA OverIsOk ==
  ASSUME NEW c \in Calls, leg'[c].phase = "over"
  PROVE  LegAgrees(c)'
BY DEF LegAgrees, IdleOk, LiveOk, WaitingOk, ApologyOk, Apologised, PlayingOk

\* A leg that plays a document asks for the next one from where its session is.
LEMMA AskingAgrees ==
  ASSUME FInv, NEW c \in Calls, LegAgrees(c), NEW url \in AskedUrls, NEW d, NEW others,
         Ask(c, url, d, others), sessions' = sessions,
         leg[c].phase = "playing", leg[c].document # ErrorDocument,
         \A r \in others : r.url = "/events/dial-status",
         \A s : SessionOk(s) /\ leg[c].document \in DocumentsFor(s) => s.state \in StatesFor(url),
         \/ chosen'[c] = chosen[c] /\ ~(url = "/voice/language" /\ d \in DOMAIN LocaleOfKey)
         \/ url = "/voice/language" /\ d \in DOMAIN LocaleOfKey /\ chosen'[c] = LocaleOfKey[d]
  PROVE  LegAgrees(c)'
<1> USE DEF AskedUrls, VoiceUrls
<1>1. leg'[c] = Waiting(url)
  BY DEF FInv, LegsOk, Ask
<1>2. \A r \in inbox' : r.call = c => r.url = "/events/dial-status" \/ r = Req(c, url, d)
  BY DEF LegAgrees, PlayingOk, Ask
<1>3. c \in DOMAIN sessions => sessions[c].state \in StatesFor(url)
  <2>1. c \in DOMAIN sessions => SessionOk(sessions[c])
    BY IInvByVariable DEF FInv, StoreOk
  <2>2. c \in DOMAIN sessions => leg[c].document \in DocumentsFor(sessions[c])
    BY DEF LegAgrees, PlayingOk
  <2>3. QED BY <2>1, <2>2
<1>4. LiveOk(c)'
  <2>1. c \in DOMAIN sessions /\ url = "/voice/language" => sessions[c].state \notin MenuStates
    BY <1>3 DEF StatesFor, MenuStates, LeafStates
  <2>2. QED BY <1>1, <1>2, <2>1 DEF LegAgrees, LiveOk, Waiting, Req
<1>5. WaitingOk(c)'
  BY <1>1, <1>2, <1>3 DEF WaitingOk, Waiting, Req
<1>6. ApologyOk(c)'
  BY <1>1, <1>2 DEF ApologyOk, Apologised, Waiting, Req
<1>7. QED BY <1>1, <1>4, <1>5, <1>6 DEF LegAgrees, IdleOk, PlayingOk, Waiting

LEMMA AnsweringAgrees ==
  ASSUME FInv, NEW c \in Calls, LegAgrees(c), Answered(c)
  PROVE  LegAgrees(c)'
<1>1. leg'[c] = Waiting("/voice/answer")
  BY DEF FInv, LegsOk, Answered, Ask
<1>2. \A r \in inbox' : r.call = c => r = Req(c, "/voice/answer", NoDigits)
  BY DEF LegAgrees, IdleOk, Answered, Ask
<1>3. c \notin DOMAIN sessions'
  BY DEF LegAgrees, IdleOk, Answered, vars
<1>4. QED BY <1>1, <1>2, <1>3
           DEF LegAgrees, IdleOk, LiveOk, WaitingOk, ApologyOk, Apologised, PlayingOk, Waiting, Req

\* The fallback, with the first request perhaps still on its way.
LEMMA FallingBackAgrees ==
  ASSUME FInv, NEW c \in Calls, LegAgrees(c), GiveUp(c), leg[c].awaits = "/voice/answer"
  PROVE  LegAgrees(c)'
<1>1. leg'[c] = Waiting("/events/fallback") /\ sessions' = sessions /\ chosen' = chosen
  BY DEF FInv, LegsOk, GiveUp, Ask, vars, told
<1>2. \A r \in inbox' : r.call = c => r \in inbox \/ r = Req(c, "/events/fallback", NoDigits)
  BY DEF GiveUp, Ask
<1>3. \A r \in inbox : r.call = c => r.url \in {"/voice/answer", "/events/dial-status"}
  BY DEF LegAgrees, WaitingOk, GiveUp
<1>4. LiveOk(c)'
  BY <1>1, <1>2, <1>3 DEF LegAgrees, LiveOk, GiveUp, Req
<1>5. QED BY <1>1, <1>2, <1>3, <1>4
           DEF LegAgrees, IdleOk, WaitingOk, ApologyOk, Apologised, PlayingOk, Waiting, Req

-----------------------------------------------------------------------------
(* Handling a request *)

\* A webhook that leaves call c as a turn should.
TurnServed(c) ==
  /\ c \in DOMAIN sessions'
  /\ TurnOk(sessions'[c], reply'[c].document, chosen[c])

LEMMA MenuTurnServes ==
  ASSUME FInv, NEW c \in Calls, LiveOk(c), leg[c].phase \in {"waiting", "playing"},
         NEW url, NEW e \in InputEvent, HandleWebhook(c, url, e),
         c \in DOMAIN sessions /\ sessions[c].state = "LANGUAGE_MENU" =>
           \A d \in DOMAIN LocaleOfKey : e = DigitsInput(d) => chosen[c] = LocaleOfKey[d]
  PROVE  TurnServed(c)
<1> DEFINE s == GetOrRecover(c)
           t == Advance(s, e)
<1>1. SessionOk(s)
  BY IInvByVariable, GetOrRecoverIsOk DEF FInv
<1>2. /\ s.state \notin TERMINAL_STATES
      /\ s.state \in MenuStates => s.locale = chosen[c]
      /\ s.state = "LANGUAGE_MENU" =>
           \A d \in DOMAIN LocaleOfKey : e = DigitsInput(d) => chosen[c] = LocaleOfKey[d]
  BY DEF LiveOk, GetOrRecover, NewSession, TERMINAL_STATES, MenuStates, LeafStates
<1>3. TurnOk(t.session, Render(t.prompt), chosen[c])
  BY <1>1, <1>2, TurnAgrees
<1>4. ~RenderFails(t.prompt)
  BY <1>1, AdvanceIsOk
<1>5. /\ sessions' = Put(sessions, c, t.session)
      /\ reply' = Put(reply, c, [endpoint |-> url, document |-> Render(t.prompt)])
  BY <1>4 DEF HandleWebhook, Served
<1> HIDE DEF t
<1>6. c \in DOMAIN sessions' /\ sessions'[c] = t.session /\ reply'[c].document = Render(t.prompt)
  BY <1>5 DEF Put
<1>7. QED BY <1>3, <1>6 DEF TurnServed

\* The code prompt, for a call that is waiting for the code.
LEMMA OtpPromptServes ==
  ASSUME FInv, NEW c \in Calls, NEW url, ServeOtpPrompt(c, url),
         GetOrRecover(c).state = "AWAITING_OTP"
  PROVE  TurnServed(c)
<1> DEFINE s == GetOrRecover(c)
<1>1. SessionOk(s)
  BY IInvByVariable, GetOrRecoverIsOk DEF FInv
<1>2. TurnOk(s, Render(OtpPrompt(s.otp_attempts)), chosen[c])
  BY <1>1, OtpPromptBelongs DEF TurnOk, TERMINAL_STATES, MenuStates, LeafStates
<1>3. /\ sessions' = Put(sessions, c, s)
      /\ reply' = Put(reply, c, [endpoint |-> url, document |-> Render(OtpPrompt(s.otp_attempts))])
  BY DEF ServeOtpPrompt, Served
<1> HIDE DEF s
<1>4. /\ c \in DOMAIN sessions' /\ sessions'[c] = s
      /\ reply'[c].document = Render(OtpPrompt(s.otp_attempts))
  BY <1>3 DEF Put
<1>5. QED BY <1>2, <1>4 DEF TurnServed

\* The one request a leg waits for, when it is handled.
LEMMA AwaitedIsServed ==
  ASSUME FInv, NEW r \in inbox, LegAgrees(r.call), Handle(r),
         leg[r.call].phase = "waiting", leg[r.call].awaits # "/events/fallback",
         r.url # "/events/dial-status"
  PROVE  TurnServed(r.call)
<1> DEFINE c == r.call
           s == GetOrRecover(c)
<1>1. Posted(r, entered) /\ c \in Calls
  BY DEF FInv, InboxOk, Posted
<1>2. LiveOk(c) /\ r.url # "/events/hangup"
  BY DEF LegAgrees, LiveOk
<1>3. /\ r.url = leg[c].awaits
      /\ c \in DOMAIN sessions => sessions[c].state \in StatesFor(r.url)
      /\ r.url = "/voice/language" /\ r.digits \in DOMAIN LocaleOfKey
           => chosen[c] = LocaleOfKey[r.digits]
  BY DEF LegAgrees, WaitingOk
<1>4. r.url \in VoiceUrls
  BY <1>1, <1>2, <1>3 DEF FInv, LegsOk, AskedUrls
<1>5. r.digits = NoDigits => r.url \in PlainUrls
  BY <1>1, DigitsAssumption DEF Posted
<1>6. r.digits # NoDigits => r.url \in DigitUrls /\ r.digits \in Digits
  BY <1>1 DEF Posted
<1>7. c \notin DOMAIN sessions => s.state = "AWAITING_OTP"
  BY DEF GetOrRecover, NewSession
<1> USE DEF VoiceUrls, PlainUrls, CallbackUrls, EventUrls, DigitUrls
<1>8. CASE r.digits = NoDigits
  <2>a. Callback(c, r.url)
    BY <1>8 DEF Handle
  <2>b. /\ NoInput \in InputEvent /\ ActionDone \in InputEvent
        /\ \A d : NoInput # DigitsInput(d) /\ ActionDone # DigitsInput(d)
    BY DEF InputEvent, NoInput, ActionDone, DigitsInput
  <2>1. CASE r.url = "/voice/answer"
    <3>1. ServeOtpPrompt(c, "/voice/answer")
      BY <2>a, <2>1 DEF Callback, Answer
    <3>2. c \notin DOMAIN sessions
      BY <1>3, <2>1 DEF StatesFor
    <3>3. QED BY <1>1, <1>7, <3>1, <3>2, OtpPromptServes
  <2>2. CASE r.url # "/voice/answer"
    <3>1. HandleWebhook(c, r.url, NoInput) \/ HandleWebhook(c, r.url, ActionDone)
      BY <1>4, <1>5, <1>8, <2>a, <2>2
         DEF Callback, OtpTimeout, LanguageTimeout, ActionTimeout, ActionMenu
    <3>2. QED BY <1>1, <1>2, <2>b, <3>1, MenuTurnServes
  <2>3. QED BY <2>1, <2>2
<1>9. CASE r.digits # NoDigits
  <2> DEFINE d == r.digits
  <2>a. DigitsCallback(c, r.url, d) /\ DigitsInput(d) \in InputEvent
    BY <1>6, <1>9 DEF Handle, InputEvent
  <2>b. \A k : DigitsInput(d) = DigitsInput(k) => d = k
    BY DEF DigitsInput
  <2>1. CASE r.url = "/voice/language"
    <3>1. CASE HandleWebhook(c, r.url, DigitsInput(d))
      BY <1>1, <1>2, <1>3, <2>1, <2>a, <2>b, <3>1, MenuTurnServes
    <3>2. CASE /\ ~(c \in DOMAIN sessions /\ sessions[c].authenticated)
               /\ ServeOtpPrompt(c, "/voice/language")
      <4>1. c \in DOMAIN sessions => sessions[c].state = "LANGUAGE_MENU"
        BY <1>3, <2>1 DEF StatesFor
      <4>2. c \in DOMAIN sessions => SessionOk(sessions[c])
        BY IInvByVariable DEF FInv, StoreOk
      <4>3. c \notin DOMAIN sessions
        BY <3>2, <4>1, <4>2 DEF SessionOk
      <4>4. QED BY <1>1, <1>7, <3>2, <4>3, OtpPromptServes
    <3>3. QED BY <2>1, <2>a, <3>1, <3>2 DEF DigitsCallback, Language
  <2>2. CASE r.url # "/voice/language"
    <3>1. HandleWebhook(c, r.url, DigitsInput(d))
      BY <1>6, <1>9, <2>2, <2>a DEF DigitsCallback, Otp, Action
    <3>2. c \in DOMAIN sessions => sessions[c].state # "LANGUAGE_MENU"
      BY <1>3, <1>6, <1>9, <2>2 DEF StatesFor
    <3>3. QED BY <1>1, <1>2, <2>a, <3>1, <3>2, MenuTurnServes
  <2>3. QED BY <2>1, <2>2
<1>10. QED BY <1>8, <1>9

\* A handled request touches its own call only.
LEMMA HandlesItsOwn ==
  ASSUME FInv, NEW r \in inbox, Handle(r), NEW x \in Calls, x # r.call
  PROVE  /\ leg'[x] = leg[x]
         /\ (x \in DOMAIN sessions') = (x \in DOMAIN sessions)
         /\ x \in DOMAIN sessions => sessions'[x] = sessions[x]
<1> DEFINE c == r.call
<1>1. Posted(r, entered)
  BY DEF FInv, InboxOk
<1>2. \/ sessions' = sessions
      \/ \E s : sessions' = Put(sessions, c, s)
  <2> USE DEF PlainUrls, CallbackUrls, VoiceUrls, EventUrls, DigitUrls
  <2>1. CASE r.digits = NoDigits
    <3>1. r.url \in PlainUrls /\ Callback(c, r.url)
      BY <1>1, <2>1, DigitsAssumption DEF Posted, Handle
    <3>2. QED BY <3>1 DEF Callback, Answer, ServeOtpPrompt, OtpTimeout, LanguageTimeout,
                          ActionTimeout, ActionMenu, HandleWebhook, Hangup, FinalizeCall,
                          Fallback, DialStatus, vars
  <2>2. CASE r.digits # NoDigits
    <3>1. r.url \in DigitUrls /\ DigitsCallback(c, r.url, r.digits)
      BY <1>1, <2>2 DEF Posted, Handle
    <3>2. QED BY <3>1 DEF DigitsCallback, Otp, Language, Action, ServeOtpPrompt, HandleWebhook
  <2>3. QED BY <2>1, <2>2
<1>3. leg'[x] = leg[x]
  BY DEF Handle, FInv, LegsOk
<1>4. QED BY <1>2, <1>3 DEF Put

LEMMA HandlingAgrees ==
  ASSUME FInv, NEW r \in inbox, Handle(r), LegAgrees(r.call)
  PROVE  LegAgrees(r.call)'
<1> DEFINE c == r.call
<1>1. c \in Calls /\ Posted(r, entered)
  BY DEF FInv, InboxOk, Posted
<1>2. inbox' = inbox \ {r} /\ chosen' = chosen
  BY DEF Handle, told
<1>3. \/ leg'[c] = leg[c]
      \/ /\ leg[c].phase = "waiting" /\ leg[c].awaits = r.url
         /\ leg'[c] = Playing(reply'[c].document)
  BY <1>1 DEF Handle, FInv, LegsOk
<1>4. leg[c].phase # "idle"
  BY DEF LegAgrees, IdleOk
<1> DEFINE answered == leg[c].phase = "waiting" /\ leg[c].awaits # "/events/fallback"
<1>5. CASE leg[c].phase \notin {"idle", "waiting", "playing"}
  BY <1>3, <1>5 DEF LegAgrees, IdleOk, LiveOk, WaitingOk, ApologyOk, Apologised, PlayingOk
<1>6. CASE leg[c].phase \in {"waiting", "playing"} /\ r.url = "/events/dial-status"
  <2>1. r.digits = NoDigits
    BY <1>1, <1>6 DEF Posted, DigitUrls
  <2>2. sessions' = sessions
    BY <1>6, <2>1 DEF Handle, Callback, DialStatus, vars
  <2>3. leg'[c] = leg[c]
    BY <1>1, <1>3, <1>6 DEF FInv, LegsOk, AskedUrls, VoiceUrls
  <2>4. Quiet(c)
    BY <1>2, <2>2, <2>3 DEF Quiet
  <2>5. QED BY <1>1, <2>4, QuietIsOk
<1>7. CASE answered /\ r.url # "/events/dial-status"
  <2>1. TurnServed(c)
    BY <1>7, AwaitedIsServed
  <2>2. \A q \in inbox' : q.call = c => q.url = "/events/dial-status"
    BY <1>2, <1>7 DEF LegAgrees, WaitingOk
  <2>3. LiveOk(c)'
    BY <1>2, <2>1, <2>2 DEF TurnServed, TurnOk, LiveOk
  <2>4. CASE leg'[c] = leg[c]
    BY <1>7, <2>2, <2>3, <2>4 DEF LegAgrees, IdleOk, WaitingOk, ApologyOk, PlayingOk
  <2>5. CASE leg'[c] = Playing(reply'[c].document)
    <3>1. PICK s, doc : /\ s = sessions'[c] /\ SessionOk(s) /\ s \in CallSession
                        /\ doc = reply'[c].document /\ doc \in DocumentsFor(s)
                        /\ s.state \in MenuStates => s.locale = chosen[c]
      BY <2>1 DEF TurnServed, TurnOk, SessionOk
    <3>2. InChosenLanguage(doc, c)'
      BY <1>2, <3>1, DocumentsBelong DEF InChosenLanguage
    <3>3. leg'[c].document = doc
      BY <2>5, <3>1 DEF Playing
    <3>4. InChosenLanguage(leg[c].document, c)'
      BY <3>2, <3>3 DEF InChosenLanguage
    <3>5. PlayingOk(c)'
      BY <2>2, <3>1, <3>3, <3>4 DEF PlayingOk
    <3>6. QED BY <2>2, <2>3, <2>5, <3>5
              DEF LegAgrees, IdleOk, WaitingOk, ApologyOk, Playing
  <2>6. QED BY <1>3, <2>4, <2>5
<1>8. CASE Apologised(c) /\ r.url # "/events/dial-status"
  <2>1. r.url \in {"/voice/answer", "/events/fallback"} /\ r.digits = NoDigits
    BY <1>1, <1>8 DEF LegAgrees, ApologyOk, Posted, DigitUrls
  <2>2. CASE r.url = "/voice/answer"
    <3>1. leg'[c] = leg[c]
      BY <1>3, <1>8, <2>2 DEF Apologised
    <3>2. sessions' = Put(sessions, c, GetOrRecover(c))
      BY <2>1, <2>2 DEF Handle, Callback, Answer, ServeOtpPrompt
    <3>3. c \in DOMAIN sessions' /\ sessions'[c] = GetOrRecover(c)
      BY <3>2 DEF Put
    <3>4. LiveOk(c)'
      BY <1>2, <3>1, <3>3 DEF LegAgrees, LiveOk, GetOrRecover, NewSession, TERMINAL_STATES,
                              MenuStates, LeafStates
    <3>5. QED BY <1>2, <1>8, <3>1, <3>4
              DEF LegAgrees, IdleOk, WaitingOk, ApologyOk, Apologised, PlayingOk
  <2>3. CASE r.url = "/events/fallback"
    <3>1. sessions' = sessions
      BY <2>1, <2>3 DEF Handle, Callback, Fallback
    <3>2. CASE leg'[c] = leg[c]
      <4>1. Quiet(c)
        BY <1>2, <3>1, <3>2 DEF Quiet
      <4>2. QED BY <1>1, <4>1, QuietIsOk
    <3>3. CASE /\ leg[c].phase = "waiting"
               /\ leg'[c] = Playing(reply'[c].document)
      <4>1. reply'[c].document = ErrorDocument
        BY <2>1, <2>3 DEF Handle, Callback, Fallback, Served, Put
      <4>2. QED BY <1>2, <1>8, <3>1, <3>3, <4>1
                DEF LegAgrees, IdleOk, LiveOk, WaitingOk, ApologyOk, Apologised, PlayingOk,
                    Playing
    <3>4. QED BY <1>3, <3>2, <3>3
  <2>4. QED BY <2>1, <2>2, <2>3
<1>9. CASE leg[c].phase = "playing" /\ leg[c].document # ErrorDocument
  <2>1. r.url = "/events/dial-status"
    BY <1>9 DEF LegAgrees, PlayingOk
  <2>2. QED BY <1>6, <1>9, <2>1
<1>10. QED BY <1>4, <1>5, <1>6, <1>7, <1>8, <1>9 DEF Apologised

-----------------------------------------------------------------------------
(* Theorems *)

LEMMA FlowInitAgrees == FlowInit => Agreement
BY DEF FlowInit, Init, Agreement, LegAgrees, IdleOk, LiveOk, WaitingOk, ApologyOk,
       Apologised, PlayingOk, Idle

LEMMA FlowStepAgrees ==
  ASSUME FInv, Agreement, [FlowNext]_flowVars
  PROVE  Agreement'
<1> SUFFICES ASSUME NEW x \in Calls  PROVE LegAgrees(x)'
  <2>1. DOMAIN chosen' = Calls
    BY DEF Agreement, FlowNext, flowVars, told, Answered, PressDigits, Silence, DocumentEnds,
           CallerHangsUp, Goodbye, GiveUp, End, Lose, Handle, ProcessRestarts
  <2>2. QED BY <2>1 DEF Agreement
<1>a. LegAgrees(x)
  BY DEF Agreement
<1>b. DOMAIN leg = Calls /\ \A c \in Calls : leg[c].phase = "waiting" => leg[c].awaits \in AskedUrls
  BY DEF FInv, LegsOk
<1>c. ASSUME NEW c \in Calls, NEW url, NEW d, NEW others, Ask(c, url, d, others), UNCHANGED vars,
             \A r \in others : r.call = c, chosen'[x] = chosen[x], x # c
      PROVE  Quiet(x)
  BY <1>b, <1>c DEF Ask, Req, Quiet, vars
<1>d. ASSUME NEW c \in Calls, leg[c].phase = "playing", leg[c].document.verb # "Hangup"
      PROVE  /\ leg[c].document # ErrorDocument
             /\ leg[c].document.redirect \in AskedUrls \ DigitUrls
             /\ leg[c].document.verb = "GetDigits" => leg[c].document.action \in DigitUrls
  BY <1>d DEF FInv, LegsOk, Playable, ErrorDocument, AskedUrls
<1>1. ASSUME NEW c \in Calls, Answered(c)
      PROVE  LegAgrees(x)'
  <2>1. CASE x = c
    BY <1>a, <1>1, <2>1, AnsweringAgrees
  <2>2. CASE x # c
    BY <1>a, <1>c, <1>1, <2>2, QuietIsOk DEF Answered, told
  <2>3. QED BY <2>1, <2>2
<1>2. ASSUME NEW c \in Calls, NEW d \in Digits, PressDigits(c, d)
      PROVE  LegAgrees(x)'
  <2> DEFINE doc == leg[c].document
  <2>a. /\ leg[c].phase = "playing" /\ doc.verb = "GetDigits"
        /\ Ask(c, doc.action, d, {}) /\ UNCHANGED vars
        /\ chosen' = IF doc.action = "/voice/language" /\ d \in DOMAIN LocaleOfKey
                     THEN [chosen EXCEPT ![c] = LocaleOfKey[d]] ELSE chosen
    BY <1>2 DEF PressDigits
  <2>b. DOMAIN chosen = Calls
    BY DEF Agreement
  <2>1. CASE x = c
    <3>1. doc # ErrorDocument /\ doc.action \in AskedUrls
      BY <1>d, <2>a DEF AskedUrls, VoiceUrls, DigitUrls
    <3>2. \A s : SessionOk(s) /\ doc \in DocumentsFor(s) => s.state \in StatesFor(doc.action)
      BY <2>a, DocumentsBelong
    <3>3. QED BY <1>a, <2>a, <2>b, <2>1, <3>1, <3>2, AskingAgrees DEF vars
  <2>2. CASE x # c
    BY <1>a, <1>c, <2>a, <2>2, QuietIsOk
  <2>3. QED BY <2>1, <2>2
<1>3. ASSUME NEW c \in Calls, Silence(c) \/ DocumentEnds(c)
      PROVE  LegAgrees(x)'
  <2> DEFINE doc == leg[c].document
  <2>1. PICK others :
          /\ leg[c].phase = "playing" /\ doc.verb # "Hangup"
          /\ Ask(c, doc.redirect, NoDigits, others) /\ UNCHANGED <<vars, told>>
          /\ \A r \in others : r = Req(c, doc.action, NoDigits) /\ doc.action # NoUrl
                               /\ doc.verb \in {"Play", "Dial"}
    BY <1>3, LeavesHandBack DEF Silence, DocumentEnds
  <2>2. CASE x = c
    <3>1. doc # ErrorDocument /\ doc.redirect \in AskedUrls \ DigitUrls
      BY <1>d, <2>1
    <3>2. \A s : SessionOk(s) /\ doc \in DocumentsFor(s) => s.state \in StatesFor(doc.redirect)
      BY DocumentsBelong
    <3>3. \E s : SessionOk(s) /\ doc \in DocumentsFor(s)
      BY <1>a, <2>1, <2>2, <3>1 DEF LegAgrees, PlayingOk
    <3>4. \A r \in others : r.url = "/events/dial-status"
      BY <2>1, <3>3, DocumentsBelong DEF Req
    <3>5. QED BY <1>a, <2>1, <2>2, <3>1, <3>2, <3>4, AskingAgrees DEF vars, told, DigitUrls
  <2>3. CASE x # c
    BY <1>a, <1>c, <2>1, <2>3, QuietIsOk DEF Req, told
  <2>4. QED BY <2>2, <2>3
<1>4. ASSUME NEW c \in Calls, End(c, {}), UNCHANGED <<vars, chosen>>
      PROVE  LegAgrees(x)'
  <2>1. CASE x = c
    BY <1>b, <1>4, <2>1, OverIsOk DEF End, Over
  <2>2. CASE x # c
    <3>1. Quiet(x)
      BY <1>b, <1>4, <2>2 DEF End, Req, Quiet, vars
    <3>2. QED BY <1>a, <3>1, QuietIsOk
  <2>3. QED BY <2>1, <2>2
<1>5. ASSUME NEW c \in Calls, GiveUp(c)
      PROVE  LegAgrees(x)'
  <2>1. CASE leg[c].awaits = "/voice/answer" /\ x = c
    BY <1>a, <1>5, <2>1, FallingBackAgrees
  <2>2. CASE leg[c].awaits = "/voice/answer" /\ x # c
    BY <1>a, <1>c, <1>5, <2>2, QuietIsOk DEF GiveUp, told
  <2>3. CASE leg[c].awaits # "/voice/answer"
    BY <1>4, <1>5, <2>3 DEF GiveUp, told
  <2>4. QED BY <2>1, <2>2, <2>3
<1>6. ASSUME NEW r \in inbox, Lose(r)
      PROVE  LegAgrees(x)'
  <2>1. Quiet(x)
    BY <1>6 DEF Lose, Quiet, vars, told
  <2>2. QED BY <1>a, <2>1, QuietIsOk
<1>7. ASSUME NEW r \in inbox, Handle(r)
      PROVE  LegAgrees(x)'
  <2>1. CASE x = r.call
    BY <1>a, <1>7, <2>1, HandlingAgrees
  <2>2. CASE x # r.call
    <3>1. Quiet(x)
      BY <1>7, <2>2, HandlesItsOwn DEF Handle, Quiet, told
    <3>2. QED BY <1>a, <3>1, QuietIsOk
  <2>3. QED BY <2>1, <2>2
<1>8. CASE ProcessRestarts
  <2>1. Quiet(x)
    BY <1>8 DEF ProcessRestarts, Restart, Quiet, told
  <2>2. QED BY <1>a, <2>1, QuietIsOk
<1>9. CASE UNCHANGED flowVars
  <2>1. Quiet(x)
    BY <1>9 DEF flowVars, Quiet, vars, told
  <2>2. QED BY <1>a, <2>1, QuietIsOk
<1>10. CASE \E c \in Calls : CallerHangsUp(c) \/ Goodbye(c)
  BY <1>4, <1>10 DEF CallerHangsUp, Goodbye, told
<1>11. QED BY <1>1, <1>2, <1>3, <1>5, <1>6, <1>7, <1>8, <1>9, <1>10 DEF FlowNext

THEOREM AgreementInvariance == FlowSpec => [](FInv /\ Agreement)
<1>1. FInv /\ Agreement /\ [FlowNext]_flowVars => (FInv /\ Agreement)'
  BY FlowStepIsOk, FlowStepAgrees
<1>2. QED BY <1>1, FlowInitIsOk, FlowInitAgrees, PTL DEF FlowSpec

\* Whatever is lost, late or answered after the leg has moved on, and however
\* often the process restarts, a leg plays a document of its session's state.
THEOREM CallerAndServerAgree == FlowSpec => []Coherent
<1>1. Agreement => Coherent
  BY DEF Agreement, LegAgrees, PlayingOk, Coherent
<1>2. QED BY <1>1, AgreementInvariance, PTL

\* The language chosen is the one spoken in every later menu and in the transfer.
THEOREM LanguageIsKept == FlowSpec => []HearsChosenLanguage
<1>1. Agreement => HearsChosenLanguage
  BY DEF Agreement, LegAgrees, PlayingOk, InChosenLanguage, HearsChosenLanguage,
         ErrorDocument, NoUrl
<1>2. QED BY <1>1, AgreementInvariance, PTL

\* The offline simulator posts where a leg would.
THEOREM SimulatorPostsWhereALegDoes == FlowSpec => []SimulatorFollowsDocuments
<1>1. ASSUME NEW s, SessionOk(s), NEW doc \in DocumentsFor(s)
      PROVE  /\ doc.verb = "GetDigits" => doc.action = SimulatedUrls(s.state)[1]
             /\ doc.redirect = SimulatedUrls(s.state)[2]
  <2> USE DEF CollectingStates
  <2>1. CASE s.state = "AWAITING_OTP"
    BY <2>1 DEF DocumentsFor, OtpDocument, MenuDocument, SimulatedUrls, EndpointByState
  <2>2. CASE s.state = "LANGUAGE_MENU"
    BY <2>2 DEF DocumentsFor, LanguageMenuDocument, MenuDocument, SimulatedUrls, EndpointByState
  <2>3. CASE s.state = "ACTION_MENU"
    BY <2>3 DEF DocumentsFor, ActionMenuDocument, MenuDocument, SimulatedUrls, EndpointByState
  <2>4. CASE s.state = "PLAYING_AUDIO"
    BY <2>4 DEF DocumentsFor, PlayAudioDocument, SimulatedUrls
  <2>5. CASE s.state = "TRANSFERRING"
    BY <2>5 DEF DocumentsFor, TransferDocument, SimulatedUrls
  <2>6. QED BY <2>1, <2>2, <2>3, <2>4, <2>5 DEF DocumentsFor
<1>2. ASSUME FInv, Agreement, NEW c \in Calls, c \in DOMAIN sessions,
             leg[c].phase = "playing", leg[c].document # ErrorDocument
      PROVE  SessionOk(sessions[c]) /\ leg[c].document \in DocumentsFor(sessions[c])
  BY <1>2, IInvByVariable DEF FInv, StoreOk, Agreement, LegAgrees, PlayingOk
<1>3. FInv /\ Agreement => SimulatorFollowsDocuments
  BY <1>1, <1>2 DEF SimulatorFollowsDocuments
<1>4. QED BY <1>3, AgreementInvariance, PTL

-----------------------------------------------------------------------------
(* How calls end: the invariant *)

\* A request that is a menu turn.
Turn(r) == r.url \in VoiceUrls \ {"/voice/answer"}

ReportPending(c) == \E q \in inbox : q.call = c /\ q.url = "/events/hangup"

\* A session that late requests made after a restart forgot the call.
GhostOk(c) ==
  /\ c \in forgotten
  /\ \/ GetOrRecover(c).state = "AWAITING_OTP"
     \/ GetOrRecover(c).state = "LANGUAGE_MENU" /\ \A r \in inbox : r.call = c => ~Turn(r)

EndingOk(c) ==
  leg[c].phase = "over" =>
    /\ \A p, q \in inbox : p.call = c /\ q.call = c /\ Turn(p) /\ Turn(q) => p = q
    /\ ReportPending(c) \/ IsEnded(c) \/ GhostOk(c)

Ending == \A c \in Calls : EndingOk(c)

-----------------------------------------------------------------------------
(* How calls end: steps *)

\* A call that a step loses nothing of but requests that are no hangup report.
Unheard(c) ==
  /\ leg'[c] = leg[c]
  /\ \A r \in inbox' : r.call = c => r \in inbox
  /\ ReportPending(c) => ReportPending(c)'
  /\ (c \in DOMAIN sessions') = (c \in DOMAIN sessions)
  /\ c \in DOMAIN sessions => sessions'[c] = sessions[c]
  /\ forgotten \subseteq forgotten'

LEMMA UnheardIsOk ==
  ASSUME NEW c \in Calls, EndingOk(c), Unheard(c)
  PROVE  EndingOk(c)'
BY DEF EndingOk, Unheard, GhostOk, IsEnded, GetOrRecover

\* A leg that lives has at most one menu turn on its way.
LEMMA OneTurnAtMost ==
  ASSUME NEW c \in Calls, LegAgrees(c), leg[c].phase \in {"waiting", "playing"},
         NEW p \in inbox, NEW q \in inbox, p.call = c, q.call = c, Turn(p), Turn(q)
  PROVE  p = q
<1> USE DEF Turn, VoiceUrls
<1>1. CASE Apologised(c)
  BY <1>1 DEF LegAgrees, ApologyOk
<1>2. CASE leg[c].phase = "waiting" /\ leg[c].awaits # "/events/fallback"
  BY <1>2 DEF LegAgrees, WaitingOk
<1>3. CASE leg[c].phase = "playing" /\ leg[c].document # ErrorDocument
  BY <1>3 DEF LegAgrees, PlayingOk
<1>4. QED BY <1>1, <1>2, <1>3 DEF Apologised

LEMMA EndingEnds ==
  ASSUME FInv, NEW c \in Calls, LegAgrees(c), leg[c].phase \in {"waiting", "playing"},
         End(c, {})
  PROVE  EndingOk(c)'
<1>1. Req(c, "/events/hangup", NoDigits) \in inbox'
  BY DEF End
<1>2. ReportPending(c)'
  BY <1>1 DEF ReportPending, Req
<1>3. \A r \in inbox' : Turn(r) => r \in inbox
  BY DEF End, Turn, Req, VoiceUrls
<1>4. \A p, q \in inbox' : p.call = c /\ q.call = c /\ Turn(p) /\ Turn(q) => p = q
  BY <1>3, OneTurnAtMost
<1>5. QED BY <1>2, <1>4 DEF EndingOk, Turn

\* A menu turn of a call that is over leaves it over, and one of a call that
\* waits for the code takes it to the language menu at most.
LEMMA LateTurn ==
  ASSUME FInv, NEW c \in Calls, NEW url, NEW e \in InputEvent, HandleWebhook(c, url, e)
  PROVE  /\ c \in DOMAIN sessions'
         /\ IsEnded(c) => sessions'[c].ended
         /\ GetOrRecover(c).state = "AWAITING_OTP"
              => sessions'[c].state \in {"AWAITING_OTP", "LANGUAGE_MENU"}
<1> DEFINE s == GetOrRecover(c)
           t == Advance(s, e).session
<1>1. SessionOk(s) /\ SessionOk(t)
  BY IInvByVariable, GetOrRecoverIsOk, AdvanceIsOk DEF FInv
<1>2. Arrow(s, t)
  BY <1>1, AdvanceIsAnArrow
<1>3. IsEnded(c) => t.ended
  BY <1>1, <1>2 DEF IsEnded, GetOrRecover, SessionOk, Arrow, PlaceOf, LeafStates,
                    TERMINAL_STATES, CallSession, CallState, CollectingStates
<1>4. s.state = "AWAITING_OTP" => t.state \in {"AWAITING_OTP", "LANGUAGE_MENU"}
  BY <1>1 DEF Advance, AdvanceOtp, Goto, SessionOk, CallSession
<1>5. sessions' = Put(sessions, c, t)
  BY DEF HandleWebhook
<1> HIDE DEF t
<1>6. QED BY <1>3, <1>4, <1>5 DEF Put

\* What a handled request makes of its call's session.
LEMMA HandledSession ==
  ASSUME FInv, NEW r \in inbox, Handle(r), r.url # "/events/hangup"
  PROVE  \/ sessions' = sessions /\ ~Turn(r)
         \/ /\ sessions' = Put(sessions, r.call, GetOrRecover(r.call))
            /\ ~Turn(r) \/ GetOrRecover(r.call).state # "LANGUAGE_MENU"
         \/ Turn(r) /\ \E url : \E e \in InputEvent : HandleWebhook(r.call, url, e)
<1> DEFINE c == r.call
<1>1. Posted(r, entered) /\ c \in Calls
  BY DEF FInv, InboxOk, Posted
<1> USE DEF PlainUrls, CallbackUrls, VoiceUrls, EventUrls, DigitUrls, Turn
<1>2. CASE r.digits = NoDigits
  <2>1. r.url \in PlainUrls /\ Callback(c, r.url)
    BY <1>1, <1>2, DigitsAssumption DEF Posted, Handle
  <2>2. NoInput \in InputEvent /\ ActionDone \in InputEvent
    BY DEF InputEvent
  <2>3. CASE r.url = "/voice/answer"
    BY <2>1, <2>3 DEF Callback, Answer, ServeOtpPrompt
  <2>4. CASE r.url \in EventUrls
    BY <2>1, <2>4 DEF Callback, Fallback, DialStatus, vars
  <2>5. CASE r.url \notin EventUrls \cup {"/voice/answer"}
    <3>1. HandleWebhook(c, r.url, NoInput) \/ HandleWebhook(c, r.url, ActionDone)
      BY <2>1, <2>5 DEF Callback, OtpTimeout, LanguageTimeout, ActionTimeout, ActionMenu
    <3>2. QED BY <2>1, <2>2, <2>5, <3>1
  <2>6. QED BY <2>3, <2>4, <2>5
<1>3. CASE r.digits # NoDigits
  <2> DEFINE d == r.digits
  <2>1. r.url \in DigitUrls /\ DigitsCallback(c, r.url, d) /\ DigitsInput(d) \in InputEvent
    BY <1>1, <1>3 DEF Posted, Handle, InputEvent
  <2>2. CASE \E url : HandleWebhook(c, url, DigitsInput(d))
    BY <2>1, <2>2
  <2>3. CASE /\ ~(c \in DOMAIN sessions /\ sessions[c].authenticated)
             /\ ServeOtpPrompt(c, "/voice/language")
    <3>1. SessionOk(GetOrRecover(c))
      BY <1>1, IInvByVariable, GetOrRecoverIsOk DEF FInv
    <3>2. ~GetOrRecover(c).authenticated
      BY <2>3 DEF GetOrRecover, NewSession
    <3>3. GetOrRecover(c).state # "LANGUAGE_MENU"
      BY <3>1, <3>2 DEF SessionOk
    <3>4. QED BY <2>3, <3>3 DEF ServeOtpPrompt
  <2>4. QED BY <2>1, <2>2, <2>3 DEF DigitsCallback, Otp, Language, Action
<1>4. QED BY <1>2, <1>3

LEMMA HandlingEnds ==
  ASSUME FInv, NEW r \in inbox, Handle(r), EndingOk(r.call), leg[r.call].phase = "over"
  PROVE  EndingOk(r.call)'
<1> DEFINE c == r.call
<1>1. Posted(r, entered) /\ c \in Calls
  BY DEF FInv, InboxOk, Posted
<1>2. inbox' = inbox \ {r} /\ forgotten' = forgotten
  BY DEF Handle, crashes
<1>3. \A p, q \in inbox' : p.call = c /\ q.call = c /\ Turn(p) /\ Turn(q) => p = q
  BY <1>2 DEF EndingOk
<1>4. ReportPending(c)' \/ IsEnded(c)' \/ GhostOk(c)'
  <2>1. CASE r.url = "/events/hangup"
    <3>1. r.digits = NoDigits
      BY <1>1, <2>1 DEF Posted, DigitUrls
    <3>2. sessions' = Put(sessions, c, [GetOrRecover(c) EXCEPT !.state = "COMPLETED", !.ended = TRUE])
      BY <2>1, <3>1 DEF Handle, Callback, Hangup, FinalizeCall
    <3>3. SessionOk(GetOrRecover(c))
      BY <1>1, IInvByVariable, GetOrRecoverIsOk DEF FInv
    <3>4. [GetOrRecover(c) EXCEPT !.state = "COMPLETED", !.ended = TRUE].ended
      BY <3>3 DEF SessionOk, CallSession
    <3>5. IsEnded(c)'
      BY <3>2, <3>4 DEF IsEnded, Put
    <3>6. QED BY <3>5
  <2>2. CASE r.url # "/events/hangup" /\ ReportPending(c)
    BY <1>2, <2>2 DEF ReportPending
  <2>3. CASE r.url # "/events/hangup" /\ IsEnded(c)
    <3>1. c \in DOMAIN sessions' /\ sessions'[c].ended
      BY <1>1, <2>3, HandledSession, LateTurn DEF IsEnded, GetOrRecover, Put
    <3>2. QED BY <3>1 DEF IsEnded
  <2>4. CASE r.url # "/events/hangup" /\ GhostOk(c)
    <3>1. GetOrRecover(c)' = GetOrRecover(c) =>  GhostOk(c)'
      BY <1>2, <2>4 DEF GhostOk
    <3>2. CASE \/ sessions' = sessions
               \/ sessions' = Put(sessions, c, GetOrRecover(c))
      BY <3>1, <3>2 DEF GetOrRecover, Put
    <3>3. CASE Turn(r) /\ \E url : \E e \in InputEvent : HandleWebhook(c, url, e)
      <4>1. GetOrRecover(c).state = "AWAITING_OTP"
        BY <2>4, <3>3 DEF GhostOk
      <4>2. GetOrRecover(c)'.state \in {"AWAITING_OTP", "LANGUAGE_MENU"}
        BY <1>1, <3>3, <4>1, LateTurn DEF GetOrRecover
      <4>3. \A q \in inbox' : q.call = c => ~Turn(q)
        BY <1>2, <3>3 DEF EndingOk
      <4>4. QED BY <1>2, <2>4, <4>2, <4>3 DEF GhostOk, Turn
    <3>4. QED BY <2>4, <3>2, <3>3, HandledSession
  <2>5. QED BY <2>1, <2>2, <2>3, <2>4 DEF EndingOk
<1>5. QED BY <1>3, <1>4 DEF EndingOk, Turn

-----------------------------------------------------------------------------
(* How calls end: theorem *)

LEMMA FlowStepEnds ==
  ASSUME FInv, Agreement, Ending, [FlowNext]_flowVars
  PROVE  Ending'
<1> SUFFICES ASSUME NEW x \in Calls  PROVE EndingOk(x)'
  BY DEF Ending
<1>a. EndingOk(x) /\ LegAgrees(x)
  BY DEF Ending, Agreement
<1>b. DOMAIN leg = Calls
  BY DEF FInv, LegsOk
<1>1. ASSUME NEW c \in Calls, NEW url, NEW d, NEW others, Ask(c, url, d, others),
             UNCHANGED <<vars, crashes>>, \A r \in others : r.call = c,
             leg[c].phase # "over"
      PROVE  EndingOk(x)'
  <2>1. CASE x = c
    BY <1>b, <1>1, <2>1 DEF Ask, Waiting, EndingOk
  <2>2. CASE x # c
    <3>1. Unheard(x)
      BY <1>b, <1>1, <2>2 DEF Ask, Req, Unheard, ReportPending, vars, crashes
    <3>2. QED BY <1>a, <3>1, UnheardIsOk
  <2>3. QED BY <2>1, <2>2
<1>2. ASSUME NEW c \in Calls, End(c, {}), UNCHANGED <<vars, crashes>>,
             leg[c].phase \in {"waiting", "playing"}
      PROVE  EndingOk(x)'
  <2>1. CASE x = c
    BY <1>a, <1>2, <2>1, EndingEnds
  <2>2. CASE x # c
    <3>1. Unheard(x)
      BY <1>b, <1>2, <2>2 DEF End, Req, Unheard, ReportPending, vars, crashes
    <3>2. QED BY <1>a, <3>1, UnheardIsOk
  <2>3. QED BY <2>1, <2>2
<1>3. CASE \E c \in Calls : Answered(c)
  BY <1>1, <1>3 DEF Answered
<1>4. CASE \E c \in Calls : \E d \in Digits : PressDigits(c, d)
  BY <1>1, <1>4 DEF PressDigits
<1>5. CASE \E c \in Calls : Silence(c)
  BY <1>1, <1>5 DEF Silence
<1>6. ASSUME NEW c \in Calls, DocumentEnds(c)
      PROVE  EndingOk(x)'
  <2>1. PICK others : /\ Ask(c, leg[c].document.redirect, NoDigits, others)
                      /\ \A r \in others : r.call = c
    BY <1>6, LeavesHandBack DEF DocumentEnds, Req
  <2>2. QED BY <1>1, <1>6, <2>1 DEF DocumentEnds
<1>7. CASE \E c \in Calls : CallerHangsUp(c) \/ Goodbye(c)
  BY <1>2, <1>7 DEF CallerHangsUp, Goodbye
<1>8. CASE \E c \in Calls : GiveUp(c)
  BY <1>1, <1>2, <1>8 DEF GiveUp
<1>9. ASSUME NEW r \in inbox, Lose(r)
      PROVE  EndingOk(x)'
  <2>1. Unheard(x)
    BY <1>9 DEF Lose, Unheard, ReportPending, vars, crashes
  <2>2. QED BY <1>a, <2>1, UnheardIsOk
<1>10. ASSUME NEW r \in inbox, Handle(r)
       PROVE  EndingOk(x)'
  <2>1. CASE x = r.call /\ leg[x].phase = "over"
    BY <1>a, <1>10, <2>1, HandlingEnds
  <2>2. CASE x = r.call /\ leg[x].phase # "over"
    <3>1. leg'[x].phase # "over"
      BY <1>b, <1>10, <2>2 DEF Handle, Playing
    <3>2. QED BY <3>1 DEF EndingOk
  <2>3. CASE x # r.call
    <3>1. Unheard(x)
      BY <1>10, <2>3, HandlesItsOwn DEF Handle, Unheard, ReportPending, crashes
    <3>2. QED BY <1>a, <3>1, UnheardIsOk
  <2>4. QED BY <2>1, <2>2, <2>3
<1>11. CASE ProcessRestarts
  <2>1. /\ leg' = leg /\ inbox' = inbox /\ sessions' = [c \in {} |-> NewSession]
        /\ forgotten' = forgotten \cup {c \in Calls : IsEnded(c)}
    BY <1>11 DEF ProcessRestarts, Restart, told
  <2>2. GetOrRecover(x)'.state = "AWAITING_OTP"
    BY <2>1 DEF GetOrRecover, NewSession
  <2>3. QED BY <1>a, <2>1, <2>2 DEF EndingOk, GhostOk, ReportPending, Turn
<1>12. CASE UNCHANGED flowVars
  <2>1. Unheard(x)
    BY <1>12 DEF flowVars, Unheard, ReportPending, vars, crashes
  <2>2. QED BY <1>a, <2>1, UnheardIsOk
<1>13. QED BY <1>3, <1>4, <1>5, <1>6, <1>7, <1>8, <1>9, <1>10, <1>11, <1>12 DEF FlowNext

\* When a call is over and nothing of it is on its way any more, its session has
\* ended, or a restart forgot it and what is there is harmless.
THEOREM NoGhosts == FlowSpec => []NoGhost
<1>1. FlowInit => Ending
  BY DEF FlowInit, Idle, Ending, EndingOk
<1>2. /\ FInv /\ Agreement /\ Ending /\ [FlowNext]_flowVars => (FInv /\ Agreement /\ Ending)'
  BY FlowStepIsOk, FlowStepAgrees, FlowStepEnds
<1>3. Ending => NoGhost
  BY DEF Ending, EndingOk, ReportPending, GhostOk, NoGhost
<1>4. QED BY <1>1, <1>2, <1>3, FlowInitIsOk, FlowInitAgrees, PTL DEF FlowSpec
=============================================================================
