-------------------------- MODULE IvrMachineProofs --------------------------
(***************************************************************************)
(* Proofs about advance() and render() as functions, for every session and *)
(* event: what the modules with calls rest on.  From a session that is     *)
(* SessionOk, advance() makes another one along an arrow of the call       *)
(* lifecycle, and a prompt that render() accepts.                          *)
(***************************************************************************)
EXTENDS IvrMachine, TLAPS

-----------------------------------------------------------------------------
(* advance() and render() *)

\* A fresh session waits for the code.
LEMMA NewSessionIsOk == SessionOk(NewSession)
BY DEF SessionOk, NewSession, CallSession, CallState, CollectingStates, LeafStates,
       TERMINAL_STATES, AnyLocale, Locale, NoLocale

\* Goto() changes the state and nothing else.
LEMMA GotoFields ==
  ASSUME NEW s \in CallSession, NEW next \in CallState, NEW prompt
  PROVE  LET t == Goto(s, next, prompt)
         IN  /\ t.session \in CallSession
             /\ t.session.state = next
             /\ t.session.locale = s.locale
             /\ t.session.otp_attempts = s.otp_attempts
             /\ t.session.authenticated = s.authenticated
             /\ t.session.ended = s.ended
             /\ t.prompt = prompt
BY DEF Goto, CallSession

\* A prompt that is given a locale, or needs none, is one render() accepts.
LEMMA PromptRenders ==
  ASSUME NEW locale \in AnyLocale,
         NEW id \in {"language_menu", "language_retry", "action_menu", "action_retry",
                     "play_audio", "transfer", "goodbye"},
         id \in NeedsLocale => locale # NoLocale
  PROVE  /\ Prompt(id, locale) \in PromptIntent
         /\ ~RenderFails(Prompt(id, locale))
BY DEF Prompt, PromptIntent, RenderFails, NeedsLocale

LEMMA OtpPromptRenders ==
  ASSUME NEW n \in Nat
  PROVE  OtpPrompt(n) \in PromptIntent /\ ~RenderFails(OtpPrompt(n))
BY DEF OtpPrompt, PromptIntent, RenderFails, NeedsLocale, AnyLocale

\* The purpose of the invariant: from a good session advance() makes a good
\* session, and a prompt that render() accepts.
LEMMA AdvanceIsOk ==
  ASSUME NEW s, SessionOk(s), NEW e \in InputEvent
  PROVE  /\ SessionOk(Advance(s, e).session)
         /\ Advance(s, e).prompt \in PromptIntent
         /\ ~RenderFails(Advance(s, e).prompt)
<1> USE DEF CallState, CollectingStates, LeafStates, TERMINAL_STATES, SessionOk
<1>a. s \in CallSession /\ s.state \in CallState /\ s.otp_attempts \in Nat
  BY DEF CallSession
<1>b. NoLocale \in AnyLocale /\ NoLocale \notin Locale /\ Locale \subseteq AnyLocale
  BY DEF NoLocale, AnyLocale, Locale
<1>c. Prompt("language_menu", NoLocale) \in PromptIntent
      /\ ~RenderFails(Prompt("language_menu", NoLocale))
  BY <1>b, PromptRenders DEF NeedsLocale
<1>1. CASE s.state = "AWAITING_OTP"
  <2>1. CASE e = DigitsInput(OtpCode)
    <3> DEFINE u == [s EXCEPT !.authenticated = TRUE]
    <3>1. Advance(s, e) = Goto(u, "LANGUAGE_MENU", Prompt("language_menu", NoLocale))
      BY <1>1, <2>1 DEF Advance, AdvanceOtp
    <3>2. u \in CallSession /\ u.authenticated /\ u.locale = s.locale /\ u.ended = s.ended
      BY <1>a DEF CallSession
    <3> HIDE DEF u
    <3>3. QED BY <1>1, <1>c, <3>1, <3>2, GotoFields
  <2>2. CASE e # DigitsInput(OtpCode)
    <3> DEFINE u == [s EXCEPT !.otp_attempts = @ + 1]
    <3>1. Advance(s, e) = Goto(u, "AWAITING_OTP", OtpPrompt(s.otp_attempts + 1))
      BY <1>1, <2>2 DEF Advance, AdvanceOtp
    <3>2. /\ u \in CallSession
          /\ u.authenticated = s.authenticated /\ u.locale = s.locale /\ u.ended = s.ended
      BY <1>a DEF CallSession
    <3>3. s.otp_attempts + 1 \in Nat
      BY <1>a
    <3> HIDE DEF u
    <3>4. QED BY <1>1, <3>1, <3>2, <3>3, GotoFields, OtpPromptRenders
  <2>3. QED BY <2>1, <2>2
<1>2. CASE s.state = "LANGUAGE_MENU"
  <2>1. ASSUME NEW d \in DOMAIN LocaleOfKey, e = DigitsInput(d)
        PROVE  /\ SessionOk(Advance(s, e).session)
               /\ Advance(s, e).prompt \in PromptIntent
               /\ ~RenderFails(Advance(s, e).prompt)
    <3> DEFINE l == LocaleOfKey[d]
               u == [s EXCEPT !.locale = l]
    <3>1. Advance(s, e) = Goto(u, "ACTION_MENU", Prompt("action_menu", l))
      BY <1>2, <2>1 DEF Advance, AdvanceLanguage, DigitsInput
    <3>2. l \in Locale
      BY <2>1 DEF LocaleOfKey, Locale
    <3> HIDE DEF l
    <3>3. /\ u \in CallSession
          /\ u.authenticated = s.authenticated /\ u.locale = l /\ u.ended = s.ended
      BY <1>a, <1>b, <3>2 DEF CallSession
    <3> HIDE DEF u
    <3>4. Prompt("action_menu", l) \in PromptIntent /\ ~RenderFails(Prompt("action_menu", l))
      BY <1>b, <3>2, PromptRenders
    <3>5. QED BY <1>2, <3>1, <3>2, <3>3, <3>4, GotoFields
  <2>2. CASE ~ \E d \in DOMAIN LocaleOfKey : e = DigitsInput(d)
    <3>1. Advance(s, e) = Goto(s, "LANGUAGE_MENU", Prompt("language_retry", NoLocale))
      BY <1>2, <2>2 DEF Advance, AdvanceLanguage
    <3>2. /\ Prompt("language_retry", NoLocale) \in PromptIntent
          /\ ~RenderFails(Prompt("language_retry", NoLocale))
      BY <1>b, PromptRenders DEF NeedsLocale
    <3>3. QED BY <1>2, <1>a, <3>1, <3>2, GotoFields
  <2>3. QED BY <2>1, <2>2
<1>3. CASE s.state = "ACTION_MENU"
  <2>1. CASE e = DigitsInput("9")
    <3> DEFINE u == [s EXCEPT !.locale = NoLocale]
    <3>1. Advance(s, e) = Goto(u, "LANGUAGE_MENU", Prompt("language_menu", NoLocale))
      BY <1>3, <2>1 DEF Advance, AdvanceActionMenu, DigitsInput, ActionDone
    <3>2. /\ u \in CallSession
          /\ u.authenticated = s.authenticated /\ u.locale = NoLocale /\ u.ended = s.ended
      BY <1>a, <1>b DEF CallSession
    <3> HIDE DEF u
    <3>3. QED BY <1>3, <1>c, <3>1, <3>2, GotoFields
  <2>2. CASE e # DigitsInput("9")
    <3>1. PICK next \in {"ACTION_MENU", "PLAYING_AUDIO", "TRANSFERRING"},
               id \in {"action_menu", "action_retry", "play_audio", "transfer"} :
            Advance(s, e) = Goto(s, next, Prompt(id, s.locale))
      BY <1>3, <2>2 DEF Advance, AdvanceActionMenu
    <3>2. Prompt(id, s.locale) \in PromptIntent /\ ~RenderFails(Prompt(id, s.locale))
      BY <1>3, <1>b, PromptRenders
    <3>3. QED BY <1>3, <1>a, <3>1, <3>2, GotoFields
  <2>3. QED BY <2>1, <2>2
<1>4. CASE s.state \in LeafStates
  <2>1. Advance(s, e) = Goto(s, "ACTION_MENU", Prompt("action_menu", s.locale))
    BY <1>4 DEF Advance, AdvanceLeaf
  <2>2. Prompt("action_menu", s.locale) \in PromptIntent
        /\ ~RenderFails(Prompt("action_menu", s.locale))
    BY <1>4, <1>b, PromptRenders
  <2>3. QED BY <1>4, <1>a, <2>1, <2>2, GotoFields
<1>5. CASE s.state \in TERMINAL_STATES
  <2>1. Advance(s, e) = Goto(s, "FAILED", Prompt("goodbye", NoLocale))
    BY <1>5 DEF Advance, AdvanceTerminal
  <2>2. Prompt("goodbye", NoLocale) \in PromptIntent /\ ~RenderFails(Prompt("goodbye", NoLocale))
    BY <1>b, PromptRenders DEF NeedsLocale
  <2>3. QED BY <1>5, <1>a, <2>1, <2>2, GotoFields
<1>6. QED BY <1>1, <1>2, <1>3, <1>4, <1>5, <1>a

\* What render() makes of a prompt it accepts is a document.
LEMMA RenderIsOk ==
  ASSUME NEW p \in PromptIntent, ~RenderFails(p)
  PROVE  Render(p) \in Document
<1> USE DEF PromptIntent, AnyLocale, RenderFails, NeedsLocale, Document, CallbackUrls,
            VoiceUrls, EventUrls, Locale, NoLocale
<1>1. CASE p.prompt_id \in {"otp_prompt", "otp_retry"}
  <2>1. Render(p) = OtpDocument(p.attempt)
    BY <1>1 DEF Render
  <2>2. OtpText(p.attempt) \in 0 .. 3
    BY DEF OtpText
  <2>3. QED BY <2>1, <2>2 DEF OtpDocument, MenuDocument
<1>2. CASE p.prompt_id \in {"language_menu", "language_retry"}
  BY <1>2 DEF Render, LanguageMenuDocument, MenuDocument
<1>3. CASE p.prompt_id \in {"action_menu", "action_retry"}
  BY <1>3 DEF Render, ActionMenuDocument, MenuDocument
<1>4. CASE p.prompt_id \in {"play_audio", "transfer"}
  BY <1>4 DEF Render, PlayAudioDocument, TransferDocument
<1>5. CASE p.prompt_id = "goodbye"
  BY <1>5 DEF Render, ErrorDocument
<1>6. QED BY <1>1, <1>2, <1>3, <1>4, <1>5

LEMMA ErrorDocumentIsOk == ErrorDocument \in Document
BY DEF ErrorDocument, Document, CallbackUrls, VoiceUrls, EventUrls, AnyLocale, Locale

\* A session that finalize_call() has closed.
LEMMA ClosedIsOk ==
  ASSUME NEW s, SessionOk(s)
  PROVE  /\ SessionOk([s EXCEPT !.state = "COMPLETED", !.ended = TRUE])
         /\ PlaceOf([s EXCEPT !.state = "COMPLETED", !.ended = TRUE]) = "ended"
BY DEF SessionOk, CallSession, CallState, LeafStates, TERMINAL_STATES, PlaceOf

\* advance() authenticates a session only when it is given the code.
LEMMA OnlyTheCodeAuthenticates ==
  ASSUME NEW s, SessionOk(s), NEW e \in InputEvent, Advance(s, e).session.authenticated
  PROVE  s.authenticated \/ e = DigitsInput(OtpCode)
<1> SUFFICES ASSUME ~s.authenticated, e # DigitsInput(OtpCode)  PROVE FALSE
  OBVIOUS
<1>a. s \in CallSession /\ s.otp_attempts \in Nat
  BY DEF SessionOk, CallSession
<1>1. CASE s.state = "AWAITING_OTP"
  <2> DEFINE u == [s EXCEPT !.otp_attempts = @ + 1]
  <2>1. Advance(s, e) = Goto(u, "AWAITING_OTP", OtpPrompt(s.otp_attempts + 1))
    BY <1>1 DEF Advance, AdvanceOtp, LeafStates
  <2>2. u \in CallSession /\ u.authenticated = s.authenticated
    BY <1>a DEF CallSession
  <2> HIDE DEF u
  <2>3. "AWAITING_OTP" \in CallState
    BY DEF CallState, CollectingStates
  <2>4. QED BY <2>1, <2>2, <2>3, GotoFields
<1>2. CASE s.state \in TERMINAL_STATES
  <2>1. Advance(s, e) = Goto(s, "FAILED", Prompt("goodbye", NoLocale))
    BY <1>2 DEF Advance, AdvanceTerminal, TERMINAL_STATES, LeafStates
  <2>2. "FAILED" \in CallState
    BY DEF CallState, TERMINAL_STATES
  <2>3. QED BY <1>a, <2>1, <2>2, GotoFields
<1>3. QED BY <1>1, <1>2 DEF SessionOk, CallSession, CallState, CollectingStates

LEMMA OnlyGoodbyeIsError ==
  ASSUME NEW p \in PromptIntent, ~RenderFails(p), Render(p) = ErrorDocument
  PROVE  p.prompt_id = "goodbye"
BY DEF PromptIntent, Render, ErrorDocument, OtpDocument, LanguageMenuDocument,
       ActionMenuDocument, PlayAudioDocument, TransferDocument, MenuDocument

LEMMA OnlyOverSaysGoodbye ==
  ASSUME NEW s, SessionOk(s), NEW e, Advance(s, e).prompt.prompt_id = "goodbye"
  PROVE  s.ended
<1> SUFFICES ASSUME s.state \notin TERMINAL_STATES  PROVE FALSE
  BY DEF SessionOk
<1> USE DEF Goto, Prompt
<1>1. CASE s.state = "AWAITING_OTP"
  BY <1>1 DEF Advance, AdvanceOtp, OtpPrompt, LeafStates
<1>2. CASE s.state = "LANGUAGE_MENU"
  BY <1>2 DEF Advance, AdvanceLanguage, LeafStates
<1>3. CASE s.state = "ACTION_MENU"
  BY <1>3 DEF Advance, AdvanceActionMenu, LeafStates
<1>4. CASE s.state \in LeafStates
  BY <1>4 DEF Advance, AdvanceLeaf, LeafStates
<1>5. QED BY <1>1, <1>2, <1>3, <1>4 DEF SessionOk, CallSession, CallState, CollectingStates

-----------------------------------------------------------------------------
(* The call lifecycle *)

\* An arrow of the lifecycle, or none, from one session to the next.
Arrow(s, t) ==
  \/ PlaceOf(t) = PlaceOf(s) /\ SpokenIn(t) = SpokenIn(s)
  \/ PlaceOf(s) = "gate" /\ PlaceOf(t) = "language" /\ SpokenIn(t) = SpokenIn(s)
  \/ PlaceOf(s) = "language" /\ PlaceOf(t) = "action" /\ SpokenIn(t) \in Locale
  \/ PlaceOf(s) = "action" /\ PlaceOf(t) = "language" /\ SpokenIn(t) = NoLocale
  \/ PlaceOf(s) = "action" /\ PlaceOf(t) = "leaf" /\ SpokenIn(t) = SpokenIn(s)
  \/ PlaceOf(s) = "leaf" /\ PlaceOf(t) = "action" /\ SpokenIn(t) = SpokenIn(s)
  \/ PlaceOf(t) = "ended" /\ SpokenIn(t) = NoLocale

LEMMA AdvanceIsAnArrow ==
  ASSUME NEW s, SessionOk(s), NEW e \in InputEvent
  PROVE  Arrow(s, Advance(s, e).session)
<1> DEFINE t == Advance(s, e).session
<1> SUFFICES Arrow(s, t)
  OBVIOUS
<1> USE DEF LeafStates, TERMINAL_STATES, Arrow, PlaceOf, SpokenIn
<1>a. SessionOk(t)
  BY AdvanceIsOk
<1>b. s \in CallSession /\ s.state \in CollectingStates \cup LeafStates \cup TERMINAL_STATES
  BY DEF SessionOk, CallSession, CallState
<1>c. CollectingStates \cup LeafStates \cup TERMINAL_STATES = CallState
  BY DEF CallState
<1>1. CASE s.state = "AWAITING_OTP"
  <2>1. t.state \in {"AWAITING_OTP", "LANGUAGE_MENU"}
    BY <1>1 DEF Advance, AdvanceOtp, Goto, SessionOk, CallSession
  <2> HIDE DEF t
  <2>2. QED BY <1>1, <2>1
<1>2. CASE s.state = "LANGUAGE_MENU"
  <2>1. t.state \in {"LANGUAGE_MENU", "ACTION_MENU"}
    BY <1>2 DEF Advance, AdvanceLanguage, Goto, SessionOk, CallSession
  <2>2. t.state = "ACTION_MENU" => t.locale \in Locale
    BY <1>a DEF SessionOk
  <2> HIDE DEF t
  <2>3. QED BY <1>2, <2>1, <2>2
<1>3. CASE s.state = "ACTION_MENU"
  <2>1. CASE e = DigitsInput("9")
    <3>1. t.state = "LANGUAGE_MENU"
      BY <1>3, <2>1 DEF Advance, AdvanceActionMenu, Goto, SessionOk, CallSession,
                        DigitsInput, ActionDone
    <3> HIDE DEF t
    <3>2. QED BY <1>3, <3>1
  <2>2. CASE e # DigitsInput("9")
    <3>1. PICK next \in {"ACTION_MENU", "PLAYING_AUDIO", "TRANSFERRING"} :
            \E id \in {"action_menu", "action_retry", "play_audio", "transfer"} :
              Advance(s, e) = Goto(s, next, Prompt(id, s.locale))
      BY <1>3, <2>2 DEF Advance, AdvanceActionMenu
    <3>2. t.state = next /\ t.locale = s.locale
      BY <3>1, <1>b, <1>c, GotoFields DEF CollectingStates
    <3> HIDE DEF t
    <3>3. QED BY <1>3, <3>2
  <2>3. QED BY <2>1, <2>2
<1>4. CASE s.state \in LeafStates
  <2>1. Advance(s, e) = Goto(s, "ACTION_MENU", Prompt("action_menu", s.locale))
    BY <1>4 DEF Advance, AdvanceLeaf
  <2>2. t.state = "ACTION_MENU" /\ t.locale = s.locale
    BY <2>1, <1>b, <1>c, GotoFields DEF CollectingStates
  <2> HIDE DEF t
  <2>3. QED BY <1>4, <2>2
<1>5. CASE s.state \in TERMINAL_STATES
  <2>1. Advance(s, e) = Goto(s, "FAILED", Prompt("goodbye", NoLocale))
    BY <1>5 DEF Advance, AdvanceTerminal
  <2>2. t.state = "FAILED"
    BY <2>1, <1>b, <1>c, GotoFields
  <2> HIDE DEF t
  <2>3. QED BY <1>5, <2>2
<1>6. QED BY <1>b, <1>1, <1>2, <1>3, <1>4, <1>5 DEF CollectingStates

LEMMA FreshIsAtTheGate == PlaceOf(NewSession) = "gate" /\ SpokenIn(NewSession) = NoLocale
BY DEF PlaceOf, SpokenIn, NewSession, LeafStates
=============================================================================
