----------------------------- MODULE IvrMachine -----------------------------
(***************************************************************************)
(* The IVR as a pure function (app/ivr/machine.py): what a call session    *)
(* becomes, and which prompt is served, for each state and input event;    *)
(* and the Plivo document a prompt is rendered into                        *)
(* (app/telephony/xml_builder.py).  There are no variables here: the       *)
(* module is extended by the ones that have calls.                         *)
(*                                                                         *)
(* Abstracted: reasons, texts and voices are wording; a timestamp that is  *)
(* only tested for None is a Boolean; a digit string is one of the menu    *)
(* keys, the access code, or one of OtherDigits.                           *)
(*                                                                         *)
(* Definitions whose name contains "__" are deliberately wrong variants of *)
(* the definition that follows them; they are used to show that the        *)
(* properties can tell a plausible bug from the code, and nothing else     *)
(* refers to them.                                                         *)
(***************************************************************************)
EXTENDS Naturals

CONSTANTS
  OtpCode,       \* Settings.otp_code
  OtherDigits    \* every other string a webhook may carry as its Digits

MenuKeys == {"1", "2", "9"}

\* The settings validator accepts a four digit code only, so the code is never
\* one of the single digit menu keys.
ASSUME OtpCodeAssumption == OtpCode \notin MenuKeys

Digits == MenuKeys \cup {OtpCode} \cup OtherDigits

-----------------------------------------------------------------------------
(* States, events and sessions *)

CollectingStates == {"AWAITING_OTP", "LANGUAGE_MENU", "ACTION_MENU"}
LeafStates       == {"PLAYING_AUDIO", "TRANSFERRING"}
TERMINAL_STATES  == {"COMPLETED", "FAILED"}
CallState        == CollectingStates \cup LeafStates \cup TERMINAL_STATES

Locale    == {"en", "es"}
NoLocale  == "none"
AnyLocale == Locale \cup {NoLocale}

NoInput         == [kind |-> "no_input",    digits |-> ""]
ActionDone      == [kind |-> "action_done", digits |-> ""]
DigitsInput(d)  == [kind |-> "digits",      digits |-> d]
InputEvent      == {NoInput, ActionDone} \cup {DigitsInput(d) : d \in Digits}

CallSession ==
  [state         : CallState,
   locale        : AnyLocale,
   otp_attempts  : Nat,
   authenticated : BOOLEAN,     \* authenticated_at is not None
   ended         : BOOLEAN]     \* ended_at is not None

NewSession ==
  [state |-> "AWAITING_OTP", locale |-> NoLocale, otp_attempts |-> 0,
   authenticated |-> FALSE, ended |-> FALSE]

-----------------------------------------------------------------------------
(* Prompts *)

PromptIntent ==
  [prompt_id : {"otp_prompt", "otp_retry", "language_menu", "language_retry",
                "action_menu", "action_retry", "play_audio", "transfer", "goodbye"},
   locale    : AnyLocale,
   attempt   : Nat]

Prompt(id, locale) == [prompt_id |-> id, locale |-> locale, attempt |-> 0]

OtpPrompt(attempt) ==
  [prompt_id |-> IF attempt = 0 THEN "otp_prompt" ELSE "otp_retry",
   locale    |-> NoLocale,
   attempt   |-> attempt]

\* A Transition: the session as advance() and its caller leave it, and the
\* prompt to serve.
Goto(session, next_state, prompt) ==
  [session |-> [session EXCEPT !.state = next_state], prompt |-> prompt]

-----------------------------------------------------------------------------
(* advance() *)

AdvanceOtp__SilenceForgiven(s, e) ==
  IF e = DigitsInput(OtpCode)
  THEN Goto([s EXCEPT !.authenticated = TRUE], "LANGUAGE_MENU",
            Prompt("language_menu", NoLocale))
  ELSE LET n == IF e = NoInput THEN s.otp_attempts ELSE s.otp_attempts + 1
       IN  Goto([s EXCEPT !.otp_attempts = n], "AWAITING_OTP",
                OtpPrompt(s.otp_attempts + 1))

AdvanceOtp__AnyDigitsPass(s, e) ==
  IF e.kind = "digits"
  THEN Goto([s EXCEPT !.authenticated = TRUE], "LANGUAGE_MENU",
            Prompt("language_menu", NoLocale))
  ELSE Goto([s EXCEPT !.otp_attempts = @ + 1], "AWAITING_OTP",
            OtpPrompt(s.otp_attempts + 1))

AdvanceOtp__NotStamped(s, e) ==
  IF e = DigitsInput(OtpCode)
  THEN Goto(s, "LANGUAGE_MENU", Prompt("language_menu", NoLocale))
  ELSE Goto([s EXCEPT !.otp_attempts = @ + 1], "AWAITING_OTP",
            OtpPrompt(s.otp_attempts + 1))

\* Silence, a wrong code and an unexpected event all count as an attempt.
AdvanceOtp(s, e) ==
  IF e = DigitsInput(OtpCode)
  THEN Goto([s EXCEPT !.authenticated = TRUE], "LANGUAGE_MENU",
            Prompt("language_menu", NoLocale))
  ELSE Goto([s EXCEPT !.otp_attempts = @ + 1], "AWAITING_OTP",
            OtpPrompt(s.otp_attempts + 1))

LocaleOfKey__Tag == [d \in {"1", "2"} |-> IF d = "1" THEN "en-US" ELSE "es-ES"]

LocaleOfKey == [d \in {"1", "2"} |-> IF d = "1" THEN "en" ELSE "es"]

AdvanceLanguage__LocaleNotStored(s, e) ==
  IF e \in {DigitsInput(d) : d \in DOMAIN LocaleOfKey}
  THEN Goto(s, "ACTION_MENU", Prompt("action_menu", LocaleOfKey[e.digits]))
  ELSE Goto(s, "LANGUAGE_MENU", Prompt("language_retry", NoLocale))

AdvanceLanguage__KeyStored(s, e) ==
  IF e \in {DigitsInput(d) : d \in DOMAIN LocaleOfKey}
  THEN Goto([s EXCEPT !.locale = e.digits], "ACTION_MENU",
            Prompt("action_menu", LocaleOfKey[e.digits]))
  ELSE Goto(s, "LANGUAGE_MENU", Prompt("language_retry", NoLocale))

AdvanceLanguage(s, e) ==
  IF e \in {DigitsInput(d) : d \in DOMAIN LocaleOfKey}
  THEN LET locale == LocaleOfKey[e.digits]
       IN  Goto([s EXCEPT !.locale = locale], "ACTION_MENU", Prompt("action_menu", locale))
  ELSE Goto(s, "LANGUAGE_MENU", Prompt("language_retry", NoLocale))

AdvanceActionMenu__LocaleKept(s, e) ==
  CASE e = ActionDone       -> Goto(s, "ACTION_MENU", Prompt("action_menu", s.locale))
    [] e = DigitsInput("1") -> Goto(s, "PLAYING_AUDIO", Prompt("play_audio", s.locale))
    [] e = DigitsInput("2") -> Goto(s, "TRANSFERRING", Prompt("transfer", s.locale))
    [] e = DigitsInput("9") -> Goto(s, "LANGUAGE_MENU", Prompt("language_menu", NoLocale))
    [] OTHER                -> Goto(s, "ACTION_MENU", Prompt("action_retry", s.locale))

AdvanceActionMenu(s, e) ==
  CASE e = ActionDone       -> Goto(s, "ACTION_MENU", Prompt("action_menu", s.locale))
    [] e = DigitsInput("1") -> Goto(s, "PLAYING_AUDIO", Prompt("play_audio", s.locale))
    [] e = DigitsInput("2") -> Goto(s, "TRANSFERRING", Prompt("transfer", s.locale))
    [] e = DigitsInput("9") -> Goto([s EXCEPT !.locale = NoLocale], "LANGUAGE_MENU",
                                    Prompt("language_menu", NoLocale))
    [] OTHER                -> Goto(s, "ACTION_MENU", Prompt("action_retry", s.locale))

AdvanceLeaf__Replays(s, e) ==
  IF s.state = "PLAYING_AUDIO" THEN Goto(s, "PLAYING_AUDIO", Prompt("play_audio", s.locale))
  ELSE Goto(s, "ACTION_MENU", Prompt("action_menu", s.locale))

AdvanceLeaf__InEnglish(s, e) == Goto(s, "ACTION_MENU", Prompt("action_menu", "en"))

\* A leaf returns to the action menu whatever the event is.
AdvanceLeaf(s, e) == Goto(s, "ACTION_MENU", Prompt("action_menu", s.locale))

\* Any event on a terminal state: FAILED, and the goodbye document.
AdvanceTerminal(s, e) == Goto(s, "FAILED", Prompt("goodbye", NoLocale))

Advance(s, e) ==
  CASE s.state = "AWAITING_OTP"  -> AdvanceOtp(s, e)
    [] s.state = "LANGUAGE_MENU" -> AdvanceLanguage(s, e)
    [] s.state = "ACTION_MENU"   -> AdvanceActionMenu(s, e)
    [] s.state \in LeafStates    -> AdvanceLeaf(s, e)
    [] OTHER                     -> AdvanceTerminal(s, e)

-----------------------------------------------------------------------------
(* Rendering *)

VoiceUrls == {"/voice/answer", "/voice/otp", "/voice/otp-timeout", "/voice/language",
              "/voice/language-timeout", "/voice/action", "/voice/action-timeout",
              "/voice/action-menu"}
EventUrls == {"/events/hangup", "/events/fallback", "/events/dial-status"}
CallbackUrls == VoiceUrls \cup EventUrls
NoUrl == "none"

\* A document: its main verb, how many digits it collects and where it posts
\* them, whether the answer to that post is the next document, the redirect that
\* follows otherwise, the locale it speaks (none for a clip), and which of the
\* prompt's texts is spoken (0 for the first).
Document ==
  [verb      : {"GetDigits", "Play", "Dial", "Hangup"},
   numDigits : {0, 1, 4},
   action    : CallbackUrls \cup {NoUrl},
   follows   : BOOLEAN,
   redirect  : CallbackUrls \cup {NoUrl},
   locale    : AnyLocale,
   text      : 0 .. 3]

MenuDocument(num, action, redirect, locale, text) ==
  [verb |-> "GetDigits", numDigits |-> num, action |-> action, follows |-> TRUE,
   redirect |-> redirect, locale |-> locale, text |-> text]

\* otp_prompt() has a text of its own for the attempts 0, 1 and 2.
OtpText(attempt) == IF attempt < 3 THEN attempt ELSE 3

OtpDocument(attempt) ==
  MenuDocument(4, "/voice/otp", "/voice/otp-timeout", "en", OtpText(attempt))

LanguageMenuDocument(text) ==
  MenuDocument(1, "/voice/language", "/voice/language-timeout", "en", text)

ActionMenuDocument__SharedTimeout(locale, text) ==
  MenuDocument(1, "/voice/action", "/voice/language-timeout", locale, text)

ActionMenuDocument(locale, text) ==
  MenuDocument(1, "/voice/action", "/voice/action-timeout", locale, text)

\* One clip, whatever the locale.
PlayAudioDocument ==
  [verb |-> "Play", numDigits |-> 0, action |-> NoUrl, follows |-> FALSE,
   redirect |-> "/voice/action-menu", locale |-> NoLocale, text |-> 0]

TransferDocument__Followed(locale) ==
  [verb |-> "Dial", numDigits |-> 0, action |-> "/events/dial-status", follows |-> TRUE,
   redirect |-> "/voice/action-menu", locale |-> locale, text |-> 0]

\* The outcome of the Dial is reported, and the report's answer ignored (redirect=False).
TransferDocument(locale) ==
  [verb |-> "Dial", numDigits |-> 0, action |-> "/events/dial-status", follows |-> FALSE,
   redirect |-> "/voice/action-menu", locale |-> locale, text |-> 0]

ErrorDocument ==
  [verb |-> "Hangup", numDigits |-> 0, action |-> NoUrl, follows |-> FALSE,
   redirect |-> NoUrl, locale |-> "en", text |-> 0]

\* render() asserts that these prompts come with a locale.
NeedsLocale == {"action_menu", "action_retry", "play_audio", "transfer"}

RenderFails(p) == p.prompt_id \in NeedsLocale /\ p.locale = NoLocale

Render(p) ==
  CASE p.prompt_id \in {"otp_prompt", "otp_retry"} -> OtpDocument(p.attempt)
    [] p.prompt_id = "language_menu"  -> LanguageMenuDocument(0)
    [] p.prompt_id = "language_retry" -> LanguageMenuDocument(1)
    [] p.prompt_id = "action_menu"    -> ActionMenuDocument(p.locale, 0)
    [] p.prompt_id = "action_retry"   -> ActionMenuDocument(p.locale, 1)
    [] p.prompt_id = "play_audio"     -> PlayAudioDocument
    [] p.prompt_id = "transfer"       -> TransferDocument(p.locale)
    [] OTHER                          -> ErrorDocument

-----------------------------------------------------------------------------
(* What the modules with calls say of a session *)

\* What is true of every session there ever is: nobody is past the code without
\* having entered it, there is a language exactly where documents need one, and
\* ended_at and the state agree.
SessionOk(s) ==
  /\ s \in CallSession
  /\ s.state \in {"LANGUAGE_MENU", "ACTION_MENU"} \cup LeafStates => s.authenticated
  /\ s.state = "AWAITING_OTP" => ~s.authenticated
  /\ s.state \in {"ACTION_MENU"} \cup LeafStates => s.locale \in Locale
  /\ s.state \in {"AWAITING_OTP", "LANGUAGE_MENU"} => s.locale = NoLocale
  /\ s.ended <=> s.state \in TERMINAL_STATES

\* Where a session is in the call lifecycle (CallLifecycle.tla), and the language
\* spoken there.
PlaceOf(s) ==
  CASE s.state = "AWAITING_OTP"  -> "gate"
    [] s.state = "LANGUAGE_MENU" -> "language"
    [] s.state = "ACTION_MENU"   -> "action"
    [] s.state \in LeafStates    -> "leaf"
    [] OTHER                     -> "ended"

SpokenIn(s) == IF PlaceOf(s) \in {"action", "leaf"} THEN s.locale ELSE NoLocale
=============================================================================
