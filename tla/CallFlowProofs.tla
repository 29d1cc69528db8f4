--------------------------- MODULE CallFlowProofs ---------------------------
(***************************************************************************)
(* Proofs about whole calls, for any number of them: call legs drive the   *)
(* service only in ways CallService.tla allows, so all that is proved      *)
(* there holds here; and a session is let in only by its own caller.       *)
(***************************************************************************)
EXTENDS CallFlow, CallServiceProofs

-----------------------------------------------------------------------------
(* Documents and requests *)

DigitUrls == {"/voice/otp", "/voice/language", "/voice/action"}
PlainUrls == CallbackUrls \ DigitUrls
AskedUrls == VoiceUrls \cup {"/events/fallback"}

\* A document posts digits where digits are read, and everything else elsewhere.
Playable(doc) ==
  /\ doc.verb = "GetDigits" => doc.action \in DigitUrls
  /\ doc.verb \in {"Play", "Dial"} => doc.action \in PlainUrls \cup {NoUrl} /\ ~doc.follows
  /\ doc.verb # "Hangup" => doc.redirect \in VoiceUrls \ DigitUrls

Posted(r, callers) ==
  /\ r.call \in Calls
  /\ \/ r.digits = NoDigits /\ r.url \in PlainUrls
     \/ r.digits \in Digits /\ r.url \in DigitUrls
  /\ r.digits = OtpCode => r.call \in callers

\* render() makes playable documents only.
LEMMA RenderedIsPlayable ==
  ASSUME NEW p \in PromptIntent
  PROVE  Playable(Render(p))
<1> USE DEF Playable, DigitUrls, PlainUrls, CallbackUrls, VoiceUrls, EventUrls, PromptIntent,
            MenuDocument
<1>1. CASE p.prompt_id \in {"otp_prompt", "otp_retry"}
  BY <1>1 DEF Render, OtpDocument
<1>2. CASE p.prompt_id \in {"language_menu", "language_retry"}
  BY <1>2 DEF Render, LanguageMenuDocument
<1>3. CASE p.prompt_id \in {"action_menu", "action_retry"}
  BY <1>3 DEF Render, ActionMenuDocument
<1>4. CASE p.prompt_id \in {"play_audio", "transfer"}
  BY <1>4 DEF Render, PlayAudioDocument, TransferDocument
<1>5. CASE p.prompt_id = "goodbye"
  BY <1>5 DEF Render, ErrorDocument
<1>6. QED BY <1>1, <1>2, <1>3, <1>4, <1>5

LEMMA ErrorIsPlayable == Playable(ErrorDocument)
BY DEF Playable, ErrorDocument

-----------------------------------------------------------------------------
(* The invariant *)

LegsOk ==
  /\ DOMAIN leg = Calls
  /\ \A c \in Calls :
       /\ Playable(leg[c].document)
       /\ leg[c].phase = "waiting" => leg[c].awaits \in AskedUrls

InboxOk == \A r \in inbox : Posted(r, entered)

\* CodeWasEntered is not inductive alone: the code in a request on its way must
\* be its caller's too, and a request's digits must be where the service reads them.
FInv == IInv /\ LegsOk /\ InboxOk /\ CodeWasEntered

\* What handling one webhook of call c leaves of the invariant's parts, whichever
\* of the service's two ways of answering it takes.
Handled(c) ==
  /\ \A x \in DOMAIN sessions' : sessions'[x].authenticated => x \in entered
  /\ c \in DOMAIN reply' /\ Playable(reply'[c].document)

LEMMA MenuTurnHandles ==
  ASSUME FInv, NEW c \in Calls, NEW url, NEW e \in InputEvent,
         e = DigitsInput(OtpCode) => c \in entered, HandleWebhook(c, url, e)
  PROVE  Handled(c)
<1> DEFINE s == GetOrRecover(c)
           t == Advance(s, e)
<1>1. SessionOk(s)
  BY IInvByVariable, GetOrRecoverIsOk DEF FInv
<1>2. s.authenticated => c \in entered
  BY DEF FInv, CodeWasEntered, GetOrRecover, NewSession
<1>3. t.session.authenticated => c \in entered
  BY <1>1, <1>2, OnlyTheCodeAuthenticates
<1>4. t.prompt \in PromptIntent /\ ~RenderFails(t.prompt)
  BY <1>1, AdvanceIsOk
<1>5. reply' = Put(reply, c, [endpoint |-> url, document |-> Render(t.prompt)])
  BY <1>4 DEF HandleWebhook, Served
<1>6. sessions' = Put(sessions, c, t.session)
  BY DEF HandleWebhook
<1> HIDE DEF t
<1>7. c \in DOMAIN reply' /\ reply'[c].document = Render(t.prompt)
  BY <1>5 DEF Put
<1>8. \A x \in DOMAIN sessions' : sessions'[x].authenticated => x \in entered
  BY <1>3, <1>6 DEF Put, FInv, CodeWasEntered
<1>9. QED BY <1>4, <1>7, <1>8, RenderedIsPlayable DEF Handled

LEMMA OtpPromptHandles ==
  ASSUME FInv, NEW c \in Calls, NEW url, ServeOtpPrompt(c, url)
  PROVE  Handled(c)
<1> DEFINE s == GetOrRecover(c)
<1>1. s.authenticated => c \in entered
  BY DEF FInv, CodeWasEntered, GetOrRecover, NewSession
<1>2. SessionOk(s)
  BY IInvByVariable, GetOrRecoverIsOk DEF FInv
<1>3. OtpPrompt(s.otp_attempts) \in PromptIntent
  BY <1>2, OtpPromptRenders DEF SessionOk, CallSession
<1>4. /\ sessions' = Put(sessions, c, s)
      /\ reply' = Put(reply, c, [endpoint |-> url, document |-> Render(OtpPrompt(s.otp_attempts))])
  BY DEF ServeOtpPrompt, Served
<1> HIDE DEF s
<1>5. c \in DOMAIN reply' /\ reply'[c].document = Render(OtpPrompt(s.otp_attempts))
  BY <1>4 DEF Put
<1>6. \A x \in DOMAIN sessions' : sessions'[x].authenticated => x \in entered
  BY <1>1, <1>4 DEF Put, FInv, CodeWasEntered
<1>7. QED BY <1>3, <1>5, <1>6, RenderedIsPlayable DEF Handled

-----------------------------------------------------------------------------
(* The callbacks *)

\* A callback is a step of the service, and keeps what the legs rely on.
Keeps(c, url) ==
  /\ [Next]_vars
  /\ \A x \in DOMAIN sessions' : sessions'[x].authenticated => x \in entered
  /\ url \in AskedUrls => c \in DOMAIN reply' /\ Playable(reply'[c].document)

LEMMA CallbackServes ==
  ASSUME FInv, NEW c \in Calls, NEW url \in PlainUrls, Callback(c, url)
  PROVE  Keeps(c, url)
<1> USE DEF PlainUrls, CallbackUrls, VoiceUrls, EventUrls, DigitUrls, AskedUrls
<1>a. /\ NoInput \in InputEvent /\ NoInput # DigitsInput(OtpCode)
      /\ ActionDone \in InputEvent /\ ActionDone # DigitsInput(OtpCode)
  BY DEF InputEvent, NoInput, ActionDone, DigitsInput
<1>b. \A x \in DOMAIN sessions : sessions[x].authenticated => x \in entered
  BY DEF FInv, CodeWasEntered
<1>1. CASE url = "/voice/answer"
  <2>1. Answer(c)
    BY <1>1 DEF Callback
  <2>2. QED BY <2>1, OtpPromptHandles DEF Answer, Next, Handled, Keeps
<1>2. CASE url \in {"/voice/otp-timeout", "/voice/language-timeout", "/voice/action-timeout"}
  <2>1. HandleWebhook(c, url, NoInput)
    BY <1>2 DEF Callback, OtpTimeout, LanguageTimeout, ActionTimeout
  <2>2. OtpTimeout(c) \/ LanguageTimeout(c) \/ ActionTimeout(c)
    BY <1>2, <2>1 DEF OtpTimeout, LanguageTimeout, ActionTimeout
  <2>3. QED BY <1>a, <2>1, <2>2, MenuTurnHandles DEF Next, Handled, Keeps
<1>3. CASE url = "/voice/action-menu"
  <2>1. ActionMenu(c)
    BY <1>3 DEF Callback
  <2>2. QED BY <1>a, <2>1, MenuTurnHandles DEF ActionMenu, Next, Handled, Keeps
<1>4. CASE url = "/events/hangup"
  <2>1. Hangup(c)
    BY <1>4 DEF Callback
  <2> DEFINE u == [GetOrRecover(c) EXCEPT !.state = "COMPLETED", !.ended = TRUE]
  <2>2. sessions' = Put(sessions, c, u)
    BY <2>1 DEF Hangup, FinalizeCall
  <2>3. SessionOk(GetOrRecover(c))
    BY IInvByVariable, GetOrRecoverIsOk DEF FInv
  <2>4. u.authenticated = GetOrRecover(c).authenticated
    BY <2>3 DEF SessionOk, CallSession
  <2>5. GetOrRecover(c).authenticated => c \in entered
    BY <1>b DEF GetOrRecover, NewSession
  <2> HIDE DEF u
  <2>6. \A x \in DOMAIN sessions' : sessions'[x].authenticated => x \in entered
    BY <1>b, <2>2, <2>4, <2>5 DEF Put
  <2>7. QED BY <1>4, <2>1, <2>6 DEF Next, Keeps
<1>5. CASE url = "/events/fallback"
  <2>1. Fallback(c)
    BY <1>5 DEF Callback
  <2>2. c \in DOMAIN reply' /\ reply'[c].document = ErrorDocument
    BY <2>1 DEF Fallback, Served, Put
  <2>3. sessions' = sessions
    BY <2>1 DEF Fallback
  <2>4. QED BY <1>b, <2>1, <2>2, <2>3, ErrorIsPlayable DEF Next, Keeps
<1>6. CASE url = "/events/dial-status"
  <2>1. UNCHANGED vars
    BY <1>6 DEF Callback, DialStatus
  <2>2. QED BY <1>6, <1>b, <2>1 DEF vars, Keeps
<1>7. QED BY <1>1, <1>2, <1>3, <1>4, <1>5, <1>6

LEMMA DigitsCallbackServes ==
  ASSUME FInv, NEW c \in Calls, NEW url \in DigitUrls, NEW d \in Digits,
         d = OtpCode => c \in entered, DigitsCallback(c, url, d)
  PROVE  Keeps(c, url)
<1>a. DigitsInput(d) \in InputEvent /\ (DigitsInput(d) = DigitsInput(OtpCode) => d = OtpCode)
  BY DEF InputEvent, DigitsInput
<1>1. Handled(c)
  <2>1. CASE \E u : HandleWebhook(c, u, DigitsInput(d))
    BY <1>a, <2>1, MenuTurnHandles
  <2>2. CASE \E u : ServeOtpPrompt(c, u)
    BY <2>2, OtpPromptHandles
  <2>3. QED BY <2>1, <2>2 DEF DigitsCallback, DigitUrls, Otp, Language, Action
<1>2. Next
  BY DEF DigitsCallback, DigitUrls, Next
<1>3. QED BY <1>1, <1>2 DEF Handled, Keeps

-----------------------------------------------------------------------------
(* The steps of a leg *)

\* A leg that asks keeps the invariant, provided what it posts is well formed.
LEMMA AskingIsOk ==
  ASSUME FInv, NEW c \in Calls, NEW url \in AskedUrls, NEW d, NEW others,
         Ask(c, url, d, others), UNCHANGED vars, entered \subseteq entered',
         Posted(Req(c, url, d), entered'), \A r \in others : Posted(r, entered')
  PROVE  FInv'
<1>1. IInv' /\ CodeWasEntered'
  BY DEF vars, FInv, IInv, TypeOK, OtpGate, LocaleMatchesState, EndedIffTerminal,
         CodeWasEntered
<1>2. LegsOk'
  BY ErrorIsPlayable DEF FInv, LegsOk, Ask, Waiting
<1>3. InboxOk'
  BY DEF FInv, InboxOk, Ask, Posted
<1>4. QED BY <1>1, <1>2, <1>3 DEF FInv

LEMMA EndingIsOk ==
  ASSUME FInv, NEW c \in Calls, NEW others, End(c, others), UNCHANGED <<vars, entered>>,
         \A r \in others : Posted(r, entered)
  PROVE  FInv'
<1>1. IInv' /\ CodeWasEntered'
  BY DEF vars, FInv, IInv, TypeOK, OtpGate, LocaleMatchesState, EndedIffTerminal,
         CodeWasEntered
<1>2. LegsOk'
  BY ErrorIsPlayable DEF FInv, LegsOk, End, Over
<1>3. Posted(Req(c, "/events/hangup", NoDigits), entered)
  BY DigitsAssumption
     DEF Posted, Req, PlainUrls, DigitUrls, CallbackUrls, VoiceUrls, EventUrls, Digits
<1>4. InboxOk'
  BY <1>3 DEF FInv, InboxOk, End
<1>5. QED BY <1>1, <1>2, <1>4 DEF FInv

\* Requests without digits.
LEMMA PlainIsPosted ==
  ASSUME NEW c \in Calls, NEW url \in PlainUrls, NEW callers
  PROVE  Posted(Req(c, url, NoDigits), callers)
BY DigitsAssumption DEF Posted, Req, Digits

\* A handled request is a step of the service.
LEMMA HandlingKeeps ==
  ASSUME FInv, NEW r \in inbox, Handle(r)
  PROVE  Keeps(r.call, r.url)
<1>1. Posted(r, entered)
  BY DEF FInv, InboxOk
<1>2. CASE r.digits = NoDigits
  <2>1. r.url \in PlainUrls /\ Callback(r.call, r.url)
    BY <1>1, <1>2, DigitsAssumption DEF Posted, Handle
  <2>2. QED BY <1>1, <2>1, CallbackServes DEF Posted
<1>3. CASE r.digits # NoDigits
  <2>1. r.url \in DigitUrls /\ r.digits \in Digits /\ DigitsCallback(r.call, r.url, r.digits)
    BY <1>1, <1>3 DEF Posted, Handle
  <2>2. QED BY <1>1, <2>1, DigitsCallbackServes DEF Posted
<1>4. QED BY <1>2, <1>3

LEMMA HandlingIsOk ==
  ASSUME FInv, NEW r \in inbox, Handle(r)
  PROVE  FInv' /\ [Next]_vars
<1> DEFINE c == r.call
<1>1. Posted(r, entered)
  BY DEF FInv, InboxOk
<1>2. Keeps(c, r.url)
  BY HandlingKeeps
<1>3. entered' = entered /\ inbox' \subseteq inbox
  BY DEF Handle, told
<1>4. IInv'
  BY <1>2, StepIsOk DEF FInv, Keeps
<1>5. CodeWasEntered'
  BY <1>2, <1>3 DEF Keeps, CodeWasEntered
<1>6. InboxOk'
  BY <1>3 DEF FInv, InboxOk
<1>7. LegsOk'
  <2>1. CASE UNCHANGED leg
    BY <2>1 DEF FInv, LegsOk
  <2>2. CASE /\ leg[c].phase = "waiting" /\ leg[c].awaits = r.url
             /\ leg' = [leg EXCEPT ![c] = Playing(reply'[c].document)]
    <3>1. Playable(reply'[c].document)
      BY <1>1, <1>2, <2>2 DEF FInv, LegsOk, Posted, Keeps
    <3>2. QED BY <2>2, <3>1 DEF FInv, LegsOk, Playing
  <2>3. QED BY <2>1, <2>2 DEF Handle
<1>8. QED BY <1>2, <1>4, <1>5, <1>6, <1>7 DEF FInv, Keeps

\* A clip or a transfer asks for the next document when it is over.
LEMMA LeavesHandBack ==
  ASSUME FInv, NEW c \in Calls, DocumentEnds(c)
  PROVE  LET doc == leg[c].document
         IN  Ask(c, doc.redirect, NoDigits,
                 IF doc.action = NoUrl THEN {} ELSE {Req(c, doc.action, NoDigits)})
BY DEF FInv, LegsOk, Playable, DocumentEnds

-----------------------------------------------------------------------------
(* Theorems *)

LEMMA FlowInitIsOk == FlowInit => FInv
<1> SUFFICES ASSUME FlowInit  PROVE FInv
  OBVIOUS
<1>1. IInv
  BY InitIsOk DEF FlowInit
<1>2. LegsOk
  BY ErrorIsPlayable DEF FlowInit, LegsOk, Idle
<1>3. InboxOk /\ CodeWasEntered
  BY DEF FlowInit, InboxOk, CodeWasEntered, Init
<1>4. QED BY <1>1, <1>2, <1>3 DEF FInv

LEMMA FlowStepIsOk == FInv /\ [FlowNext]_flowVars => FInv' /\ [Next]_vars
<1> SUFFICES ASSUME FInv, [FlowNext]_flowVars  PROVE FInv' /\ [Next]_vars
  OBVIOUS
<1> USE DEF AskedUrls, PlainUrls, DigitUrls, CallbackUrls, VoiceUrls, EventUrls
<1>a. \A c \in Calls : Playable(leg[c].document)
  BY DEF FInv, LegsOk
<1>1. CASE \E c \in Calls : Answered(c)
  BY <1>1, AskingIsOk, PlainIsPosted DEF Answered, told
<1>2. ASSUME NEW c \in Calls, NEW d \in Digits, PressDigits(c, d)
      PROVE  FInv' /\ [Next]_vars
  <2> DEFINE url == leg[c].document.action
  <2>1. url \in DigitUrls
    BY <1>a, <1>2 DEF PressDigits, Playable
  <2>2. /\ Ask(c, url, d, {}) /\ UNCHANGED vars /\ entered \subseteq entered'
        /\ d = OtpCode => c \in entered'
    BY <1>2 DEF PressDigits
  <2>3. Posted(Req(c, url, d), entered')
    BY <2>1, <2>2 DEF Posted, Req
  <2>4. QED BY <2>1, <2>2, <2>3, AskingIsOk
<1>3. ASSUME NEW c \in Calls, Silence(c)
      PROVE  FInv' /\ [Next]_vars
  <2>1. leg[c].document.redirect \in VoiceUrls \ DigitUrls
    BY <1>a, <1>3 DEF Silence, Playable
  <2>2. QED BY <1>3, <2>1, AskingIsOk, PlainIsPosted DEF Silence, told
<1>4. ASSUME NEW c \in Calls, DocumentEnds(c)
      PROVE  FInv' /\ [Next]_vars
  <2> DEFINE doc == leg[c].document
             others == IF doc.action = NoUrl THEN {} ELSE {Req(c, doc.action, NoDigits)}
  <2>1. doc.redirect \in VoiceUrls \ DigitUrls /\ doc.action \in PlainUrls \cup {NoUrl}
    BY <1>a, <1>4 DEF DocumentEnds, Playable
  <2>2. Ask(c, doc.redirect, NoDigits, others) /\ UNCHANGED <<vars, told>>
    BY <1>4, LeavesHandBack DEF DocumentEnds
  <2>3. \A r \in others : Posted(r, entered')
    BY <2>1, PlainIsPosted
  <2> HIDE DEF others
  <2>4. QED BY <2>1, <2>2, <2>3, AskingIsOk, PlainIsPosted DEF told
<1>5. CASE \E c \in Calls : CallerHangsUp(c) \/ Goodbye(c)
  BY <1>5, EndingIsOk DEF CallerHangsUp, Goodbye, told
<1>6. ASSUME NEW c \in Calls, GiveUp(c)
      PROVE  FInv' /\ [Next]_vars
  <2>1. CASE leg[c].awaits = "/voice/answer"
    BY <1>6, <2>1, AskingIsOk, PlainIsPosted DEF GiveUp, told
  <2>2. CASE leg[c].awaits # "/voice/answer"
    BY <1>6, <2>2, EndingIsOk DEF GiveUp, told
  <2>3. QED BY <2>1, <2>2
<1>7. CASE \E r \in inbox : Lose(r)
  BY <1>7 DEF Lose, vars, told, FInv, IInv, TypeOK, OtpGate, LocaleMatchesState,
              EndedIffTerminal, LegsOk, InboxOk, CodeWasEntered
<1>8. CASE \E r \in inbox : Handle(r)
  BY <1>8, HandlingIsOk
<1>9. CASE ProcessRestarts
  <2>1. Restart
    BY <1>9 DEF ProcessRestarts
  <2>2. IInv'
    BY <2>1, RestartIsOk DEF FInv
  <2>3. LegsOk' /\ InboxOk'
    BY <1>9 DEF ProcessRestarts, told, FInv, LegsOk, InboxOk
  <2>4. CodeWasEntered'
    BY <2>1 DEF Restart, CodeWasEntered
  <2>5. QED BY <2>1, <2>2, <2>3, <2>4 DEF FInv, Next
<1>10. CASE UNCHANGED flowVars
  BY <1>10 DEF flowVars, vars, told, FInv, IInv, TypeOK, OtpGate, LocaleMatchesState,
               EndedIffTerminal, LegsOk, InboxOk, CodeWasEntered
<1>11. QED
  BY <1>1, <1>2, <1>3, <1>4, <1>5, <1>6, <1>7, <1>8, <1>9, <1>10 DEF FlowNext

THEOREM FlowInvariance == FlowSpec => []FInv
<1>1. QED BY FlowInitIsOk, FlowStepIsOk, PTL DEF FlowSpec

\* FlowTypeOK: a leg's request, and what it plays, are of the program's kinds.
LEMMA FlowStepIsTyped ==
  ASSUME FInv, FlowTypeOK, [FlowNext]_flowVars
  PROVE  FlowTypeOK'
<1>a. FInv' /\ TypeOK'
  BY FlowStepIsOk DEF FInv, IInv
<1>b. ErrorDocument \in Document /\ AskedUrls \subseteq CallbackUrls /\ DigitUrls \subseteq CallbackUrls
      /\ PlainUrls \subseteq CallbackUrls
  BY ErrorDocumentIsOk DEF AskedUrls, DigitUrls, PlainUrls, CallbackUrls, VoiceUrls, EventUrls
<1>c. \A c \in Calls : Playable(leg[c].document)
  BY DEF FInv, LegsOk
<1>d. ASSUME NEW c \in Calls, NEW url \in CallbackUrls, NEW d \in Digits \cup {NoDigits},
             NEW others \in SUBSET Request, Ask(c, url, d, others)
      PROVE  leg' \in [Calls -> Leg] /\ inbox' \subseteq Request
  BY <1>b, <1>d DEF Ask, FlowTypeOK, Waiting, Leg, Req, Request
<1>1. CASE \E c \in Calls : Answered(c)
  BY <1>1, <1>a, <1>d DEF Answered, told, crashes, FlowTypeOK, CallbackUrls, VoiceUrls
<1>2. ASSUME NEW c \in Calls, NEW d \in Digits, PressDigits(c, d)
      PROVE  FlowTypeOK'
  <2>1. leg[c].document.action \in CallbackUrls
    BY <1>b, <1>c, <1>2 DEF PressDigits, Playable
  <2>2. leg' \in [Calls -> Leg] /\ inbox' \subseteq Request
    BY <1>2, <1>d, <2>1 DEF PressDigits
  <2>3. \A k \in DOMAIN LocaleOfKey : LocaleOfKey[k] \in AnyLocale
    BY DEF LocaleOfKey, AnyLocale, Locale
  <2>4. entered' \subseteq Calls /\ chosen' \in [Calls -> AnyLocale]
    BY <1>2, <2>3 DEF PressDigits, FlowTypeOK
  <2>5. QED BY <1>2, <1>a, <2>2, <2>4 DEF PressDigits, crashes, FlowTypeOK
<1>3. ASSUME NEW c \in Calls, Silence(c) \/ DocumentEnds(c)
      PROVE  FlowTypeOK'
  <2> DEFINE doc == leg[c].document
  <2>1. doc.redirect \in CallbackUrls
        /\ (doc.verb \in {"Play", "Dial"} => doc.action \in CallbackUrls \cup {NoUrl})
    BY <1>c, <1>3 DEF Silence, DocumentEnds, Playable, CallbackUrls, PlainUrls
  <2>2. PICK others \in SUBSET Request : Ask(c, doc.redirect, NoDigits, others)
    <3>1. CASE Ask(c, doc.redirect, NoDigits, {})
      BY <3>1
    <3>2. CASE /\ DocumentEnds(c) /\ doc.action # NoUrl
               /\ Ask(c, doc.redirect, NoDigits, {Req(c, doc.action, NoDigits)})
      <4>1. Req(c, doc.action, NoDigits) \in Request
        BY <2>1, <3>2 DEF DocumentEnds, Req, Request
      <4>2. QED BY <3>2, <4>1
    <3>3. CASE Silence(c) \/ (DocumentEnds(c) /\ doc.action = NoUrl)
      BY <3>1, <3>3, LeavesHandBack DEF Silence
    <3>4. CASE DocumentEnds(c) /\ ~(doc.action = NoUrl)
      BY <3>2, <3>4, LeavesHandBack
    <3>5. QED BY <1>3, <3>3, <3>4
  <2>3. leg' \in [Calls -> Leg] /\ inbox' \subseteq Request
    BY <1>d, <2>1, <2>2
  <2>4. QED BY <1>3, <1>a, <2>3 DEF Silence, DocumentEnds, told, crashes, FlowTypeOK
<1>4. ASSUME NEW c \in Calls, End(c, {}), UNCHANGED <<entered, chosen, crashes>>,
             left' \subseteq Calls
      PROVE  FlowTypeOK'
  <2>1. leg' \in [Calls -> Leg] /\ inbox' \subseteq Request
    BY <1>b, <1>4 DEF End, FlowTypeOK, Over, Leg, Req, Request, CallbackUrls, EventUrls
  <2>2. QED BY <1>4, <1>a, <2>1 DEF crashes, FlowTypeOK
<1>5. ASSUME NEW c \in Calls, GiveUp(c)
      PROVE  FlowTypeOK'
  <2>1. CASE leg[c].awaits = "/voice/answer"
    <3>1. "/events/fallback" \in CallbackUrls /\ {} \in SUBSET Request
      BY DEF CallbackUrls, EventUrls
    <3>2. leg' \in [Calls -> Leg] /\ inbox' \subseteq Request
      BY <1>5, <1>d, <2>1, <3>1 DEF GiveUp
    <3>3. QED BY <1>5, <1>a, <2>1, <3>2 DEF GiveUp, told, crashes, FlowTypeOK
  <2>2. QED BY <1>4, <1>5, <2>1 DEF GiveUp, told, FlowTypeOK
<1>6. CASE \E r \in inbox : Lose(r)
  BY <1>6, <1>a DEF Lose, told, crashes, FlowTypeOK
<1>7. ASSUME NEW r \in inbox, Handle(r)
      PROVE  FlowTypeOK'
  <2> DEFINE c == r.call
  <2>1. Keeps(c, r.url)
    BY <1>7, HandlingKeeps
  <2>2. c \in Calls /\ \A x \in Calls : leg[x].phase = "waiting" => leg[x].awaits \in AskedUrls
    BY DEF FInv, InboxOk, Posted, LegsOk
  <2>3. leg' \in [Calls -> Leg]
    <3>1. CASE UNCHANGED leg
      BY <3>1 DEF FlowTypeOK
    <3>2. CASE /\ leg[c].phase = "waiting" /\ leg[c].awaits = r.url
               /\ leg' = [leg EXCEPT ![c] = Playing(reply'[c].document)]
      <4>1. reply'[c].document \in Document
        BY <1>a, <2>1, <2>2, <3>2 DEF Keeps, TypeOK
      <4>2. QED BY <3>2, <4>1 DEF FlowTypeOK, Playing, Leg
    <3>3. QED BY <1>7, <3>1, <3>2 DEF Handle
  <2>4. QED BY <1>7, <1>a, <2>3 DEF Handle, told, crashes, FlowTypeOK
<1>8. CASE ProcessRestarts
  BY <1>8, <1>a, RestartsAssumption DEF ProcessRestarts, told, FlowTypeOK
<1>9. CASE UNCHANGED flowVars
  BY <1>9, <1>a DEF flowVars, told, crashes, FlowTypeOK
<1>10. CASE \E c \in Calls : CallerHangsUp(c) \/ Goodbye(c)
  BY <1>4, <1>10 DEF CallerHangsUp, Goodbye, told, FlowTypeOK
<1>11. QED BY <1>1, <1>2, <1>3, <1>5, <1>6, <1>7, <1>8, <1>9, <1>10 DEF FlowNext

THEOREM FlowTypes == FlowSpec => []FlowTypeOK
<1>1. FlowInit => FlowTypeOK
  <2>1. FlowInit => TypeOK
    BY FlowInitIsOk DEF FInv, IInv
  <2>2. QED BY <2>1, RestartsAssumption, ErrorDocumentIsOk
            DEF FlowInit, FlowTypeOK, Idle, Leg, AnyLocale
<1>2. FInv /\ FlowTypeOK /\ [FlowNext]_flowVars => FlowTypeOK'
  BY FlowStepIsTyped
<1>3. QED BY <1>1, <1>2, FlowInvariance, PTL DEF FlowSpec

\* A session is authenticated only by its own call's caller entering the code,
\* with any number of calls at once over one store.
THEOREM NobodyElseLetsIn == FlowSpec => []CodeWasEntered
BY FlowInvariance, PTL DEF FInv

\* While a document plays, a call ends only because its caller hangs up or the
\* service has said goodbye: no clip and no transfer ends it.
THEOREM NobodyIsCutOff == FlowSpec => StaysOnTheLine
<1>1. ASSUME FInv, [FlowNext]_flowVars, NEW c \in Calls,
             leg[c].phase = "playing", leg'[c].phase = "over"
      PROVE  c \in left' \/ leg[c].document.verb = "Hangup"
  <2>a. DOMAIN leg = Calls
    BY <1>1 DEF FInv, LegsOk
  <2>b. ASSUME NEW x \in Calls, NEW url, NEW d, NEW others, Ask(x, url, d, others)
        PROVE  FALSE
    BY <1>1, <2>a, <2>b DEF Ask, Waiting
  <2>1. ASSUME NEW x \in Calls,
               \/ Answered(x) \/ Silence(x) \/ DocumentEnds(x)
               \/ \E d \in Digits : PressDigits(x, d)
        PROVE  FALSE
    BY <1>1, <2>b, <2>1, LeavesHandBack DEF Answered, Silence, PressDigits
  <2>2. ASSUME NEW x \in Calls, CallerHangsUp(x)
        PROVE  c \in left'
    BY <1>1, <2>a, <2>2 DEF CallerHangsUp, End
  <2>3. ASSUME NEW x \in Calls, Goodbye(x)
        PROVE  leg[c].document.verb = "Hangup"
    BY <1>1, <2>a, <2>3 DEF Goodbye, End
  <2>4. ASSUME NEW x \in Calls, GiveUp(x)
        PROVE  FALSE
    BY <1>1, <2>a, <2>b, <2>4 DEF GiveUp, End
  <2>5. CASE \E r \in inbox : Lose(r) \/ Handle(r)
    BY <1>1, <2>a, <2>5 DEF Lose, Handle, Playing
  <2>6. CASE ProcessRestarts \/ UNCHANGED flowVars
    BY <1>1, <2>6 DEF ProcessRestarts, flowVars
  <2>7. FlowNext \/ UNCHANGED flowVars
    BY <1>1
  <2>8. QED BY <2>1, <2>2, <2>3, <2>4, <2>5, <2>6, <2>7 DEF FlowNext
<1>2. FInv /\ [FlowNext]_flowVars =>
        [\A c \in Calls : leg[c].phase = "playing" /\ leg'[c].phase = "over"
           => c \in left' \/ leg[c].document.verb = "Hangup"]_flowVars
  BY <1>1
<1>3. QED BY <1>2, FlowInvariance, PTL DEF FlowSpec, StaysOnTheLine

\* Call legs post only webhooks the service is specified for: whole calls, with
\* restarts and losses, implement CallService, and so have all its properties.
THEOREM LegsDriveTheService == FlowSpec => Spec
<1>1. FlowInit => Init
  BY DEF FlowInit
<1>2. QED BY <1>1, FlowInvariance, FlowStepIsOk, PTL DEF FlowSpec, Spec
=============================================================================
