-------------------------- MODULE CallServiceProofs --------------------------
(***************************************************************************)
(* Proofs about CallService for any set of calls, any timeline length, any *)
(* bound on attempts and any environment that posts webhooks: the type     *)
(* invariant, the code gate, and the language the documents need.          *)
(*                                                                         *)
(* Everything rests on one invariant of a single session, SessionOk, which *)
(* IvrMachineProofs.tla shows advance() to preserve.                       *)
(***************************************************************************)
EXTENDS CallService, IvrMachineProofs, SequenceTheorems

-----------------------------------------------------------------------------
(* What the dtmf event reports *)

LEMMA ReportIsBoolean ==
  ASSUME NEW s, NEW d
  PROVE  DigitsWillAdvance(s, d) \in BOOLEAN
<1>1. CASE s.state = "AWAITING_OTP"   BY <1>1 DEF DigitsWillAdvance
<1>2. CASE s.state = "LANGUAGE_MENU"  BY <1>2 DEF DigitsWillAdvance
<1>3. CASE s.state = "ACTION_MENU"    BY <1>3 DEF DigitsWillAdvance
<1>4. CASE s.state \notin {"AWAITING_OTP", "LANGUAGE_MENU", "ACTION_MENU"}
  BY <1>4 DEF DigitsWillAdvance
<1>5. QED BY <1>1, <1>2, <1>3, <1>4

\* The two places that decide whether digits are accepted agree: at a menu,
\* _digits_will_advance() says yes exactly when advance() changes the state.
THEOREM ReportAgreesWithAdvance ==
  ASSUME NEW s \in CallSession, s.state \in CollectingStates, NEW d
  PROVE  DigitsWillAdvance(s, d) <=> Advance(s, DigitsInput(d)).session.state # s.state
<1> DEFINE next == Advance(s, DigitsInput(d)).session.state
<1>a. \A x : DigitsInput(x) = DigitsInput(d) <=> x = d
  BY DEF DigitsInput
<1>b. ASSUME NEW u, NEW n, NEW p, u \in CallSession, n \in CallState,
             Advance(s, DigitsInput(d)) = Goto(u, n, p)
      PROVE  next = n
  BY <1>b, GotoFields
<1>c. CollectingStates \cup LeafStates \subseteq CallState
  BY DEF CallState
<1> HIDE DEF next
<1>1. CASE s.state = "AWAITING_OTP"
  <2>1. Advance(s, DigitsInput(d)) = AdvanceOtp(s, DigitsInput(d))
    BY <1>1 DEF Advance, LeafStates
  <2>2. ASSUME d = OtpCode  PROVE  next = "LANGUAGE_MENU"
    <3> DEFINE u == [s EXCEPT !.authenticated = TRUE]
    <3>1. u \in CallSession
      BY DEF CallSession
    <3>2. Advance(s, DigitsInput(d)) = Goto(u, "LANGUAGE_MENU", Prompt("language_menu", NoLocale))
      BY <2>1, <2>2 DEF AdvanceOtp
    <3>3. QED BY <1>b, <1>c, <3>1, <3>2 DEF CollectingStates
  <2>3. ASSUME d # OtpCode  PROVE  next = "AWAITING_OTP"
    <3> DEFINE u == [s EXCEPT !.otp_attempts = @ + 1]
    <3>1. u \in CallSession
      BY DEF CallSession
    <3>2. Advance(s, DigitsInput(d)) = Goto(u, "AWAITING_OTP", OtpPrompt(s.otp_attempts + 1))
      BY <1>a, <2>1, <2>3 DEF AdvanceOtp
    <3>3. QED BY <1>b, <1>c, <3>1, <3>2 DEF CollectingStates
  <2>4. QED BY <1>1, <2>2, <2>3 DEF DigitsWillAdvance, next
<1>2. CASE s.state = "LANGUAGE_MENU"
  <2>1. Advance(s, DigitsInput(d)) = AdvanceLanguage(s, DigitsInput(d))
    BY <1>2 DEF Advance, LeafStates
  <2>2. d \in {"1", "2"} <=> DigitsInput(d) \in {DigitsInput(x) : x \in DOMAIN LocaleOfKey}
    BY <1>a DEF LocaleOfKey
  <2>3. ASSUME d \in {"1", "2"}  PROVE  next = "ACTION_MENU"
    <3> DEFINE l == LocaleOfKey[d]
               u == [s EXCEPT !.locale = l]
    <3>1. u \in CallSession
      BY <2>3 DEF CallSession, LocaleOfKey, AnyLocale, Locale
    <3>2. DigitsInput(d).digits = d
      BY DEF DigitsInput
    <3>3. Advance(s, DigitsInput(d)) = Goto(u, "ACTION_MENU", Prompt("action_menu", l))
      BY <2>1, <2>2, <2>3, <3>2 DEF AdvanceLanguage
    <3>4. QED BY <1>b, <1>c, <3>1, <3>3 DEF CollectingStates
  <2>4. ASSUME d \notin {"1", "2"}  PROVE  next = "LANGUAGE_MENU"
    <3>1. Advance(s, DigitsInput(d))
            = Goto(s, "LANGUAGE_MENU", Prompt("language_retry", NoLocale))
      BY <2>1, <2>2, <2>4 DEF AdvanceLanguage
    <3>2. QED BY <1>b, <1>c, <3>1 DEF CollectingStates
  <2>5. QED BY <1>2, <2>3, <2>4 DEF DigitsWillAdvance, next
<1>3. CASE s.state = "ACTION_MENU"
  <2>1. DigitsInput(d) # ActionDone
    BY DEF DigitsInput, ActionDone
  <2>2. Advance(s, DigitsInput(d)) = AdvanceActionMenu(s, DigitsInput(d))
    BY <1>3 DEF Advance, LeafStates
  <2>3. [s EXCEPT !.locale = NoLocale] \in CallSession
    BY DEF CallSession, AnyLocale
  <2>4. d = "1" => next = "PLAYING_AUDIO"
    BY <1>a, <1>b, <1>c, <2>1, <2>2 DEF AdvanceActionMenu, LeafStates
  <2>5. d = "2" => next = "TRANSFERRING"
    BY <1>a, <1>b, <1>c, <2>1, <2>2 DEF AdvanceActionMenu, LeafStates
  <2>6. d = "9" => next = "LANGUAGE_MENU"
    BY <1>a, <1>b, <1>c, <2>1, <2>2, <2>3 DEF AdvanceActionMenu, CollectingStates
  <2>7. d \notin {"1", "2", "9"} => next = "ACTION_MENU"
    BY <1>a, <1>b, <1>c, <2>1, <2>2 DEF AdvanceActionMenu, CollectingStates
  <2>8. QED BY <1>3, <2>4, <2>5, <2>6, <2>7 DEF DigitsWillAdvance, next
<1>4. QED BY <1>1, <1>2, <1>3 DEF CollectingStates

-----------------------------------------------------------------------------
(* The service *)

\* The inductive invariant: its parts are the invariants of the runs.  None of
\* the three below TypeOK is inductive without the others: it is the ended
\* flag that keeps finalize_call()'s sessions out of the menus, and the menu a
\* session is in that says whether the next prompt needs its language.
IInv == TypeOK /\ OtpGate /\ LocaleMatchesState /\ EndedIffTerminal

StoreOk(store) ==
  /\ DOMAIN store \subseteq CallIds
  /\ \A c \in DOMAIN store : SessionOk(store[c]) /\ store[c].otp_attempts <= MaxAttempts

TimelineOk ==
  /\ timeline \in [Calls -> Seq(CallEvent)]
  /\ \A c \in Calls : Len(timeline[c]) <= MAX_EVENTS_PER_CALL

ReplyOk ==
  /\ DOMAIN reply \subseteq Calls
  /\ \A c \in DOMAIN reply : /\ reply[c].endpoint \in CallbackUrls
                             /\ reply[c].document \in Document

\* The same invariant, one variable at a time.
LEMMA IInvByVariable == IInv <=> StoreOk(sessions) /\ TimelineOk /\ ReplyOk
BY DEF IInv, TypeOK, OtpGate, LocaleMatchesState, EndedIffTerminal, StoreOk, SessionOk,
       TimelineOk, ReplyOk

LEMMA IInvByNextVariable == IInv' <=> StoreOk(sessions') /\ TimelineOk' /\ ReplyOk'
BY DEF IInv, TypeOK, OtpGate, LocaleMatchesState, EndedIffTerminal, StoreOk, SessionOk,
       TimelineOk, ReplyOk

LEMMA PutIsOk ==
  ASSUME NEW store, StoreOk(store), NEW c \in CallIds,
         NEW s, SessionOk(s), s.otp_attempts <= MaxAttempts
  PROVE  StoreOk(Put(store, c, s))
BY DEF StoreOk, Put

LEMMA GetOrRecoverIsOk ==
  ASSUME StoreOk(sessions), NEW c
  PROVE  SessionOk(GetOrRecover(c)) /\ GetOrRecover(c).otp_attempts <= MaxAttempts
BY NewSessionIsOk, BoundsAssumption DEF StoreOk, GetOrRecover, NewSession

\* deque(maxlen=n) keeps at most n events.
LEMMA LastOfIsBounded ==
  ASSUME NEW S, NEW seq \in Seq(S), NEW n \in Nat
  PROVE  LastOf(seq, n) \in Seq(S) /\ Len(LastOf(seq, n)) <= n
<1>1. CASE Len(seq) <= n
  BY <1>1 DEF LastOf
<1>2. CASE ~(Len(seq) <= n)
  <2>1. Len(seq) \in Nat /\ Len(seq) - n + 1 \in 1 .. Len(seq) + 1
    BY <1>2
  <2>2. SubSeq(seq, Len(seq) - n + 1, Len(seq)) \in Seq(S)
    BY <1>2, <2>1, SubSeqProperties
  <2>3. Len(SubSeq(seq, Len(seq) - n + 1, Len(seq))) <= n
    BY <1>2, <2>1, SubSeqProperties
  <2>4. QED BY <1>2, <2>2, <2>3 DEF LastOf
<1>3. QED BY <1>1, <1>2

LEMMA RecordIsOk ==
  ASSUME TimelineOk, NEW c \in Calls, NEW es \in Seq(CallEvent), Record(c, es)
  PROVE  TimelineOk'
<1>1. timeline[c] \o es \in Seq(CallEvent)
  BY DEF TimelineOk
<1>2. /\ LastOf(timeline[c] \o es, MAX_EVENTS_PER_CALL) \in Seq(CallEvent)
      /\ Len(LastOf(timeline[c] \o es, MAX_EVENTS_PER_CALL)) <= MAX_EVENTS_PER_CALL
  BY <1>1, LastOfIsBounded, BoundsAssumption
<1>3. QED BY <1>2 DEF TimelineOk, Record

LEMMA ServedIsOk ==
  ASSUME ReplyOk, NEW c \in Calls, NEW url \in CallbackUrls, NEW doc \in Document,
         Served(c, url, doc)
  PROVE  ReplyOk'
BY DEF ReplyOk, Served, Put

LEMMA MenuTurnIsOk ==
  ASSUME IInv, NEW c \in Calls, NEW url \in CallbackUrls, NEW e \in InputEvent,
         HandleWebhook(c, url, e)
  PROVE  IInv'
<1> DEFINE s == GetOrRecover(c)
           t == Advance(s, e)
<1>1. StoreOk(sessions) /\ TimelineOk /\ ReplyOk
  BY IInvByVariable
<1>2. SessionOk(s)
  BY <1>1, GetOrRecoverIsOk
<1>3. SessionOk(t.session) /\ t.prompt \in PromptIntent /\ ~RenderFails(t.prompt)
  BY <1>2, AdvanceIsOk
<1>4. StoreOk(sessions')
  BY <1>1, <1>3, PutIsOk DEF HandleWebhook, CallIds
<1>5. TimelineOk'
  <2> DEFINE dtmf   == IF e.kind = "digits"
                       THEN <<DtmfEvent(s.state, DigitsWillAdvance(s, e.digits))>> ELSE <<>>
             change == IF t.session.state # s.state
                       THEN <<StateChange(s.state, t.session.state)>> ELSE <<>>
             xml    == IF RenderFails(t.prompt) THEN <<>> ELSE <<XmlServed(url)>>
  <2>1. s.state \in CallState /\ t.session.state \in CallState
    BY <1>2, <1>3 DEF SessionOk, CallSession
  <2>2. DtmfEvent(s.state, DigitsWillAdvance(s, e.digits)) \in CallEvent
    BY <2>1, ReportIsBoolean DEF CallEvent
  <2>3. StateChange(s.state, t.session.state) \in CallEvent /\ XmlServed(url) \in CallEvent
    BY <2>1 DEF CallEvent
  <2>4. dtmf \in Seq(CallEvent) /\ change \in Seq(CallEvent) /\ xml \in Seq(CallEvent)
    <3> HIDE DEF s, t
    <3>1. QED BY <2>2, <2>3
  <2>5. Record(c, dtmf \o change \o xml)
    BY DEF HandleWebhook
  <2> HIDE DEF dtmf, change, xml
  <2>6. dtmf \o change \o xml \in Seq(CallEvent)
    BY <2>4
  <2>7. QED BY <1>1, <2>5, <2>6, RecordIsOk
<1>6. ReplyOk'
  BY <1>1, <1>3, RenderIsOk, ServedIsOk DEF HandleWebhook
<1>7. QED BY <1>4, <1>5, <1>6, IInvByNextVariable

LEMMA OtpPromptServedIsOk ==
  ASSUME IInv, NEW c \in Calls, NEW url \in CallbackUrls, ServeOtpPrompt(c, url)
  PROVE  IInv'
<1> DEFINE s == GetOrRecover(c)
<1>1. StoreOk(sessions) /\ TimelineOk /\ ReplyOk
  BY IInvByVariable
<1>2. SessionOk(s) /\ s.otp_attempts <= MaxAttempts
  BY <1>1, GetOrRecoverIsOk
<1>3. s.otp_attempts \in Nat
  BY <1>2 DEF SessionOk, CallSession
<1>4. StoreOk(sessions')
  BY <1>1, <1>2, PutIsOk DEF ServeOtpPrompt, CallIds
<1>5. <<XmlServed(url)>> \in Seq(CallEvent)
  <2>1. XmlServed(url) \in CallEvent
    BY DEF CallEvent
  <2>2. QED BY <2>1
<1>6. TimelineOk'
  BY <1>1, <1>5, RecordIsOk DEF ServeOtpPrompt
<1>7. ReplyOk'
  BY <1>1, <1>3, OtpPromptRenders, RenderIsOk, ServedIsOk DEF ServeOtpPrompt
<1>8. QED BY <1>4, <1>6, <1>7, IInvByNextVariable

LEMMA HangupIsOk ==
  ASSUME IInv, NEW c \in Calls, FinalizeCall(c)
  PROVE  IInv'
<1> DEFINE s == GetOrRecover(c)
           u == [s EXCEPT !.state = "COMPLETED", !.ended = TRUE]
<1>1. StoreOk(sessions) /\ TimelineOk /\ ReplyOk
  BY IInvByVariable
<1>2. SessionOk(s) /\ s.otp_attempts <= MaxAttempts
  BY <1>1, GetOrRecoverIsOk
<1>3. u.otp_attempts = s.otp_attempts
  BY <1>2 DEF SessionOk, CallSession
<1>4. SessionOk(u)
  BY <1>2, ClosedIsOk
<1>5. sessions' = Put(sessions, c, u)
  BY DEF FinalizeCall
<1> HIDE DEF u
<1>6. StoreOk(sessions')
  BY <1>1, <1>2, <1>3, <1>4, <1>5, PutIsOk DEF CallIds
<1>7. <<CallEnded>> \in Seq(CallEvent)
  <2>1. CallEnded \in CallEvent
    BY DEF CallEvent
  <2>2. QED BY <2>1
<1>8. TimelineOk'
  BY <1>1, <1>7, RecordIsOk DEF FinalizeCall
<1>9. ReplyOk'
  BY <1>1 DEF FinalizeCall, ReplyOk
<1>10. QED BY <1>6, <1>8, <1>9, IInvByNextVariable

LEMMA RegistrationIsOk ==
  ASSUME IInv, NEW r \in RequestUuids, RegisterOutboundCall(r)
  PROVE  IInv'
<1>1. StoreOk(sessions) /\ TimelineOk /\ ReplyOk
  BY IInvByVariable
<1>2. StoreOk(sessions')
  BY <1>1, NewSessionIsOk, PutIsOk, BoundsAssumption
     DEF RegisterOutboundCall, CallIds, NewSession
<1>3. TimelineOk' /\ ReplyOk'
  BY <1>1 DEF RegisterOutboundCall, TimelineOk, ReplyOk
<1>4. QED BY <1>2, <1>3, IInvByNextVariable

LEMMA FallbackIsOk ==
  ASSUME IInv, NEW c \in Calls, Fallback(c)
  PROVE  IInv'
<1>1. StoreOk(sessions) /\ TimelineOk /\ ReplyOk
  BY IInvByVariable
<1>2. StoreOk(sessions') /\ TimelineOk'
  BY <1>1 DEF Fallback, TimelineOk
<1>3. ReplyOk'
  BY <1>1, ErrorDocumentIsOk, ServedIsOk DEF Fallback, CallbackUrls, EventUrls
<1>4. QED BY <1>2, <1>3, IInvByNextVariable

LEMMA EmptyStoreIsOk ==
  /\ StoreOk([c \in {} |-> NewSession])
  /\ [c \in Calls |-> <<>>] \in [Calls -> Seq(CallEvent)]
BY DEF StoreOk

LEMMA RestartIsOk == IInv /\ Restart => IInv'
<1> SUFFICES ASSUME IInv, Restart  PROVE IInv'
  OBVIOUS
<1>1. ReplyOk'
  BY IInvByVariable DEF Restart, ReplyOk
<1>2. StoreOk(sessions') /\ TimelineOk'
  BY EmptyStoreIsOk, BoundsAssumption DEF Restart, TimelineOk
<1>3. QED BY <1>1, <1>2, IInvByNextVariable

-----------------------------------------------------------------------------
(* Theorems *)

LEMMA InitIsOk == Init => IInv
<1> SUFFICES ASSUME Init  PROVE IInv
  OBVIOUS
<1>1. StoreOk(sessions) /\ TimelineOk
  BY EmptyStoreIsOk, BoundsAssumption DEF Init, TimelineOk
<1>2. ReplyOk
  BY DEF Init, ReplyOk
<1>3. QED BY <1>1, <1>2, IInvByVariable

LEMMA StepIsOk == IInv /\ [Next]_vars => IInv'
<1> SUFFICES ASSUME IInv, [Next]_vars  PROVE IInv'
  OBVIOUS
<1> USE DEF CallbackUrls, VoiceUrls, EventUrls
<1>a. \A d \in Digits : DigitsInput(d) \in InputEvent
  BY DEF InputEvent
<1>b. NoInput \in InputEvent /\ ActionDone \in InputEvent
  BY DEF InputEvent
<1>1. CASE \E c \in Calls : Answer(c)
  BY <1>1, OtpPromptServedIsOk DEF Answer
<1>2. CASE \E c \in Calls : OtpTimeout(c) \/ LanguageTimeout(c) \/ ActionTimeout(c)
  BY <1>2, <1>b, MenuTurnIsOk DEF OtpTimeout, LanguageTimeout, ActionTimeout
<1>3. CASE \E c \in Calls : ActionMenu(c)
  BY <1>3, <1>b, MenuTurnIsOk DEF ActionMenu
<1>4. CASE \E c \in Calls : Hangup(c)
  BY <1>4, HangupIsOk DEF Hangup
<1>5. CASE \E c \in Calls : Fallback(c)
  BY <1>5, FallbackIsOk
<1>6. CASE \E c \in Calls : \E d \in Digits : Otp(c, d) \/ Action(c, d)
  BY <1>6, <1>a, MenuTurnIsOk DEF Otp, Action
<1>7. CASE \E c \in Calls : \E d \in Digits : Language(c, d)
  BY <1>7, <1>a, MenuTurnIsOk, OtpPromptServedIsOk DEF Language
<1>8. CASE \E r \in RequestUuids : RegisterOutboundCall(r)
  BY <1>8, RegistrationIsOk
<1>9. CASE Restart
  BY <1>9, RestartIsOk
<1>10. CASE UNCHANGED vars
  BY <1>10 DEF vars, IInv, TypeOK, OtpGate, LocaleMatchesState, EndedIffTerminal
<1>11. QED BY <1>1, <1>2, <1>3, <1>4, <1>5, <1>6, <1>7, <1>8, <1>9, <1>10 DEF Next

THEOREM Invariance == Spec => []IInv
BY InitIsOk, StepIsOk, PTL DEF Spec

\* Type correctness of the service.
THEOREM TypeCorrect == Spec => []TypeOK
BY Invariance, PTL DEF IInv

\* The code gate, against every sequence of webhooks.
THEOREM GateHolds == Spec => []OtpGate
BY Invariance, PTL DEF IInv

\* The language is there whenever a document needs it.
THEOREM LocaleHolds == Spec => []LocaleMatchesState
BY Invariance, PTL DEF IInv

\* ended_at and the state agree.
THEOREM EndedHolds == Spec => []EndedIffTerminal
BY Invariance, PTL DEF IInv

-----------------------------------------------------------------------------
(* Goodbye only when over *)

LEMMA MenuTurnGoodbye ==
  ASSUME IInv, NEW c \in Calls, NEW url, NEW e \in InputEvent, HandleWebhook(c, url, e)
  PROVE  GoodbyeStep
<1> DEFINE s == GetOrRecover(c)
           p == Advance(s, e).prompt
<1>1. SessionOk(s)
  BY IInvByVariable, GetOrRecoverIsOk
<1>2. p \in PromptIntent /\ ~RenderFails(p)
  BY <1>1, AdvanceIsOk
<1>3. reply' = Put(reply, c, [endpoint |-> url, document |-> Render(p)])
  BY <1>2 DEF HandleWebhook, Served
<1>4. Render(p) = ErrorDocument => s.ended
  BY <1>1, <1>2, OnlyGoodbyeIsError, OnlyOverSaysGoodbye
<1>5. s.ended => c \in DOMAIN sessions /\ sessions[c].ended
  BY DEF GetOrRecover, NewSession
<1> HIDE DEF s, p
<1>6. QED BY <1>3, <1>4, <1>5 DEF GoodbyeStep, Put

LEMMA OtpPromptGoodbye ==
  ASSUME IInv, NEW c \in Calls, NEW url, ServeOtpPrompt(c, url)
  PROVE  GoodbyeStep
<1> DEFINE n == GetOrRecover(c).otp_attempts
<1>1. reply' = Put(reply, c, [endpoint |-> url, document |-> Render(OtpPrompt(n))])
  BY DEF ServeOtpPrompt, Served
<1>2. Render(OtpPrompt(n)) # ErrorDocument
  BY DEF Render, OtpPrompt, OtpDocument, MenuDocument, ErrorDocument
<1> HIDE DEF n
<1>3. QED BY <1>1, <1>2 DEF GoodbyeStep, Put

\* No /voice webhook hangs up on a caller whose call is not over.
THEOREM GoodbyeHolds == Spec => GoodbyeOnlyWhenOver
<1>1. IInv /\ [Next]_vars => [GoodbyeStep]_vars
  <2> SUFFICES ASSUME IInv, Next  PROVE GoodbyeStep
    OBVIOUS
  <2>a. \A d \in Digits : DigitsInput(d) \in InputEvent
    BY DEF InputEvent
  <2>b. NoInput \in InputEvent /\ ActionDone \in InputEvent
    BY DEF InputEvent
  <2>1. CASE \E c \in Calls : Answer(c)
    BY <2>1, OtpPromptGoodbye DEF Answer
  <2>2. CASE \E c \in Calls : \/ OtpTimeout(c) \/ LanguageTimeout(c) \/ ActionTimeout(c)
                              \/ ActionMenu(c)
    BY <2>2, <2>b, MenuTurnGoodbye DEF OtpTimeout, LanguageTimeout, ActionTimeout, ActionMenu
  <2>3. CASE \E c \in Calls : \E d \in Digits : Otp(c, d) \/ Action(c, d)
    BY <2>3, <2>a, MenuTurnGoodbye DEF Otp, Action
  <2>4. CASE \E c \in Calls : \E d \in Digits : Language(c, d)
    BY <2>4, <2>a, MenuTurnGoodbye, OtpPromptGoodbye DEF Language
  <2>5. CASE \E c \in Calls : Fallback(c)
    <3> PICK c \in Calls : Fallback(c)  BY <2>5
    <3>1. reply' = Put(reply, c, [endpoint |-> "/events/fallback", document |-> ErrorDocument])
      BY DEF Fallback, Served
    <3>2. "/events/fallback" \notin VoiceUrls
      BY DEF VoiceUrls
    <3>3. QED BY <3>1, <3>2 DEF GoodbyeStep, Put
  <2>6. CASE reply' = reply
    BY <2>6 DEF GoodbyeStep
  <2>7. QED BY <2>1, <2>2, <2>3, <2>4, <2>5, <2>6 DEF Next, Hangup, FinalizeCall,
               RegisterOutboundCall, Restart
<1>2. QED BY <1>1, Invariance, PTL DEF Spec, GoodbyeOnlyWhenOver

-----------------------------------------------------------------------------
(* The sessions implement the call lifecycle *)

\* Storing the next session of one call is a step of the lifecycle.
LEMMA StoringAnArrowIsAStep ==
  ASSUME NEW c \in CallIds, NEW t, Arrow(GetOrRecover(c), t),
         sessions' = Put(sessions, c, t)
  PROVE  [Lifecycle!Next]_(Lifecycle!vars)
<1> DEFINE s == GetOrRecover(c)
           places    == [x \in CallIds |-> PlaceOf(GetOrRecover(x))]
           languages == [x \in CallIds |-> SpokenIn(GetOrRecover(x))]
<1>1. \A x : GetOrRecover(x)' = IF x = c THEN t ELSE GetOrRecover(x)
  BY DEF GetOrRecover, Put
<1>2. /\ places'    = [places EXCEPT ![c] = PlaceOf(t)]
      /\ languages' = [languages EXCEPT ![c] = SpokenIn(t)]
  BY <1>1
<1>3. places[c] = PlaceOf(s) /\ languages[c] = SpokenIn(s)
  OBVIOUS
<1>4. (DOMAIN sessions)' = DOMAIN sessions \cup {c}
  BY DEF Put
<1>5. /\ places[c] = "gate" /\ PlaceOf(t) = "language" /\ languages' = languages
           => Lifecycle!PassGate(c)
      /\ \A l \in Locale :
           places[c] = "language" /\ PlaceOf(t) = "action" /\ SpokenIn(t) = l
             => Lifecycle!ChooseLanguage(c)
      /\ places[c] = "action" /\ PlaceOf(t) = "language" /\ SpokenIn(t) = NoLocale
           => Lifecycle!ChangeLanguage(c)
      /\ places[c] = "action" /\ PlaceOf(t) = "leaf" /\ languages' = languages
           => Lifecycle!EnterLeaf(c)
      /\ places[c] = "leaf" /\ PlaceOf(t) = "action" /\ languages' = languages
           => Lifecycle!LeaveLeaf(c)
      /\ PlaceOf(t) = "ended" /\ SpokenIn(t) = NoLocale
           => Lifecycle!End(c)
  <2>1. places[c] = "gate" /\ PlaceOf(t) = "language" /\ languages' = languages
          => Lifecycle!PassGate(c)
    BY <1>2 DEF Lifecycle!PassGate, Lifecycle!Move
  <2>2. \A l \in Locale :
          places[c] = "language" /\ PlaceOf(t) = "action" /\ SpokenIn(t) = l
            => Lifecycle!ChooseLanguage(c)
    BY <1>2 DEF Lifecycle!ChooseLanguage, Lifecycle!Move
  <2>3. places[c] = "action" /\ PlaceOf(t) = "language" /\ SpokenIn(t) = NoLocale
          => Lifecycle!ChangeLanguage(c)
    BY <1>2 DEF Lifecycle!ChangeLanguage, Lifecycle!Move
  <2>4. places[c] = "action" /\ PlaceOf(t) = "leaf" /\ languages' = languages
          => Lifecycle!EnterLeaf(c)
    BY <1>2 DEF Lifecycle!EnterLeaf, Lifecycle!Move
  <2>5. places[c] = "leaf" /\ PlaceOf(t) = "action" /\ languages' = languages
          => Lifecycle!LeaveLeaf(c)
    BY <1>2 DEF Lifecycle!LeaveLeaf, Lifecycle!Move
  <2>6. PlaceOf(t) = "ended" /\ SpokenIn(t) = NoLocale => Lifecycle!End(c)
    BY <1>2 DEF Lifecycle!End
  <2>7. QED BY <2>1, <2>2, <2>3, <2>4, <2>5, <2>6
<1>6. SpokenIn(t) = languages[c] => languages' = languages
  BY <1>2
<1>7. PlaceOf(t) = places[c] /\ SpokenIn(t) = languages[c]
        => places' = places /\ languages' = languages
  BY <1>2
<1> HIDE DEF places, languages, s
<1>8. \/ Lifecycle!PassGate(c) \/ Lifecycle!ChooseLanguage(c)
      \/ Lifecycle!ChangeLanguage(c) \/ Lifecycle!EnterLeaf(c)
      \/ Lifecycle!LeaveLeaf(c) \/ Lifecycle!End(c)
      \/ places' = places /\ languages' = languages
  BY <1>3, <1>5, <1>6, <1>7 DEF Arrow, s
<1>9. places' = places /\ languages' = languages => Lifecycle!Stay(c)
  BY DEF Lifecycle!Stay, places, languages
<1>10. Lifecycle!Turn(c)
  BY <1>4, <1>8, <1>9 DEF Lifecycle!Turn
<1>11. QED BY <1>10 DEF Lifecycle!Next

LEMMA RestartForgets ==
  ASSUME sessions' = [c \in {} |-> NewSession]
  PROVE  Lifecycle!Next
<1>1. \A x : GetOrRecover(x)' = NewSession
  BY DEF GetOrRecover
<1>2. Lifecycle!Forget
  BY <1>1, FreshIsAtTheGate DEF Lifecycle!Forget
<1>3. QED BY <1>2 DEF Lifecycle!Next

\* The detailed service implements the lifecycle: the call moves along its arrows
\* only, keeps its language until it gives it up, and stays ended.
THEOREM Refinement == Spec => ImplementsLifecycle
<1>1. Init => Lifecycle!Init
  <2> SUFFICES ASSUME Init  PROVE Lifecycle!Init
    OBVIOUS
  <2>1. DOMAIN sessions = {} /\ \A x : GetOrRecover(x) = NewSession
    BY DEF Init, GetOrRecover
  <2>2. QED BY <2>1, FreshIsAtTheGate DEF Lifecycle!Init
<1>2. IInv /\ [Next]_vars => [Lifecycle!Next]_(Lifecycle!vars)
  <2> SUFFICES ASSUME IInv, [Next]_vars  PROVE [Lifecycle!Next]_(Lifecycle!vars)
    OBVIOUS
  <2> USE DEF CallIds
  <2>a. \A c : SessionOk(GetOrRecover(c))
    BY IInvByVariable, GetOrRecoverIsOk
  <2>b. /\ \A d \in Digits : DigitsInput(d) \in InputEvent
        /\ NoInput \in InputEvent /\ ActionDone \in InputEvent
    BY DEF InputEvent
  <2>c. ASSUME NEW c \in Calls, NEW url, NEW e \in InputEvent, HandleWebhook(c, url, e)
        PROVE  [Lifecycle!Next]_(Lifecycle!vars)
    <3> DEFINE t == Advance(GetOrRecover(c), e).session
    <3>1. sessions' = Put(sessions, c, t)
      BY <2>c DEF HandleWebhook
    <3>2. Arrow(GetOrRecover(c), t)
      BY <2>a, AdvanceIsAnArrow
    <3> HIDE DEF t
    <3>3. QED BY <3>1, <3>2, StoringAnArrowIsAStep
  <2>d. ASSUME NEW c \in Calls, NEW url, ServeOtpPrompt(c, url)
        PROVE  [Lifecycle!Next]_(Lifecycle!vars)
    <3>1. sessions' = Put(sessions, c, GetOrRecover(c))
      BY <2>d DEF ServeOtpPrompt
    <3>2. Arrow(GetOrRecover(c), GetOrRecover(c))
      BY DEF Arrow
    <3>3. QED BY <3>1, <3>2, StoringAnArrowIsAStep
  <2>1. CASE \E c \in Calls : Answer(c)
    BY <2>1, <2>d DEF Answer
  <2>2. CASE \E c \in Calls : \/ OtpTimeout(c) \/ LanguageTimeout(c) \/ ActionTimeout(c)
                              \/ ActionMenu(c)
    BY <2>2, <2>b, <2>c DEF OtpTimeout, LanguageTimeout, ActionTimeout, ActionMenu
  <2>3. CASE \E c \in Calls : \E d \in Digits : Otp(c, d) \/ Action(c, d) \/ Language(c, d)
    BY <2>3, <2>b, <2>c, <2>d DEF Otp, Action, Language
  <2>4. CASE \E c \in Calls : Hangup(c)
    <3> PICK c \in Calls : FinalizeCall(c)  BY <2>4 DEF Hangup
    <3> DEFINE t == [GetOrRecover(c) EXCEPT !.state = "COMPLETED", !.ended = TRUE]
    <3>1. sessions' = Put(sessions, c, t)
      BY DEF FinalizeCall
    <3>2. t.state = "COMPLETED"
      BY <2>a DEF SessionOk, CallSession
    <3> HIDE DEF t
    <3>3. Arrow(GetOrRecover(c), t)
      BY <3>2 DEF Arrow, PlaceOf, SpokenIn, LeafStates
    <3>4. QED BY <3>1, <3>3, StoringAnArrowIsAStep
  <2>5. CASE \E r \in RequestUuids : RegisterOutboundCall(r)
    <3> PICK r \in RequestUuids : RegisterOutboundCall(r)  BY <2>5
    <3>1. sessions' = Put(sessions, r, GetOrRecover(r))
      BY DEF RegisterOutboundCall, GetOrRecover
    <3>2. Arrow(GetOrRecover(r), GetOrRecover(r))
      BY DEF Arrow
    <3>3. QED BY <3>1, <3>2, StoringAnArrowIsAStep
  <2>6. CASE Restart
    BY <2>6, RestartForgets DEF Restart
  <2>7. CASE sessions' = sessions
    <3>1. /\ \A x : GetOrRecover(x)' = GetOrRecover(x)
          /\ (DOMAIN sessions)' = DOMAIN sessions
      BY <2>7 DEF GetOrRecover
    <3>2. QED BY <3>1 DEF Lifecycle!vars
  <2>8. QED BY <2>1, <2>2, <2>3, <2>4, <2>5, <2>6, <2>7 DEF Next, Fallback, vars
<1>3. QED BY <1>1, <1>2, Invariance, PTL DEF Spec, ImplementsLifecycle, Lifecycle!Spec

-----------------------------------------------------------------------------
(* The timeline *)

\* DtmfReportAgrees, and no digits of a menu are a timeline's last event: what
\* tells whether they changed the state comes right after them.
Reported(seq) ==
  \A i \in 1 .. Len(seq) :
    seq[i].type = "dtmf" /\ seq[i].level \in CollectingStates =>
      /\ i < Len(seq)
      /\ seq[i].accepted <=> seq[i + 1].type = "state_change" /\ seq[i + 1].from = seq[i].level

Reports == \A c \in Calls : Reported(timeline[c])

LEMMA ReportedTogether ==
  ASSUME NEW h \in Seq(CallEvent), NEW b \in Seq(CallEvent), Reported(h), Reported(b)
  PROVE  Reported(h \o b)
<1> DEFINE s == h \o b
<1>1. /\ Len(s) = Len(h) + Len(b) /\ Len(h) \in Nat /\ Len(b) \in Nat
      /\ \A i \in 1 .. Len(h) : s[i] = h[i]
      /\ \A i \in 1 .. Len(b) : s[Len(h) + i] = b[i]
  BY ConcatProperties
<1> SUFFICES ASSUME NEW i \in 1 .. Len(s), s[i].type = "dtmf", s[i].level \in CollectingStates
             PROVE  /\ i < Len(s)
                    /\ s[i].accepted <=> /\ s[i + 1].type = "state_change"
                                         /\ s[i + 1].from = s[i].level
  BY DEF Reported
<1> HIDE DEF s
<1>2. CASE i <= Len(h)
  <2>1. i \in 1 .. Len(h) /\ s[i] = h[i]
    BY <1>1, <1>2
  <2>2. i < Len(h)
    BY <2>1 DEF Reported
  <2>3. i + 1 \in 1 .. Len(h)
    BY <1>1, <2>1, <2>2
  <2>4. s[i + 1] = h[i + 1]
    BY <1>1, <2>3
  <2>5. QED BY <1>1, <2>1, <2>2, <2>4 DEF Reported
<1>3. CASE i > Len(h)
  <2> DEFINE j == i - Len(h)
  <2>1. j \in 1 .. Len(b) /\ i = Len(h) + j
    BY <1>1, <1>3
  <2> HIDE DEF j
  <2>2. s[i] = b[j]
    BY <1>1, <2>1
  <2>3. j < Len(b)
    BY <2>1, <2>2 DEF Reported
  <2>4. j + 1 \in 1 .. Len(b) /\ i + 1 = Len(h) + (j + 1)
    BY <1>1, <2>1, <2>3
  <2>5. s[i + 1] = b[j + 1]
    BY <1>1, <2>4
  <2>6. i < Len(s)
    BY <1>1, <2>1, <2>3
  <2>7. QED BY <2>1, <2>2, <2>5, <2>6 DEF Reported
<1>4. QED BY <1>1, <1>2, <1>3

\* Dropping the oldest events parts no digits from what follows them.
LEMMA ReportedLast ==
  ASSUME NEW seq \in Seq(CallEvent), NEW n \in Nat \ {0}, Reported(seq)
  PROVE  Reported(LastOf(seq, n))
<1>1. CASE Len(seq) <= n
  BY <1>1 DEF LastOf
<1>2. CASE Len(seq) > n
  <2> DEFINE k == Len(seq) - n
             s == SubSeq(seq, k + 1, Len(seq))
  <2>1. k \in Nat /\ Len(seq) \in Nat /\ Len(seq) = k + n
    BY <1>2
  <2> HIDE DEF k
  <2>2. Len(s) = n /\ \A i \in 1 .. n : s[i] = seq[k + i]
    BY <2>1, SubSeqProperties
  <2>3. LastOf(seq, n) = s
    BY <1>2 DEF LastOf, k
  <2> HIDE DEF s
  <2>4. ASSUME NEW i \in 1 .. n, s[i].type = "dtmf", s[i].level \in CollectingStates
        PROVE  /\ i < n
               /\ s[i].accepted <=> s[i + 1].type = "state_change" /\ s[i + 1].from = s[i].level
    <3>1. k + i \in 1 .. Len(seq) /\ s[i] = seq[k + i]
      BY <2>1, <2>2
    <3>2. k + i < Len(seq)
      BY <2>4, <3>1 DEF Reported
    <3>3. i < n /\ i + 1 \in 1 .. n /\ k + (i + 1) = (k + i) + 1
      BY <2>1, <3>2
    <3>4. s[i + 1] = seq[(k + i) + 1]
      BY <2>2, <3>3
    <3>5. QED BY <2>4, <3>1, <3>3, <3>4 DEF Reported
  <2>5. QED BY <2>2, <2>3, <2>4 DEF Reported
<1>3. QED BY <1>1, <1>2

LEMMA RecordingReports ==
  ASSUME IInv, Reports, NEW c \in Calls, NEW events \in Seq(CallEvent), Reported(events),
         Record(c, events)
  PROVE  Reports'
<1>1. \A x \in Calls : timeline[x] \in Seq(CallEvent)
  BY DEF IInv, TypeOK
<1>2. timeline' = [timeline EXCEPT ![c] = LastOf(timeline[c] \o events, MAX_EVENTS_PER_CALL)]
  BY DEF Record
<1>3. Reported(LastOf(timeline[c] \o events, MAX_EVENTS_PER_CALL))
  <2>1. timeline[c] \o events \in Seq(CallEvent)
    BY <1>1
  <2>2. Reported(timeline[c] \o events)
    BY <1>1, ReportedTogether DEF Reports
  <2>3. QED BY <2>1, <2>2, ReportedLast, BoundsAssumption
<1>4. \A x \in Calls : timeline'[x] = IF x = c THEN LastOf(timeline[c] \o events, MAX_EVENTS_PER_CALL)
                                      ELSE timeline[x]
  BY <1>2 DEF IInv, TypeOK
<1>5. QED BY <1>3, <1>4 DEF Reports

\* A sequence of one to three elements, the first two of which may be left out.
Batch(p, a, q, b, c) == (IF p THEN <<a>> ELSE <<>>) \o (IF q THEN <<b>> ELSE <<>>) \o <<c>>

LEMMA BatchOf ==
  ASSUME NEW S, NEW a \in S, NEW b \in S, NEW c \in S, NEW p \in BOOLEAN, NEW q \in BOOLEAN,
         NEW s, s = Batch(p, a, q, b, c)
  PROVE  /\ s \in Seq(S)
         /\ p /\ q   => Len(s) = 3 /\ s[1] = a /\ s[2] = b /\ s[3] = c
         /\ p /\ ~q  => Len(s) = 2 /\ s[1] = a /\ s[2] = c
         /\ ~p /\ q  => Len(s) = 2 /\ s[1] = b /\ s[2] = c
         /\ ~p /\ ~q => Len(s) = 1 /\ s[1] = c
<1>1. /\ <<>> \o <<b>> = <<b>> /\ <<a>> \o <<>> = <<a>>
      /\ <<>> \o <<>> = <<>> /\ <<>> \o <<c>> = <<c>>
  <2>1. <<>> \in Seq(S) /\ <<a>> \in Seq(S) /\ <<b>> \in Seq(S) /\ <<c>> \in Seq(S)
    OBVIOUS
  <2>2. QED BY <2>1, ConcatEmptySeq
<1>2. ASSUME NEW x \in S, NEW y \in S, NEW t, t = <<x>> \o <<y>>
      PROVE  t \in Seq(S) /\ Len(t) = 2 /\ t[1] = x /\ t[2] = y
  BY <1>2
<1>3. CASE p /\ q
  <2>1. PICK t : t = <<a>> \o <<b>> /\ s = t \o <<c>>
    BY <1>3 DEF Batch
  <2>2. t \in Seq(S) /\ Len(t) = 2 /\ t[1] = a /\ t[2] = b
    BY <1>2, <2>1
  <2>3. s \in Seq(S) /\ Len(s) = 3 /\ s[1] = a /\ s[2] = b /\ s[3] = c
    BY <2>1, <2>2
  <2>4. QED BY <1>3, <2>3
<1>4. CASE p /\ ~q
  <2>1. s = <<a>> \o <<c>>
    BY <1>1, <1>4 DEF Batch
  <2>2. s \in Seq(S) /\ Len(s) = 2 /\ s[1] = a /\ s[2] = c
    BY <1>2, <2>1
  <2>3. QED BY <1>4, <2>2
<1>5. CASE ~p /\ q
  <2>1. s = <<b>> \o <<c>>
    BY <1>1, <1>5 DEF Batch
  <2>2. s \in Seq(S) /\ Len(s) = 2 /\ s[1] = b /\ s[2] = c
    BY <1>2, <2>1
  <2>3. QED BY <1>5, <2>2
<1>6. CASE ~p /\ ~q
  <2>1. s = <<c>>
    BY <1>1, <1>6 DEF Batch
  <2>2. <<c>> \in Seq(S) /\ Len(<<c>>) = 1 /\ <<c>>[1] = c
    OBVIOUS
  <2>3. QED BY <1>6, <2>1, <2>2
<1>7. QED BY <1>3, <1>4, <1>5, <1>6

\* What one menu turn records: its digits, the change they make, its document.
LEMMA MenuTurnReports ==
  ASSUME IInv, Reports, NEW c \in Calls, NEW url \in CallbackUrls, NEW e \in InputEvent,
         HandleWebhook(c, url, e)
  PROVE  Reports'
<1> DEFINE s == GetOrRecover(c)
           t == Advance(s, e)
           accepted == DigitsWillAdvance(s, e.digits)
           dt == DtmfEvent(s.state, accepted)
           ch == StateChange(s.state, t.session.state)
           x  == XmlServed(url)
           digits  == e.kind = "digits"
           changes == t.session.state # s.state
           batch   == Batch(digits, dt, changes, ch, x)
<1>1. SessionOk(s) /\ s \in CallSession
  BY IInvByVariable, GetOrRecoverIsOk DEF SessionOk
<1>2. SessionOk(t.session) /\ ~RenderFails(t.prompt)
  BY <1>1, AdvanceIsOk
<1>3. Record(c, batch)
  BY <1>2 DEF HandleWebhook, Batch
<1>4. s.state \in CallState /\ t.session.state \in CallState
  BY <1>1, <1>2 DEF SessionOk, CallSession
<1>5. digits /\ s.state \in CollectingStates => (accepted <=> changes)
  <2>1. NoInput.kind # "digits" /\ ActionDone.kind # "digits"
    BY DEF NoInput, ActionDone
  <2>2. ASSUME NEW d \in Digits, e = DigitsInput(d), s.state \in CollectingStates
        PROVE  accepted <=> changes
    <3>1. e.digits = d
      BY <2>2 DEF DigitsInput
    <3>2. QED BY <1>1, <2>2, <3>1, ReportAgreesWithAdvance
  <2>3. QED BY <2>1, <2>2 DEF InputEvent
<1>6. dt \in CallEvent /\ ch \in CallEvent /\ x \in CallEvent
  BY <1>4, ReportIsBoolean DEF CallEvent
<1>7. /\ x.type = "xml_served" /\ ch.type = "state_change" /\ ch.from = s.state
      /\ dt.type = "dtmf" /\ dt.level = s.state /\ dt.accepted = accepted
  BY DEF XmlServed, StateChange, DtmfEvent
<1>8. digits \in BOOLEAN /\ changes \in BOOLEAN
  OBVIOUS
<1> HIDE DEF s, t, accepted, dt, ch, x, digits, changes
<1>9. /\ batch \in Seq(CallEvent)
      /\ digits /\ changes   => Len(batch) = 3 /\ batch[1] = dt /\ batch[2] = ch /\ batch[3] = x
      /\ digits /\ ~changes  => Len(batch) = 2 /\ batch[1] = dt /\ batch[2] = x
      /\ ~digits /\ changes  => Len(batch) = 2 /\ batch[1] = ch /\ batch[2] = x
      /\ ~digits /\ ~changes => Len(batch) = 1 /\ batch[1] = x
  BY <1>6, <1>8, BatchOf
<1> HIDE DEF batch
<1>10. Reported(batch)
  <2>1. CASE digits /\ changes
    <3>1. Len(batch) = 3 /\ batch[1] = dt /\ batch[2] = ch /\ batch[3] = x
      BY <1>9, <2>1
    <3>2. dt.level \in CollectingStates => dt.accepted
      BY <1>5, <1>7, <2>1
    <3>3. QED BY <1>7, <3>1, <3>2 DEF Reported
  <2>2. CASE digits /\ ~changes
    <3>1. Len(batch) = 2 /\ batch[1] = dt /\ batch[2] = x
      BY <1>9, <2>2
    <3>2. dt.level \in CollectingStates => ~dt.accepted
      BY <1>5, <1>7, <2>2
    <3>3. QED BY <1>7, <3>1, <3>2 DEF Reported
  <2>3. CASE ~digits /\ changes
    <3>1. Len(batch) = 2 /\ batch[1] = ch /\ batch[2] = x
      BY <1>9, <2>3
    <3>2. QED BY <1>7, <3>1 DEF Reported
  <2>4. CASE ~digits /\ ~changes
    <3>1. Len(batch) = 1 /\ batch[1] = x
      BY <1>9, <2>4
    <3>2. QED BY <1>7, <3>1 DEF Reported
  <2>5. QED BY <1>8, <2>1, <2>2, <2>3, <2>4
<1>11. QED BY <1>3, <1>9, <1>10, RecordingReports

\* An event that is not of type dtmf reports nothing.
LEMMA OtherEventReports ==
  ASSUME IInv, Reports, NEW c \in Calls, NEW e \in CallEvent, e.type # "dtmf", Record(c, <<e>>)
  PROVE  Reports'
<1>1. <<e>> \in Seq(CallEvent) /\ Len(<<e>>) = 1 /\ <<e>>[1] = e
  OBVIOUS
<1>2. Reported(<<e>>)
  BY <1>1 DEF Reported
<1>3. QED BY <1>1, <1>2, RecordingReports

LEMMA StepReports ==
  ASSUME IInv, Reports, [Next]_vars
  PROVE  Reports'
<1> USE DEF CallbackUrls, VoiceUrls, EventUrls
<1>a. \A url \in CallbackUrls : XmlServed(url) \in CallEvent /\ XmlServed(url).type # "dtmf"
  BY DEF CallEvent, XmlServed
<1>b. CallEnded \in CallEvent /\ CallEnded.type # "dtmf"
  BY DEF CallEvent, CallEnded
<1>c. ASSUME NEW c \in Calls, NEW url \in CallbackUrls, ServeOtpPrompt(c, url)
      PROVE  Reports'
  BY <1>a, <1>c, OtherEventReports DEF ServeOtpPrompt
<1>d. /\ \A d \in Digits : DigitsInput(d) \in InputEvent
      /\ NoInput \in InputEvent /\ ActionDone \in InputEvent
  BY DEF InputEvent
<1>1. CASE \E c \in Calls : Answer(c)
  BY <1>1, <1>c DEF Answer
<1>2. CASE \E c \in Calls : \/ OtpTimeout(c) \/ LanguageTimeout(c) \/ ActionTimeout(c)
                            \/ ActionMenu(c)
  BY <1>2, <1>d, MenuTurnReports DEF OtpTimeout, LanguageTimeout, ActionTimeout, ActionMenu
<1>3. CASE \E c \in Calls : \E d \in Digits : Otp(c, d) \/ Action(c, d) \/ Language(c, d)
  BY <1>3, <1>c, <1>d, MenuTurnReports DEF Otp, Action, Language
<1>4. CASE \E c \in Calls : Hangup(c)
  BY <1>4, <1>b, OtherEventReports DEF Hangup, FinalizeCall
<1>5. CASE timeline' = timeline
  BY <1>5 DEF Reports
<1>6. CASE Restart
  BY <1>6 DEF Restart, Reports, Reported
<1>7. QED BY <1>1, <1>2, <1>3, <1>4, <1>5, <1>6 DEF Next, Fallback, RegisterOutboundCall, vars

\* What the dtmf event says, computed before advance() and apart from it, is what
\* the rest of the timeline shows happened, whatever the deque has dropped.
THEOREM ReportsHold == Spec => []DtmfReportAgrees
<1>1. Init => Reports
  BY DEF Init, Reports, Reported
<1>2. IInv /\ Reports /\ [Next]_vars => Reports'
  BY StepReports
<1>3. IInv /\ Reports => DtmfReportAgrees
  BY DEF IInv, TypeOK, Reports, Reported, DtmfReportAgrees
<1>4. QED BY <1>1, <1>2, <1>3, Invariance, PTL DEF Spec
=============================================================================
