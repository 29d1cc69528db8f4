------------------------------ MODULE CallFlow ------------------------------
(***************************************************************************)
(* Whole calls: the service of CallService.tla, driven by call legs that   *)
(* execute the documents it serves.  Plivo's side is not in the            *)
(* repository; it is modelled from what the documents and the REST call    *)
(* ask of it (xml_builder.py, client.py, docs/CALL_FLOW.md).  A leg posts  *)
(* one request for its next document at a time and waits for the answer;   *)
(* hangup and dial-status are posted beside it.  Requests on the network   *)
(* are handled in any order and may be lost (or refused with a 403, which  *)
(* is the same to the leg), and so may responses.  A leg stops waiting     *)
(* whenever it likes: it tries the fallback URL when that was its first    *)
(* document and ends the call otherwise, and the request it no longer      *)
(* waits for may still be handled afterwards.  The caller presses keys,    *)
(* keeps silent or hangs up at any time, and the process may restart.      *)
(*                                                                         *)
(* A leg never posts the same request twice; CallService.tla has that      *)
(* behaviour.                                                              *)
(***************************************************************************)
EXTENDS CallService

CONSTANT MaxRestarts     \* bound of the model: restarts of the process

ASSUME RestartsAssumption == MaxRestarts \in Nat

VARIABLES
  leg,        \* each call's leg: its phase, the URL it awaits, what it plays
  inbox,      \* requests posted and not yet handled
  entered,    \* history: the calls whose caller has entered the access code
  chosen,     \* history: the language each caller chose last
  left,       \* history: the calls whose caller has hung up
  forgotten,  \* history: the calls that had ended when a restart lost their session
  restarts    \* restarts so far

told     == <<entered, chosen, left>>
crashes  == <<forgotten, restarts>>
flowVars == <<vars, leg, inbox, told, crashes>>

NoDigits == ""
ASSUME DigitsAssumption == NoDigits \notin Digits
Request == [call : Calls, url : CallbackUrls, digits : Digits \cup {NoDigits}]
Req(c, url, digits) == [call |-> c, url |-> url, digits |-> digits]

Leg == [phase : {"idle", "waiting", "playing", "over"},
        awaits : CallbackUrls \cup {NoUrl}, document : Document]
Idle         == [phase |-> "idle",    awaits |-> NoUrl, document |-> ErrorDocument]
Over         == [phase |-> "over",    awaits |-> NoUrl, document |-> ErrorDocument]
Waiting(url) == [phase |-> "waiting", awaits |-> url,   document |-> ErrorDocument]
Playing(doc) == [phase |-> "playing", awaits |-> NoUrl, document |-> doc]

FlowInit ==
  /\ Init
  /\ leg = [c \in Calls |-> Idle]
  /\ inbox = {}
  /\ entered = {}
  /\ chosen = [c \in Calls |-> NoLocale]
  /\ left = {}
  /\ forgotten = {}
  /\ restarts = 0

-----------------------------------------------------------------------------
(* Plivo and the caller *)

\* The leg posts for its next document and waits; others are posted beside it.
Ask(c, url, digits, others) ==
  /\ leg' = [leg EXCEPT ![c] = Waiting(url)]
  /\ inbox' = inbox \cup {Req(c, url, digits)} \cup others

\* Bound of the model: no failed attempt is made beyond MaxAttempts.
MayFail(c) ==
  GetOrRecover(c).state = "AWAITING_OTP" => GetOrRecover(c).otp_attempts < MaxAttempts

Answered(c) ==
  /\ leg[c].phase = "idle"
  /\ Ask(c, "/voice/answer", NoDigits, {})
  /\ UNCHANGED <<vars, told, crashes>>

\* What a caller can enter where so many digits are collected: a caller who stops
\* early has the digits so far posted.
Keys(numDigits) == IF numDigits = 4 THEN Digits ELSE Digits \ {OtpCode}

PressDigits(c, d) ==
  LET doc == leg[c].document
  IN  /\ leg[c].phase = "playing" /\ doc.verb = "GetDigits"
      /\ d \in Keys(doc.numDigits)
      /\ d = OtpCode \/ MayFail(c)
      /\ Ask(c, doc.action, d, {})
      /\ entered' = IF d = OtpCode THEN entered \cup {c} ELSE entered
      /\ chosen' = IF doc.action = "/voice/language" /\ d \in DOMAIN LocaleOfKey
                   THEN [chosen EXCEPT ![c] = LocaleOfKey[d]] ELSE chosen
      /\ UNCHANGED <<vars, left, crashes>>

\* The caller says nothing: the document goes on to its redirect.
Silence(c) ==
  /\ leg[c].phase = "playing" /\ leg[c].document.verb = "GetDigits"
  /\ MayFail(c)
  /\ Ask(c, leg[c].document.redirect, NoDigits, {})
  /\ UNCHANGED <<vars, told, crashes>>

End(c, others) ==
  /\ leg' = [leg EXCEPT ![c] = Over]
  /\ inbox' = inbox \cup {Req(c, "/events/hangup", NoDigits)} \cup others

\* The clip is over, or the associate's leg is: the outcome of a Dial is reported to
\* its action URL.  Were the answer to that the next document, there would be none
\* (dial_status answers with an empty body) and the call would be over.
DocumentEnds(c) ==
  LET doc    == leg[c].document
      report == IF doc.action = NoUrl THEN {} ELSE {Req(c, doc.action, NoDigits)}
  IN  /\ leg[c].phase = "playing" /\ doc.verb \in {"Play", "Dial"}
      /\ IF doc.follows THEN End(c, report) ELSE Ask(c, doc.redirect, NoDigits, report)
      /\ UNCHANGED <<vars, told, crashes>>

CallerHangsUp(c) ==
  /\ leg[c].phase \in {"waiting", "playing"}
  /\ End(c, {})
  /\ left' = left \cup {c}
  /\ UNCHANGED <<vars, entered, chosen, crashes>>

Goodbye(c) ==
  /\ leg[c].phase = "playing" /\ leg[c].document.verb = "Hangup"
  /\ End(c, {})
  /\ UNCHANGED <<vars, told, crashes>>

\* No usable answer in time.
GiveUp(c) ==
  /\ leg[c].phase = "waiting"
  /\ IF leg[c].awaits = "/voice/answer" THEN Ask(c, "/events/fallback", NoDigits, {})
     ELSE End(c, {})
  /\ UNCHANGED <<vars, told, crashes>>

-----------------------------------------------------------------------------
(* The network and the service *)

\* The hangup report is never lost: Plivo repeats it until it is taken.
Lose(r) ==
  /\ r \in inbox /\ r.url # "/events/hangup"
  /\ inbox' = inbox \ {r}
  /\ UNCHANGED <<vars, leg, told, crashes>>

\* A request is handled; its response reaches the leg if it still waits for it
\* and the response is not lost.
Handle(r) ==
  LET c == r.call
  IN  /\ r \in inbox
      /\ inbox' = inbox \ {r}
      /\ IF r.digits = NoDigits THEN Callback(c, r.url) ELSE DigitsCallback(c, r.url, r.digits)
      /\ \/ UNCHANGED leg
         \/ /\ leg[c].phase = "waiting" /\ leg[c].awaits = r.url
            /\ leg' = [leg EXCEPT ![c] = Playing(reply'[c].document)]
      /\ UNCHANGED <<told, crashes>>

IsEnded(c) == c \in DOMAIN sessions /\ sessions[c].ended

ProcessRestarts ==
  /\ restarts < MaxRestarts
  /\ restarts' = restarts + 1
  /\ forgotten' = forgotten \cup {c \in Calls : IsEnded(c)}
  /\ Restart
  /\ UNCHANGED <<leg, inbox, told>>

FlowNext ==
  \/ \E c \in Calls :
       \/ Answered(c) \/ Silence(c) \/ DocumentEnds(c)
       \/ CallerHangsUp(c) \/ Goodbye(c) \/ GiveUp(c)
       \/ \E d \in Digits : PressDigits(c, d)
  \/ \E r \in inbox : Lose(r) \/ Handle(r)
  \/ ProcessRestarts

FlowSpec == FlowInit /\ [][FlowNext]_flowVars

\* Callers owe nothing: they may stay silent for good, keep the leg open, or
\* hang up.  Plivo plays its documents to their end and does not wait for ever
\* for one; a request that is not lost is handled.
Fairness ==
  \A c \in Calls :
    /\ WF_flowVars(DocumentEnds(c)) /\ WF_flowVars(Goodbye(c)) /\ WF_flowVars(GiveUp(c))
    /\ \A url \in CallbackUrls :
         WF_flowVars(\E d \in Digits \cup {NoDigits} : Handle(Req(c, url, d)))

FairFlowSpec == FlowSpec /\ Fairness

-----------------------------------------------------------------------------
(* The offline simulator (scripts/simulate_call.py) *)

EndpointByState ==
  [state \in CollectingStates |->
     CASE state = "AWAITING_OTP"  -> <<"/voice/otp", "/voice/otp-timeout">>
       [] state = "LANGUAGE_MENU" -> <<"/voice/language", "/voice/language-timeout">>
       [] state = "ACTION_MENU"   -> <<"/voice/action", "/voice/action-timeout">>]

\* Where it posts next: the URLs for digits and for silence.
SimulatedUrls(state) ==
  IF state \in CollectingStates THEN EndpointByState[state]
  ELSE <<"/voice/action-menu", "/voice/action-menu">>

-----------------------------------------------------------------------------
(* Properties *)

FlowTypeOK ==
  /\ TypeOK
  /\ leg \in [Calls -> Leg]
  /\ inbox \subseteq Request
  /\ entered \subseteq Calls
  /\ chosen \in [Calls -> AnyLocale]
  /\ left \subseteq Calls
  /\ forgotten \subseteq Calls
  /\ restarts \in 0 .. MaxRestarts

\* The documents a caller may be listening to when the session is s.
DocumentsFor(s) ==
  CASE s.state = "AWAITING_OTP"  -> {OtpDocument(s.otp_attempts)}
    [] s.state = "LANGUAGE_MENU" -> {LanguageMenuDocument(n) : n \in {0, 1}}
    [] s.state = "ACTION_MENU"   -> {ActionMenuDocument(s.locale, n) : n \in {0, 1}}
    [] s.state = "PLAYING_AUDIO" -> {PlayAudioDocument}
    [] s.state = "TRANSFERRING"  -> {TransferDocument(s.locale)}
    [] OTHER                     -> {}

\* The caller and the server agree on where the call is.  Keys are interpreted
\* by the session's state, not by the URL they are posted to, so the document
\* being played must be one of that state's, with the text that goes with the
\* attempts so far -- whatever was lost, late or answered after the leg had
\* moved on, and whether or not the process restarted.
Coherent ==
  \A c \in Calls :
    c \in DOMAIN sessions /\ leg[c].phase = "playing" /\ leg[c].document # ErrorDocument
      => leg[c].document \in DocumentsFor(sessions[c])

\* The offline simulator takes the next URL from a table of its own and the
\* session's state, a leg from the document it plays.  They post to the same one
\* wherever a call can be, so what the simulator replays is what Plivo does.
SimulatorFollowsDocuments ==
  \A c \in Calls :
    LET doc  == leg[c].document
        urls == SimulatedUrls(sessions[c].state)
    IN  c \in DOMAIN sessions /\ leg[c].phase = "playing" /\ doc # ErrorDocument
          => /\ doc.verb = "GetDigits" => doc.action = urls[1]
             /\ doc.redirect = urls[2]

\* A session is authenticated only by the caller of that very call entering the
\* access code; no other call, no late answer and no restart lets it in.
CodeWasEntered ==
  \A c \in DOMAIN sessions : sessions[c].authenticated => c \in entered

\* Once a language is chosen it is the one spoken in the action menu, its
\* retries, the transfer and on the way back from both leaves (README: selected once
\* and carried through the rest of the call).  The clip has no language of its own.
HearsChosenLanguage ==
  \A c \in Calls :
    /\ leg[c].phase = "playing"
    /\ leg[c].document.action = "/voice/action" \/ leg[c].document.verb = "Dial"
    => leg[c].document.locale = chosen[c]

\* Nobody is cut off: while a document plays, the call ends only
\* because the caller hangs up or the service has said goodbye.  A clip or a transfer
\* that is over always hands the call back (redirect=False of the Dial).
StaysOnTheLine ==
  [][\A c \in Calls :
       leg[c].phase = "playing" /\ leg'[c].phase = "over"
         => c \in left' \/ leg[c].document.verb = "Hangup"]_flowVars

\* When a call is over and all its requests have been handled or lost, its
\* session has ended: a late request never brings a call back to life.  Only a
\* restart after the hangup report can leave such a session behind, and what a
\* late request makes of it gets no further than the language menu.
NoGhost ==
  \A c \in Calls :
    leg[c].phase = "over" /\ (\A r \in inbox : r.call # c)
      => \/ IsEnded(c)
         \/ c \in forgotten /\ GetOrRecover(c).state \in {"AWAITING_OTP", "LANGUAGE_MENU"}

\* The call flow diagram draws no arrow out of COMPLETED.
CompletedIsFinal ==
  [][\A c \in DOMAIN sessions \cap DOMAIN sessions' :
       sessions[c].state = "COMPLETED" => sessions'[c].state = "COMPLETED"]_flowVars

\* A clip or a transfer never holds a call for ever.
LeafResolves ==
  \A c \in Calls :
    (c \in DOMAIN sessions /\ sessions[c].state \in LeafStates)
      ~> ~(c \in DOMAIN sessions /\ sessions[c].state \in LeafStates)

\* A call that is over is eventually reported as ended, and stays so unless a
\* restart forgets it.
OverIsRecorded ==
  \A c \in Calls : (leg[c].phase = "over") ~> [](IsEnded(c) \/ c \in forgotten)
=============================================================================
