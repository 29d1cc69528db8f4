----------------------------- MODULE ConsoleProofs -----------------------------
(***************************************************************************)
(* Proofs about the console, for any number of calls, requests on their    *)
(* way and lost sockets, and timelines and queues of any length: types and *)
(* lengths; its two notions of selection never part; the panels show all   *)
(* there is of the selected call; the graph has every edge a call can take *)
(* and marks only those it took; and a connected page that has caught up   *)
(* shows the latest document of every active call its queue did not drop.  *)
(***************************************************************************)
EXTENDS Console, SequenceTheorems, TLAPS

-----------------------------------------------------------------------------
(* Selection *)

\* An event selects its call only while nothing is selected, and so never while a
\* row is highlighted.
LEMMA EventKeepsSelection ==
  ASSUME SelectionsAgree, HandleLiveEvent
  PROVE  SelectionsAgree'
BY DEF HandleLiveEvent, list, SelectionsAgree

\* The answer to a request selects, if anything, the row it highlights.
LEMMA AnswerKeepsSelection ==
  ASSUME SelectionsAgree, NEW f \in Fetches, ApplyFetch(f)
  PROVE  SelectionsAgree'
<1>1. CASE \E c \in listed' : highlighted' = c /\ OnSelect(c, known')
  BY <1>1 DEF OnSelect, SelectionsAgree
<1>2. CASE UNCHANGED <<highlighted, selected, panels>>
  BY <1>2 DEF SelectionsAgree
<1>3. QED BY <1>1, <1>2 DEF ApplyFetch

\* Events and answers select calls behind the user's back, in any order: the row
\* that is highlighted is still the call the panels are for.
THEOREM SelectionsNeverPart == Spec => []SelectionsAgree
<1>1. Init => SelectionsAgree
  BY DEF Init, SelectionsAgree
<1>2. SelectionsAgree /\ [Next]_vars => SelectionsAgree'
  <2> SUFFICES ASSUME SelectionsAgree, [Next]_vars  PROVE SelectionsAgree'
    OBVIOUS
  <2>1. CASE UNCHANGED page
    BY <2>1 DEF page, list, SelectionsAgree
  <2>2. ASSUME NEW c \in Ids, Select(c)
        PROVE  SelectionsAgree'
    BY <2>2 DEF Select, OnSelect, SelectionsAgree
  <2>3. CASE \E c \in Calls : ServeOtpPrompt(c) \/ FinalizeCall(c)
    BY <2>1, <2>3 DEF ServeOtpPrompt, FinalizeCall, Store
  <2>4. CASE \E c \in Calls : \E e \in Inputs : HandleWebhook(c, e)
    BY <2>1, <2>4 DEF HandleWebhook, Store
  <2>5. CASE \E r \in RequestUuids : RegisterOutboundCall(r)
    BY <2>1, <2>5 DEF RegisterOutboundCall, Store
  <2>6. CASE SocketOpens \/ SendReplay \/ SendQueued \/ SocketCloses \/ PollTimer
    BY <2>1, <2>6 DEF SocketOpens, SendReplay, SendQueued, SocketCloses, PollTimer
  <2>7. CASE \E f \in Fetches : AnswerFetch(f) \/ FailFetch(f)
    BY <2>1, <2>7 DEF AnswerFetch, FailFetch
  <2>8. CASE UNCHANGED vars
    BY <2>1, <2>8 DEF vars
  <2>9. QED BY <2>2, <2>3, <2>4, <2>5, <2>6, <2>7, <2>8, EventKeepsSelection,
               AnswerKeepsSelection DEF Next
<1>3. QED BY <1>1, <1>2, PTL DEF Spec

-----------------------------------------------------------------------------
(* The inductive invariant *)

Change == CallState \X CallState

\* The events the server can tell of when its calls have made the changes in m: a
\* state change is told only after it was made.
Told(m) ==
  {e \in CallEvent :
     /\ e.type = "state_change" => <<e.from, e.to>> \in Change \cap m[e.call]
     /\ e.type = "call_ended" => e.to \in CallState}

\* What the page and the answers hold: the states of some of the calls.
StatesOfSome == UNION {[D -> CallState] : D \in SUBSET Ids}

ServerOk ==
  /\ state \in [Ids -> CallState \cup {"none"}]
  /\ made \in [Ids -> SUBSET Change]
  /\ history \in [Ids -> Seq(Told(made))]
  /\ \A c \in Ids : Len(history[c]) <= HISTORY

\* What waits, is replayed or is on its way was told; and the handler is done with the
\* calls it listed when it replays nothing.
WireOk ==
  /\ {feed, replay, queue} \subseteq Seq(Told(made)) /\ Len(queue) <= QUEUE_SIZE
  /\ toReplay \subseteq Ids /\ missed \subseteq Calls
  /\ ~open => feed = <<>> /\ replay = <<>> /\ queue = <<>> /\ toReplay = {}
  /\ replay = <<>> => toReplay = {}

FetchOk ==
  fetch \in [Fetches -> [phase : {"idle", "sent", "answered"}, answer : StatesOfSome]]

PageOk ==
  /\ known \in StatesOfSome
  /\ {selected, highlighted} \subseteq Ids \cup {NoCall} /\ listed \subseteq Ids
  /\ recorded \in [Ids -> Seq(CallEvent)]
  /\ \A c \in Ids : Len(recorded[c]) <= TIMELINE
  /\ lastDigits \in [Ids -> Digits \cup {""}]
  /\ DOMAIN documents \subseteq Calls /\ DOMAIN pills \subseteq Edges

TakenOk ==
  /\ taken \in [Ids -> SUBSET Change]
  /\ \A c \in Ids : taken[c] \subseteq made[c]

\* While nothing is selected there is nothing to show: the first event of any call
\* selects it.
PanelsOk ==
  /\ PanelsAreOfSelected
  /\ selected = NoCall => DOMAIN documents = {} /\ document = Panel(NoCall, Nothing)

CInv == ServerOk /\ WireOk /\ FetchOk /\ PageOk /\ TakenOk /\ PanelsOk

-----------------------------------------------------------------------------
(* Lemmas about the operators *)

LEMMA SeqGrows ==
  ASSUME NEW S, NEW T, S \subseteq T, NEW s \in Seq(S)
  PROVE  s \in Seq(T)
<1>1. Len(s) \in Nat /\ s \in [1 .. Len(s) -> S]
  BY LenProperties
<1>2. s \in [1 .. Len(s) -> T]
  BY <1>1
<1>3. QED BY <1>1, <1>2

\* A list that keeps its last elements keeps nothing else, and no more than it may.
LEMMA LastOfKeeps ==
  ASSUME NEW E, NEW s \in Seq(E), NEW n \in Nat \ {0}
  PROVE  LastOf(s, n) \in Seq(E) /\ Len(LastOf(s, n)) <= n
<1>1. CASE Len(s) <= n
  BY <1>1 DEF LastOf
<1>2. CASE ~(Len(s) <= n)
  <2>1. Len(s) \in Nat /\ Len(s) - n + 1 \in 1 .. Len(s)
    BY <1>2, LenProperties
  <2>2. LastOf(s, n) = SubSeq(s, Len(s) - n + 1, Len(s))
    BY <1>2 DEF LastOf
  <2>3. \A i \in Len(s) - n + 1 .. Len(s) : s[i] \in E
    BY <2>1, ElementOfSeq
  <2>4. SubSeq(s, Len(s) - n + 1, Len(s)) \in Seq(E)
    BY <2>1, <2>3
  <2>5. Len(SubSeq(s, Len(s) - n + 1, Len(s))) = n
    BY <2>1, <1>2
  <2>6. QED BY <2>2, <2>4, <2>5
<1>3. QED BY <1>1, <1>2

\* What could be told stays tellable.
LEMMA ToldGrows ==
  ASSUME NEW m \in [Ids -> SUBSET Change], NEW n \in [Ids -> SUBSET Change],
         \A c \in Ids : m[c] \subseteq n[c]
  PROVE  Told(m) \subseteq Told(n)
BY DEF Told, CallEvent, Ids

\* From any state, an input leads to a state; and one that is not terminal it leaves, if
\* at all, along an edge of the graph.
LEMMA NextState ==
  ASSUME NEW from \in CallState, NEW e \in InputEvent,
         NEW to, to = Advance([NewSession EXCEPT !.state = from], e).session.state
  PROVE  /\ to \in CallState
         /\ to # from => from \in TERMINAL_STATES \/ <<from, to>> \in Edges
<1> DEFINE s == [NewSession EXCEPT !.state = from]
<1>1. s \in CallSession /\ s.state = from
  BY DEF NewSession, CallSession, CallState, CollectingStates, LeafStates, TERMINAL_STATES,
         AnyLocale, Locale, NoLocale
<1>2. to = Advance(s, e).session.state
  OBVIOUS
<1> HIDE DEF s
<1>3. \A t, next, prompt : t \in CallSession => Goto(t, next, prompt).session.state = next
  BY DEF Goto, CallSession
<1>4. /\ \A l \in AnyLocale : [s EXCEPT !.locale = l] \in CallSession
      /\ [s EXCEPT !.authenticated = TRUE] \in CallSession
      /\ [s EXCEPT !.otp_attempts = @ + 1] \in CallSession
  <2>1. ASSUME NEW l \in AnyLocale  PROVE [s EXCEPT !.locale = l] \in CallSession
    BY <1>1 DEF CallSession
  <2>2. [s EXCEPT !.authenticated = TRUE] \in CallSession
    BY <1>1 DEF CallSession
  <2>3. [s EXCEPT !.otp_attempts = @ + 1] \in CallSession
    BY <1>1 DEF CallSession
  <2>4. QED BY <2>1, <2>2, <2>3
<1>5. NoLocale \in AnyLocale /\ \A d \in DOMAIN LocaleOfKey : LocaleOfKey[d] \in AnyLocale
  BY DEF NoLocale, AnyLocale, Locale, LocaleOfKey
<1>6. CASE from = "AWAITING_OTP"
  <2>1. Advance(s, e) = AdvanceOtp(s, e)
    BY <1>1, <1>6 DEF Advance, LeafStates
  <2>2. to \in {"AWAITING_OTP", "LANGUAGE_MENU"}
    BY <1>1, <1>2, <1>3, <1>4, <2>1 DEF AdvanceOtp
  <2>3. QED BY <1>6, <2>2 DEF Edges, CallState, CollectingStates
<1>7. CASE from = "LANGUAGE_MENU"
  <2>1. Advance(s, e) = AdvanceLanguage(s, e)
    BY <1>1, <1>7 DEF Advance, LeafStates
  <2>2. to \in {"LANGUAGE_MENU", "ACTION_MENU"}
    <3>1. CASE e \in {DigitsInput(d) : d \in DOMAIN LocaleOfKey}
      <4>1. e.digits \in DOMAIN LocaleOfKey
        BY <3>1 DEF DigitsInput
      <4>2. QED BY <1>2, <1>3, <1>4, <1>5, <2>1, <3>1, <4>1 DEF AdvanceLanguage
    <3>2. CASE e \notin {DigitsInput(d) : d \in DOMAIN LocaleOfKey}
      BY <1>1, <1>2, <1>3, <2>1, <3>2 DEF AdvanceLanguage
    <3>3. QED BY <3>1, <3>2
  <2>3. QED BY <1>7, <2>2 DEF Edges, CallState, CollectingStates
<1>8. CASE from = "ACTION_MENU"
  <2>1. Advance(s, e) = AdvanceActionMenu(s, e)
    BY <1>1, <1>8 DEF Advance, LeafStates
  <2>2. to \in {"ACTION_MENU", "PLAYING_AUDIO", "TRANSFERRING", "LANGUAGE_MENU"}
    BY <1>1, <1>2, <1>3, <1>4, <1>5, <2>1 DEF AdvanceActionMenu
  <2>3. QED BY <1>8, <2>2 DEF Edges, CallState, CollectingStates, LeafStates
<1>9. CASE from \in LeafStates
  <2>1. Advance(s, e) = AdvanceLeaf(s, e)
    BY <1>1, <1>9 DEF Advance, LeafStates
  <2>2. to = "ACTION_MENU"
    BY <1>1, <1>2, <1>3, <2>1 DEF AdvanceLeaf
  <2>3. QED BY <1>9, <2>2 DEF Edges, CallState, CollectingStates
<1>10. CASE from \in TERMINAL_STATES
  <2>1. Advance(s, e) = AdvanceTerminal(s, e)
    BY <1>1, <1>10 DEF Advance, LeafStates, TERMINAL_STATES
  <2>2. to = "FAILED"
    BY <1>1, <1>2, <1>3, <2>1 DEF AdvanceTerminal
  <2>3. QED BY <1>10, <2>2 DEF CallState, TERMINAL_STATES
<1>11. QED BY <1>6, <1>7, <1>8, <1>9, <1>10 DEF CallState, CollectingStates

-----------------------------------------------------------------------------
(* The server's steps *)

\* A step that leaves the page alone, and forgets no change of state, keeps what is
\* true of the page.
LEMMA PageKept ==
  ASSUME CInv, UNCHANGED page,
         made' \in [Ids -> SUBSET Change], \A c \in Ids : made[c] \subseteq made'[c]
  PROVE  PageOk' /\ TakenOk' /\ PanelsOk'
<1> USE DEF CInv, page
<1>1. PageOk'
  BY DEF PageOk, memory, list, StatesOfSome, Ids
<1>2. TakenOk'
  BY DEF TakenOk, memory
<1>3. PanelsOk'
  BY DEF PanelsOk, PanelsAreOfSelected, memory, panels
<1>4. QED BY <1>1, <1>2, <1>3

LEMMA WireKept ==
  ASSUME CInv, UNCHANGED <<wire, made>>
  PROVE  WireOk'
BY DEF CInv, WireOk, wire, link, bus, Told, Change, CallEvent, Ids

\* What is in the queue after something is published is what was there or is new.
LEMMA EnqueueKeeps ==
  ASSUME NEW E \in SUBSET CallEvent, queue \in Seq(E), NEW events \in Seq(E),
         missed \subseteq Calls, Enqueue(events)
  PROVE  queue' \in Seq(E) /\ Len(queue') <= QUEUE_SIZE /\ missed' \subseteq Calls
<1> DEFINE all == queue \o events
<1>1. all \in Seq(E) /\ QUEUE_SIZE \in Nat \ {0}
  BY ConsoleAssumption
<1>2. queue' = LastOf(all, QUEUE_SIZE) /\ missed' \subseteq missed \cup CallsOf(all)
  BY DEF Enqueue
<1> HIDE DEF all
<1>3. queue' \in Seq(E) /\ Len(queue') <= QUEUE_SIZE
  BY <1>1, <1>2, LastOfKeeps
<1>4. CallsOf(all) \subseteq Calls
  <2>1. \A i \in DOMAIN all : all[i] \in CallEvent
    BY <1>1, ElementOfSeq
  <2>2. \A e \in CallEvent : e.call \in Calls
    BY DEF CallEvent
  <2>3. QED BY <2>1, <2>2 DEF CallsOf
<1>5. QED BY <1>2, <1>3, <1>4

\* A write to the store, and the events it is published with.
LEMMA WriteKeeps ==
  ASSUME CInv, NEW c \in Ids, NEW s \in CallState, Store(c, s),
         NEW events \in Seq(Told(made')), Publish(c, events),
         made' \in [Ids -> SUBSET Change], \A i \in Ids : made[i] \subseteq made'[i]
  PROVE  CInv'
<1>1. HISTORY \in Nat \ {0}
  BY ConsoleAssumption
<1>2. Told(made) \subseteq Told(made')
  BY ToldGrows DEF CInv, ServerOk
<1>3. ServerOk'
  <2>1. state' \in [Ids -> CallState \cup {"none"}]
    BY DEF CInv, ServerOk, Store
  <2>2. ASSUME NEW i \in Ids  PROVE history[i] \in Seq(Told(made')) /\ Len(history[i]) <= HISTORY
    <3>1. history[i] \in Seq(Told(made)) /\ Len(history[i]) <= HISTORY
      BY DEF CInv, ServerOk
    <3>2. QED BY <1>2, <3>1, SeqGrows
  <2>3. history[c] \o events \in Seq(Told(made'))
    BY <2>2
  <2>4. /\ LastOf(history[c] \o events, HISTORY) \in Seq(Told(made'))
        /\ Len(LastOf(history[c] \o events, HISTORY)) <= HISTORY
    BY <1>1, <2>3, LastOfKeeps
  <2>5. history' = [history EXCEPT ![c] = LastOf(history[c] \o events, HISTORY)]
    BY DEF Publish
  <2>6. history \in [Ids -> Seq(Told(made))]
    BY DEF CInv, ServerOk
  <2>7. \A i \in Ids : history'[i] = IF i = c THEN LastOf(history[c] \o events, HISTORY)
                                     ELSE history[i]
    BY <2>5, <2>6
  <2>8. \A i \in Ids : history'[i] \in Seq(Told(made')) /\ Len(history'[i]) <= HISTORY
    BY <2>2, <2>4, <2>7
  <2>9. history' \in [Ids -> Seq(Told(made'))]
    BY <2>5, <2>6, <2>8
  <2>10. QED BY <2>1, <2>8, <2>9 DEF ServerOk, Told, Change, CallEvent, Ids
<1>4. WireOk'
  <2>1. UNCHANGED <<open, feed, replay, toReplay>>
    BY DEF Store, link
  <2>2. {feed, replay, queue} \subseteq Seq(Told(made')) /\ Told(made') \in SUBSET CallEvent
    BY <1>2, SeqGrows DEF CInv, WireOk, Told
  <2>3. /\ queue' \in Seq(Told(made')) /\ Len(queue') <= QUEUE_SIZE /\ missed' \subseteq Calls
        /\ ~open => queue' = <<>>
    <3>1. CASE open
      <4>1. Enqueue(events)
        BY <3>1 DEF Publish
      <4>2. queue' \in Seq(Told(made')) /\ Len(queue') <= QUEUE_SIZE /\ missed' \subseteq Calls
        BY <2>2, <4>1, EnqueueKeeps DEF CInv, WireOk
      <4>3. QED BY <3>1, <4>2
    <3>2. CASE ~open
      BY <2>2, <3>2 DEF Publish, bus, CInv, WireOk
    <3>3. QED BY <3>1, <3>2
  <2>4. QED BY <2>1, <2>2, <2>3 DEF CInv, WireOk, Told, Change, CallEvent, Ids
<1>5. FetchOk' /\ UNCHANGED page
  BY DEF CInv, FetchOk, Store, StatesOfSome, Ids
<1>6. PageOk' /\ TakenOk' /\ PanelsOk'
  BY <1>5, PageKept
<1>7. QED BY <1>3, <1>4, <1>5, <1>6 DEF CInv

\* A call that has a session, or is about to be given one, has a state.
LEMMA RecoveredIsState ==
  ASSUME CInv, NEW c \in Ids
  PROVE  Recovered(c) \in CallState
BY DEF CInv, ServerOk, Recovered, NewSession, CallState, CollectingStates

LEMMA MadeIsOk ==
  ASSUME CInv
  PROVE  made \in [Ids -> SUBSET Change]
BY DEF CInv, ServerOk

\* The events are told of the call they happened to, in fields of their types.
LEMMA EventsAreTold ==
  ASSUME NEW m \in [Ids -> SUBSET Change], NEW c \in Calls, NEW s \in CallState,
         NEW d \in Digits \cup {""}
  PROVE  /\ {Dtmf(c, d), XmlServed(c, s), CallEnded(c)} \subseteq Told(m)
         /\ \A f \in CallState : <<f, s>> \in m[c] => StateChange(c, f, s, d) \in Told(m)
<1>1. "COMPLETED" \in CallState
  BY DEF CallState, TERMINAL_STATES
<1> HIDE DEF CallState, Digits
<1>2. Dtmf(c, d) \in Told(m)
  BY DEF Told, CallEvent, Dtmf
<1>3. XmlServed(c, s) \in Told(m)
  BY DEF Told, CallEvent, XmlServed
<1>4. CallEnded(c) \in Told(m)
  BY <1>1 DEF Told, CallEvent, CallEnded
<1>5. ASSUME NEW f \in CallState, <<f, s>> \in m[c]
      PROVE  StateChange(c, f, s, d) \in Told(m)
  BY <1>5 DEF Told, CallEvent, StateChange, Change
<1>6. QED BY <1>2, <1>3, <1>4, <1>5

LEMMA DigitsOfInput ==
  ASSUME NEW e \in InputEvent
  PROVE  e.digits \in Digits \cup {""}
<1>1. NoInput.digits = "" /\ ActionDone.digits = "" /\ \A d : DigitsInput(d).digits = d
  BY DEF NoInput, ActionDone, DigitsInput
<1>2. CASE e \in {NoInput, ActionDone}
  BY <1>1, <1>2, Zenon
<1>3. CASE e \in {DigitsInput(d) : d \in Digits}
  BY <1>1, <1>3, Zenon
<1>4. QED BY <1>2, <1>3 DEF InputEvent

LEMMA PromptKeeps ==
  ASSUME CInv, NEW c \in Calls, ServeOtpPrompt(c)
  PROVE  CInv'
<1>1. c \in Ids /\ Recovered(c) \in CallState
  BY RecoveredIsState DEF Ids
<1>2. made' = made /\ made \in [Ids -> SUBSET Change]
  BY MadeIsOk DEF ServeOtpPrompt
<1>3. XmlServed(c, Recovered(c)) \in Told(made)
  BY <1>1, <1>2, EventsAreTold
<1>4. <<XmlServed(c, Recovered(c))>> \in Seq(Told(made'))
  BY <1>2, <1>3
<1>5. Store(c, Recovered(c)) /\ Publish(c, <<XmlServed(c, Recovered(c))>>)
  BY DEF ServeOtpPrompt
<1>6. made' \in [Ids -> SUBSET Change] /\ \A i \in Ids : made[i] \subseteq made'[i]
  BY <1>2
<1>7. QED BY <1>1, <1>4, <1>5, <1>6, WriteKeeps

LEMMA FinalizeKeeps ==
  ASSUME CInv, NEW c \in Calls, FinalizeCall(c)
  PROVE  CInv'
<1>1. c \in Ids /\ "COMPLETED" \in CallState
  BY DEF Ids, CallState, TERMINAL_STATES
<1>2. made' = made /\ made \in [Ids -> SUBSET Change]
  BY MadeIsOk DEF FinalizeCall
<1>3. CallEnded(c) \in Told(made)
  BY <1>1, <1>2, EventsAreTold
<1>4. <<CallEnded(c)>> \in Seq(Told(made'))
  BY <1>2, <1>3
<1>5. Store(c, "COMPLETED") /\ Publish(c, <<CallEnded(c)>>)
  BY DEF FinalizeCall
<1>6. made' \in [Ids -> SUBSET Change] /\ \A i \in Ids : made[i] \subseteq made'[i]
  BY <1>2
<1>7. QED BY <1>1, <1>4, <1>5, <1>6, WriteKeeps

\* The change is recorded as made in the step that tells of it.
LEMMA WebhookKeeps ==
  ASSUME CInv, NEW c \in Calls, NEW e \in Inputs, HandleWebhook(c, e)
  PROVE  CInv'
<1> DEFINE from == Recovered(c)
           to   == Advance([NewSession EXCEPT !.state = from], e).session.state
           dtmf == IF e.kind = "digits" THEN <<Dtmf(c, e.digits)>> ELSE <<>>
           move == IF to # from THEN <<StateChange(c, from, to, e.digits)>> ELSE <<>>
<1>1. c \in Ids /\ from \in CallState
  BY RecoveredIsState DEF Ids
<1>2. e \in InputEvent /\ e.digits \in Digits \cup {""}
  BY DigitsOfInput, ConsoleAssumption
<1>3. to \in CallState
  BY <1>1, <1>2, NextState
<1>4. made' = IF to # from THEN [made EXCEPT ![c] = @ \cup {<<from, to>>}] ELSE made
  BY DEF HandleWebhook
<1>5. Store(c, to) /\ Publish(c, dtmf \o move \o <<XmlServed(c, to)>>)
  BY DEF HandleWebhook
<1>6. made \in [Ids -> SUBSET Change]
  BY MadeIsOk
<1> HIDE DEF from, to
<1>7. /\ made' \in [Ids -> SUBSET Change] /\ \A i \in Ids : made[i] \subseteq made'[i]
      /\ to # from => <<from, to>> \in made'[c]
  BY <1>1, <1>3, <1>4, <1>6 DEF Change
<1>8. /\ {Dtmf(c, e.digits), XmlServed(c, to)} \subseteq Told(made')
      /\ to # from => StateChange(c, from, to, e.digits) \in Told(made')
  BY <1>1, <1>2, <1>3, <1>7, EventsAreTold
<1>9. dtmf \in Seq(Told(made')) /\ move \in Seq(Told(made'))
      /\ <<XmlServed(c, to)>> \in Seq(Told(made'))
  BY <1>8
<1> HIDE DEF dtmf, move
<1>10. dtmf \o move \o <<XmlServed(c, to)>> \in Seq(Told(made'))
  BY <1>9
<1>11. QED BY <1>1, <1>3, <1>5, <1>7, <1>10, WriteKeeps

\* A placeholder publishes nothing.
LEMMA RegisterKeeps ==
  ASSUME CInv, NEW r \in RequestUuids, RegisterOutboundCall(r)
  PROVE  CInv'
<1>1. /\ state' \in [Ids -> CallState \cup {"none"}]
      /\ UNCHANGED <<history, made, wire, fetch, page>>
  BY DEF RegisterOutboundCall, Store, wire, CInv, ServerOk, NewSession, CallState,
         CollectingStates
<1>2. ServerOk' /\ FetchOk'
  BY <1>1 DEF CInv, ServerOk, FetchOk, Told, Change, StatesOfSome, CallEvent, Ids
<1>3. WireOk'
  BY <1>1, WireKept
<1>4. made' \in [Ids -> SUBSET Change] /\ \A c \in Ids : made[c] \subseteq made'[c]
  BY <1>1, MadeIsOk
<1>5. QED BY <1>1, <1>2, <1>3, <1>4, PageKept DEF CInv

-----------------------------------------------------------------------------
(* The socket *)

\* A step of the socket or of a request changes neither the server nor the page.
LEMMA ServerKept ==
  ASSUME CInv, UNCHANGED server
  PROVE  /\ ServerOk' /\ Told(made)' = Told(made)
         /\ made' \in [Ids -> SUBSET Change] /\ \A c \in Ids : made[c] \subseteq made'[c]
BY DEF CInv, server, ServerOk, Told, Change, CallEvent, Ids

\* The handler goes on to a history or to its queue, and lists no call anew.
LEMMA ReplayNextKeeps ==
  ASSUME CInv, NEW calls \in SUBSET Ids, ReplayNext(calls)
  PROVE  /\ replay' \in Seq(Told(made)) /\ toReplay' \subseteq calls
         /\ replay' = <<>> => toReplay' = {}
<1>1. CASE \E c \in calls : history[c] # <<>> /\ replay' = history[c] /\ toReplay' = calls \ {c}
  BY <1>1 DEF CInv, ServerOk
<1>2. CASE replay' = <<>> /\ toReplay' = {}
  BY <1>2
<1>3. QED BY <1>1, <1>2 DEF ReplayNext

LEMMA OpenKeeps ==
  ASSUME CInv, SocketOpens
  PROVE  CInv'
<1>1. UNCHANGED server /\ UNCHANGED page /\ UNCHANGED <<fetch, feed, bus>> /\ open'
      /\ ReplayNext(Active)
  BY DEF SocketOpens, ProceedWith
<1>2. Active \in SUBSET Ids
  BY DEF Active
<1>3. /\ replay' \in Seq(Told(made)) /\ toReplay' \subseteq Ids
      /\ replay' = <<>> => toReplay' = {}
  BY <1>1, <1>2, ReplayNextKeeps
<1>4. WireOk'
  BY <1>1, <1>3, ServerKept DEF CInv, WireOk, bus, Ids
<1>5. FetchOk'
  BY <1>1 DEF CInv, FetchOk, StatesOfSome, Ids
<1>6. QED BY <1>1, <1>4, <1>5, ServerKept, PageKept DEF CInv

\* What is sent was waiting to be sent.
LEMMA HeadIsSent ==
  ASSUME NEW E, NEW s \in Seq(E), s # <<>>, NEW t \in Seq(E)
  PROVE  Head(s) \in E /\ Tail(s) \in Seq(E) /\ Len(Tail(s)) = Len(s) - 1
         /\ Append(t, Head(s)) \in Seq(E)
OBVIOUS

LEMMA SendReplayKeeps ==
  ASSUME CInv, SendReplay
  PROVE  CInv'
<1>1. /\ UNCHANGED server /\ UNCHANGED page /\ UNCHANGED <<open, fetch, bus>>
      /\ open /\ replay # <<>> /\ feed' = Append(feed, Head(replay))
      /\ IF Len(replay) > 1 THEN replay' = Tail(replay) /\ toReplay' = toReplay
                            ELSE ReplayNext(toReplay)
  BY DEF SendReplay, Send, ProceedWith, bus
<1>2. {feed, replay} \subseteq Seq(Told(made)) /\ toReplay \in SUBSET Ids
  BY DEF CInv, WireOk
<1>3. /\ feed' \in Seq(Told(made)) /\ Tail(replay) \in Seq(Told(made))
      /\ Len(Tail(replay)) = Len(replay) - 1
  BY <1>1, <1>2, HeadIsSent
<1>4. /\ replay' \in Seq(Told(made)) /\ toReplay' \subseteq Ids
      /\ replay' = <<>> => toReplay' = {}
  <2>1. CASE Len(replay) > 1
    <3>1. replay' = Tail(replay) /\ toReplay' = toReplay /\ Len(replay') # 0
      BY <1>1, <1>2, <1>3, <2>1
    <3>2. QED BY <1>2, <1>3, <3>1
  <2>2. CASE ~(Len(replay) > 1)
    BY <1>1, <1>2, <2>2, ReplayNextKeeps
  <2>3. QED BY <2>1, <2>2
<1>5. WireOk'
  BY <1>1, <1>3, <1>4, ServerKept DEF CInv, WireOk, bus, Ids
<1>6. FetchOk'
  BY <1>1 DEF CInv, FetchOk, StatesOfSome, Ids
<1>7. QED BY <1>1, <1>5, <1>6, ServerKept, PageKept DEF CInv

LEMMA SendQueuedKeeps ==
  ASSUME CInv, SendQueued
  PROVE  CInv'
<1>1. /\ UNCHANGED server /\ UNCHANGED page /\ UNCHANGED <<link, missed, fetch>>
      /\ open /\ queue # <<>> /\ feed' = Append(feed, Head(queue)) /\ queue' = Tail(queue)
  BY DEF SendQueued, Send
<1>2. {feed, queue} \subseteq Seq(Told(made)) /\ Len(queue) <= QUEUE_SIZE /\ QUEUE_SIZE \in Nat
  BY ConsoleAssumption DEF CInv, WireOk
<1>3. feed' \in Seq(Told(made)) /\ queue' \in Seq(Told(made)) /\ Len(queue') = Len(queue) - 1
  BY <1>1, <1>2, HeadIsSent
<1>4. Len(queue') <= QUEUE_SIZE
  BY <1>2, <1>3, LenProperties
<1>5. WireOk'
  BY <1>1, <1>3, <1>4, ServerKept DEF CInv, WireOk, link, Ids
<1>6. FetchOk'
  BY <1>1 DEF CInv, FetchOk, StatesOfSome, Ids
<1>7. QED BY <1>1, <1>5, <1>6, ServerKept, PageKept DEF CInv

LEMMA CloseKeeps ==
  ASSUME CInv, SocketCloses
  PROVE  CInv'
<1>1. /\ UNCHANGED server /\ UNCHANGED page /\ UNCHANGED fetch
      /\ feed' = <<>> /\ queue' = <<>> /\ replay' = <<>> /\ toReplay' = {} /\ missed' = {}
  BY DEF SocketCloses
<1>2. WireOk'
  <2>1. \A E : <<>> \in Seq(E)
    OBVIOUS
  <2>2. Len(<<>>) <= QUEUE_SIZE
    BY ConsoleAssumption
  <2>3. QED BY <1>1, <2>1, <2>2 DEF WireOk
<1>3. FetchOk'
  BY <1>1 DEF CInv, FetchOk, StatesOfSome, Ids
<1>4. QED BY <1>1, <1>2, <1>3, ServerKept, PageKept DEF CInv

-----------------------------------------------------------------------------
(* Requests for the list *)

LEMMA NothingIsKnown == Nothing \in StatesOfSome
<1>1. {} \in SUBSET Ids /\ Nothing \in [{} -> CallState]
  BY DEF Nothing
<1>2. QED BY <1>1 DEF StatesOfSome

\* A request is sent, is answered, or ends.
LEMMA FetchMoves ==
  ASSUME FetchOk, NEW f \in Fetches, NEW phase \in {"idle", "sent", "answered"},
         NEW answer \in StatesOfSome,
         fetch' = [fetch EXCEPT ![f] = [phase |-> phase, answer |-> answer]]
  PROVE  FetchOk'
<1>1. StatesOfSome' = StatesOfSome
  BY DEF StatesOfSome, Ids
<1>2. QED BY <1>1 DEF FetchOk

LEMMA RefreshKeeps ==
  ASSUME CInv, Refresh
  PROVE  FetchOk'
<1>1. PICK f \in Fetches : fetch' = [fetch EXCEPT ![f] = [phase |-> "sent", answer |-> Nothing]]
  BY DEF Refresh, Sent
<1>2. QED BY <1>1, FetchMoves, NothingIsKnown DEF CInv

LEMMA PollKeeps ==
  ASSUME CInv, PollTimer
  PROVE  CInv'
<1>1. UNCHANGED server /\ UNCHANGED page /\ UNCHANGED <<wire, made>> /\ FetchOk'
  BY RefreshKeeps DEF PollTimer, link, server
<1>2. QED BY <1>1, ServerKept, PageKept, WireKept DEF CInv

\* The server answers with the states of the active calls.
LEMMA AnswerKeeps ==
  ASSUME CInv, NEW f \in Fetches, AnswerFetch(f)
  PROVE  CInv'
<1>1. UNCHANGED server /\ UNCHANGED page /\ UNCHANGED <<wire, made>>
  BY DEF AnswerFetch, server
<1>2. Restrict(state, Active) \in StatesOfSome
  <2>1. Active \in SUBSET Ids /\ \A c \in Active : state[c] \in CallState
    BY DEF Active, CInv, ServerOk
  <2>2. Restrict(state, Active) \in [Active -> CallState]
    BY <2>1 DEF Restrict
  <2>3. QED BY <2>1, <2>2 DEF StatesOfSome
<1>3. fetch' = [fetch EXCEPT ![f] = [phase |-> "answered", answer |-> Restrict(state, Active)]]
  BY DEF AnswerFetch
<1>4. FetchOk'
  BY <1>2, <1>3, FetchMoves DEF CInv
<1>5. QED BY <1>1, <1>4, ServerKept, PageKept, WireKept DEF CInv

LEMMA FailKeeps ==
  ASSUME CInv, NEW f \in Fetches, FailFetch(f)
  PROVE  CInv'
<1>1. UNCHANGED server /\ UNCHANGED page /\ UNCHANGED <<wire, made>>
  BY DEF FailFetch, server
<1>2. fetch' = [fetch EXCEPT ![f] = [phase |-> "idle", answer |-> Nothing]]
  BY DEF FailFetch, Idle
<1>3. FetchOk'
  BY <1>2, FetchMoves, NothingIsKnown DEF CInv
<1>4. QED BY <1>1, <1>3, ServerKept, PageKept, WireKept DEF CInv

-----------------------------------------------------------------------------
(* The page *)

\* A selection draws all there is of the call it selects.
LEMMA SelectionDraws ==
  ASSUME NEW c \in Ids, NEW map, OnSelect(c, map), UNCHANGED <<recorded, documents>>
  PROVE  PanelsOk' /\ selected' = c
<1>1. c # NoCall
  BY ConsoleAssumption DEF Ids
<1>2. /\ selected' = c /\ recorded' = recorded /\ documents' = documents
      /\ timeline' = Panel(c, recorded[c])
      /\ document' = Panel(c, DocumentOf(documents, c))
  BY DEF OnSelect
<1>3. document'.call = c
  BY <1>2 DEF Panel
<1>4. QED BY <1>1, <1>2, <1>3 DEF PanelsOk, PanelsAreOfSelected, DocumentOf, Panel

LEMMA SelectKeeps ==
  ASSUME CInv, NEW c \in Ids, Select(c)
  PROVE  CInv'
<1>1. /\ UNCHANGED server /\ UNCHANGED <<wire, made>>
      /\ UNCHANGED <<fetch, known, lastDigits, recorded, documents, taken, listed, pills>>
      /\ highlighted' = c /\ OnSelect(c, known)
  BY DEF Select, link, server, memory
<1>2. PanelsOk' /\ selected' = c
  BY <1>1, SelectionDraws
<1>3. FetchOk'
  BY <1>1 DEF CInv, FetchOk, StatesOfSome, Ids
<1>4. PageOk'
  BY <1>1, <1>2 DEF CInv, PageOk, StatesOfSome, Ids
<1>5. TakenOk'
  BY <1>1 DEF CInv, TakenOk, Change, Ids
<1>6. QED BY <1>1, <1>2, <1>3, <1>4, <1>5, ServerKept, WireKept DEF CInv

LEMMA ApplyKeeps ==
  ASSUME CInv, NEW f \in Fetches, ApplyFetch(f)
  PROVE  CInv'
<1> DEFINE answer == fetch[f].answer
<1>1. /\ UNCHANGED server /\ UNCHANGED <<wire, made>>
      /\ UNCHANGED <<lastDigits, recorded, documents, taken, pills>>
      /\ fetch' = [fetch EXCEPT ![f] = [phase |-> "idle", answer |-> Nothing]]
      /\ known' = KnownAfter(answer) /\ listed' = DOMAIN answer
  BY DEF ApplyFetch, link, server, Idle, RowsAfter
<1>2. PICK D \in SUBSET Ids : answer \in [D -> CallState]
  BY SMTT(30) DEF CInv, FetchOk, StatesOfSome
<1>3. PICK K \in SUBSET Ids : known \in [K -> CallState]
  BY DEF CInv, PageOk, StatesOfSome
<1> HIDE DEF answer
<1>4. KnownAfter(answer) \in [D \cup K -> CallState]
  BY <1>2, <1>3 DEF KnownAfter
<1>5. known' \in StatesOfSome' /\ listed' \subseteq Ids
  BY <1>1, <1>2, <1>4 DEF StatesOfSome, Ids
<1>6. /\ PanelsOk'
      /\ {selected', highlighted'} \subseteq Ids \cup {NoCall}
  <2>1. CASE \E c \in listed' : highlighted' = c /\ OnSelect(c, known')
    <3>1. PICK c \in listed' : highlighted' = c /\ OnSelect(c, known')
      BY <2>1
    <3>2. c \in Ids
      BY <1>5, <3>1
    <3>3. QED BY <1>1, <3>1, <3>2, SelectionDraws
  <2>2. CASE UNCHANGED <<highlighted, selected, panels>>
    <3>1. PanelsOk'
      BY <1>1, <2>2 DEF CInv, PanelsOk, PanelsAreOfSelected, panels, DocumentOf, Nothing
    <3>2. QED BY <2>2, <3>1 DEF CInv, PageOk
  <2>3. QED BY <2>1, <2>2 DEF ApplyFetch
<1>7. PageOk'
  BY <1>1, <1>5, <1>6 DEF CInv, PageOk, Ids
<1>8. TakenOk'
  BY <1>1 DEF CInv, TakenOk, Change, Ids
<1>9. FetchOk'
  BY <1>1, FetchMoves, NothingIsKnown DEF CInv
<1>10. QED BY <1>1, <1>6, <1>7, <1>8, <1>9, ServerKept, WireKept DEF CInv

LEMMA EventKeeps ==
  ASSUME CInv, HandleLiveEvent
  PROVE  CInv'
<1> DEFINE e == Head(feed)
<1>1. /\ UNCHANGED server /\ UNCHANGED <<made, link, bus, listed, highlighted>>
      /\ feed # <<>> /\ feed' = Tail(feed)
      /\ Remember(e) /\ ApplyTransition(e)
      /\ selected' = IF selected = NoCall THEN e.call ELSE selected
      /\ ShowIfSelected(e, selected')
      /\ RefreshOrFail \/ UNCHANGED fetch
  BY DEF HandleLiveEvent, server, list
<1>2. feed \in Seq(Told(made))
  BY DEF CInv, WireOk
<1>3. e \in Told(made) /\ Tail(feed) \in Seq(Told(made))
  BY <1>1, <1>2
<1> HIDE DEF e
<1>4. /\ e \in CallEvent /\ e.call \in Calls /\ e.call \in Ids
      /\ e.digits \in Digits \cup {""}
      /\ e.type = "state_change" => <<e.from, e.to>> \in Change \cap made[e.call]
      /\ e.type \in {"state_change", "call_ended"} => e.to \in CallState
  BY <1>3 DEF Told, CallEvent, Ids, Change
<1>5. WireOk'
  BY <1>1, <1>3, ServerKept DEF CInv, WireOk, link, bus, Ids
<1>6. FetchOk'
  <2>1. CASE UNCHANGED fetch
    BY <2>1 DEF CInv, FetchOk, StatesOfSome, Ids
  <2>2. CASE Refresh
    BY <2>2, RefreshKeeps
  <2>3. QED BY <1>1, <2>1, <2>2 DEF RefreshOrFail
<1>7. PageOk'
  <2>1. known' \in StatesOfSome'
    <3>1. PICK K \in SUBSET Ids : known \in [K -> CallState]
      BY DEF CInv, PageOk, StatesOfSome
    <3>2. CASE e.type \in {"state_change", "call_ended"}
      <4>1. known' = Put(known, e.call, e.to)
        BY <1>1, <3>2 DEF Remember
      <4>2. known' \in [K \cup {e.call} -> CallState]
        BY <1>4, <3>1, <3>2, <4>1 DEF Put
      <4>3. K \cup {e.call} \in SUBSET Ids
        BY <1>4
      <4>4. QED BY <4>2, <4>3 DEF StatesOfSome, Ids
    <3>3. CASE e.type \notin {"state_change", "call_ended"}
      <4>1. known' = known
        BY <1>1, <3>3 DEF Remember
      <4>2. QED BY <3>1, <4>1 DEF StatesOfSome, Ids
    <3>4. QED BY <3>2, <3>3
  <2>2. /\ recorded' \in [Ids -> Seq(CallEvent)]
        /\ \A c \in Ids : Len(recorded'[c]) <= TIMELINE
    <3>1. recorded \in [Ids -> Seq(CallEvent)] /\ \A c \in Ids : Len(recorded[c]) <= TIMELINE
      BY DEF CInv, PageOk
    <3>2. recorded[e.call] \in Seq(CallEvent)
      BY <1>4, <3>1
    <3>3. Append(recorded[e.call], e) \in Seq(CallEvent)
      <4>1. ASSUME NEW s \in Seq(CallEvent), NEW x \in CallEvent
            PROVE  Append(s, x) \in Seq(CallEvent)
        OBVIOUS
      <4>2. QED BY <1>4, <3>2, <4>1
    <3> DEFINE r == Appended(recorded[e.call], e, TIMELINE)
    <3>4. r \in Seq(CallEvent) /\ Len(r) <= TIMELINE
      <4>1. TIMELINE \in Nat \ {0}
        BY ConsoleAssumption
      <4>2. QED BY <3>3, <4>1, LastOfKeeps DEF Appended
    <3>5. recorded' = [recorded EXCEPT ![e.call] = r]
      BY <1>1 DEF Remember
    <3> HIDE DEF r
    <3>6. QED BY <1>4, <3>1, <3>4, <3>5
  <2>3. lastDigits' \in [Ids -> Digits \cup {""}]
    BY <1>1, <1>4 DEF Remember, CInv, PageOk
  <2>4. DOMAIN documents' \subseteq Calls
    BY <1>1, <1>4 DEF Remember, Put, CInv, PageOk
  <2>5. DOMAIN pills' \subseteq Edges
    <3>1. DOMAIN pills \subseteq Edges
      BY DEF CInv, PageOk
    <3>2. CASE e.type = "state_change" /\ lastDigits[e.call] # "" /\ EdgeOf(e) \in Edges
      <4>1. pills' = Put(pills, EdgeOf(e), [digits |-> lastDigits[e.call], by |-> e.digits])
        BY <1>1, <3>2 DEF ApplyTransition
      <4>2. \A map, k, v : DOMAIN Put(map, k, v) = DOMAIN map \cup {k}
        BY DEF Put
      <4>3. DOMAIN pills' = DOMAIN pills \cup {EdgeOf(e)}
        BY <4>1, <4>2, Zenon
      <4>4. QED BY <3>1, <3>2, <4>3
    <3>3. CASE ~(e.type = "state_change" /\ lastDigits[e.call] # "" /\ EdgeOf(e) \in Edges)
      <4>1. pills' = pills
        BY <1>1, <3>3 DEF ApplyTransition
      <4>2. QED BY <3>1, <4>1
    <3>4. QED BY <3>2, <3>3
  <2>6. {selected', highlighted'} \subseteq Ids \cup {NoCall} /\ listed' \subseteq Ids
    BY <1>1, <1>4 DEF CInv, PageOk
  <2>7. QED BY <2>1, <2>2, <2>3, <2>4, <2>5, <2>6 DEF PageOk, Ids, Digits, CallEvent, Edges
<1>8. TakenOk'
  <2>1. taken \in [Ids -> SUBSET Change] /\ \A c \in Ids : taken[c] \subseteq made[c]
    BY DEF CInv, TakenOk
  <2>2. CASE e.type = "state_change"
    <3>1. taken' = [taken EXCEPT ![e.call] = @ \cup {<<e.from, e.to>>}]
      BY <1>1, <2>2 DEF ApplyTransition, EdgeOf
    <3>2. taken' \in [Ids -> SUBSET Change]
      BY <1>4, <2>1, <2>2, <3>1
    <3>3. \A c \in Ids : taken'[c] \subseteq made[c]
      BY <1>4, <2>1, <2>2, <3>1
    <3>4. QED BY <1>1, <3>2, <3>3 DEF TakenOk, Change, Ids
  <2>3. CASE e.type # "state_change"
    <3>1. taken' = taken
      BY <1>1, <2>3 DEF ApplyTransition
    <3>2. QED BY <1>1, <2>1, <3>1 DEF TakenOk, Change, Ids
  <2>4. QED BY <2>2, <2>3
<1>9. PanelsOk'
  <2>1. e.call # NoCall /\ selected' # NoCall /\ selected' \in Ids
    BY <1>1, <1>4, ConsoleAssumption DEF CInv, PageOk, Ids
  <2>2. \A c \in Ids : recorded'[c] = IF c = e.call THEN recorded'[e.call] ELSE recorded[c]
    BY <1>1, <1>4 DEF Remember, CInv, PageOk
  <2>3. timeline' = Panel(selected', recorded'[selected'])
    BY <1>1, <2>1, <2>2 DEF ShowIfSelected, CInv, PanelsOk, PanelsAreOfSelected
  <2>4. IF selected' \in DOMAIN documents' \/ document'.call # NoCall
        THEN document' = Panel(selected', DocumentOf(documents', selected'))
        ELSE document' = Panel(NoCall, Nothing)
    <3>1. CASE e.type = "xml_served" /\ e.call = selected'
      <4>1. documents' = Put(documents, e.call, e) /\ document' = Panel(selected', e)
        BY <1>1, <3>1 DEF Remember, ShowIfSelected
      <4>2. selected' \in DOMAIN documents' /\ documents'[selected'] = e
        BY <3>1, <4>1 DEF Put
      <4>3. QED BY <4>1, <4>2 DEF DocumentOf
    <3>2. CASE e.type = "xml_served" /\ e.call # selected'
      <4>1. documents' = Put(documents, e.call, e) /\ document' = document
        BY <1>1, <3>2 DEF Remember, ShowIfSelected
      <4>2. selected' = selected
        BY <1>1, <3>2
      <4>3. /\ selected \in DOMAIN documents' <=> selected \in DOMAIN documents
            /\ selected \in DOMAIN documents => documents'[selected] = documents[selected]
        BY <3>2, <4>1, <4>2 DEF Put
      <4>4. DocumentOf(documents', selected) = DocumentOf(documents, selected)
        BY <4>3 DEF DocumentOf
      <4>5. QED BY <2>1, <4>1, <4>2, <4>3, <4>4 DEF CInv, PanelsOk, PanelsAreOfSelected
    <3>3. CASE e.type # "xml_served"
      <4>1. documents' = documents /\ document' = document
        BY <1>1, <3>3 DEF Remember, ShowIfSelected
      <4>2. CASE selected # NoCall
        BY <1>1, <4>1, <4>2 DEF CInv, PanelsOk, PanelsAreOfSelected
      <4>3. CASE selected = NoCall
        <5>1. DOMAIN documents = {} /\ document = Panel(NoCall, Nothing)
          BY <4>3 DEF CInv, PanelsOk
        <5>2. document.call = NoCall
          BY <5>1 DEF Panel
        <5>3. QED BY <4>1, <5>1, <5>2
      <4>4. QED BY <4>2, <4>3
    <3>4. QED BY <3>1, <3>2, <3>3
  <2>5. QED BY <2>1, <2>3, <2>4 DEF PanelsOk, PanelsAreOfSelected, DocumentOf, Nothing
<1>10. QED BY <1>1, <1>5, <1>6, <1>7, <1>8, <1>9, ServerKept DEF CInv

-----------------------------------------------------------------------------
(* The theorems *)

LEMMA InitOk == Init => CInv
<1> SUFFICES ASSUME Init  PROVE CInv
  OBVIOUS
<1>0. \A E : <<>> \in Seq(E)
  OBVIOUS
<1>1. /\ state = [c \in Ids |-> "none"] /\ history = [c \in Ids |-> <<>>]
      /\ made = [c \in Ids |-> {}]
      /\ feed = <<>> /\ queue = <<>> /\ replay = <<>> /\ toReplay = {} /\ missed = {}
  BY DEF Init
<1>2. PICK f \in Fetches : fetch = [x \in Fetches |-> IF x = f THEN Sent ELSE Idle]
  BY DEF Init
<1>3. /\ selected = NoCall /\ highlighted = NoCall /\ known = Nothing /\ listed = {}
      /\ lastDigits = [c \in Ids |-> ""] /\ recorded = [c \in Ids |-> <<>>]
      /\ documents = Nothing /\ pills = Nothing
  BY DEF Init
<1>4. taken = [c \in Ids |-> {}] /\ document = Panel(NoCall, Nothing)
  BY DEF Init
<1>5. DOMAIN Nothing = {}
  BY DEF Nothing
<1>6. {HISTORY, TIMELINE, QUEUE_SIZE} \subseteq Nat
  BY ConsoleAssumption
<1>7. ServerOk
  <2>2. state \in [Ids -> CallState \cup {"none"}]
    BY <1>1
  <2>3. made \in [Ids -> SUBSET Change]
    BY <1>1
  <2>4. history \in [Ids -> Seq(Told(made))]
    BY <1>1, <1>0, Zenon
  <2>5. \A c \in Ids : Len(history[c]) <= HISTORY
    BY <1>1, <1>6
  <2>6. QED BY <2>2, <2>3, <2>4, <2>5 DEF ServerOk
<1>8. WireOk
  <2>1. Len(<<>>) <= QUEUE_SIZE
    BY <1>6
  <2>2. QED BY <1>0, <1>1, <2>1 DEF WireOk
<1>9. FetchOk
  <2>1. {Idle, Sent} \subseteq [phase : {"idle", "sent", "answered"}, answer : StatesOfSome]
    BY NothingIsKnown DEF Idle, Sent
  <2>2. QED BY <1>2, <2>1 DEF FetchOk
<1>10. PageOk
  <2>1. recorded \in [Ids -> Seq(CallEvent)]
    BY <1>0, <1>3, Zenon
  <2>2. \A c \in Ids : Len(recorded[c]) <= TIMELINE
    <3>1. Len(<<>>) <= TIMELINE
      BY <1>6
    <3>2. QED BY <1>3, <3>1, Zenon
  <2>3. lastDigits \in [Ids -> Digits \cup {""}]
    BY <1>3
  <2>4. QED BY <1>3, <1>5, <2>1, <2>2, <2>3, NothingIsKnown DEF PageOk
<1>11. TakenOk
  BY <1>4 DEF TakenOk
<1>12. PanelsOk
  BY <1>3, <1>4, <1>5 DEF PanelsOk, PanelsAreOfSelected
<1>13. QED BY <1>7, <1>8, <1>9, <1>10, <1>11, <1>12 DEF CInv

\* What the server can tell of a call is what happened to it, and what the page has is
\* what it was told.
THEOREM Invariance == Spec => []CInv
<1>1. CInv /\ [Next]_vars => CInv'
  <2> SUFFICES ASSUME CInv, [Next]_vars  PROVE CInv'
    OBVIOUS
  <2>1. CASE \E c \in Calls :
               ServeOtpPrompt(c) \/ FinalizeCall(c) \/ \E e \in Inputs : HandleWebhook(c, e)
    BY <2>1, PromptKeeps, FinalizeKeeps, WebhookKeeps
  <2>2. CASE \E r \in RequestUuids : RegisterOutboundCall(r)
    BY <2>2, RegisterKeeps
  <2>3. CASE \E c \in Ids : Select(c)
    BY <2>3, SelectKeeps
  <2>4. CASE SocketOpens \/ SendReplay \/ SendQueued \/ SocketCloses \/ HandleLiveEvent \/ PollTimer
    BY <2>4, OpenKeeps, SendReplayKeeps, SendQueuedKeeps, CloseKeeps, EventKeeps, PollKeeps
  <2>5. CASE \E f \in Fetches : AnswerFetch(f) \/ FailFetch(f) \/ ApplyFetch(f)
    BY <2>5, AnswerKeeps, FailKeeps, ApplyKeeps
  <2>6. CASE UNCHANGED vars
    <3>1. UNCHANGED server /\ UNCHANGED page /\ UNCHANGED <<wire, made, fetch>>
      BY <2>6 DEF vars, server
    <3>2. FetchOk'
      BY <3>1 DEF CInv, FetchOk, StatesOfSome, Ids
    <3>3. QED BY <3>1, <3>2, ServerKept, PageKept, WireKept DEF CInv
  <2>7. QED BY <2>1, <2>2, <2>3, <2>4, <2>5, <2>6 DEF Next
<1>2. QED BY <1>1, InitOk, PTL DEF Spec

\* The types, the lengths of the timelines and of the queue, and nothing on its way
\* without a socket, for any number of calls.
THEOREM TypeCorrect == Spec => []TypeOK
<1>1. CInv => TypeOK
  <2> SUFFICES ASSUME CInv  PROVE TypeOK
    OBVIOUS
  <2>1. Told(made) \subseteq CallEvent
    BY DEF Told
  <2>2. {feed, replay, queue} \subseteq Seq(CallEvent)
    BY <2>1, SeqGrows DEF CInv, WireOk
  <2>3. history \in [Ids -> Seq(CallEvent)]
    <3>1. \A c \in Ids : history[c] \in Seq(CallEvent)
      BY <2>1, SeqGrows DEF CInv, ServerOk
    <3>2. QED BY <3>1 DEF CInv, ServerOk
  <2>4. DOMAIN known \subseteq Ids /\ \A c \in DOMAIN known : known[c] \in CallState
    BY DEF CInv, PageOk, StatesOfSome
  <2>5. QED BY <2>2, <2>3, <2>4 DEF CInv, ServerOk, WireOk, PageOk, TypeOK
<1>2. QED BY <1>1, Invariance, PTL

\* The timeline and document panels show all there is of the selected call, however
\* many calls' events, answers and clicks interleave (main.ts).
THEOREM PanelsShowTheSelected == Spec => []PanelsAreOfSelected
<1>1. CInv => PanelsAreOfSelected
  BY DEF CInv, PanelsOk
<1>2. QED BY <1>1, Invariance, PTL

\* The graph marks for a call only edges its session took: an event tells of a change
\* already made, replays repeat such events, and answers to requests mark nothing.
THEOREM OnlyTakenEdgesAreMarked == Spec => []EdgesWereTaken
<1>1. CInv => EdgesWereTaken
  BY DEF CInv, TakenOk, EdgesWereTaken, Ids
<1>2. QED BY <1>1, Invariance, PTL

-----------------------------------------------------------------------------
(* The graph's edges *)

LEMMA EdgesKept ==
  ASSUME ChangesHaveEdges, UNCHANGED made
  PROVE  ChangesHaveEdges'
BY DEF ChangesHaveEdges, Edges

LEMMA WebhookKeepsEdges ==
  ASSUME CInv, ChangesHaveEdges, NEW c \in Calls, NEW e \in Inputs, HandleWebhook(c, e)
  PROVE  ChangesHaveEdges'
<1> DEFINE from == Recovered(c)
           to   == Advance([NewSession EXCEPT !.state = from], e).session.state
<1>1. c \in Ids /\ from \in CallState /\ e \in InputEvent
  BY RecoveredIsState, ConsoleAssumption DEF Ids
<1>2. to # from => from \in TERMINAL_STATES \/ <<from, to>> \in Edges
  BY <1>1, NextState
<1>3. made' = IF to # from THEN [made EXCEPT ![c] = @ \cup {<<from, to>>}] ELSE made
  BY DEF HandleWebhook
<1> HIDE DEF from, to
<1>4. \A d \in Calls : \/ made'[d] \subseteq made[d]
                       \/ to # from /\ made'[d] \subseteq made[d] \cup {<<from, to>>}
  BY <1>1, <1>3, MadeIsOk DEF Ids
<1>5. \A d \in Calls : \A change \in made'[d] : change[1] \in TERMINAL_STATES \/ change \in Edges
  BY <1>2, <1>4 DEF ChangesHaveEdges
<1>6. QED BY <1>5 DEF ChangesHaveEdges, Edges

\* The graph's table of edges and advance() agree, for every digit string: a change of
\* state of a call that is not over is never without an edge to be drawn on.
THEOREM TheGraphHasEveryEdge == Spec => []ChangesHaveEdges
<1>1. Init => ChangesHaveEdges
  BY DEF Init, ChangesHaveEdges, Ids
<1>2. CInv /\ ChangesHaveEdges /\ [Next]_vars => ChangesHaveEdges'
  <2> SUFFICES ASSUME CInv, ChangesHaveEdges, [Next]_vars  PROVE ChangesHaveEdges'
    OBVIOUS
  <2>1. CASE UNCHANGED made
    BY <2>1, EdgesKept
  <2>2. CASE \E c \in Calls : ServeOtpPrompt(c) \/ FinalizeCall(c)
    BY <2>1, <2>2 DEF ServeOtpPrompt, FinalizeCall
  <2>3. CASE \E c \in Calls : \E e \in Inputs : HandleWebhook(c, e)
    BY <2>3, WebhookKeepsEdges
  <2>4. CASE \E r \in RequestUuids : RegisterOutboundCall(r)
    BY <2>1, <2>4 DEF RegisterOutboundCall
  <2>5. CASE \E c \in Ids : Select(c)
    BY <2>1, <2>5 DEF Select, server
  <2>6. CASE SocketOpens \/ SendReplay \/ SendQueued \/ SocketCloses \/ HandleLiveEvent \/ PollTimer
    BY <2>1, <2>6 DEF SocketOpens, SendReplay, SendQueued, SocketCloses, HandleLiveEvent,
                      PollTimer, server
  <2>7. CASE \E f \in Fetches : AnswerFetch(f) \/ FailFetch(f) \/ ApplyFetch(f)
    BY <2>1, <2>7 DEF AnswerFetch, FailFetch, ApplyFetch, server
  <2>8. CASE UNCHANGED vars
    BY <2>1, <2>8 DEF vars, server
  <2>9. QED BY <2>2, <2>3, <2>4, <2>5, <2>6, <2>7, <2>8 DEF Next
<1>3. QED BY <1>1, <1>2, Invariance, PTL DEF Spec

-----------------------------------------------------------------------------
(* What a connected page has been shown *)

Of(c) == {e \in CallEvent : e.call = c}

\* Of the events of its call, e is the last in s.
EndsWith(s, e) ==
  \E i \in 1 .. Len(s) : s[i] = e /\ \A j \in 1 .. Len(s) : j > i => s[j].call # e.call

NoneOf(s, c) == \A i \in 1 .. Len(s) : s[i].call # c

\* The latest event of c is in s, and after it none of c.
Ends(s, c) == history[c] # <<>> /\ EndsWith(s, Last(history[c]))

\* The page has the latest event of c, a document, and shows it.
Shown(c) ==
  /\ c \in DOMAIN documents /\ documents[c] = Last(history[c])
  /\ recorded[c] # <<>> /\ Last(recorded[c]) = Last(history[c])

\* What is on its way, f, leaves the page with the latest event of c.
Brings(f, c) == Ends(f, c) \/ (NoneOf(f, c) /\ Shown(c))

\* What was published last for an active call is a document.  The queue has it, or has
\* nothing of the call.  Unless the queue dropped it, it is in the queue, or in a history
\* still to be read, or the last of its call in what is being replayed or on its way, or
\* nothing of the call is and the page shows it.
CurrentOk ==
  /\ \A c \in Ids : history[c] \in Seq(Of(c))
  /\ \A c \in Active \cap Calls : history[c] # <<>> /\ Last(history[c]).type = "xml_served"
  /\ \A c \in Calls : Ends(queue, c) \/ NoneOf(queue, c)
  /\ open => \A c \in (Active \cap Calls) \ missed :
               \/ Ends(queue, c) \/ c \in toReplay \/ Ends(replay, c)
               \/ NoneOf(replay, c) /\ Brings(feed, c)

LEMMA ConcatIndex ==
  ASSUME NEW E, NEW s \in Seq(E), NEW t \in Seq(E)
  PROVE  /\ s \o t \in Seq(E) /\ Len(s \o t) = Len(s) + Len(t)
         /\ Len(s) \in Nat /\ Len(t) \in Nat
         /\ \A i \in 1 .. Len(s) + Len(t) :
              (s \o t)[i] = IF i <= Len(s) THEN s[i] ELSE t[i - Len(s)]
OBVIOUS

LEMMA EndsAnew ==
  ASSUME NEW E, NEW s \in Seq(E), NEW t \in Seq(E), NEW e, EndsWith(t, e)
  PROVE  EndsWith(s \o t, e)
<1>1. PICK i \in 1 .. Len(t) : t[i] = e /\ \A j \in 1 .. Len(t) : j > i => t[j].call # e.call
  BY DEF EndsWith
<1>2. /\ Len(s \o t) = Len(s) + Len(t) /\ Len(s) \in Nat /\ Len(t) \in Nat
      /\ \A k \in 1 .. Len(s) + Len(t) : (s \o t)[k] = IF k <= Len(s) THEN s[k] ELSE t[k - Len(s)]
  BY ConcatIndex
<1> DEFINE r == s \o t
<1> HIDE DEF r
<1>3. Len(s) + i \in 1 .. Len(r) /\ r[Len(s) + i] = e
  BY <1>1, <1>2 DEF r
<1>4. ASSUME NEW j \in 1 .. Len(r), j > Len(s) + i  PROVE r[j].call # e.call
  <2>1. j - Len(s) \in 1 .. Len(t) /\ j - Len(s) > i /\ ~(j <= Len(s))
    BY <1>2, <1>4 DEF r
  <2>2. r[j] = t[j - Len(s)]
    BY <1>2, <1>4, <2>1 DEF r
  <2>3. QED BY <1>1, <2>1, <2>2
<1>5. EndsWith(r, e)
  BY <1>3, <1>4 DEF EndsWith
<1>6. QED BY <1>5 DEF r

LEMMA EndsStill ==
  ASSUME NEW E, NEW s \in Seq(E), NEW t \in Seq(E), NEW e, EndsWith(s, e), NoneOf(t, e.call)
  PROVE  EndsWith(s \o t, e)
<1>1. PICK i \in 1 .. Len(s) : s[i] = e /\ \A j \in 1 .. Len(s) : j > i => s[j].call # e.call
  BY DEF EndsWith
<1>2. /\ Len(s \o t) = Len(s) + Len(t) /\ Len(s) \in Nat /\ Len(t) \in Nat
      /\ \A k \in 1 .. Len(s) + Len(t) : (s \o t)[k] = IF k <= Len(s) THEN s[k] ELSE t[k - Len(s)]
  BY ConcatIndex
<1> DEFINE r == s \o t
<1> HIDE DEF r
<1>3. i \in 1 .. Len(r) /\ r[i] = e
  BY <1>1, <1>2 DEF r
<1>4. ASSUME NEW j \in 1 .. Len(r), j > i  PROVE r[j].call # e.call
  <2>1. CASE j <= Len(s)
    <3>1. j \in 1 .. Len(s) /\ r[j] = s[j]
      BY <1>2, <2>1 DEF r
    <3>2. QED BY <1>1, <1>4, <3>1
  <2>2. CASE ~(j <= Len(s))
    <3>1. j - Len(s) \in 1 .. Len(t) /\ r[j] = t[j - Len(s)]
      BY <1>2, <2>2 DEF r
    <3>2. QED BY <3>1 DEF NoneOf
  <2>3. QED BY <2>1, <2>2
<1>5. EndsWith(r, e)
  BY <1>3, <1>4 DEF EndsWith
<1>6. QED BY <1>5 DEF r

LEMMA NoneInBoth ==
  ASSUME NEW E, NEW s \in Seq(E), NEW t \in Seq(E), NEW c, NoneOf(s, c), NoneOf(t, c)
  PROVE  NoneOf(s \o t, c)
<1>1. /\ Len(s \o t) = Len(s) + Len(t) /\ Len(s) \in Nat /\ Len(t) \in Nat
      /\ \A k \in 1 .. Len(s) + Len(t) : (s \o t)[k] = IF k <= Len(s) THEN s[k] ELSE t[k - Len(s)]
  BY ConcatIndex
<1>2. ASSUME NEW j \in 1 .. Len(s \o t)  PROVE (s \o t)[j].call # c
  <2>1. CASE j <= Len(s)
    <3>1. j \in 1 .. Len(s) /\ (s \o t)[j] = s[j]
      BY <1>1, <2>1
    <3>2. QED BY <3>1 DEF NoneOf
  <2>2. CASE ~(j <= Len(s))
    <3>1. j - Len(s) \in 1 .. Len(t) /\ (s \o t)[j] = t[j - Len(s)]
      BY <1>1, <2>2
    <3>2. QED BY <3>1 DEF NoneOf
  <2>3. QED BY <2>1, <2>2
<1>3. QED BY <1>2 DEF NoneOf

\* Events of one call end with its last, and have none of another.
LEMMA EventsOfOne ==
  ASSUME NEW c, NEW s \in Seq(Of(c))
  PROVE  /\ s # <<>> => /\ Last(s) \in Of(c) /\ Last(s).call = c /\ EndsWith(s, Last(s))
                        /\ Len(s) \in 1 .. Len(s)
         /\ \A d : d # c => NoneOf(s, d)
<1>1. Len(s) \in Nat /\ \A i \in 1 .. Len(s) : s[i] \in Of(c) /\ s[i].call = c
  <2>1. \A i \in 1 .. Len(s) : s[i] \in Of(c)
    BY ElementOfSeq
  <2>2. QED BY <2>1, LenProperties DEF Of
<1>2. ASSUME s # <<>>
      PROVE  /\ Last(s) \in Of(c) /\ Last(s).call = c /\ EndsWith(s, Last(s))
             /\ Len(s) \in 1 .. Len(s)
  <2>1. Len(s) \in 1 .. Len(s)
    BY <1>2, <1>1, EmptySeq
  <2>2. Last(s) = s[Len(s)]
    BY DEF Last
  <2>3. EndsWith(s, Last(s))
    BY <1>1, <2>1, <2>2 DEF EndsWith
  <2>4. QED BY <1>1, <2>1, <2>2, <2>3
<1>3. QED BY <1>1, <1>2 DEF NoneOf

\* The last of a list survives its shortening.
LEMMA LastSurvives ==
  ASSUME NEW E, NEW s \in Seq(E), s # <<>>, NEW n \in Nat \ {0}
  PROVE  LastOf(s, n) # <<>> /\ Last(LastOf(s, n)) = Last(s)
<1>1. Len(s) \in Nat \ {0}
  BY LenProperties, EmptySeq
<1>2. CASE Len(s) <= n
  BY <1>2 DEF LastOf
<1>3. CASE ~(Len(s) <= n)
  <2> DEFINE m == Len(s) - n + 1
             r == SubSeq(s, m, Len(s))
  <2>1. m \in 1 .. Len(s) /\ Len(s) - m + 1 = n /\ n \in 1 .. n
    BY <1>1, <1>3
  <2> HIDE DEF m
  <2>2. Len(r) = n /\ r[n] = s[m + n - 1]
    BY <1>1, <2>1
  <2>3. m + n - 1 = Len(s)
    BY <1>1 DEF m
  <2>4. LastOf(s, n) = r
    BY <1>3 DEF LastOf, m
  <2>5. r # <<>>
    BY <2>1, <2>2
  <2> HIDE DEF r
  <2>6. QED BY <2>2, <2>3, <2>4, <2>5 DEF Last
<1>4. QED BY <1>2, <1>3

\* A list that keeps its last elements keeps the last event of a call, or none of it.
LEMMA KeptEnds ==
  ASSUME NEW E, NEW s \in Seq(E), NEW n \in Nat \ {0}
  PROVE  /\ \A e : EndsWith(s, e) => EndsWith(LastOf(s, n), e) \/ NoneOf(LastOf(s, n), e.call)
         /\ \A c : NoneOf(s, c) => NoneOf(LastOf(s, n), c)
<1>1. CASE Len(s) <= n
  BY <1>1 DEF LastOf
<1>2. CASE ~(Len(s) <= n)
  <2> DEFINE m == Len(s) - n
             r == LastOf(s, n)
  <2>1. Len(s) \in Nat /\ m \in Nat \ {0} /\ Len(s) = m + n
    BY <1>2
  <2>2. r = SubSeq(s, m + 1, Len(s))
    BY <1>2 DEF LastOf
  <2> HIDE DEF m, r
  <2>3. Len(r) = n /\ \A i \in 1 .. n : r[i] = s[m + i] /\ m + i \in 1 .. Len(s)
    <3>1. m + 1 \in 1 .. Len(s) + 1 /\ Len(s) - (m + 1) + 1 = n
      BY <2>1
    <3>2. Len(r) = n /\ \A i \in 1 .. n : r[i] = s[m + 1 + i - 1]
      BY <2>1, <2>2, <3>1
    <3>3. \A i \in 1 .. n : m + 1 + i - 1 = m + i /\ m + i \in 1 .. Len(s)
      BY <2>1
    <3>4. QED BY <3>2, <3>3
  <2>4. ASSUME NEW e, EndsWith(s, e), ~NoneOf(r, e.call)
        PROVE  EndsWith(r, e)
    <3>1. PICK i \in 1 .. Len(s) : s[i] = e /\ \A j \in 1 .. Len(s) : j > i => s[j].call # e.call
      BY <2>4 DEF EndsWith
    <3>2. PICK k \in 1 .. n : r[k].call = e.call
      BY <2>3, <2>4 DEF NoneOf
    <3>3. m + k \in 1 .. Len(s) /\ s[m + k].call = e.call
      BY <2>3, <3>2
    <3>4. ~(m + k > i)
      BY <3>1, <3>3
    <3>5. i - m \in 1 .. n /\ m + (i - m) = i
      BY <2>1, <3>1, <3>4
    <3>6. r[i - m] = e
      BY <2>3, <3>1, <3>5
    <3>7. ASSUME NEW j \in 1 .. n, j > i - m  PROVE r[j].call # e.call
      <4>1. m + j > i /\ m + j \in 1 .. Len(s) /\ r[j] = s[m + j]
        BY <2>1, <2>3, <3>1, <3>7
      <4>2. QED BY <3>1, <4>1
    <3>8. QED BY <2>3, <3>5, <3>6, <3>7 DEF EndsWith
  <2>5. ASSUME NEW c, NoneOf(s, c)  PROVE NoneOf(r, c)
    BY <2>3, <2>5 DEF NoneOf
  <2>6. QED BY <2>4, <2>5 DEF r
<1>3. QED BY <1>1, <1>2

\* When the first event leaves s for t, the last of a call is still in s or has become
\* the last of it in t.
LEMMA HeadMoves ==
  ASSUME NEW E, NEW s \in Seq(E), s # <<>>, NEW t \in Seq(E), NEW c
  PROVE  /\ \A e : e.call = c /\ EndsWith(s, e) =>
              \/ EndsWith(Tail(s), e)
              \/ NoneOf(Tail(s), c) /\ EndsWith(Append(t, Head(s)), e)
         /\ NoneOf(s, c) =>
              /\ NoneOf(Tail(s), c)
              /\ \A e : e.call = c /\ EndsWith(t, e) => EndsWith(Append(t, Head(s)), e)
              /\ NoneOf(t, c) => NoneOf(Append(t, Head(s)), c)
<1> DEFINE r == Tail(s)
           u == Append(t, Head(s))
<1>1. /\ Len(s) \in Nat \ {0} /\ Len(r) = Len(s) - 1 /\ Head(s) = s[1]
      /\ \A i \in 1 .. Len(s) - 1 : r[i] = s[i + 1]
  BY EmptySeq
<1>2. /\ Len(t) \in Nat /\ Len(u) = Len(t) + 1 /\ u[Len(t) + 1] = s[1]
      /\ \A i \in 1 .. Len(t) : u[i] = t[i]
  BY <1>1
<1> HIDE DEF r, u
<1>3. ASSUME NEW e, e.call = c, EndsWith(s, e)
      PROVE  EndsWith(r, e) \/ (NoneOf(r, c) /\ EndsWith(u, e))
  <2>1. PICK i \in 1 .. Len(s) : s[i] = e /\ \A j \in 1 .. Len(s) : j > i => s[j].call # c
    BY <1>3 DEF EndsWith
  <2>2. ASSUME NEW j \in 1 .. Len(r), j > i - 1  PROVE r[j].call # c
    <3>1. j + 1 \in 1 .. Len(s) /\ j + 1 > i /\ r[j] = s[j + 1]
      BY <1>1, <2>1, <2>2
    <3>2. QED BY <2>1, <3>1
  <2>3. CASE i = 1
    <3>1. NoneOf(r, c)
      BY <1>1, <2>2, <2>3 DEF NoneOf
    <3>2. EndsWith(u, e)
      BY <1>2, <2>1, <2>3 DEF EndsWith
    <3>3. QED BY <3>1, <3>2
  <2>4. CASE i # 1
    <3>1. i - 1 \in 1 .. Len(r) /\ i - 1 + 1 = i
      BY <1>1, <2>1, <2>4
    <3>2. r[i - 1] = e
      BY <1>1, <2>1, <3>1
    <3>3. EndsWith(r, e)
      BY <1>3, <2>2, <3>1, <3>2 DEF EndsWith
    <3>4. QED BY <3>3
  <2>5. QED BY <2>3, <2>4
<1>4. ASSUME NoneOf(s, c)
      PROVE  /\ NoneOf(r, c)
             /\ \A e : e.call = c /\ EndsWith(t, e) => EndsWith(u, e)
             /\ NoneOf(t, c) => NoneOf(u, c)
  <2>1. \A i \in 1 .. Len(s) : s[i].call # c
    BY <1>4 DEF NoneOf
  <2>2. NoneOf(r, c)
    <3>1. ASSUME NEW j \in 1 .. Len(r)  PROVE r[j].call # c
      <4>1. j + 1 \in 1 .. Len(s) /\ r[j] = s[j + 1]
        BY <1>1
      <4>2. QED BY <2>1, <4>1
    <3>2. QED BY <3>1 DEF NoneOf
  <2>3. u[Len(t) + 1].call # c
    BY <1>1, <1>2, <2>1
  <2>4. ASSUME NEW e, e.call = c, EndsWith(t, e)  PROVE EndsWith(u, e)
    <3>1. PICK i \in 1 .. Len(t) : t[i] = e /\ \A j \in 1 .. Len(t) : j > i => t[j].call # c
      BY <2>4 DEF EndsWith
    <3>2. ASSUME NEW j \in 1 .. Len(u), j > i  PROVE u[j].call # c
      <4>1. CASE j = Len(t) + 1
        BY <2>3, <4>1
      <4>2. CASE j # Len(t) + 1
        <5>1. j \in 1 .. Len(t) /\ u[j] = t[j]
          BY <1>2, <4>2
        <5>2. QED BY <3>1, <3>2, <5>1
      <4>3. QED BY <4>1, <4>2
    <3>3. i \in 1 .. Len(u) /\ u[i] = e
      BY <1>2, <3>1
    <3>4. QED BY <2>4, <3>2, <3>3 DEF EndsWith
  <2>5. ASSUME NoneOf(t, c)  PROVE NoneOf(u, c)
    <3>1. ASSUME NEW j \in 1 .. Len(u)  PROVE u[j].call # c
      <4>1. CASE j = Len(t) + 1
        BY <2>3, <4>1
      <4>2. CASE j # Len(t) + 1
        <5>1. j \in 1 .. Len(t) /\ u[j] = t[j]
          BY <1>2, <4>2
        <5>2. QED BY <2>5, <5>1 DEF NoneOf
      <4>3. QED BY <4>1, <4>2
    <3>2. QED BY <3>1 DEF NoneOf
  <2>6. QED BY <2>2, <2>4, <2>5
<1>5. QED BY <1>3, <1>4 DEF r, u

\* Everything that waits, is replayed or is on its way is an event.
LEMMA WireHasEvents ==
  ASSUME CInv
  PROVE  {feed, replay, queue} \subseteq Seq(CallEvent)
<1>1. Told(made) \subseteq CallEvent
  BY DEF Told
<1>2. QED BY <1>1, SeqGrows DEF CInv, WireOk

\* The latest event of a call is of that call.
LEMMA LatestIsOf ==
  ASSUME CurrentOk, NEW c \in Calls
  PROVE  history[c] # <<>> => Last(history[c]).call = c
<1>1. history[c] \in Seq(Of(c))
  BY DEF CurrentOk, Ids
<1>2. QED BY <1>1, EventsOfOne

\* Whatever is shown stays shown while the page and the timelines stay as they are.
LEMMA CurrentKept ==
  ASSUME CurrentOk, UNCHANGED <<history, wire, recorded, documents>>,
         \A c \in Calls : state'[c] = state[c]
  PROVE  CurrentOk'
<1>1. \A c \in Calls : c \in Active' <=> c \in Active
  BY DEF Active, Ids
<1>2. UNCHANGED <<open, toReplay, replay, queue, missed, feed>>
  BY DEF wire, link, bus
<1>3. \A c \in Calls : /\ Shown(c)' <=> Shown(c)
                       /\ Ends(queue, c)' <=> Ends(queue, c)
                       /\ Ends(replay, c)' <=> Ends(replay, c)
                       /\ Ends(feed, c)' <=> Ends(feed, c)
  BY <1>2 DEF Shown, Ends
<1>4. QED BY <1>1, <1>2, <1>3 DEF CurrentOk, Brings, Ids, Of, CallEvent

\* A write is published in events of its call, and, unless the call is over, the last of
\* them is a document.
LEMMA PublishedIsShownOrComing ==
  ASSUME CInv, CurrentOk, NEW c \in Calls, NEW s, Store(c, s), UNCHANGED <<recorded, documents>>,
         NEW events \in Seq(Of(c)), events # <<>>, Publish(c, events),
         s \notin TERMINAL_STATES => Last(events).type = "xml_served"
  PROVE  CurrentOk'
<1>1. HISTORY \in Nat \ {0} /\ c \in Ids
  BY ConsoleAssumption DEF Ids
<1>2. history[c] \in Seq(Of(c))
  BY <1>1 DEF CurrentOk
<1> DEFINE all == history[c] \o events
<1>3. all \in Seq(Of(c)) /\ all # <<>> /\ Last(all) = Last(events)
  <2>1. /\ all \in Seq(Of(c)) /\ Len(all) = Len(history[c]) + Len(events)
        /\ Len(history[c]) \in Nat /\ Len(events) \in Nat \ {0}
        /\ \A i \in 1 .. Len(history[c]) + Len(events) :
             all[i] = IF i <= Len(history[c]) THEN history[c][i] ELSE events[i - Len(history[c])]
    BY <1>2, ConcatIndex, EmptySeq
  <2> HIDE DEF all
  <2>2. Len(all) \in 1 .. Len(history[c]) + Len(events) /\ ~(Len(all) <= Len(history[c]))
        /\ Len(all) - Len(history[c]) = Len(events)
    BY <2>1
  <2>3. all[Len(all)] = events[Len(events)]
    BY <2>1, <2>2
  <2>4. QED BY <2>1, <2>2, <2>3 DEF Last
<1> HIDE DEF all
<1> DEFINE new == LastOf(all, HISTORY)
<1>4. new \in Seq(Of(c)) /\ new # <<>> /\ Last(new) = Last(events)
  BY <1>1, <1>3, LastOfKeeps, LastSurvives
<1>5. \A d \in Ids : history'[d] = IF d = c THEN new ELSE history[d]
  BY <1>1 DEF Publish, CInv, ServerOk, all
<1> HIDE DEF new
<1>6. \A d \in Ids : history'[d] \in Seq(Of(d))
  BY <1>4, <1>5 DEF CurrentOk
<1>7. \A d \in Calls : d # c => (d \in Active' <=> d \in Active)
  BY DEF Active, Ids, Store, CInv, ServerOk
<1>8. c \in Active' => Last(events).type = "xml_served"
  BY <1>1 DEF Active, Store, CInv, ServerOk
<1>9. \A d \in Active' \cap Calls : history'[d] # <<>> /\ Last(history'[d]).type = "xml_served"
  BY <1>4, <1>5, <1>7, <1>8 DEF CurrentOk, Ids
<1>10. \A d \in Calls : d # c => history'[d] = history[d] /\ d \in Ids
  BY <1>5 DEF Ids
<1>11. UNCHANGED <<open, toReplay, replay, feed>>
  BY DEF Store, link
<1>12. CASE ~open
  <2>1. queue' = <<>> /\ Len(<<>>) = 0
    BY <1>12 DEF Publish, bus, CInv, WireOk
  <2>2. \A d \in Calls : NoneOf(queue', d)
    BY <2>1 DEF NoneOf
  <2>3. QED BY <1>6, <1>9, <1>11, <1>12, <2>2 DEF CurrentOk, Ids, Of, CallEvent
<1>13. CASE open
  <2> DEFINE q == queue \o events
  <2>1. queue' = LastOf(q, QUEUE_SIZE) /\ missed' = (missed \cup CallsOf(q)) \ CallsOf(queue')
    BY <1>13 DEF Publish, Enqueue
  <2>2. QUEUE_SIZE \in Nat \ {0} /\ queue \in Seq(CallEvent) /\ events \in Seq(CallEvent)
    <3>1. Of(c) \subseteq CallEvent
      BY DEF Of
    <3>2. QED BY <3>1, SeqGrows, WireHasEvents, ConsoleAssumption
  <2>3. q \in Seq(CallEvent)
    BY <2>2
  <2>4. Ends(queue, c)'
    <3>1. EndsWith(events, Last(events)) /\ Last(events).call = c /\ Last(events) = Last(history'[c])
      BY <1>1, <1>4, <1>5, EventsOfOne
    <3>2. EndsWith(q, Last(events))
      BY <2>2, <3>1, EndsAnew
    <3>3. q # <<>> /\ Last(q) = Last(events)
      <4>1. /\ Len(q) = Len(queue) + Len(events) /\ Len(queue) \in Nat /\ Len(events) \in Nat \ {0}
            /\ \A i \in 1 .. Len(queue) + Len(events) :
                 q[i] = IF i <= Len(queue) THEN queue[i] ELSE events[i - Len(queue)]
        BY <2>2, ConcatIndex, EmptySeq
      <4> HIDE DEF q
      <4>2. Len(q) \in 1 .. Len(queue) + Len(events) /\ ~(Len(q) <= Len(queue))
            /\ Len(q) - Len(queue) = Len(events)
        BY <4>1
      <4>3. q[Len(q)] = events[Len(events)]
        BY <4>1, <4>2
      <4>4. q # <<>>
        BY <4>1
      <4>5. QED BY <4>3, <4>4 DEF Last
    <3> HIDE DEF q
    <3>4. queue' # <<>> /\ Last(queue') = Last(events) /\ queue' \in Seq(CallEvent)
      BY <2>1, <2>2, <2>3, <3>3, LastSurvives, LastOfKeeps
    <3>5. Len(queue') \in 1 .. Len(queue') /\ queue'[Len(queue')] = Last(events)
      BY <3>4, EmptySeq DEF Last
    <3>6. EndsWith(queue', Last(events))
      BY <3>5 DEF EndsWith
    <3>7. history'[c] # <<>>
      BY <1>1, <1>4, <1>5
    <3>8. QED BY <3>1, <3>6, <3>7 DEF Ends
  <2>5. ASSUME NEW d \in Calls, d # c
        PROVE  /\ Ends(queue, d) => Ends(queue, d)' \/ NoneOf(queue', d)
               /\ NoneOf(queue, d) => NoneOf(queue', d)
    <3>1. NoneOf(events, d)
      BY <2>5, EventsOfOne
    <3>2. history'[d] = history[d] /\ (history[d] # <<>> => Last(history[d]).call = d)
      BY <1>10, <2>5, LatestIsOf
    <3>3. ASSUME Ends(queue, d)  PROVE Ends(queue, d)' \/ NoneOf(queue', d)
      <4> DEFINE e == Last(history[d])
      <4>1. EndsWith(queue, e) /\ e.call = d
        BY <3>2, <3>3 DEF Ends
      <4> HIDE DEF e
      <4>2. NoneOf(events, e.call)
        BY <3>1, <4>1
      <4>3. EndsWith(q, e)
        BY <2>2, <4>1, <4>2, EndsStill
      <4> HIDE DEF q
      <4>4. EndsWith(queue', e) \/ NoneOf(queue', e.call)
        BY <2>1, <2>2, <2>3, <4>3, KeptEnds
      <4>5. QED BY <3>2, <3>3, <4>1, <4>4 DEF Ends, e
    <3>4. ASSUME NoneOf(queue, d)  PROVE NoneOf(queue', d)
      <4>1. NoneOf(q, d)
        BY <2>2, <3>1, <3>4, NoneInBoth
      <4> HIDE DEF q
      <4>2. QED BY <2>1, <2>2, <2>3, <4>1, KeptEnds
    <3>5. QED BY <3>3, <3>4
  <2>6. \A d \in Calls : Ends(queue, d)' \/ NoneOf(queue', d)
    BY <2>4, <2>5 DEF CurrentOk
  <2>7. ASSUME NEW d \in (Active' \cap Calls) \ missed', d # c, ~Ends(queue, d)'
        PROVE  \/ d \in toReplay \/ Ends(replay, d)'
               \/ NoneOf(replay, d) /\ Brings(feed, d)'
    <3>1. NoneOf(queue', d) /\ queue' \in Seq(CallEvent)
      BY <2>1, <2>2, <2>3, <2>6, <2>7, LastOfKeeps
    <3>2. d \notin CallsOf(queue')
      BY <3>1 DEF NoneOf, CallsOf
    <3>3. d \notin missed /\ d \notin CallsOf(q)
      BY <2>1, <2>7, <3>2
    <3>4. ~Ends(queue, d)
      <4> SUFFICES ASSUME Ends(queue, d)  PROVE d \in CallsOf(q)
        BY <3>3
      <4>1. PICK i \in 1 .. Len(queue) : queue[i] = Last(history[d])
        BY DEF Ends, EndsWith
      <4>2. Last(history[d]).call = d
        BY LatestIsOf DEF Ends
      <4>3. i \in DOMAIN q /\ q[i] = queue[i]
        <5>1. /\ Len(q) = Len(queue) + Len(events) /\ Len(queue) \in Nat /\ Len(events) \in Nat
              /\ q[i] = IF i <= Len(queue) THEN queue[i] ELSE events[i - Len(queue)]
          BY <2>2, <4>1, ConcatIndex
        <5>2. DOMAIN q = 1 .. Len(q)
          BY <2>3
        <5> HIDE DEF q
        <5>3. QED BY <4>1, <5>1, <5>2
      <4> HIDE DEF q
      <4>4. QED BY <4>1, <4>2, <4>3 DEF CallsOf
    <3>5. d \in (Active \cap Calls) \ missed /\ history'[d] = history[d]
      BY <1>7, <1>10, <2>7, <3>3
    <3>6. d \in toReplay \/ Ends(replay, d) \/ (NoneOf(replay, d) /\ Brings(feed, d))
      BY <1>13, <3>4, <3>5 DEF CurrentOk
    <3>7. /\ Ends(replay, d)' <=> Ends(replay, d)
          /\ Ends(feed, d)' <=> Ends(feed, d)
          /\ Shown(d)' <=> Shown(d)
      BY <1>11, <3>5 DEF Ends, Shown
    <3>8. QED BY <1>11, <3>6, <3>7 DEF Brings
  <2>8. \A d \in (Active' \cap Calls) \ missed' :
          \/ Ends(queue, d)' \/ d \in toReplay' \/ Ends(replay, d)'
          \/ NoneOf(replay', d) /\ Brings(feed, d)'
    BY <1>11, <2>4, <2>7
  <2>9. QED BY <1>6, <1>9, <2>6, <2>8 DEF CurrentOk, Ids, Of, CallEvent
<1>14. QED BY <1>12, <1>13

\* A published event is of its call.
LEMMA EventsAreOf ==
  ASSUME NEW c \in Calls, NEW s \in CallState, NEW d \in Digits \cup {""}
  PROVE  /\ {Dtmf(c, d), XmlServed(c, s), CallEnded(c)} \subseteq Of(c)
         /\ XmlServed(c, s).type = "xml_served"
         /\ \A f \in CallState : StateChange(c, f, s, d) \in Of(c)
<1>1. "COMPLETED" \in CallState
  BY DEF CallState, TERMINAL_STATES
<1> HIDE DEF CallState, Digits
<1>2. Dtmf(c, d) \in Of(c)
  BY DEF Of, CallEvent, Dtmf
<1>3. XmlServed(c, s) \in Of(c) /\ XmlServed(c, s).type = "xml_served"
  BY DEF Of, CallEvent, XmlServed
<1>4. CallEnded(c) \in Of(c)
  BY <1>1 DEF Of, CallEvent, CallEnded
<1>5. ASSUME NEW f \in CallState  PROVE StateChange(c, f, s, d) \in Of(c)
  BY DEF Of, CallEvent, StateChange
<1>6. QED BY <1>2, <1>3, <1>4, <1>5

LEMMA PromptIsShown ==
  ASSUME CInv, CurrentOk, NEW c \in Calls, ServeOtpPrompt(c)
  PROVE  CurrentOk'
<1> DEFINE e == XmlServed(c, Recovered(c))
<1>1. Recovered(c) \in CallState
  BY RecoveredIsState DEF Ids
<1>2. e \in Of(c) /\ e.type = "xml_served"
  BY <1>1, EventsAreOf
<1>3. Store(c, Recovered(c)) /\ Publish(c, <<e>>) /\ UNCHANGED <<recorded, documents>>
  BY DEF ServeOtpPrompt, Store, page, memory
<1> HIDE DEF e
<1>4. <<e>> \in Seq(Of(c)) /\ <<e>> # <<>> /\ Last(<<e>>) = e
  BY <1>2 DEF Last
<1>5. QED BY <1>2, <1>3, <1>4, PublishedIsShownOrComing

LEMMA FinalizeIsShown ==
  ASSUME CInv, CurrentOk, NEW c \in Calls, FinalizeCall(c)
  PROVE  CurrentOk'
<1> DEFINE e == CallEnded(c)
<1>1. "COMPLETED" \in CallState /\ "COMPLETED" \in TERMINAL_STATES
  BY DEF CallState, TERMINAL_STATES
<1>2. e \in Of(c)
  BY <1>1, EventsAreOf
<1>3. Store(c, "COMPLETED") /\ Publish(c, <<e>>) /\ UNCHANGED <<recorded, documents>>
  BY DEF FinalizeCall, Store, page, memory
<1> HIDE DEF e
<1>4. <<e>> \in Seq(Of(c)) /\ <<e>> # <<>>
  BY <1>2
<1>5. QED BY <1>1, <1>3, <1>4, PublishedIsShownOrComing

LEMMA WebhookIsShown ==
  ASSUME CInv, CurrentOk, NEW c \in Calls, NEW e \in Inputs, HandleWebhook(c, e)
  PROVE  CurrentOk'
<1> DEFINE from == Recovered(c)
           to   == Advance([NewSession EXCEPT !.state = from], e).session.state
           dtmf == IF e.kind = "digits" THEN <<Dtmf(c, e.digits)>> ELSE <<>>
           move == IF to # from THEN <<StateChange(c, from, to, e.digits)>> ELSE <<>>
           xml  == XmlServed(c, to)
<1>1. from \in CallState /\ e \in InputEvent
  BY RecoveredIsState, ConsoleAssumption DEF Ids
<1>2. to \in CallState /\ e.digits \in Digits \cup {""}
  BY <1>1, NextState, DigitsOfInput
<1>3. Store(c, to) /\ Publish(c, dtmf \o move \o <<xml>>) /\ UNCHANGED <<recorded, documents>>
  BY DEF HandleWebhook, Store, page, memory
<1> HIDE DEF from, to
<1>4. /\ {Dtmf(c, e.digits), xml} \subseteq Of(c) /\ xml.type = "xml_served"
      /\ StateChange(c, from, to, e.digits) \in Of(c)
  BY <1>1, <1>2, EventsAreOf
<1> HIDE DEF xml
<1>5. dtmf \in Seq(Of(c)) /\ move \in Seq(Of(c))
  BY <1>4
<1> HIDE DEF dtmf, move
<1>6. dtmf \o move \in Seq(Of(c))
  BY <1>5
<1>7. ASSUME NEW r \in Seq(Of(c))
      PROVE  r \o <<xml>> \in Seq(Of(c)) /\ r \o <<xml>> # <<>> /\ Last(r \o <<xml>>) = xml
  <2>1. r \o <<xml>> = Append(r, xml)
    BY <1>4
  <2>2. Append(r, xml) \in Seq(Of(c)) /\ Len(Append(r, xml)) = Len(r) + 1 /\ Len(r) \in Nat
        /\ Append(r, xml)[Len(r) + 1] = xml
    BY <1>4
  <2>3. Append(r, xml) # <<>>
    BY <2>2
  <2>4. QED BY <2>1, <2>2, <2>3 DEF Last
<1>8. dtmf \o move \o <<xml>> \in Seq(Of(c)) /\ dtmf \o move \o <<xml>> # <<>>
      /\ Last(dtmf \o move \o <<xml>>).type = "xml_served"
  BY <1>4, <1>6, <1>7
<1>9. QED BY <1>3, <1>8, PublishedIsShownOrComing

\* The server's timelines and the page as they were: a step of the handler.
LEMMA HandlerKeeps ==
  ASSUME CurrentOk, UNCHANGED <<server, page>>
  PROVE  /\ \A c \in Ids : history'[c] \in Seq(Of(c)')
         /\ \A c \in Active' \cap Calls : history'[c] # <<>> /\ Last(history'[c]).type = "xml_served"
         /\ UNCHANGED <<history, recorded, documents>>
         /\ \A c : c \in Active' <=> c \in Active
         /\ \A c \in Calls : Shown(c)' <=> Shown(c)
<1>1. UNCHANGED <<state, history, recorded, documents>>
  BY DEF server, page, memory
<1>2. \A c : c \in Active' <=> c \in Active
  BY <1>1 DEF Active, Ids
<1>3. \A c \in Calls : Shown(c)' <=> Shown(c)
  BY <1>1 DEF Shown
<1>4. QED BY <1>1, <1>2, <1>3 DEF CurrentOk, Ids, Of, CallEvent

\* From where nothing is being replayed, each call that is listed is read next, stays
\* listed, or has nothing to read.
LEMMA ReplayIsCurrent ==
  ASSUME CurrentOk, NEW calls \in SUBSET Ids, ReplayNext(calls), UNCHANGED history,
         NEW c \in Calls, history[c] # <<>>
  PROVE  /\ c \in calls => c \in toReplay' \/ Ends(replay, c)'
         /\ Ends(replay, c)' \/ NoneOf(replay', c)
<1>1. CASE \E x \in calls : history[x] # <<>> /\ replay' = history[x] /\ toReplay' = calls \ {x}
  <2>1. PICK x \in calls : /\ history[x] # <<>> /\ replay' = history[x] /\ toReplay' = calls \ {x}
    BY <1>1
  <2>2. history[x] \in Seq(Of(x))
    BY DEF CurrentOk
  <2>3. CASE x = c
    BY <2>1, <2>2, <2>3, EventsOfOne DEF Ends
  <2>4. CASE x # c
    <3>1. NoneOf(history[x], c)
      BY <2>2, <2>4, EventsOfOne
    <3>2. QED BY <2>1, <2>4, <3>1
  <2>5. QED BY <2>3, <2>4
<1>2. CASE (\A x \in calls : history[x] = <<>>) /\ replay' = <<>>
  <2>1. c \notin calls /\ Len(replay') = 0
    BY <1>2
  <2>2. QED BY <2>1 DEF NoneOf
<1>3. QED BY <1>1, <1>2 DEF ReplayNext

LEMMA OpenIsCurrent ==
  ASSUME CInv, CurrentOk, SocketOpens
  PROVE  CurrentOk'
<1>1. UNCHANGED server /\ UNCHANGED page /\ UNCHANGED <<queue, missed>> /\ ReplayNext(Active)
      /\ queue = <<>>
  BY DEF SocketOpens, ProceedWith, bus, CInv, WireOk
<1>2. Active \in SUBSET Ids /\ Len(<<>>) = 0
  BY DEF Active
<1>3. ASSUME NEW c \in Active \cap Calls  PROVE c \in toReplay' \/ Ends(replay, c)'
  <2>1. history[c] # <<>> /\ UNCHANGED history
    BY <1>1 DEF CurrentOk, server
  <2>2. QED BY <1>1, <1>2, <2>1, ReplayIsCurrent
<1>4. \A c \in Calls : NoneOf(queue', c)
  BY <1>1, <1>2 DEF NoneOf
<1>5. QED BY <1>1, <1>3, <1>4, HandlerKeeps DEF CurrentOk

\* What is replayed reaches the wire, and then the next history is read.
LEMMA SentReplayIsCurrent ==
  ASSUME CInv, CurrentOk, SendReplay
  PROVE  CurrentOk'
<1>1. /\ UNCHANGED server /\ UNCHANGED page /\ UNCHANGED <<open, queue, missed>>
      /\ open /\ replay # <<>> /\ feed' = Append(feed, Head(replay))
      /\ IF Len(replay) > 1 THEN replay' = Tail(replay) /\ toReplay' = toReplay
                            ELSE ReplayNext(toReplay)
  BY DEF SendReplay, Send, ProceedWith, bus
<1>2. UNCHANGED <<history, recorded, documents>>
  BY <1>1, HandlerKeeps
<1>3. /\ feed \in Seq(CallEvent) /\ replay \in Seq(CallEvent) /\ toReplay \in SUBSET Ids
      /\ Len(Tail(replay)) = Len(replay) - 1 /\ Len(replay) \in Nat \ {0}
  <2>1. feed \in Seq(CallEvent) /\ replay \in Seq(CallEvent) /\ toReplay \in SUBSET Ids
    BY WireHasEvents DEF CInv, WireOk
  <2>2. QED BY <1>1, <2>1, EmptySeq
<1>4. ASSUME NEW c \in (Active \cap Calls) \ missed, ~Ends(queue, c)
      PROVE  \/ c \in toReplay' \/ Ends(replay, c)'
             \/ NoneOf(replay', c) /\ Brings(feed, c)'
  <2> DEFINE e == Last(history[c])
             rest == Tail(replay)
  <2>1. history[c] # <<>> /\ e.call = c /\ history' = history
    BY <1>2, LatestIsOf DEF CurrentOk
  <2> HIDE DEF e
  <2>2. c \in toReplay \/ Ends(replay, c) \/ (NoneOf(replay, c) /\ Brings(feed, c))
    BY <1>1, <1>4 DEF CurrentOk
  <2>3. c \in toReplay \/ EndsWith(rest, e) \/ (NoneOf(rest, c) /\ Brings(feed, c)')
    <3>1. ASSUME EndsWith(replay, e)
          PROVE  EndsWith(rest, e) \/ (NoneOf(rest, c) /\ EndsWith(feed', e))
      BY <1>1, <1>3, <2>1, <3>1, HeadMoves
    <3>2. ASSUME NoneOf(replay, c)
          PROVE  /\ NoneOf(rest, c)
                 /\ EndsWith(feed, e) => EndsWith(feed', e)
                 /\ NoneOf(feed, c) => NoneOf(feed', c)
      BY <1>1, <1>3, <2>1, <3>2, HeadMoves
    <3>3. Shown(c)' <=> Shown(c)
      BY <1>1, HandlerKeeps
    <3> HIDE DEF rest
    <3>4. QED BY <2>1, <2>2, <3>1, <3>2, <3>3 DEF Ends, Brings, e
  <2>4. CASE Len(replay) > 1
    BY <1>1, <2>1, <2>3, <2>4 DEF Ends, e
  <2>5. CASE ~(Len(replay) > 1)
    <3>1. ReplayNext(toReplay) /\ Len(rest) = 0
      BY <1>1, <1>3, <2>5
    <3>2. /\ c \in toReplay => c \in toReplay' \/ Ends(replay, c)'
          /\ Ends(replay, c)' \/ NoneOf(replay', c)
      BY <1>2, <1>3, <2>1, <3>1, ReplayIsCurrent
    <3>3. ~EndsWith(rest, e)
      BY <3>1 DEF EndsWith
    <3>4. QED BY <2>3, <3>2, <3>3
  <2>6. QED BY <2>4, <2>5
<1>5. \A c \in Calls : Ends(queue, c)' <=> Ends(queue, c)
  BY <1>1, <1>2 DEF Ends
<1>6. \A c \in Calls : Ends(queue, c)' \/ NoneOf(queue', c)
  BY <1>1, <1>5 DEF CurrentOk
<1>7. \A c \in (Active' \cap Calls) \ missed' :
        \/ Ends(queue, c)' \/ c \in toReplay' \/ Ends(replay, c)'
        \/ NoneOf(replay', c) /\ Brings(feed, c)'
  BY <1>1, <1>4, <1>5, HandlerKeeps
<1>8. QED BY <1>1, <1>6, <1>7, HandlerKeeps DEF CurrentOk

\* What comes out of the queue reaches the wire after everything else there is of its
\* call: by then nothing is being replayed.
LEMMA SentQueuedIsCurrent ==
  ASSUME CInv, CurrentOk, SendQueued
  PROVE  CurrentOk'
<1>1. /\ UNCHANGED server /\ UNCHANGED page /\ UNCHANGED <<open, replay, toReplay, missed>>
      /\ open /\ replay = <<>> /\ queue # <<>>
      /\ feed' = Append(feed, Head(queue)) /\ queue' = Tail(queue)
  BY DEF SendQueued, Send, link
<1>2. UNCHANGED <<history, recorded, documents>>
  BY <1>1, HandlerKeeps
<1>3. feed \in Seq(CallEvent) /\ queue \in Seq(CallEvent) /\ Len(<<>>) = 0 /\ toReplay = {}
  BY <1>1, WireHasEvents DEF CInv, WireOk
<1>4. \A c : NoneOf(replay', c)
  BY <1>1, <1>3 DEF NoneOf
<1>5. ASSUME NEW c \in Calls, Ends(queue, c)
      PROVE  Ends(queue, c)' \/ (NoneOf(queue', c) /\ Ends(feed, c)')
  <2> DEFINE e == Last(history[c])
  <2>1. history[c] # <<>> /\ e.call = c /\ EndsWith(queue, e) /\ history' = history
    BY <1>2, <1>5, LatestIsOf DEF Ends
  <2> HIDE DEF e
  <2>2. EndsWith(queue', e) \/ (NoneOf(queue', c) /\ EndsWith(feed', e))
    BY <1>1, <1>3, <2>1, HeadMoves
  <2>3. QED BY <2>1, <2>2 DEF Ends, e
<1>6. ASSUME NEW c \in Calls, NoneOf(queue, c)
      PROVE  /\ NoneOf(queue', c)
             /\ Brings(feed, c) => Brings(feed, c)'
  <2> DEFINE e == Last(history[c])
  <2>1. history[c] # <<>> => e.call = c
    BY LatestIsOf
  <2> HIDE DEF e
  <2>2. /\ NoneOf(queue', c) /\ (NoneOf(feed, c) => NoneOf(feed', c))
        /\ e.call = c /\ EndsWith(feed, e) => EndsWith(feed', e)
    BY <1>1, <1>3, <1>6, HeadMoves
  <2>3. Shown(c)' <=> Shown(c)
    BY <1>1, HandlerKeeps
  <2>4. QED BY <1>2, <2>1, <2>2, <2>3 DEF Brings, Ends, e
<1>7. \A c \in Calls : Ends(queue, c)' \/ NoneOf(queue', c)
  BY <1>5, <1>6 DEF CurrentOk
<1>8. ASSUME NEW c \in (Active \cap Calls) \ missed
      PROVE  Ends(queue, c)' \/ Brings(feed, c)'
  <2>1. CASE Ends(queue, c)
    BY <1>5, <2>1 DEF Brings
  <2>2. CASE ~Ends(queue, c)
    <3>1. NoneOf(queue, c)
      BY <2>2 DEF CurrentOk
    <3>2. ~Ends(replay, c)
      BY <1>1, <1>3 DEF Ends, EndsWith
    <3>3. Brings(feed, c)
      BY <1>1, <1>3, <2>2, <3>2 DEF CurrentOk
    <3>4. QED BY <1>6, <3>1, <3>3
  <2>3. QED BY <2>1, <2>2
<1>9. \A c \in (Active' \cap Calls) \ missed' :
        Ends(queue, c)' \/ (NoneOf(replay', c) /\ Brings(feed, c)')
  BY <1>1, <1>4, <1>8, HandlerKeeps
<1>10. QED BY <1>1, <1>7, <1>9, HandlerKeeps DEF CurrentOk

\* What comes out of the feed, the page remembers.
LEMMA EventIsShown ==
  ASSUME CInv, CurrentOk, HandleLiveEvent
  PROVE  CurrentOk'
<1> DEFINE e == Head(feed)
<1>1. /\ UNCHANGED <<state, history, link, bus>> /\ feed # <<>> /\ feed' = Tail(feed) /\ Remember(e)
  BY DEF HandleLiveEvent, server
<1>2. feed \in Seq(CallEvent)
  BY WireHasEvents
<1>3. /\ e = feed[1] /\ e \in CallEvent /\ Len(feed) \in Nat \ {0}
      /\ Len(Tail(feed)) = Len(feed) - 1
      /\ \A i \in 1 .. Len(feed) - 1 : Tail(feed)[i] = feed[i + 1]
  BY <1>1, <1>2
<1> HIDE DEF e
<1>4. e.call \in Ids
  BY <1>3 DEF CallEvent, Ids
<1>5. /\ recorded'[e.call] # <<>> /\ Last(recorded'[e.call]) = e
      /\ \A c \in Ids : c # e.call => recorded'[c] = recorded[c]
  <2>1. recorded \in [Ids -> Seq(CallEvent)] /\ TIMELINE \in Nat \ {0}
    BY ConsoleAssumption DEF CInv, PageOk
  <2>2. recorded' = [recorded EXCEPT ![e.call] = LastOf(Append(recorded[e.call], e), TIMELINE)]
    BY <1>1 DEF Remember, Appended
  <2> DEFINE s == Append(recorded[e.call], e)
  <2>3. s \in Seq(CallEvent) /\ s # <<>> /\ Last(s) = e
    <3>1. ASSUME NEW r \in Seq(CallEvent), NEW x \in CallEvent
          PROVE  Append(r, x) \in Seq(CallEvent) /\ Append(r, x) # <<>> /\ Last(Append(r, x)) = x
      <4>1. Append(r, x) \in Seq(CallEvent) /\ Len(Append(r, x)) = Len(r) + 1 /\ Len(r) \in Nat
            /\ Append(r, x)[Len(r) + 1] = x
        OBVIOUS
      <4>2. Append(r, x) # <<>>
        BY <4>1
      <4>3. QED BY <4>1, <4>2 DEF Last
    <3>2. recorded[e.call] \in Seq(CallEvent)
      BY <1>4, <2>1
    <3>3. QED BY <1>3, <3>1, <3>2
  <2> HIDE DEF s
  <2>4. LastOf(s, TIMELINE) # <<>> /\ Last(LastOf(s, TIMELINE)) = e
    BY <2>1, <2>3, LastSurvives
  <2>5. recorded'[e.call] = LastOf(s, TIMELINE)
    BY <1>4, <2>1, <2>2 DEF s
  <2>6. \A c \in Ids : c # e.call => recorded'[c] = recorded[c]
    BY <1>4, <2>1, <2>2
  <2>7. QED BY <2>4, <2>5, <2>6
<1>6. /\ e.type = "xml_served" => e.call \in DOMAIN documents' /\ documents'[e.call] = e
      /\ \A c : c # e.call /\ c \in DOMAIN documents =>
           c \in DOMAIN documents' /\ documents'[c] = documents[c]
  BY <1>1 DEF Remember, Put
<1>7. ASSUME NEW c \in Calls, history[c] # <<>>, Last(history[c]).type = "xml_served",
             Brings(feed, c)
      PROVE  Brings(feed, c)'
  <2> DEFINE last == Last(history[c])
  <2>1. last.call = c /\ last.type = "xml_served" /\ c \in Ids
    BY <1>7, LatestIsOf DEF Ids
  <2> HIDE DEF last
  <2>2. CASE Ends(feed, c)
    <3>1. EndsWith(feed, last)
      BY <2>2 DEF Ends, last
    <3>2. CASE EndsWith(feed', last)
      BY <1>1, <1>7, <3>2 DEF Brings, Ends, last
    <3>3. CASE ~EndsWith(feed', last)
      <4>1. PICK i \in 1 .. Len(feed) :
              feed[i] = last /\ \A j \in 1 .. Len(feed) : j > i => feed[j].call # c
        BY <2>1, <3>1 DEF EndsWith
      <4>2. NoneOf(feed', c)
        BY <1>1, <1>2, <2>1, <3>1, <3>3, HeadMoves
      <4>3. i = 1
        <5> SUFFICES ASSUME i # 1  PROVE FALSE
          OBVIOUS
        <5>1. i - 1 \in 1 .. Len(feed') /\ i - 1 + 1 = i
          BY <1>1, <1>3
        <5>2. feed'[i - 1] = feed[i]
          BY <1>1, <1>3, <5>1
        <5>3. feed'[i - 1].call = c
          BY <2>1, <4>1, <5>2
        <5>4. QED BY <4>2, <5>1, <5>3 DEF NoneOf
      <4>4. e = last
        BY <1>3, <4>1, <4>3
      <4>5. Shown(c)'
        BY <1>1, <1>5, <1>6, <2>1, <4>4 DEF Shown, last
      <4>6. QED BY <4>2, <4>5 DEF Brings
    <3>4. QED BY <3>2, <3>3
  <2>3. CASE NoneOf(feed, c) /\ Shown(c)
    <3>1. e.call # c
      BY <1>3, <2>3 DEF NoneOf
    <3>2. NoneOf(feed', c)
      BY <1>1, <1>2, <2>3, HeadMoves
    <3>3. Shown(c)'
      BY <1>1, <1>5, <1>6, <2>1, <2>3, <3>1 DEF Shown
    <3>4. QED BY <3>2, <3>3 DEF Brings
  <2>4. QED BY <1>7, <2>2, <2>3 DEF Brings
<1>8. \A c \in Ids : c \in Active' <=> c \in Active
  BY <1>1 DEF Active, Ids
<1>9. UNCHANGED <<open, toReplay, replay, queue, missed>>
  BY <1>1 DEF link, bus
<1>10. \A c \in Calls : /\ Ends(queue, c)' <=> Ends(queue, c)
                        /\ Ends(replay, c)' <=> Ends(replay, c)
  BY <1>1, <1>9 DEF Ends
<1>11. /\ \A c \in Ids : history'[c] \in Seq(Of(c))
       /\ \A c \in Active' \cap Calls : history'[c] # <<>> /\ Last(history'[c]).type = "xml_served"
  BY <1>1, <1>8 DEF CurrentOk, Ids
<1>12. open' => \A c \in (Active' \cap Calls) \ missed' :
                  \/ Ends(queue, c)' \/ c \in toReplay' \/ Ends(replay, c)'
                  \/ NoneOf(replay', c) /\ Brings(feed, c)'
  BY <1>1, <1>7, <1>8, <1>9, <1>10 DEF CurrentOk, Ids
<1>13. QED BY <1>9, <1>10, <1>11, <1>12 DEF CurrentOk, Ids, Of, CallEvent

LEMMA ClosedIsCurrent ==
  ASSUME CurrentOk, SocketCloses
  PROVE  CurrentOk'
<1>1. UNCHANGED server /\ UNCHANGED page /\ ~open' /\ queue' = <<>> /\ Len(<<>>) = 0
  BY DEF SocketCloses
<1>2. \A c : NoneOf(queue', c)
  BY <1>1 DEF NoneOf
<1>3. QED BY <1>1, <1>2, HandlerKeeps DEF CurrentOk

\* However often the socket was lost, and whatever was published while the handler was
\* replaying or the page was slow: a page that is connected and has caught up shows, of
\* every active call whose latest event the full queue did not drop, the document it was
\* served last, with its timeline up to there.
THEOREM ConnectedPagesAreCurrent == Spec => []PageIsCurrent
<1>1. Init => CurrentOk
  <2> SUFFICES ASSUME Init  PROVE CurrentOk
    OBVIOUS
  <2>1. state = [c \in Ids |-> "none"] /\ history = [c \in Ids |-> <<>>] /\ ~open
        /\ queue = <<>> /\ Len(<<>>) = 0
    BY DEF Init
  <2>2. Active = {}
    BY <2>1 DEF Active
  <2>3. \A E : <<>> \in Seq(E)
    OBVIOUS
  <2>4. \A c \in Ids : history[c] \in Seq(Of(c))
    BY <2>1, <2>3, Zenon
  <2>5. \A c : NoneOf(queue, c)
    BY <2>1 DEF NoneOf
  <2>6. QED BY <2>1, <2>2, <2>4, <2>5 DEF CurrentOk
<1>2. CInv /\ CurrentOk /\ [Next]_vars => CurrentOk'
  <2> SUFFICES ASSUME CInv, CurrentOk, [Next]_vars  PROVE CurrentOk'
    OBVIOUS
  <2>1. CASE UNCHANGED <<state, history, wire, recorded, documents>>
    BY <2>1, CurrentKept
  <2>2. CASE \E c \in Calls :
               ServeOtpPrompt(c) \/ FinalizeCall(c) \/ \E e \in Inputs : HandleWebhook(c, e)
    BY <2>2, PromptIsShown, FinalizeIsShown, WebhookIsShown
  <2>3. ASSUME NEW r \in RequestUuids, RegisterOutboundCall(r)
        PROVE  CurrentOk'
    <3>1. /\ UNCHANGED <<history, wire, recorded, documents>>
          /\ state' = [state EXCEPT ![r] = NewSession.state]
      BY <2>3 DEF RegisterOutboundCall, Store, wire, page, memory
    <3>2. \A c \in Calls : state'[c] = state[c]
      BY <3>1, ConsoleAssumption DEF CInv, ServerOk, Ids
    <3>3. QED BY <3>1, <3>2, CurrentKept
  <2>4. CASE \E c \in Ids : Select(c)
    BY <2>1, <2>4 DEF Select, server, memory
  <2>5. CASE SocketOpens \/ SendReplay \/ SendQueued \/ SocketCloses \/ HandleLiveEvent
    BY <2>5, OpenIsCurrent, SentReplayIsCurrent, SentQueuedIsCurrent, ClosedIsCurrent, EventIsShown
  <2>6. CASE PollTimer
    BY <2>1, <2>6 DEF PollTimer, server, page, memory
  <2>7. CASE \E f \in Fetches : AnswerFetch(f) \/ FailFetch(f) \/ ApplyFetch(f)
    BY <2>1, <2>7 DEF AnswerFetch, FailFetch, ApplyFetch, server, page, memory
  <2>8. CASE UNCHANGED vars
    BY <2>1, <2>8 DEF vars, server, page, memory
  <2>9. QED BY <2>2, <2>3, <2>4, <2>5, <2>6, <2>7, <2>8 DEF Next
<1>3. CInv /\ CurrentOk => PageIsCurrent
  <2> SUFFICES ASSUME CInv, CurrentOk, open, feed = <<>>, replay = <<>>, queue = <<>>,
                      NEW c \in (Active \cap Calls) \ missed
               PROVE  Shown(c)
    BY DEF PageIsCurrent, Shown
  <2>1. \A e : ~EndsWith(<<>>, e)
    BY DEF EndsWith
  <2>2. ~Ends(queue, c) /\ ~Ends(replay, c) /\ ~Ends(feed, c) /\ c \notin toReplay
    BY <2>1 DEF Ends, CInv, WireOk
  <2>3. QED BY <2>2 DEF CurrentOk, Brings
<1>4. QED BY <1>1, <1>2, <1>3, Invariance, PTL DEF Spec
=============================================================================
