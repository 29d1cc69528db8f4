------------------------------- MODULE Console -------------------------------
(***************************************************************************)
(* The browser console (web/src/main.ts with call-list.ts, timeline.ts,    *)
(* xml-inspector.ts and state-graph.ts) over what the server gives it:     *)
(* GET /api/calls and the live socket, whose handler first replays the     *)
(* history of the active calls and then drains the queue it has on the bus *)
(* (LiveFeed.tla has that handler for any number of sockets).  Of a        *)
(* session the console sees the state, which IvrMachine.tla advances.      *)
(*                                                                         *)
(* JavaScript runs one handler at a time.  What interleaves is the sending *)
(* and arrival of events, the answers to requests for the list (several    *)
(* may be on their way, and they can overtake each other), clicks, and the *)
(* loss and return of the socket.  A panel is the call it was drawn for    *)
(* and what it shows of it; positions, animations and formatting are left  *)
(* out.                                                                    *)
(***************************************************************************)
EXTENDS IvrMachine, SequencesExt

CONSTANTS
  Calls, NoCall,
  RequestUuids,              \* ids of placeholders, which no webhook carries
  Fetches,                   \* requests for the list that may be on their way at once
  HISTORY, TIMELINE,         \* lengths of the server's and the page's timelines
  QUEUE_SIZE,                \* maxsize of a subscriber's queue
  Inputs,                    \* bound of the model: the inputs webhooks carry
  MaxChanges, MaxCloses,     \* bounds of the model: writes to the store, sockets lost,
  MaxOnWire                  \* messages on their way at once

ASSUME ConsoleAssumption ==
  /\ NoCall \notin Calls \cup RequestUuids /\ Calls \cap RequestUuids = {}
  /\ {HISTORY, TIMELINE, QUEUE_SIZE} \subseteq Nat \ {0}
  /\ {MaxChanges, MaxCloses, MaxOnWire} \subseteq Nat
  /\ Inputs \subseteq InputEvent

VARIABLES
  state,         \* the server's sessions: state of each id, "none" without one
  history,       \* the server's timelines
  made,          \* history: the changes of state each call has made
  changes,       \* writes to the store so far
  open,          \* whether there is a socket, and a handler that serves it
  closes,        \* sockets lost so far
  toReplay,      \* the active calls whose history the handler has yet to read
  replay,        \* what is left to send of the history it is replaying
  queue,         \* the handler's queue on the bus
  missed,        \* history: calls whose latest event the queue had to drop
  feed,          \* messages on their way to the page, in order
  fetch,         \* requests for the list: phase, and the calls of the answer
  selected,      \* main.ts: selectedCallUuid
  known,         \* main.ts: knownCallStates
  lastDigits,    \* main.ts: lastDigitsByCall, "" without an entry
  listed,        \* call-list.ts: the calls of the rows
  highlighted,   \* call-list.ts: the selected row
  recorded,      \* timeline.ts: perCall
  documents,     \* xml-inspector.ts: perCall
  taken,         \* state-graph.ts: takenEdges; visitedStates are their ends
  timeline, document, graph,  \* the panels
  pills          \* state-graph.ts: the digit pill on each edge that has one

server == <<state, history, made, changes>>
link   == <<open, closes, toReplay, replay>>
bus    == <<queue, missed>>
wire   == <<link, bus, feed>>
memory == <<known, lastDigits, recorded, documents, taken>>
list   == <<listed, highlighted>>
panels == <<timeline, document, graph>>
page   == <<selected, memory, list, panels, pills>>
vars   == <<server, wire, fetch, page>>

-----------------------------------------------------------------------------
(* The server *)

Ids == Calls \cup RequestUuids

\* A state change also carries, for the properties, the digits of the webhook
\* that caused it; the message has no such field.
Dtmf(c, d)                == [call |-> c, type |-> "dtmf", from |-> "", to |-> "", digits |-> d]
StateChange(c, f, to, by) == [call |-> c, type |-> "state_change", from |-> f, to |-> to, digits |-> by]
XmlServed(c, s)           == [call |-> c, type |-> "xml_served", from |-> s, to |-> "", digits |-> ""]
CallEnded(c)              ==
  [call |-> c, type |-> "call_ended", from |-> "", to |-> "COMPLETED", digits |-> ""]

CallEvent ==
  [call : Calls, type : {"dtmf", "state_change", "xml_served", "call_ended"},
   from : CallState \cup {""}, to : CallState \cup {""}, digits : Digits \cup {""}]

LastOf(seq, n) == IF Len(seq) <= n THEN seq ELSE SubSeq(seq, Len(seq) - n + 1, Len(seq))

Appended__Unbounded(seq, e, n) == Append(seq, e)

\* A list that keeps its last n elements.
Appended(seq, e, n) == LastOf(Append(seq, e), n)

\* A Map or dictionary with key k set to v.
Put(map, k, v) == [x \in DOMAIN map \cup {k} |-> IF x = k THEN v ELSE map[x]]

\* all_active() goes by ended_at, which is set exactly in the terminal states
\* (EndedHolds in CallServiceProofs.tla).
Active == {c \in Ids : state[c] \notin {"none"} \cup TERMINAL_STATES}

Nothing == [c \in {} |-> ""]
Idle    == [phase |-> "idle", answer |-> Nothing]
Sent    == [phase |-> "sent", answer |-> Nothing]
Panel(c, shows) == [call |-> c, shows |-> shows]

Init ==
  /\ state = [c \in Ids |-> "none"]
  /\ history = [c \in Ids |-> <<>>]
  /\ made = [c \in Ids |-> {}]
  /\ changes = 0 /\ closes = 0
  /\ open = FALSE /\ feed = <<>> /\ queue = <<>> /\ replay = <<>>
  /\ toReplay = {} /\ missed = {}
  /\ \E f \in Fetches : fetch = [x \in Fetches |-> IF x = f THEN Sent ELSE Idle]
  /\ selected = NoCall /\ highlighted = NoCall
  /\ known = Nothing
  /\ lastDigits = [c \in Ids |-> ""]
  /\ listed = {}
  /\ recorded = [c \in Ids |-> <<>>]
  /\ documents = Nothing
  /\ taken = [c \in Ids |-> {}]
  /\ timeline = Panel(NoCall, <<>>) /\ document = Panel(NoCall, Nothing)
  /\ graph = Panel(NoCall, "")
  /\ pills = Nothing

\* The store is written: session c is in state s.
Store(c, s) ==
  /\ changes < MaxChanges
  /\ changes' = changes + 1
  /\ state' = [state EXCEPT ![c] = s]
  /\ UNCHANGED <<link, feed, fetch, page>>

CallsOf(events) == {events[i].call : i \in DOMAIN events}

\* A full queue drops its oldest event.  Of a call that has no event left in it,
\* the page may have missed the latest.
Enqueue(events) ==
  /\ queue' = LastOf(queue \o events, QUEUE_SIZE)
  /\ missed' = (missed \cup CallsOf(queue \o events)) \ CallsOf(queue')

\* _publish() of each event, in order: to the call's timeline and to the bus.
Publish(c, events) ==
  /\ history' = [history EXCEPT ![c] = LastOf(@ \o events, HISTORY)]
  /\ IF open THEN Enqueue(events) ELSE UNCHANGED bus

\* _get_or_recover_session()
Recovered(c) == IF state[c] = "none" THEN NewSession.state ELSE state[c]

ServeOtpPrompt(c) ==
  /\ Store(c, Recovered(c))
  /\ Publish(c, <<XmlServed(c, Recovered(c))>>)
  /\ UNCHANGED made

\* The next state goes by the state and the event alone.
HandleWebhook(c, e) ==
  LET from == Recovered(c)
      to   == Advance([NewSession EXCEPT !.state = from], e).session.state
  IN  /\ Store(c, to)
      /\ Publish(c, (IF e.kind = "digits" THEN <<Dtmf(c, e.digits)>> ELSE <<>>)
                       \o (IF to # from THEN <<StateChange(c, from, to, e.digits)>> ELSE <<>>)
                       \o <<XmlServed(c, to)>>)
      /\ made' = IF to # from THEN [made EXCEPT ![c] = @ \cup {<<from, to>>}] ELSE made

FinalizeCall(c) ==
  /\ Store(c, "COMPLETED")
  /\ Publish(c, <<CallEnded(c)>>)
  /\ UNCHANGED made

\* register_outbound_call(): a session, and no event, now or later.
RegisterOutboundCall(r) ==
  /\ state[r] = "none"
  /\ Store(r, NewSession.state)
  /\ UNCHANGED <<history, made, bus>>

-----------------------------------------------------------------------------
(* The socket *)

\* The loop over the active calls, from a point where nothing is being replayed: on
\* to the history of one of them, read as it is now, or to the queue.  What is active
\* and has no history is a placeholder, which never gets one.
ReplayNext(calls) ==
  \/ \E c \in calls : history[c] # <<>> /\ replay' = history[c] /\ toReplay' = calls \ {c}
  \/ (\A c \in calls : history[c] = <<>>) /\ replay' = <<>> /\ toReplay' = {}

ProceedWith__SubscribesLast(calls) ==
  /\ ReplayNext(calls)
  /\ queue' = IF replay' = <<>> THEN <<>> ELSE queue
  /\ UNCHANGED missed

ProceedWith(calls) == ReplayNext(calls) /\ UNCHANGED bus

\* The handler subscribes, with an empty queue, and lists the active calls.
SocketOpens ==
  /\ ~open
  /\ open' = TRUE
  /\ ProceedWith(Active)
  /\ UNCHANGED <<server, closes, feed, fetch, page>>

Send(e) == open /\ Len(feed) < MaxOnWire /\ feed' = Append(feed, e)

\* One send of the replay, up to the next one or to the wait on the queue.
SendReplay ==
  /\ replay # <<>> /\ Send(Head(replay))
  /\ IF Len(replay) > 1 THEN replay' = Tail(replay) /\ UNCHANGED <<toReplay, bus>>
                        ELSE ProceedWith(toReplay)
  /\ UNCHANGED <<server, open, closes, fetch, page>>

SendQueued ==
  /\ replay = <<>> /\ queue # <<>> /\ Send(Head(queue))
  /\ queue' = Tail(queue)
  /\ UNCHANGED <<server, link, missed, fetch, page>>

\* onClose: what was on its way is lost, as is what the handler still had to send,
\* and connect() is tried again.
SocketCloses ==
  /\ open /\ closes < MaxCloses
  /\ open' = FALSE /\ closes' = closes + 1
  /\ feed' = <<>> /\ queue' = <<>> /\ replay' = <<>> /\ toReplay' = {} /\ missed' = {}
  /\ UNCHANGED <<server, fetch, page>>

-----------------------------------------------------------------------------
(* The page *)

\* refreshCallList(), up to its await.
Refresh ==
  \E f \in Fetches : fetch[f] = Idle /\ fetch' = [fetch EXCEPT ![f] = Sent]

\* With all of Fetches on their way one more request fails at once.
RefreshOrFail ==
  \/ Refresh
  \/ Idle \notin {fetch[f] : f \in Fetches} /\ UNCHANGED fetch

\* knownCallStates.get(c) ?? "AWAITING_OTP"
KnownState(map, c) == IF c \in DOMAIN map THEN map[c] ELSE "AWAITING_OTP"

\* xml-inspector.ts render(): nothing yet, or the last document of the call.
DocumentOf(map, c) == IF c \in DOMAIN map THEN map[c] ELSE Nothing

OnSelect__RowOnly(c, map) ==
  /\ selected' = selected
  /\ graph' = Panel(c, KnownState(map, c))
  /\ timeline' = Panel(c, recorded[c])
  /\ document' = Panel(c, DocumentOf(documents, c))

\* The call list's onSelect callback.
OnSelect(c, map) ==
  /\ selected' = c
  /\ graph' = Panel(c, KnownState(map, c))
  /\ timeline' = Panel(c, recorded[c])
  /\ document' = Panel(c, DocumentOf(documents, c))

\* record(), lastDigitsByCall and knownCallStates: what the page remembers of an
\* event, whichever call is selected.
Remember(e) ==
  /\ recorded' = [recorded EXCEPT ![e.call] = Appended(@, e, TIMELINE)]
  /\ documents' = IF e.type = "xml_served" THEN Put(documents, e.call, e) ELSE documents
  /\ lastDigits' = IF e.type = "dtmf" THEN [lastDigits EXCEPT ![e.call] = e.digits] ELSE lastDigits
  /\ known' = IF e.type \in {"state_change", "call_ended"} THEN Put(known, e.call, e.to) ELSE known

Edges__NoWayIn ==
  {<<"AWAITING_OTP", "LANGUAGE_MENU">>, <<"ACTION_MENU", "LANGUAGE_MENU">>}
    \cup ({"ACTION_MENU"} \X LeafStates) \cup (LeafStates \X {"ACTION_MENU"})
    \cup ({"ACTION_MENU"} \cup LeafStates) \X {"COMPLETED"}

Edges ==
  {<<"AWAITING_OTP", "LANGUAGE_MENU">>, <<"LANGUAGE_MENU", "ACTION_MENU">>,
   <<"ACTION_MENU", "LANGUAGE_MENU">>}
    \cup ({"ACTION_MENU"} \X LeafStates) \cup (LeafStates \X {"ACTION_MENU"})
    \cup ({"ACTION_MENU"} \cup LeafStates) \X {"COMPLETED"}

EdgeOf__FromKnown(e) == <<KnownState(known, e.call), e.to>>

EdgeOf(e) == <<e.from, e.to>>

\* applyTransition(): the edge is taken for its call, gets a pill if digits are
\* remembered for the call, and the graph is drawn, whichever call is selected.
\* Pills belong to the drawing and are removed only by another on the same edge.
ApplyTransition(e) ==
  IF e.type # "state_change" THEN UNCHANGED <<taken, graph, pills>>
  ELSE /\ taken' = [taken EXCEPT ![e.call] = @ \cup {EdgeOf(e)}]
       /\ graph' = Panel(e.call, e.to)
       /\ pills' = IF lastDigits[e.call] # "" /\ EdgeOf(e) \in Edges
                   THEN Put(pills, EdgeOf(e), [digits |-> lastDigits[e.call], by |-> e.digits])
                   ELSE pills

ShowIfSelected__LastSelected(e, sel) ==
  IF e.call = selected
  THEN /\ timeline' = Panel(e.call, recorded'[e.call])
       /\ document' = IF e.type = "xml_served" THEN Panel(e.call, e) ELSE document
  ELSE UNCHANGED <<timeline, document>>

\* The other two panels are drawn for the selected call only.
ShowIfSelected(e, sel) ==
  IF e.call = sel
  THEN /\ timeline' = Panel(e.call, recorded'[e.call])
       /\ document' = IF e.type = "xml_served" THEN Panel(e.call, e) ELSE document
  ELSE UNCHANGED <<timeline, document>>

HandleLiveEvent ==
  /\ feed # <<>>
  /\ feed' = Tail(feed)
  /\ LET e == Head(feed)
     IN  /\ Remember(e)
         /\ ApplyTransition(e)
         /\ selected' = IF selected = NoCall THEN e.call ELSE selected
         /\ ShowIfSelected(e, selected')
         /\ IF e.type \in {"state_change", "call_ended"} THEN RefreshOrFail ELSE UNCHANGED fetch
  /\ UNCHANGED <<server, link, bus, list>>

\* The timer; also the refresh after the form has placed a call, at any time.
PollTimer ==
  /\ Refresh
  /\ UNCHANGED <<server, wire, page>>

\* list_calls(): the server reads its store; the answer has yet to arrive.
AnswerFetch(f) ==
  /\ fetch[f] = Sent
  /\ fetch' = [fetch EXCEPT ![f] = [phase |-> "answered", answer |-> Restrict(state, Active)]]
  /\ UNCHANGED <<server, wire, page>>

FailFetch(f) ==
  /\ fetch[f] = Sent
  /\ fetch' = [fetch EXCEPT ![f] = Idle]
  /\ UNCHANGED <<server, wire, page>>

KnownAfter__ListOnly(answer) == known

\* knownCallStates after the answer to a request for the list.
KnownAfter(answer) ==
  [c \in DOMAIN answer \cup DOMAIN known |-> IF c \in DOMAIN answer THEN answer[c] ELSE known[c]]

RowsAfter__Upserted(answer) == listed \cup DOMAIN answer

RowsAfter(answer) == DOMAIN answer

\* refreshCallList() after its await: setCalls() selects the first call if no
\* row is selected yet.  Which one is first is the server's order.
ApplyFetch(f) ==
  /\ fetch[f].phase = "answered"
  /\ fetch' = [fetch EXCEPT ![f] = Idle]
  /\ known' = KnownAfter(fetch[f].answer)
  /\ listed' = RowsAfter(fetch[f].answer)
  /\ IF highlighted = NoCall /\ listed' # {}
     THEN \E c \in listed' : highlighted' = c /\ OnSelect(c, known')
     ELSE UNCHANGED <<highlighted, selected, panels>>
  /\ UNCHANGED <<server, wire, lastDigits, recorded, documents, taken, pills>>

\* A click on a row.
Select(c) ==
  /\ c \in listed
  /\ highlighted' = c
  /\ OnSelect(c, known)
  /\ UNCHANGED <<server, wire, fetch, memory, listed, pills>>

Next ==
  \/ \E c \in Calls :
       ServeOtpPrompt(c) \/ FinalizeCall(c) \/ \E e \in Inputs : HandleWebhook(c, e)
  \/ \E r \in RequestUuids : RegisterOutboundCall(r)
  \/ \E c \in Ids : Select(c)
  \/ SocketOpens \/ SendReplay \/ SendQueued \/ SocketCloses \/ HandleLiveEvent \/ PollTimer
  \/ \E f \in Fetches : AnswerFetch(f) \/ FailFetch(f) \/ ApplyFetch(f)

Spec == Init /\ [][Next]_vars

\* The timer fires, and requests do not fail for ever.  Nobody owes a webhook, a
\* click, a socket or an event on it.
Fairness ==
  /\ WF_vars(PollTimer)
  /\ \A f \in Fetches : SF_vars(AnswerFetch(f)) /\ WF_vars(ApplyFetch(f))

FairSpec == Spec /\ Fairness

-----------------------------------------------------------------------------
(* Properties *)

\* Type invariant; the timelines and the queue keep to their lengths (timeline.py,
\* timeline.ts record(), EventBus), and nothing is on its way without a socket.
TypeOK ==
  /\ state \in [Ids -> CallState \cup {"none"}]
  /\ {feed, replay, queue} \subseteq Seq(CallEvent) /\ Len(queue) <= QUEUE_SIZE
  /\ toReplay \subseteq Ids /\ missed \subseteq Calls
  /\ ~open => feed = <<>> /\ replay = <<>> /\ queue = <<>> /\ toReplay = {}
  /\ DOMAIN known \subseteq Ids /\ \A c \in DOMAIN known : known[c] \in CallState
  /\ {selected, highlighted} \subseteq Ids \cup {NoCall} /\ listed \subseteq Ids
  /\ recorded \in [Ids -> Seq(CallEvent)] /\ history \in [Ids -> Seq(CallEvent)]
  /\ \A c \in Ids : Len(recorded[c]) <= TIMELINE /\ Len(history[c]) <= HISTORY
  /\ lastDigits \in [Ids -> Digits \cup {""}]
  /\ DOMAIN documents \subseteq Calls /\ DOMAIN pills \subseteq Edges

\* The two notions of selection, main.ts's and the list's, never part: the
\* highlighted row is the call the panels are for, although an event can select a
\* call before there is a row for it.
SelectionsAgree == highlighted # NoCall => highlighted = selected

\* The timeline and document panels show all there is of the selected call, however
\* events, answers and clicks interleave.
PanelsAreOfSelected ==
  selected # NoCall =>
    /\ timeline = Panel(selected, recorded[selected])
    /\ IF selected \in DOMAIN documents \/ document.call # NoCall
       THEN document = Panel(selected, DocumentOf(documents, selected))
       ELSE document = Panel(NoCall, Nothing)

\* The graph never marks an edge for a call that the call's session did not
\* take, although what the page knows of the session goes back and forth with
\* answers that overtake each other (state-graph.ts, takenEdges).
EdgesWereTaken == \A c \in Calls : taken[c] \subseteq made[c]

\* The graph has an edge for every change a call that is not over can make: the
\* table of state-graph.ts repeats what advance() does.
ChangesHaveEdges ==
  \A c \in Calls : \A change \in made[c] : change[1] \in TERMINAL_STATES \/ change \in Edges

\* A connected page that has caught up shows, of every active call, the document that
\* call was served last, and its timeline ends with it: whatever was lost with earlier
\* sockets, the replay makes up for (connect() in main.ts), and what is published while
\* it goes on waits in the queue.  A call is excused only while the last thing that
\* happened to it is something its full queue dropped (EventBus.publish).
PageIsCurrent ==
  open /\ feed = <<>> /\ replay = <<>> /\ queue = <<>> =>
    \A c \in (Active \cap Calls) \ missed :
      /\ c \in DOMAIN documents /\ documents[c] = Last(history[c])
      /\ recorded[c] # <<>> /\ Last(recorded[c]) = Last(history[c])

\* state-graph.ts, render(): "Renders the graph for whichever call is currently
\* selected."  It does not: a state change of another call draws that call.
GraphIsOfSelected == selected # NoCall => graph.call \in {selected, NoCall}

\* state-graph.ts, applyTransition(): "Call once per state_change event, with the
\* digit that caused it."  A clip that ends is a state change no digit caused, and
\* is drawn with the digit that started the clip.
PillsAreCauses == \A edge \in DOMAIN pills : pills[edge].digits = pills[edge].by

\* When calls stop changing, what the page believes of every active call becomes
\* and stays true, although answers overtake each other and events were lost with
\* a socket.
KnownConverges ==
  <>[](\A c \in Active : c \in DOMAIN known /\ known[c] = state[c])

\* And the rows become exactly the active calls (refreshCallList).
RowsConverge == <>[](listed = Active)
=============================================================================
