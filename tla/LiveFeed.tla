------------------------------ MODULE LiveFeed ------------------------------
(***************************************************************************)
(* The live event feed: the bus (app/calls/service.py, EventBus), the      *)
(* per-call timelines (app/observability/timeline.py) and the handler of   *)
(* each /ws/live socket (app/api/routes_ws.py).                            *)
(*                                                                         *)
(* Publishing is atomic: it never awaits.  A socket's handler suspends at  *)
(* every send, so webhooks publish between any two sends.  It subscribes   *)
(* and takes the list of active calls in one step, but reads a call's      *)
(* history only when its replay gets there.                                *)
(*                                                                         *)
(* An event is its position in the sequence of all events; what it says    *)
(* does not matter here, only whose it is.                                 *)
(***************************************************************************)
EXTENDS Naturals, Sequences

CONSTANTS
  Calls,                \* call ids
  Sockets,              \* each is one connection, used once
  QUEUE_SIZE,           \* maxsize of a subscriber's queue
  MAX_EVENTS_PER_CALL,  \* maxlen of a call's timeline
  MaxEvents             \* bound of the model: events published in all

ASSUME SizesAssumption ==
  /\ QUEUE_SIZE \in Nat \ {0}
  /\ MAX_EVENTS_PER_CALL \in Nat \ {0}
  /\ MaxEvents \in Nat

VARIABLES
  log,        \* the call of every event published so far
  timeline,   \* the last events of each call
  active,     \* calls with a session that has not ended
  subscribers, \* the sockets whose queue is on the bus
  phase,      \* of each socket: "new", "replay", "stream" or "gone"
  connected,  \* the sockets whose client is still there
  queue,      \* each subscriber's queue
  toReplay,   \* the active calls whose history the handler has yet to read
  history,    \* what is left to send of the history it is replaying
  sent,       \* what each client has been sent
  since,      \* history: length of the log when the socket subscribed
  watched     \* history: the calls active when the socket subscribed

events == <<log, timeline, active>>
start  == <<since, watched>>
vars   == <<events, subscribers, phase, connected, queue, toReplay, history, sent, start>>

Event == 1 .. MaxEvents

Init ==
  /\ log = <<>>
  /\ timeline = [c \in Calls |-> <<>>]
  /\ active = {}
  /\ subscribers = {}
  /\ phase = [w \in Sockets |-> "new"]
  /\ connected = {}
  /\ queue = [w \in Sockets |-> <<>>]
  /\ toReplay = [w \in Sockets |-> {}]
  /\ history = [w \in Sockets |-> <<>>]
  /\ sent = [w \in Sockets |-> <<>>]
  /\ since = [w \in Sockets |-> 0]
  /\ watched = [w \in Sockets |-> {}]

-----------------------------------------------------------------------------
(* The bus and the timelines *)

Enqueue__DropsNewest(q, e) == IF Len(q) = QUEUE_SIZE THEN q ELSE Append(q, e)

\* A full queue loses its oldest event.
Enqueue(q, e) == Append(IF Len(q) = QUEUE_SIZE THEN Tail(q) ELSE q, e)

Recorded__Unbounded(kept, e) == Append(kept, e)

Recorded__NewestFirst(kept, e) ==
  <<e>> \o IF Len(kept) < MAX_EVENTS_PER_CALL THEN kept ELSE SubSeq(kept, 1, MAX_EVENTS_PER_CALL - 1)

\* deque(maxlen=n).append
Recorded(kept, e) == Append(IF Len(kept) = MAX_EVENTS_PER_CALL THEN Tail(kept) ELSE kept, e)

PublishEvent(c) ==
  LET e == Len(log) + 1
  IN  /\ e \in Event
      /\ log' = Append(log, c)
      /\ timeline' = [timeline EXCEPT ![c] = Recorded(@, e)]
      /\ queue' = [w \in Sockets |->
                     IF w \in subscribers THEN Enqueue(queue[w], e) ELSE queue[w]]
      /\ UNCHANGED <<subscribers, phase, connected, toReplay, history, sent, start>>

\* A webhook's event.  The first one of a call creates its session; a webhook
\* that comes after the hangup still publishes, and leaves the session ended.
Webhook(c) ==
  /\ PublishEvent(c)
  /\ active' = IF timeline[c] = <<>> THEN active \cup {c} ELSE active

CallEnds(c) ==
  /\ PublishEvent(c)
  /\ active' = active \ {c}

-----------------------------------------------------------------------------
(* A socket *)

Enter(w, next, rest, replayed) ==
  /\ phase' = [phase EXCEPT ![w] = next]
  /\ toReplay' = [toReplay EXCEPT ![w] = rest]
  /\ history' = [history EXCEPT ![w] = replayed]

\* The history of c is read as it is now; the calls left to replay are rest.
StartReplay(w, c, rest) == timeline[c] # <<>> /\ Enter(w, "replay", rest, timeline[c])

StartStream(w, calls) == (\A c \in calls : timeline[c] = <<>>) /\ Enter(w, "stream", {}, <<>>)

ProceedWith__SubscribesLast(w, calls) ==
  \/ (\E c \in calls : StartReplay(w, c, calls \ {c})) /\ UNCHANGED queue
  \/ StartStream(w, calls) /\ queue' = [queue EXCEPT ![w] = <<>>]

ProceedWith__RelistsActive(w, calls) ==
  /\ (\E c \in calls : StartReplay(w, c, active \ {c})) \/ StartStream(w, calls)
  /\ UNCHANGED queue

\* The loop over active calls, from a point where nothing is being replayed: on
\* to the history of one of them, or to the queue.  The calls come in the
\* store's order, which is not modelled.
ProceedWith(w, calls) ==
  /\ (\E c \in calls : StartReplay(w, c, calls \ {c})) \/ StartStream(w, calls)
  /\ UNCHANGED queue

\* accept() has returned: subscribe, list the active calls, start the replay.
Connect(w) ==
  /\ phase[w] = "new"
  /\ connected' = connected \cup {w}
  /\ subscribers' = subscribers \cup {w}
  /\ since' = [since EXCEPT ![w] = Len(log)]
  /\ watched' = [watched EXCEPT ![w] = active]
  /\ ProceedWith(w, active)
  /\ UNCHANGED <<events, sent>>

Send(w, e) == w \in connected /\ sent' = [sent EXCEPT ![w] = Append(@, e)]

\* One send of the replay, up to the next one or to the wait on the queue.
Replay(w) ==
  /\ phase[w] = "replay"
  /\ Send(w, Head(history[w]))
  /\ IF Len(history[w]) > 1
     THEN /\ history' = [history EXCEPT ![w] = Tail(@)]
          /\ UNCHANGED <<phase, queue, toReplay>>
     ELSE ProceedWith(w, toReplay[w])
  /\ UNCHANGED <<events, subscribers, connected, start>>

\* One turn of the loop on the queue.
Stream__Once(w) ==
  /\ phase[w] = "stream" /\ queue[w] # <<>>
  /\ Send(w, Head(queue[w]))
  /\ queue' = [queue EXCEPT ![w] = Tail(@)]
  /\ phase' = [phase EXCEPT ![w] = "gone"]
  /\ subscribers' = subscribers \ {w}
  /\ UNCHANGED <<events, connected, toReplay, history, start>>

Stream(w) ==
  /\ phase[w] = "stream" /\ queue[w] # <<>>
  /\ Send(w, Head(queue[w]))
  /\ queue' = [queue EXCEPT ![w] = Tail(@)]
  /\ UNCHANGED <<events, subscribers, phase, connected, toReplay, history, start>>

\* The browser closes the page.  The handler is not told.
Disconnect(w) ==
  /\ w \in connected
  /\ connected' = connected \ {w}
  /\ UNCHANGED <<events, subscribers, phase, queue, toReplay, history, sent, start>>

\* It finds out when it next sends: the handler ends, and unsubscribes.
Unsubscribe__Forgotten(w) ==
  /\ phase[w] = "replay" \/ (phase[w] = "stream" /\ queue[w] # <<>>)
  /\ w \notin connected
  /\ phase' = [phase EXCEPT ![w] = "gone"]
  /\ UNCHANGED <<events, subscribers, connected, queue, toReplay, history, sent, start>>

Unsubscribe(w) ==
  /\ phase[w] = "replay" \/ (phase[w] = "stream" /\ queue[w] # <<>>)
  /\ w \notin connected
  /\ phase' = [phase EXCEPT ![w] = "gone"]
  /\ subscribers' = subscribers \ {w}
  /\ UNCHANGED <<events, connected, queue, toReplay, history, sent, start>>

Next ==
  \/ \E c \in Calls : Webhook(c) \/ CallEnds(c)
  \/ \E w \in Sockets : Connect(w) \/ Replay(w) \/ Stream(w) \/ Disconnect(w) \/ Unsubscribe(w)

Spec == Init /\ [][Next]_vars

\* A send to a client that is there completes, and one to a client that is not
\* raises; nobody owes an event or a connection.
Fairness ==
  \A w \in Sockets : WF_vars(Replay(w)) /\ WF_vars(Stream(w)) /\ WF_vars(Unsubscribe(w))

FairSpec == Spec /\ Fairness

-----------------------------------------------------------------------------
(* Properties *)

Elements(seq) == {seq[i] : i \in DOMAIN seq}

TypeOK ==
  /\ log \in Seq(Calls) /\ Len(log) <= MaxEvents
  /\ timeline \in [Calls -> Seq(Event)]
  /\ \A c \in Calls : Len(timeline[c]) <= MAX_EVENTS_PER_CALL
  /\ active \subseteq Calls /\ subscribers \subseteq Sockets
  /\ phase \in [Sockets -> {"new", "replay", "stream", "gone"}]
  /\ connected \subseteq Sockets
  /\ queue \in [Sockets -> Seq(Event)]
  /\ \A w \in Sockets : Len(queue[w]) <= QUEUE_SIZE
  /\ toReplay \in [Sockets -> SUBSET Calls]
  /\ history \in [Sockets -> Seq(Event)]
  /\ sent \in [Sockets -> Seq(Event)]
  /\ since \in [Sockets -> 0 .. MaxEvents]
  /\ watched \in [Sockets -> SUBSET Calls]

\* A queue holds the newest events, without a gap and in order: what a slow
\* subscriber loses is always older than everything it will still be sent.
QueueIsNewest ==
  \A w \in subscribers : \A i \in DOMAIN queue[w] :
    queue[w][i] = Len(log) - Len(queue[w]) + i

\* A socket misses nothing between its subscription and now, whatever was
\* published during the replay, unless its queue could overflow.
NothingMissed ==
  \A w \in subscribers :
    Len(log) - since[w] <= QUEUE_SIZE
      => since[w] + 1 .. Len(log) \subseteq Elements(sent[w]) \cup Elements(queue[w])

Of(c, set) == {e \in set : log[e] = c}

\* Once a socket has caught up, the last thing it was sent of each call it should
\* know of is that call's latest event: a console that applies what it is
\* sent ends up with the true state, although the replay and the queue overlap.
CaughtUpIsCurrent ==
  \A w \in subscribers, c \in Calls :
    /\ phase[w] = "stream" /\ queue[w] = <<>>
    /\ Len(log) - since[w] <= QUEUE_SIZE
    /\ c \in watched[w] \/ Of(c, since[w] + 1 .. Len(log)) # {}
    => \E i \in DOMAIN sent[w] :
         /\ \A e \in Of(c, 1 .. Len(log)) : e <= sent[w][i]
         /\ \A j \in DOMAIN sent[w] : j > i => log[sent[w][j]] # c
         /\ log[sent[w][i]] = c

\* The replay and the queue overlap as little as they can: an event is sent again
\* only when it was published after the socket subscribed and is of a call that
\* was replayed, and never a third time.
ResentOnlyIfRecent ==
  \A w \in Sockets : \A i, j \in DOMAIN sent[w] :
    LET e == sent[w][i]
    IN  i < j /\ sent[w][j] = e
          => /\ e > since[w] /\ log[e] \in watched[w]
             /\ \A k \in DOMAIN sent[w] \ {i, j} : sent[w][k] # e

\* Every replay ends, and the queue that filled up meanwhile is drained: a client
\* that stays is eventually sent all that its queue did not have to drop.
CatchesUp ==
  \A w \in Sockets :
    (w \in connected) ~> (w \notin connected \/ (phase[w] = "stream" /\ queue[w] = <<>>))

\* A client that has left does not keep its place on the bus once there is
\* something to send to it.
LeaversAreDropped ==
  \A w \in Sockets :
    (w \in subscribers \ connected /\ (phase[w] = "replay" \/ queue[w] # <<>>))
      ~> (w \notin subscribers)
=============================================================================
