--------------------------- MODULE LiveFeedProofs ---------------------------
(***************************************************************************)
(* Proofs about the live feed, for any calls, sockets, queue size,         *)
(* timeline length and number of events.                                   *)
(***************************************************************************)
EXTENDS LiveFeed, SequenceTheorems, TLAPS

(* The inductive invariant.  A queue never holds more than what was         *)
(* published since its socket subscribed: so one that overflows belongs to  *)
(* a socket that NothingMissed excuses.                                     *)
SubscribedWhen ==
  /\ \A w \in Sockets : phase[w] = "new" => w \notin subscribers /\ queue[w] = <<>>
  /\ \A w \in subscribers : since[w] + Len(queue[w]) <= Len(log)

\* A replaying handler always has something left to send.
ReplayHasMore == \A w \in Sockets : phase[w] = "replay" => history[w] # <<>>

IInv == TypeOK /\ QueueIsNewest /\ SubscribedWhen /\ ReplayHasMore /\ NothingMissed

\* The groups of variables that steps leave alone together.
USE DEF events, start

-----------------------------------------------------------------------------
(* Sequences *)

LEMMA AppendIs ==
  ASSUME NEW S, NEW s \in Seq(S), NEW e \in S
  PROVE  /\ Append(s, e) \in Seq(S)
         /\ Len(Append(s, e)) = Len(s) + 1
         /\ \A i \in 1 .. Len(s) : Append(s, e)[i] = s[i]
         /\ Append(s, e)[Len(s) + 1] = e
BY AppendProperties

LEMMA TailIs ==
  ASSUME NEW S, NEW s \in Seq(S), s # <<>>
  PROVE  /\ Head(s) \in S /\ Head(s) = s[1]
         /\ Tail(s) \in Seq(S)
         /\ Len(s) \in Nat \ {0}
         /\ Len(Tail(s)) = Len(s) - 1
         /\ \A i \in 1 .. Len(s) - 1 : Tail(s)[i] = s[i + 1]
BY HeadTailProperties, EmptySeq, LenProperties

LEMMA AppendKeeps ==
  ASSUME NEW S, NEW s \in Seq(S), NEW e \in S
  PROVE  Elements(Append(s, e)) = Elements(s) \cup {e}
<1>1. /\ DOMAIN s = 1 .. Len(s) /\ Len(s) \in Nat
      /\ DOMAIN Append(s, e) = 1 .. Len(s) + 1
  BY AppendIs, LenProperties
<1>2. QED BY <1>1, AppendIs DEF Elements

LEMMA TailKeeps ==
  ASSUME NEW S, NEW s \in Seq(S), s # <<>>
  PROVE  Elements(s) = {Head(s)} \cup Elements(Tail(s))
<1>1. /\ DOMAIN s = 1 .. Len(s) /\ Len(s) \in Nat \ {0}
      /\ DOMAIN Tail(s) = 1 .. Len(s) - 1
  BY TailIs, LenProperties
<1>2. \A i \in DOMAIN s : i = 1 \/ (i - 1 \in DOMAIN Tail(s) /\ s[i] = Tail(s)[i - 1])
  BY <1>1, TailIs
<1>3. \A i \in DOMAIN Tail(s) : i + 1 \in DOMAIN s /\ Tail(s)[i] = s[i + 1]
  BY <1>1, TailIs
<1>4. 1 \in DOMAIN s /\ s[1] = Head(s)
  BY <1>1, TailIs
<1>5. Elements(s) \subseteq {Head(s)} \cup Elements(Tail(s))
  <2>1. ASSUME NEW x \in Elements(s)  PROVE x = Head(s) \/ x \in Elements(Tail(s))
    <3>1. PICK i \in DOMAIN s : x = s[i]
      BY <2>1 DEF Elements
    <3>2. QED BY <1>2, <1>4, <3>1 DEF Elements
  <2>2. QED BY <2>1
<1>6. {Head(s)} \cup Elements(Tail(s)) \subseteq Elements(s)
  <2>1. Head(s) \in Elements(s)
    BY <1>4 DEF Elements
  <2>2. ASSUME NEW x \in Elements(Tail(s))  PROVE x \in Elements(s)
    <3>1. PICK i \in DOMAIN Tail(s) : x = Tail(s)[i]
      BY <2>2 DEF Elements
    <3>2. QED BY <1>3, <3>1 DEF Elements
  <2>3. QED BY <2>1, <2>2
<1>7. QED BY <1>5, <1>6

\* EventBus.publish() and Timeline.record() keep what they hold within its bound.
LEMMA EnqueueIs ==
  ASSUME NEW q \in Seq(Event), Len(q) <= QUEUE_SIZE, NEW e \in Event
  PROVE  /\ Enqueue(q, e) \in Seq(Event)
         /\ Len(q) < QUEUE_SIZE => Enqueue(q, e) = Append(q, e)
         /\ Len(q) = QUEUE_SIZE => q # <<>> /\ Enqueue(q, e) = Append(Tail(q), e)
         /\ Len(Enqueue(q, e)) <= QUEUE_SIZE
<1>1. QUEUE_SIZE \in Nat \ {0} /\ Len(q) \in Nat
  BY SizesAssumption, LenProperties
<1>2. CASE Len(q) = QUEUE_SIZE
  <2>1. q # <<>>
    BY <1>1, <1>2, EmptySeq
  <2>2. Enqueue(q, e) = Append(Tail(q), e)
    BY <1>2 DEF Enqueue
  <2>3. Tail(q) \in Seq(Event) /\ Len(Tail(q)) = Len(q) - 1
    BY <2>1, TailIs
  <2>4. Append(Tail(q), e) \in Seq(Event) /\ Len(Append(Tail(q), e)) = Len(q)
    BY <1>1, <2>3, AppendIs
  <2>5. QED BY <1>1, <1>2, <2>1, <2>2, <2>4
<1>3. CASE Len(q) # QUEUE_SIZE
  <2>1. Enqueue(q, e) = Append(q, e)
    BY <1>3 DEF Enqueue
  <2>2. QED BY <1>1, <1>3, <2>1, AppendIs
<1>4. QED BY <1>2, <1>3

LEMMA RecordedIs ==
  ASSUME NEW s \in Seq(Event), Len(s) <= MAX_EVENTS_PER_CALL, NEW e \in Event
  PROVE  Recorded(s, e) \in Seq(Event) /\ Len(Recorded(s, e)) <= MAX_EVENTS_PER_CALL
<1>1. MAX_EVENTS_PER_CALL \in Nat \ {0} /\ Len(s) \in Nat
  BY SizesAssumption, LenProperties
<1>2. CASE Len(s) = MAX_EVENTS_PER_CALL
  <2>1. s # <<>>
    BY <1>1, <1>2, EmptySeq
  <2>2. Tail(s) \in Seq(Event) /\ Len(Tail(s)) = Len(s) - 1
    BY <2>1, TailIs
  <2>3. Append(Tail(s), e) \in Seq(Event) /\ Len(Append(Tail(s), e)) = Len(s)
    BY <1>1, <2>2, AppendIs
  <2>4. QED BY <1>2, <2>3 DEF Recorded
<1>3. CASE Len(s) # MAX_EVENTS_PER_CALL
  BY <1>1, <1>3, AppendIs DEF Recorded
<1>4. QED BY <1>2, <1>3

\* The events of a queue are the newest n, in order.
Newest(q, n) == \A i \in DOMAIN q : q[i] = n - Len(q) + i

LEMMA AppendNewest ==
  ASSUME NEW q \in Seq(Event), NEW n \in Nat, n + 1 \in Event, Newest(q, n)
  PROVE  Newest(Append(q, n + 1), n + 1)
<1>1. Len(q) \in Nat /\ DOMAIN q = 1 .. Len(q)
  BY LenProperties
<1>2. DOMAIN Append(q, n + 1) = 1 .. Len(q) + 1 /\ Len(Append(q, n + 1)) = Len(q) + 1
  BY AppendIs, LenProperties
<1>3. ASSUME NEW i \in 1 .. Len(q) + 1
      PROVE  Append(q, n + 1)[i] = (n + 1) - (Len(q) + 1) + i
  <2>1. CASE i = Len(q) + 1
    BY <1>1, <2>1, AppendIs
  <2>2. CASE i \in 1 .. Len(q)
    BY <1>1, <2>2, AppendIs DEF Newest
  <2>3. QED BY <1>1, <2>1, <2>2
<1>4. QED BY <1>2, <1>3 DEF Newest

LEMMA TailNewest ==
  ASSUME NEW q \in Seq(Event), q # <<>>, NEW n \in Nat, Newest(q, n)
  PROVE  Newest(Tail(q), n)
<1>1. /\ Len(q) \in Nat \ {0} /\ DOMAIN q = 1 .. Len(q)
      /\ Len(Tail(q)) = Len(q) - 1 /\ DOMAIN Tail(q) = 1 .. Len(q) - 1
  BY TailIs, LenProperties
<1>2. ASSUME NEW i \in 1 .. Len(q) - 1  PROVE Tail(q)[i] = n - (Len(q) - 1) + i
  <2>1. Tail(q)[i] = q[i + 1] /\ i + 1 \in 1 .. Len(q)
    BY <1>1, TailIs
  <2>2. q[i + 1] = n - Len(q) + (i + 1)
    BY <1>1, <2>1 DEF Newest
  <2>3. QED BY <1>1, <2>1, <2>2
<1>3. QED BY <1>1, <1>2 DEF Newest

LEMMA EnqueueNewest ==
  ASSUME NEW q \in Seq(Event), Len(q) <= QUEUE_SIZE, NEW n \in Nat, n + 1 \in Event,
         Newest(q, n)
  PROVE  /\ Newest(Enqueue(q, n + 1), n + 1)
         /\ Len(Enqueue(q, n + 1)) <= Len(q) + 1
         /\ Len(q) < QUEUE_SIZE
              => Elements(Enqueue(q, n + 1)) = Elements(q) \cup {n + 1}
<1>1. QUEUE_SIZE \in Nat \ {0} /\ Len(q) \in Nat
  BY SizesAssumption, LenProperties
<1>2. CASE Len(q) = QUEUE_SIZE
  <2>1. q # <<>> /\ Enqueue(q, n + 1) = Append(Tail(q), n + 1)
    BY <1>2, EnqueueIs
  <2>2. Tail(q) \in Seq(Event) /\ Len(Tail(q)) = Len(q) - 1
    BY <2>1, TailIs
  <2>3. Len(Enqueue(q, n + 1)) = Len(q)
    BY <1>1, <2>1, <2>2, AppendIs
  <2>4. Newest(Enqueue(q, n + 1), n + 1)
    BY <2>1, <2>2, TailNewest, AppendNewest
  <2>5. QED BY <1>1, <1>2, <2>3, <2>4
<1>3. CASE Len(q) < QUEUE_SIZE
  <2>1. Enqueue(q, n + 1) = Append(q, n + 1)
    BY <1>3, EnqueueIs
  <2>2. Len(Enqueue(q, n + 1)) = Len(q) + 1
    BY <2>1, AppendIs
  <2>3. Newest(Enqueue(q, n + 1), n + 1)
    BY <2>1, AppendNewest
  <2>4. Elements(Enqueue(q, n + 1)) = Elements(q) \cup {n + 1}
    <3>1. Elements(Append(q, n + 1)) = Elements(q) \cup {n + 1}
      BY AppendKeeps
    <3>2. QED BY <2>1, <3>1, Zenon
  <2>5. Len(Enqueue(q, n + 1)) <= Len(q) + 1
    BY <1>1, <2>2
  <2>6. QED BY <2>3, <2>4, <2>5
<1>4. QED BY <1>1, <1>2, <1>3

-----------------------------------------------------------------------------
(* The steps *)

LEMMA QueuesAreNewest ==
  QueueIsNewest <=> \A w \in subscribers : Newest(queue[w], Len(log))
BY DEF QueueIsNewest, Newest

LEMMA Start == Init => IInv
<1> SUFFICES ASSUME Init  PROVE IInv
  OBVIOUS
<1> USE DEF Init
<1>1. Len(<<>>) = 0 /\ \A S : <<>> \in Seq(S)
  BY EmptySeq
<1>2. TypeOK
  BY <1>1, SizesAssumption DEF TypeOK
<1>3. QED BY <1>2 DEF IInv, QueueIsNewest, SubscribedWhen, ReplayHasMore, NothingMissed

LEMMA ProceedIsOk ==
  ASSUME TypeOK, NEW w \in Sockets, NEW calls \in SUBSET Calls, ProceedWith(w, calls)
  PROVE  /\ history' \in [Sockets -> Seq(Event)]
         /\ toReplay' \in [Sockets -> SUBSET Calls]
         /\ phase' \in [Sockets -> {"new", "replay", "stream", "gone"}]
         /\ phase'[w] # "new" /\ (phase'[w] = "replay" => history'[w] # <<>>)
         /\ \A x \in Sockets : x # w => phase'[x] = phase[x] /\ history'[x] = history[x]
         /\ queue' = queue
<1> USE DEF TypeOK, ProceedWith, StartReplay, StartStream, Enter
<1>1. CASE \E c \in calls : /\ timeline[c] # <<>>
                           /\ history' = [history EXCEPT ![w] = timeline[c]]
                           /\ toReplay' = [toReplay EXCEPT ![w] = calls \ {c}]
                           /\ phase' = [phase EXCEPT ![w] = "replay"]
  BY <1>1
<1>2. CASE /\ history' = [history EXCEPT ![w] = <<>>]
           /\ toReplay' = [toReplay EXCEPT ![w] = {}]
           /\ phase' = [phase EXCEPT ![w] = "stream"]
  BY <1>2, EmptySeq
<1>3. QED BY <1>1, <1>2

\* Publishing: the one step that lengthens the log.
LEMMA PublishStep ==
  ASSUME IInv, NEW c \in Calls, PublishEvent(c), active' \in SUBSET Calls
  PROVE  IInv'
<1> USE DEF IInv
<1> DEFINE n == Len(log)
<1>1. /\ n \in Nat /\ n + 1 \in Event
      /\ log' = Append(log, c) /\ log' \in Seq(Calls) /\ Len(log') = n + 1
  BY AppendIs, LenProperties DEF PublishEvent, TypeOK
<1>2. /\ \A w \in subscribers : queue'[w] = Enqueue(queue[w], n + 1)
      /\ \A w \in Sockets \ subscribers : queue'[w] = queue[w]
      /\ queue' = [w \in Sockets |-> queue'[w]]
      /\ subscribers \subseteq Sockets
  BY DEF PublishEvent, TypeOK
<1>3. \A w \in Sockets : queue[w] \in Seq(Event) /\ Len(queue[w]) <= QUEUE_SIZE
  BY DEF TypeOK
<1>4. \A w \in subscribers :
        /\ Newest(queue'[w], n + 1)
        /\ Len(queue'[w]) <= Len(queue[w]) + 1
        /\ Len(queue[w]) < QUEUE_SIZE => Elements(queue'[w]) = Elements(queue[w]) \cup {n + 1}
  BY <1>1, <1>2, <1>3, EnqueueNewest, QueuesAreNewest
<1>5. TypeOK'
  <2>1. queue' \in [Sockets -> Seq(Event)] /\ \A w \in Sockets : Len(queue'[w]) <= QUEUE_SIZE
    BY <1>1, <1>2, <1>3, EnqueueIs
  <2>2. Len(log') <= MaxEvents
    BY <1>1, SizesAssumption DEF Event
  <2>3. /\ timeline' \in [Calls -> Seq(Event)]
        /\ \A x \in Calls : Len(timeline'[x]) <= MAX_EVENTS_PER_CALL
    <3>1. timeline' = [timeline EXCEPT ![c] = Recorded(timeline[c], n + 1)]
      BY DEF PublishEvent
    <3>2. /\ Recorded(timeline[c], n + 1) \in Seq(Event)
          /\ Len(Recorded(timeline[c], n + 1)) <= MAX_EVENTS_PER_CALL
      BY <1>1, RecordedIs DEF TypeOK
    <3>3. QED BY <3>1, <3>2 DEF TypeOK
  <2>4. QED BY <1>1, <2>1, <2>2, <2>3 DEF TypeOK, PublishEvent
<1>6. QueueIsNewest'
  <2>1. subscribers' = subscribers
    BY DEF PublishEvent
  <2>2. \A w \in subscribers : \A i \in DOMAIN queue'[w] :
          queue'[w][i] = Len(log') - Len(queue'[w]) + i
    BY <1>1, <1>4 DEF Newest
  <2>3. QED BY <2>1, <2>2 DEF QueueIsNewest
<1>7. SubscribedWhen'
  <2>1. \A w \in Sockets : phase'[w] = "new" => w \notin subscribers' /\ queue'[w] = <<>>
    BY <1>2 DEF PublishEvent, SubscribedWhen
  <2>2. ASSUME NEW w \in subscribers'  PROVE since'[w] + Len(queue'[w]) <= Len(log')
    <3>1. w \in subscribers /\ since'[w] = since[w] /\ since[w] \in Nat
      BY <1>2, SizesAssumption DEF PublishEvent, TypeOK
    <3>2. since[w] + Len(queue[w]) <= n
      BY <3>1 DEF SubscribedWhen
    <3>3. Len(queue'[w]) <= Len(queue[w]) + 1 /\ Len(queue[w]) \in Nat /\ Len(queue'[w]) \in Nat
      BY <1>1, <1>2, <1>3, <1>4, <3>1, EnqueueIs, LenProperties
    <3>4. QED BY <1>1, <3>1, <3>2, <3>3
  <2>3. QED BY <2>1, <2>2 DEF SubscribedWhen
<1>8. NothingMissed'
  <2> SUFFICES ASSUME NEW w \in subscribers', Len(log') - since'[w] <= QUEUE_SIZE
               PROVE  since'[w] + 1 .. Len(log') \subseteq Elements(sent'[w]) \cup Elements(queue'[w])
    BY DEF NothingMissed, Elements
  <2>1. /\ w \in subscribers /\ since'[w] = since[w] /\ since[w] \in Nat /\ sent'[w] = sent[w]
    BY <1>2, SizesAssumption DEF PublishEvent, TypeOK
  <2>2. since[w] + Len(queue[w]) <= n /\ Len(queue[w]) \in Nat /\ QUEUE_SIZE \in Nat
    BY <1>2, <1>3, <2>1, LenProperties, SizesAssumption DEF SubscribedWhen
  <2>3. Len(queue[w]) < QUEUE_SIZE /\ n - since[w] <= QUEUE_SIZE
    BY <1>1, <2>1, <2>2
  <2>4. Elements(queue'[w]) = Elements(queue[w]) \cup {n + 1}
    BY <1>4, <2>1, <2>3
  <2>5. since[w] + 1 .. n \subseteq Elements(sent[w]) \cup Elements(queue[w])
    BY <2>1, <2>3 DEF NothingMissed
  <2>6. since[w] + 1 .. n + 1 \subseteq (since[w] + 1 .. n) \cup {n + 1}
    BY <1>1, <2>1
  <2>7. QED BY <1>1, <2>1, <2>4, <2>5, <2>6
<1>9. ReplayHasMore'
  BY DEF PublishEvent, ReplayHasMore
<1>10. QED BY <1>5, <1>6, <1>7, <1>8, <1>9

\* A step in which one socket subscribes, sends or leaves: nothing is published,
\* and the other sockets are as they were.
LEMMA OtherSockets ==
  ASSUME IInv, NEW w \in Sockets, TypeOK',
         log' = log, subscribers' \subseteq subscribers \cup {w},
         \A x \in Sockets \ {w} : /\ phase'[x] = phase[x] /\ queue'[x] = queue[x]
                                /\ sent'[x] = sent[x] /\ since'[x] = since[x]
                                /\ history'[x] = history[x],
         phase'[w] # "new" /\ (phase'[w] = "replay" => history'[w] # <<>>),
         w \in subscribers'
           => /\ Newest(queue'[w], Len(log))
              /\ since'[w] + Len(queue'[w]) <= Len(log)
              /\ Len(log) - since'[w] <= QUEUE_SIZE
                   => since'[w] + 1 .. Len(log)
                        \subseteq Elements(sent'[w]) \cup Elements(queue'[w])
  PROVE  IInv'
<1>1. subscribers' \subseteq Sockets
  BY DEF TypeOK
<1>2. QueueIsNewest'
  <2> SUFFICES ASSUME NEW x \in subscribers'  PROVE Newest(queue'[x], Len(log'))
    BY DEF QueueIsNewest, Newest
  <2>1. CASE x = w
    BY <2>1
  <2>2. CASE x # w
    <3>1. x \in subscribers /\ queue'[x] = queue[x]
      BY <1>1, <2>2
    <3>2. Newest(queue[x], Len(log))
      BY <3>1, QueuesAreNewest DEF IInv
    <3>3. QED BY <3>1, <3>2
  <2>3. QED BY <2>1, <2>2
<1>3. SubscribedWhen'
  <2>1. \A x \in Sockets : phase'[x] = "new" => x \notin subscribers' /\ queue'[x] = <<>>
    BY DEF IInv, SubscribedWhen
  <2>2. \A x \in subscribers' : since'[x] + Len(queue'[x]) <= Len(log')
    BY <1>1 DEF IInv, SubscribedWhen
  <2>3. QED BY <2>1, <2>2 DEF SubscribedWhen
<1>4. NothingMissed'
  <2> SUFFICES ASSUME NEW x \in subscribers', Len(log') - since'[x] <= QUEUE_SIZE
               PROVE  since'[x] + 1 .. Len(log') \subseteq Elements(sent'[x]) \cup Elements(queue'[x])
    BY DEF NothingMissed, Elements
  <2>1. CASE x = w
    BY <2>1
  <2>2. CASE x # w
    <3>1. /\ x \in subscribers /\ queue'[x] = queue[x]
          /\ sent'[x] = sent[x] /\ since'[x] = since[x]
      BY <1>1, <2>2
    <3>2. since[x] + 1 .. Len(log) \subseteq Elements(sent[x]) \cup Elements(queue[x])
      BY <3>1 DEF IInv, NothingMissed
    <3>3. QED BY <3>1, <3>2
  <2>3. QED BY <2>1, <2>2
<1>5. ReplayHasMore'
  BY DEF IInv, ReplayHasMore
<1>6. QED BY <1>2, <1>3, <1>4, <1>5 DEF IInv

LEMMA ConnectStep ==
  ASSUME IInv, NEW w \in Sockets, Connect(w)
  PROVE  IInv'
<1>1. TypeOK /\ active \in SUBSET Calls /\ ProceedWith(w, active)
  BY DEF IInv, TypeOK, Connect
<1>2. /\ history' \in [Sockets -> Seq(Event)]
      /\ toReplay' \in [Sockets -> SUBSET Calls]
      /\ phase' \in [Sockets -> {"new", "replay", "stream", "gone"}]
      /\ phase'[w] # "new" /\ (phase'[w] = "replay" => history'[w] # <<>>)
      /\ \A x \in Sockets : x # w => phase'[x] = phase[x] /\ history'[x] = history[x]
      /\ queue' = queue
  BY <1>1, ProceedIsOk
<1>3. Len(log) \in 0 .. MaxEvents
  BY <1>1, LenProperties, SizesAssumption DEF TypeOK
<1>4. TypeOK'
  BY <1>1, <1>2, <1>3 DEF TypeOK, Connect
<1>5. queue'[w] = <<>> /\ since'[w] = Len(log)
  BY <1>1, <1>2 DEF Connect, IInv, SubscribedWhen, TypeOK
<1>6. /\ Newest(queue'[w], Len(log))
      /\ since'[w] + Len(queue'[w]) <= Len(log)
      /\ since'[w] + 1 .. Len(log) = {}
  BY <1>3, <1>5, EmptySeq DEF Newest
<1>7. /\ \A x \in Sockets \ {w} : since'[x] = since[x] /\ sent'[x] = sent[x]
      /\ log' = log /\ subscribers' \subseteq subscribers \cup {w}
  BY <1>1 DEF Connect, TypeOK
<1>8. QED BY <1>2, <1>4, <1>6, <1>7, OtherSockets

\* Sending moves an event to the client, from the replay or from the queue.
LEMMA ReplayStep ==
  ASSUME IInv, NEW w \in Sockets, Replay(w)
  PROVE  IInv'
<1>1. TypeOK /\ history[w] \in Seq(Event) /\ sent[w] \in Seq(Event)
  BY DEF IInv, TypeOK
<1>2. /\ history' \in [Sockets -> Seq(Event)]
      /\ toReplay' \in [Sockets -> SUBSET Calls]
      /\ phase' \in [Sockets -> {"new", "replay", "stream", "gone"}]
      /\ phase'[w] # "new" /\ (phase'[w] = "replay" => history'[w] # <<>>)
      /\ \A x \in Sockets : x # w => phase'[x] = phase[x] /\ history'[x] = history[x]
      /\ queue' = queue
  <2>1. CASE Len(history[w]) > 1
    <3>1. history[w] # <<>>
      BY <2>1, EmptySeq
    <3>2. /\ Tail(history[w]) \in Seq(Event)
          /\ Len(Tail(history[w])) = Len(history[w]) - 1 /\ Len(history[w]) \in Nat
      BY <1>1, <3>1, TailIs
    <3>3. Tail(history[w]) # <<>>
      <4> DEFINE l == Len(history[w])
                 m == Len(Tail(history[w]))
      <4>1. l \in Nat /\ l > 1 /\ m = l - 1
        BY <2>1, <3>2, Zenon
      <4> HIDE DEF l, m
      <4>2. m # 0
        BY <4>1
      <4>3. QED BY <4>2, EmptySeq, Zenon DEF m
    <3>4. QED BY <1>1, <2>1, <3>2, <3>3 DEF Replay, TypeOK
  <2>2. CASE ~(Len(history[w]) > 1)
    <3>1. ProceedWith(w, toReplay[w]) /\ toReplay[w] \in SUBSET Calls
      BY <1>1, <2>2 DEF Replay, TypeOK
    <3>2. QED BY <1>1, <3>1, ProceedIsOk
  <2>3. QED BY <2>1, <2>2
<1>3. history[w] # <<>>
  BY DEF IInv, ReplayHasMore, Replay
<1>4. /\ Append(sent[w], Head(history[w])) \in Seq(Event)
      /\ Elements(sent[w]) \subseteq Elements(Append(sent[w], Head(history[w])))
  BY <1>1, <1>3, TailIs, AppendIs, AppendKeeps
<1>5. /\ log' = log /\ subscribers' = subscribers /\ since' = since
      /\ sent' = [sent EXCEPT ![w] = Append(sent[w], Head(history[w]))]
  BY DEF Replay, Send
<1>6. TypeOK'
  BY <1>1, <1>2, <1>4, <1>5 DEF TypeOK, Replay
<1>7. w \in subscribers
        => /\ Newest(queue[w], Len(log))
           /\ since[w] + Len(queue[w]) <= Len(log)
           /\ Len(log) - since[w] <= QUEUE_SIZE
                => since[w] + 1 .. Len(log) \subseteq Elements(sent[w]) \cup Elements(queue[w])
  BY QueuesAreNewest DEF IInv, SubscribedWhen, NothingMissed
<1>8. Elements(sent[w]) \subseteq Elements(sent'[w])
  BY <1>1, <1>4, <1>5 DEF TypeOK
<1>9. \A x \in Sockets \ {w} : sent'[x] = sent[x]
  BY <1>1, <1>5 DEF TypeOK
<1>10. QED BY <1>2, <1>5, <1>6, <1>7, <1>8, <1>9, OtherSockets

LEMMA StreamStep ==
  ASSUME IInv, NEW w \in Sockets, Stream(w)
  PROVE  IInv'
<1>1. /\ TypeOK /\ queue[w] \in Seq(Event) /\ sent[w] \in Seq(Event)
      /\ queue[w] # <<>> /\ phase[w] = "stream" /\ Len(queue[w]) <= QUEUE_SIZE
  BY DEF IInv, TypeOK, Stream
<1>2. /\ Tail(queue[w]) \in Seq(Event) /\ Len(Tail(queue[w])) = Len(queue[w]) - 1
      /\ Len(queue[w]) \in Nat
      /\ Elements(queue[w]) = {Head(queue[w])} \cup Elements(Tail(queue[w]))
  BY <1>1, TailIs, TailKeeps
<1>3. /\ Append(sent[w], Head(queue[w])) \in Seq(Event)
      /\ Elements(Append(sent[w], Head(queue[w]))) = Elements(sent[w]) \cup {Head(queue[w])}
  BY <1>1, TailIs, AppendIs, AppendKeeps
<1>4. /\ log' = log /\ subscribers' = subscribers /\ since' = since /\ phase' = phase
      /\ history' = history
      /\ sent' = [sent EXCEPT ![w] = Append(sent[w], Head(queue[w]))]
      /\ queue' = [queue EXCEPT ![w] = Tail(queue[w])]
  BY DEF Stream, Send
<1>5. /\ sent'[w] = Append(sent[w], Head(queue[w])) /\ queue'[w] = Tail(queue[w])
      /\ \A x \in Sockets \ {w} : sent'[x] = sent[x] /\ queue'[x] = queue[x]
  BY <1>1, <1>4 DEF TypeOK
<1>6. QUEUE_SIZE \in Nat /\ Len(log) \in Nat /\ since[w] \in Nat
  BY <1>1, SizesAssumption, LenProperties DEF TypeOK
<1>7. TypeOK'
  <2>1. sent' \in [Sockets -> Seq(Event)] /\ queue' \in [Sockets -> Seq(Event)]
    BY <1>1, <1>2, <1>3, <1>4 DEF TypeOK
  <2>2. ASSUME NEW x \in Sockets  PROVE Len(queue'[x]) <= QUEUE_SIZE
    <3>1. CASE x = w
      <4>1. Len(queue'[x]) = Len(queue[w]) - 1
        BY <1>2, <1>5, <3>1, Zenon
      <4>2. QED BY <1>1, <1>2, <1>6, <4>1
    <3>2. CASE x # w
      BY <1>1, <1>5, <3>2 DEF TypeOK
    <3>3. QED BY <3>1, <3>2
  <2>3. QED BY <1>1, <1>4, <2>1, <2>2 DEF TypeOK, Stream
<1>8. w \in subscribers
        => /\ Newest(queue[w], Len(log))
           /\ since[w] + Len(queue[w]) <= Len(log)
           /\ Len(log) - since[w] <= QUEUE_SIZE
                => since[w] + 1 .. Len(log) \subseteq Elements(sent[w]) \cup Elements(queue[w])
  BY QueuesAreNewest DEF IInv, SubscribedWhen, NothingMissed
<1>9. w \in subscribers => Newest(queue'[w], Len(log))
  BY <1>1, <1>5, <1>6, <1>8, TailNewest
<1>10. w \in subscribers => since'[w] + Len(queue'[w]) <= Len(log)
  BY <1>2, <1>4, <1>5, <1>6, <1>8
<1>11. Elements(sent'[w]) \cup Elements(queue'[w]) = Elements(sent[w]) \cup Elements(queue[w])
  BY <1>2, <1>3, <1>5
<1>12. QED BY <1>1, <1>4, <1>5, <1>7, <1>8, <1>9, <1>10, <1>11, OtherSockets

LEMMA LeavingStep ==
  ASSUME IInv, NEW w \in Sockets, Disconnect(w) \/ Unsubscribe(w)
  PROVE  IInv'
<1>1. CASE Disconnect(w)
  BY <1>1 DEF Disconnect, IInv, TypeOK, QueueIsNewest, SubscribedWhen, ReplayHasMore,
              NothingMissed
<1>2. CASE Unsubscribe(w)
  BY <1>2 DEF Unsubscribe, IInv, TypeOK, QueueIsNewest, SubscribedWhen, ReplayHasMore,
              NothingMissed
<1>3. QED BY <1>1, <1>2

-----------------------------------------------------------------------------
(* The theorems *)

\* The inductive invariant holds whatever is published and whoever connects or leaves.
THEOREM Invariance == Spec => []IInv
<1>1. IInv /\ [Next]_vars => IInv'
  <2> SUFFICES ASSUME IInv, [Next]_vars  PROVE IInv'
    OBVIOUS
  <2>1. ASSUME NEW c \in Calls, Webhook(c) \/ CallEnds(c)  PROVE IInv'
    <3>1. PublishEvent(c) /\ active' \in SUBSET Calls
      BY <2>1 DEF Webhook, CallEnds, IInv, TypeOK
    <3>2. QED BY <3>1, PublishStep
  <2>2. ASSUME NEW w \in Sockets,
               Connect(w) \/ Replay(w) \/ Stream(w) \/ Disconnect(w) \/ Unsubscribe(w)
        PROVE  IInv'
    BY <2>2, ConnectStep, ReplayStep, StreamStep, LeavingStep
  <2>3. CASE UNCHANGED vars
    BY <2>3 DEF vars, IInv, TypeOK, QueueIsNewest, SubscribedWhen, ReplayHasMore, NothingMissed
  <2>4. QED BY <2>1, <2>2, <2>3 DEF Next
<1>2. QED BY <1>1, Start, PTL DEF Spec

\* Queues and timelines keep to their bounds, and everything sent is an event.
THEOREM TypeCorrect == Spec => []TypeOK
BY Invariance, PTL DEF IInv

\* A subscriber's queue holds the newest events, in order and without a gap.
THEOREM QueuesKeepTheNewest == Spec => []QueueIsNewest
BY Invariance, PTL DEF IInv

\* Until more has been published than its queue can hold, a socket misses nothing
\* of what was published since it subscribed, however slowly its replay goes.
THEOREM SocketsMissNothing == Spec => []NothingMissed
BY Invariance, PTL DEF IInv

-----------------------------------------------------------------------------
(* What has been sent *)

(* The operators below take the log lg and the sequence s of what a socket has     *)
(* been sent as parameters: the first n of s are its replay.                       *)

Rising(h) == \A i, j \in 1 .. Len(h) : i < j => h[i] < h[j]

\* h is a stretch of the history of call c.
HistoryOf(lg, h, c) == Rising(h) /\ \A i \in 1 .. Len(h) : h[i] \in 1 .. Len(lg) /\ lg[h[i]] = c

\* A replay is of these calls and sends nothing twice.
Replayed(lg, s, n, calls) ==
  \A i \in 1 .. n :
    /\ s[i] \in 1 .. Len(lg) /\ lg[s[i]] \in calls
    /\ \A j \in 1 .. n : i < j => s[i] # s[j]

\* The last event replayed of call c is no older than any of its first k events.
LastOf(lg, s, n, c, k) ==
  \E i \in 1 .. n :
    /\ lg[s[i]] = c
    /\ \A e \in 1 .. k : lg[e] = c => e <= s[i]
    /\ \A j \in 1 .. n : i < j => lg[s[j]] # c

\* A socket that is replaying the history h of call c, after those of calls.
Replaying(lg, s, h, c, calls, k) ==
  /\ HistoryOf(lg, h, c) /\ h # <<>>
  /\ Replayed(lg, s, Len(s), calls \cup {c})
  /\ \A i \in 1 .. Len(s) : lg[s[i]] = c => s[i] < h[1]
  /\ \A e \in 1 .. k : lg[e] = c => e <= h[Len(h)]
  /\ \A d \in calls \ {c} : LastOf(lg, s, Len(s), d, k)

\* What a socket that subscribed after k events is sent from its queue.
Streamed(s, n, k) ==
  \A i \in n + 1 .. Len(s) : k < s[i] /\ \A j \in n + 1 .. Len(s) : i < j => s[i] < s[j]

\* With m events in its queue and no overflow so far it has been sent all others.
Following(lg, s, n, k, m) ==
  /\ \A i \in n + 1 .. Len(s) : s[i] <= Len(lg) - m
  /\ Len(lg) - k <= QUEUE_SIZE
       => /\ Len(s) - n + m = Len(lg) - k
          /\ \A i \in n + 1 .. Len(s) : s[i] = k + (i - n)

TimelineOk(c) ==
  /\ HistoryOf(log, timeline[c], c)
  /\ \A e \in 1 .. Len(log) : log[e] = c => timeline[c] # <<>> /\ e <= timeline[c][Len(timeline[c])]

ReplayOk(w) ==
  \E c \in watched[w] \ toReplay[w] :
    Replaying(log, sent[w], history[w], c, watched[w] \ toReplay[w], since[w])

StreamOk(w) ==
  \E n \in 0 .. Len(sent[w]) :
    /\ Replayed(log, sent[w], n, watched[w])
    /\ Streamed(sent[w], n, since[w])
    /\ phase[w] = "stream" =>
         /\ Following(log, sent[w], n, since[w], Len(queue[w]))
         /\ \A d \in watched[w] : LastOf(log, sent[w], n, d, since[w])

SocketOk(w) ==
  /\ \A c \in watched[w] : timeline[c] # <<>>
  /\ toReplay[w] \subseteq watched[w]
  /\ since[w] <= Len(log)
  /\ phase[w] = "new" => sent[w] = <<>>
  /\ phase[w] \in {"replay", "stream"} => w \in subscribers
  /\ phase[w] = "replay" => ReplayOk(w) /\ Following(log, sent[w], Len(sent[w]), since[w], Len(queue[w]))
  /\ phase[w] \in {"stream", "gone"} => StreamOk(w)

SentOk ==
  /\ \A c \in Calls : TimelineOk(c)
  /\ \A c \in active : timeline[c] # <<>>
  /\ \A w \in Sockets : SocketOk(w)

(* The log grows.  Nothing said of events that were there before changes.          *)

Grows(lg, lg2) ==
  Len(lg) \in Nat /\ Len(lg2) \in Nat /\ Len(lg) <= Len(lg2) /\ \A i \in 1 .. Len(lg) : lg2[i] = lg[i]

LEMMA HistoryStays ==
  ASSUME NEW lg, NEW lg2, Grows(lg, lg2), NEW h, NEW c, HistoryOf(lg, h, c)
  PROVE  HistoryOf(lg2, h, c)
<1>1. ASSUME NEW i \in 1 .. Len(h)  PROVE h[i] \in 1 .. Len(lg2) /\ lg2[h[i]] = c
  <2>1. h[i] \in 1 .. Len(lg) /\ lg[h[i]] = c
    BY DEF HistoryOf
  <2>2. QED BY <2>1 DEF Grows
<1>2. QED BY <1>1 DEF HistoryOf

LEMMA ReplayedStays ==
  ASSUME NEW lg, NEW lg2, Grows(lg, lg2), NEW s, NEW n \in Nat, NEW calls,
         Replayed(lg, s, n, calls)
  PROVE  Replayed(lg2, s, n, calls)
<1>1. ASSUME NEW i \in 1 .. n  PROVE s[i] \in 1 .. Len(lg2) /\ lg2[s[i]] \in calls
  <2>1. s[i] \in 1 .. Len(lg) /\ lg[s[i]] \in calls
    BY DEF Replayed
  <2>2. QED BY <2>1 DEF Grows
<1>2. QED BY <1>1 DEF Replayed

LEMMA LastStays ==
  ASSUME NEW lg, NEW lg2, Grows(lg, lg2), NEW s, NEW n \in Nat, NEW calls,
         Replayed(lg, s, n, calls), NEW d, NEW k \in Nat, k <= Len(lg), LastOf(lg, s, n, d, k)
  PROVE  LastOf(lg2, s, n, d, k)
<1>1. PICK i \in 1 .. n : /\ lg[s[i]] = d
                          /\ \A e \in 1 .. k : lg[e] = d => e <= s[i]
                          /\ \A j \in 1 .. n : i < j => lg[s[j]] # d
  BY DEF LastOf
<1>2. \A j \in 1 .. n : lg2[s[j]] = lg[s[j]]
  BY DEF Replayed, Grows
<1>3. \A e \in 1 .. k : lg2[e] = lg[e]
  BY DEF Grows
<1>4. QED BY <1>1, <1>2, <1>3 DEF LastOf

LEMMA ReplayingStays ==
  ASSUME NEW lg, NEW lg2, Grows(lg, lg2), NEW s, Len(s) \in Nat, NEW h, NEW c, NEW calls,
         NEW k \in Nat, k <= Len(lg), Replaying(lg, s, h, c, calls, k)
  PROVE  Replaying(lg2, s, h, c, calls, k)
<1>1. /\ HistoryOf(lg, h, c) /\ h # <<>>
      /\ Replayed(lg, s, Len(s), calls \cup {c})
      /\ \A i \in 1 .. Len(s) : lg[s[i]] = c => s[i] < h[1]
      /\ \A e \in 1 .. k : lg[e] = c => e <= h[Len(h)]
      /\ \A d \in calls \ {c} : LastOf(lg, s, Len(s), d, k)
  BY DEF Replaying
<1>2. HistoryOf(lg2, h, c)
  BY <1>1, HistoryStays
<1>3. Replayed(lg2, s, Len(s), calls \cup {c})
  BY <1>1, ReplayedStays
<1>4. \A i \in 1 .. Len(s) : lg2[s[i]] = lg[s[i]]
  BY <1>1 DEF Replayed, Grows
<1>5. \A e \in 1 .. k : lg2[e] = lg[e]
  BY DEF Grows
<1>6. \A d \in calls \ {c} : LastOf(lg2, s, Len(s), d, k)
  BY <1>1, LastStays
<1>7. QED BY <1>1, <1>2, <1>3, <1>4, <1>5, <1>6 DEF Replaying

(* A timeline records an event of its call. *)

LEMMA RecordedHistory ==
  ASSUME NEW lg, NEW c, NEW h \in Seq(Event), Len(h) <= MAX_EVENTS_PER_CALL,
         HistoryOf(lg, h, c), NEW e \in Event, e \in 1 .. Len(lg), lg[e] = c,
         \A i \in 1 .. Len(h) : h[i] < e
  PROVE  /\ HistoryOf(lg, Recorded(h, e), c)
         /\ Recorded(h, e) # <<>>
         /\ Recorded(h, e)[Len(Recorded(h, e))] = e
<1>1. ASSUME NEW q \in Seq(Event), HistoryOf(lg, q, c), \A i \in 1 .. Len(q) : q[i] < e
      PROVE  /\ HistoryOf(lg, Append(q, e), c) /\ Append(q, e) # <<>>
             /\ Append(q, e)[Len(Append(q, e))] = e
  <2>1. /\ Len(Append(q, e)) = Len(q) + 1 /\ Len(q) \in Nat
        /\ \A i \in 1 .. Len(q) : Append(q, e)[i] = q[i]
        /\ Append(q, e)[Len(q) + 1] = e
        /\ Append(q, e) \in Seq(Event)
    BY AppendIs, LenProperties
  <2>2. Append(q, e) # <<>>
    BY AppendProperties
  <2>3. \A i \in 1 .. Len(q) + 1 :
          Append(q, e)[i] \in 1 .. Len(lg) /\ lg[Append(q, e)[i]] = c
    BY <1>1, <2>1 DEF HistoryOf
  <2>4. ASSUME NEW i \in 1 .. Len(q) + 1, NEW j \in 1 .. Len(q) + 1, i < j
        PROVE  Append(q, e)[i] < Append(q, e)[j]
    <3>1. i \in 1 .. Len(q) /\ Append(q, e)[i] = q[i]
      BY <2>1, <2>4
    <3>2. CASE j = Len(q) + 1
      BY <1>1, <2>1, <3>1, <3>2
    <3>3. CASE j \in 1 .. Len(q)
      BY <1>1, <2>1, <2>4, <3>1, <3>3 DEF HistoryOf, Rising
    <3>4. QED BY <2>1, <3>2, <3>3
  <2>5. QED BY <2>1, <2>2, <2>3, <2>4 DEF HistoryOf, Rising
<1>2. CASE Len(h) = MAX_EVENTS_PER_CALL
  <2>1. h # <<>>
    BY <1>2, SizesAssumption, EmptySeq
  <2>2. /\ Tail(h) \in Seq(Event) /\ Len(h) \in Nat \ {0} /\ Len(Tail(h)) = Len(h) - 1
        /\ \A i \in 1 .. Len(h) - 1 : Tail(h)[i] = h[i + 1]
    BY <2>1, TailIs
  <2>3. HistoryOf(lg, Tail(h), c) /\ \A i \in 1 .. Len(Tail(h)) : Tail(h)[i] < e
    BY <2>2 DEF HistoryOf, Rising
  <2>4. Recorded(h, e) = Append(Tail(h), e)
    BY <1>2 DEF Recorded
  <2>5. QED BY <1>1, <2>2, <2>3, <2>4
<1>3. CASE Len(h) # MAX_EVENTS_PER_CALL
  <2>1. Recorded(h, e) = Append(h, e)
    BY <1>3 DEF Recorded
  <2>2. QED BY <1>1, <2>1
<1>4. QED BY <1>2, <1>3

(* A replay sends the first event e of its history h. *)

LEMMA ReplayedOneMore ==
  ASSUME NEW lg, NEW s \in Seq(Event), NEW h, NEW c, NEW calls, NEW k \in Nat,
         Replaying(lg, s, h, c, calls, k), NEW e \in Event, e = h[1], Len(h) \in Nat \ {0}
  PROVE  /\ Replayed(lg, Append(s, e), Len(s) + 1, calls \cup {c})
         /\ \A d \in calls \ {c} : LastOf(lg, Append(s, e), Len(s) + 1, d, k)
         /\ Len(h) = 1 => LastOf(lg, Append(s, e), Len(s) + 1, c, k)
<1> DEFINE n == Len(s)
           s2 == Append(s, e)
<1>1. /\ n \in Nat /\ s2[n + 1] = e /\ \A i \in 1 .. n : s2[i] = s[i]
  BY AppendIs, LenProperties
<1>2. /\ HistoryOf(lg, h, c)
      /\ Replayed(lg, s, n, calls \cup {c})
      /\ \A i \in 1 .. n : lg[s[i]] = c => s[i] < e
      /\ \A x \in 1 .. k : lg[x] = c => x <= h[Len(h)]
      /\ \A d \in calls \ {c} : LastOf(lg, s, n, d, k)
  BY DEF Replaying
<1>3. e \in 1 .. Len(lg) /\ lg[e] = c
  BY <1>2 DEF HistoryOf
<1>4. \A i \in 1 .. n : s[i] # e
  BY <1>2, <1>3
<1> HIDE DEF n, s2
<1>5. Replayed(lg, s2, n + 1, calls \cup {c})
  <2>1. ASSUME NEW i \in 1 .. n + 1
        PROVE  s2[i] \in 1 .. Len(lg) /\ lg[s2[i]] \in calls \cup {c}
    <3>1. CASE i = n + 1
      BY <1>1, <1>3, <3>1
    <3>2. CASE i \in 1 .. n
      BY <1>1, <1>2, <3>2 DEF Replayed
    <3>3. QED BY <1>1, <3>1, <3>2
  <2>2. ASSUME NEW i \in 1 .. n + 1, NEW j \in 1 .. n + 1, i < j  PROVE s2[i] # s2[j]
    <3>1. i \in 1 .. n /\ s2[i] = s[i]
      BY <1>1, <2>2
    <3>2. CASE j = n + 1
      BY <1>1, <1>4, <3>1, <3>2
    <3>3. CASE j \in 1 .. n
      BY <1>1, <1>2, <2>2, <3>1, <3>3 DEF Replayed
    <3>4. QED BY <1>1, <3>2, <3>3
  <2>3. QED BY <2>1, <2>2 DEF Replayed
<1>6. ASSUME NEW d \in calls \ {c}  PROVE LastOf(lg, s2, n + 1, d, k)
  <2>1. PICK i \in 1 .. n : /\ lg[s[i]] = d
                            /\ \A x \in 1 .. k : lg[x] = d => x <= s[i]
                            /\ \A j \in 1 .. n : i < j => lg[s[j]] # d
    BY <1>2 DEF LastOf
  <2>2. \A j \in 1 .. n + 1 : i < j => lg[s2[j]] # d
    <3>1. lg[s2[n + 1]] # d
      BY <1>1, <1>3
    <3>2. \A j \in 1 .. n : i < j => lg[s2[j]] # d
      BY <1>1, <2>1
    <3>3. QED BY <1>1, <3>1, <3>2
  <2>3. i \in 1 .. n + 1 /\ s2[i] = s[i]
    BY <1>1
  <2>4. QED BY <2>1, <2>2, <2>3 DEF LastOf
<1>7. ASSUME Len(h) = 1  PROVE LastOf(lg, s2, n + 1, c, k)
  <2>1. n + 1 \in 1 .. n + 1 /\ \A j \in 1 .. n + 1 : ~(n + 1 < j)
    BY <1>1
  <2>2. \A x \in 1 .. k : lg[x] = c => x <= s2[n + 1]
    BY <1>1, <1>2, <1>7
  <2>3. QED BY <1>1, <1>3, <2>1, <2>2 DEF LastOf
<1>8. QED BY <1>5, <1>6, <1>7 DEF n, s2

LEMMA ReplayingOneMore ==
  ASSUME NEW lg, NEW s \in Seq(Event), NEW h \in Seq(Event), NEW c, NEW calls, NEW k \in Nat,
         Replaying(lg, s, h, c, calls, k), Len(h) > 1
  PROVE  Replaying(lg, Append(s, Head(h)), Tail(h), c, calls, k)
<1> DEFINE n == Len(s)
           s2 == Append(s, Head(h))
           t == Tail(h)
           m == Len(h)
<1>1. /\ h # <<>> /\ HistoryOf(lg, h, c)
      /\ \A i \in 1 .. n : lg[s[i]] = c => s[i] < h[1]
      /\ \A x \in 1 .. k : lg[x] = c => x <= h[m]
  BY DEF Replaying
<1>2. /\ Head(h) \in Event /\ Head(h) = h[1] /\ t \in Seq(Event)
      /\ m \in Nat \ {0} /\ Len(t) = m - 1 /\ \A i \in 1 .. m - 1 : t[i] = h[i + 1]
  BY <1>1, TailIs
<1>3. /\ n \in Nat /\ Len(s2) = n + 1 /\ s2[n + 1] = h[1] /\ \A i \in 1 .. n : s2[i] = s[i]
  BY <1>2, AppendIs, LenProperties
<1>4. /\ Replayed(lg, s2, Len(s2), calls \cup {c})
      /\ \A d \in calls \ {c} : LastOf(lg, s2, Len(s2), d, k)
  <2>1. Len(h) \in Nat \ {0} /\ Head(h) \in Event /\ Head(h) = h[1]
    BY <1>2
  <2>2. /\ Replayed(lg, Append(s, Head(h)), Len(s) + 1, calls \cup {c})
        /\ \A d \in calls \ {c} : LastOf(lg, Append(s, Head(h)), Len(s) + 1, d, k)
    BY <2>1, ReplayedOneMore
  <2>3. Len(Append(s, Head(h))) = Len(s) + 1
    BY <1>3
  <2>4. QED BY <2>2, <2>3, Zenon
<1>5. m > 1
  OBVIOUS
<1> HIDE DEF n, s2, t, m
<1>6. \A i, j \in 1 .. m : i < j => h[i] < h[j]
  BY <1>1 DEF HistoryOf, Rising, m
<1>7. \A i \in 1 .. m : h[i] \in 1 .. Len(lg) /\ lg[h[i]] = c
  BY <1>1 DEF HistoryOf, m
<1>8. HistoryOf(lg, t, c)
  <2>1. \A i \in 1 .. m - 1 : t[i] \in 1 .. Len(lg) /\ lg[t[i]] = c
    BY <1>2, <1>7, SMTT(30)
  <2>2. ASSUME NEW i \in 1 .. m - 1, NEW j \in 1 .. m - 1, i < j  PROVE t[i] < t[j]
    <3>1. t[i] = h[i + 1] /\ t[j] = h[j + 1]
      BY <1>2
    <3>2. i + 1 \in 1 .. m /\ j + 1 \in 1 .. m /\ i + 1 < j + 1
      BY <1>2, <2>2
    <3>3. h[i + 1] < h[j + 1]
      BY <1>6, <3>2
    <3>4. QED BY <3>1, <3>3
  <2>3. QED BY <1>2, <2>1, <2>2 DEF HistoryOf, Rising
<1>9. t # <<>>
  BY <1>2, <1>5, EmptySeq
<1>10. t[1] = h[2] /\ h[1] < h[2] /\ t[Len(t)] = h[m] /\ h[1] \in Nat /\ h[2] \in Nat
  <2>1. 1 \in 1 .. m - 1 /\ m - 1 \in 1 .. m - 1 /\ 1 \in 1 .. m /\ 2 \in 1 .. m
    BY <1>2, <1>5
  <2>2. t[1] = h[1 + 1] /\ t[m - 1] = h[(m - 1) + 1] /\ (m - 1) + 1 = m
    BY <1>2, <2>1
  <2>3. h[1] < h[2]
    BY <1>6, <2>1
  <2>4. h[1] \in 1 .. Len(lg) /\ h[2] \in 1 .. Len(lg)
    BY <1>7, <2>1
  <2>5. QED BY <1>2, <2>2, <2>3, <2>4
<1>11. \A i \in 1 .. n + 1 : lg[s2[i]] = c => s2[i] < t[1]
  <2>1. ASSUME NEW i \in 1 .. n, lg[s[i]] = c  PROVE s[i] < h[2]
    <3>1. i \in 1 .. n + 1 /\ s2[i] = s[i] /\ s[i] < h[1]
      BY <1>1, <1>3, <2>1
    <3>2. s2[i] \in 1 .. Len(lg)
      BY <1>3, <1>4, <3>1 DEF Replayed
    <3>3. QED BY <1>10, <3>1, <3>2
  <2>2. QED BY <1>3, <1>10, <2>1
<1>12. \A x \in 1 .. k : lg[x] = c => x <= t[Len(t)]
  BY <1>1, <1>10
<1>13. \A i \in 1 .. Len(s2) : lg[s2[i]] = c => s2[i] < t[1]
  BY <1>3, <1>11
<1>14. Replaying(lg, s2, t, c, calls, k)
  BY <1>4, <1>8, <1>9, <1>12, <1>13, Zenon DEF Replaying
<1>15. QED BY <1>14 DEF s2, t

(* A stream sends the oldest event e of a queue of m. *)

LEMMA StreamedOneMore ==
  ASSUME NEW lg, Len(lg) \in Nat, NEW s \in Seq(Event), NEW n \in 0 .. Len(s), NEW k \in Nat,
         NEW m \in Nat \ {0}, k + m <= Len(lg), NEW e \in Event, e = Len(lg) - m + 1,
         Streamed(s, n, k), Following(lg, s, n, k, m)
  PROVE  /\ Streamed(Append(s, e), n, k)
         /\ Following(lg, Append(s, e), n, k, m - 1)
<1> DEFINE l == Len(s)
           s2 == Append(s, e)
           p == Len(lg)
<1>1. /\ l \in Nat /\ Len(s2) = l + 1 /\ s2[l + 1] = e
      /\ \A i \in 1 .. l : s2[i] = s[i] /\ s[i] \in Nat
  <2>1. l \in Nat /\ Len(s2) = l + 1 /\ s2[l + 1] = e /\ \A i \in 1 .. l : s2[i] = s[i]
    BY AppendIs, LenProperties
  <2>2. ASSUME NEW i \in 1 .. l  PROVE s[i] \in Nat
    <3>1. s[i] \in Event
      BY ElementOfSeq
    <3>2. QED BY <3>1, SizesAssumption DEF Event
  <2>3. QED BY <2>1, <2>2
<1>2. \A i \in n + 1 .. l : k < s[i] /\ \A j \in n + 1 .. l : i < j => s[i] < s[j]
  BY DEF Streamed
<1>3. /\ \A i \in n + 1 .. l : s[i] <= p - m
      /\ p - k <= QUEUE_SIZE
           => l - n + m = p - k /\ \A i \in n + 1 .. l : s[i] = k + (i - n)
  BY DEF Following
<1>4. p \in Nat /\ k + m <= p /\ e = p - m + 1 /\ n \in Nat /\ n <= l
  BY <1>1
<1> HIDE DEF l, s2, p
<1>5. \A i \in n + 1 .. l + 1 : i = l + 1 \/ (i \in n + 1 .. l /\ i \in 1 .. l /\ s2[i] = s[i])
  BY <1>1, <1>4
<1>6. Streamed(s2, n, k)
  <2>1. \A i \in n + 1 .. l + 1 : k < s2[i]
    BY <1>1, <1>2, <1>4, <1>5
  <2>2. ASSUME NEW i \in n + 1 .. l + 1, NEW j \in n + 1 .. l + 1, i < j  PROVE s2[i] < s2[j]
    <3>1. i \in n + 1 .. l /\ s2[i] = s[i] /\ s[i] \in Nat
      BY <1>1, <1>4, <1>5, <2>2
    <3>2. CASE j = l + 1
      BY <1>1, <1>3, <1>4, <3>1, <3>2
    <3>3. CASE j \in n + 1 .. l /\ s2[j] = s[j]
      BY <1>2, <2>2, <3>1, <3>3
    <3>4. QED BY <1>5, <3>2, <3>3
  <2>3. QED BY <1>1, <2>1, <2>2 DEF Streamed
<1>7. Following(lg, s2, n, k, m - 1)
  <2>1. ASSUME NEW i \in n + 1 .. l + 1  PROVE s2[i] <= p - (m - 1)
    <3>1. CASE i = l + 1
      BY <1>1, <1>4, <3>1
    <3>2. CASE i \in n + 1 .. l /\ i \in 1 .. l /\ s2[i] = s[i]
      BY <1>1, <1>3, <1>4, <3>2
    <3>3. QED BY <1>5, <3>1, <3>2
  <2>2. ASSUME p - k <= QUEUE_SIZE
        PROVE  (l + 1) - n + (m - 1) = p - k /\ \A i \in n + 1 .. l + 1 : s2[i] = k + (i - n)
    <3>1. l - n + m = p - k /\ \A i \in n + 1 .. l : s[i] = k + (i - n)
      BY <1>3, <2>2
    <3>2. (l + 1) - n + (m - 1) = p - k /\ e = k + ((l + 1) - n)
      BY <1>1, <1>4, <3>1
    <3>3. \A i \in n + 1 .. l + 1 : s2[i] = k + (i - n)
      BY <1>1, <1>5, <3>1, <3>2
    <3>4. QED BY <3>2, <3>3
  <2>3. QED BY <1>1, <2>1, <2>2 DEF Following, p
<1>8. QED BY <1>6, <1>7 DEF s2

LEMMA ReplayUnchanged ==
  ASSUME NEW lg, NEW s \in Seq(Event), NEW e \in Event, NEW n \in 0 .. Len(s), NEW calls,
         Replayed(lg, s, n, calls), NEW k
  PROVE  /\ Replayed(lg, Append(s, e), n, calls)
         /\ \A d : LastOf(lg, s, n, d, k) => LastOf(lg, Append(s, e), n, d, k)
<1>1. \A i \in 1 .. n : Append(s, e)[i] = s[i]
  <2>1. Len(s) \in Nat /\ \A i \in 1 .. Len(s) : Append(s, e)[i] = s[i]
    BY AppendIs, LenProperties
  <2>2. QED BY <2>1
<1>2. Replayed(lg, Append(s, e), n, calls)
  BY <1>1 DEF Replayed
<1>3. ASSUME NEW d, LastOf(lg, s, n, d, k)  PROVE LastOf(lg, Append(s, e), n, d, k)
  BY <1>1, <1>3 DEF LastOf
<1>4. QED BY <1>2, <1>3

(* An event is published with m in the queue, and m2 afterwards. *)

LEMMA FollowingStays ==
  ASSUME NEW lg, NEW lg2, Len(lg) \in Nat, Len(lg2) = Len(lg) + 1,
         NEW s \in Seq(Event), NEW n \in 0 .. Len(s), NEW k \in Nat, NEW m \in Nat, NEW m2 \in Nat,
         k + m <= Len(lg), m2 <= m + 1, m < QUEUE_SIZE => m2 = m + 1,
         Following(lg, s, n, k, m)
  PROVE  Following(lg2, s, n, k, m2)
<1>1. Len(s) \in Nat /\ QUEUE_SIZE \in Nat \ {0} /\ \A i \in 1 .. Len(s) : s[i] \in Nat
  BY LenProperties, ElementOfSeq, SizesAssumption DEF Event
<1>2. n \in Nat /\ \A i \in n + 1 .. Len(s) : i \in 1 .. Len(s)
  BY <1>1
<1>3. \A i \in n + 1 .. Len(s) : s[i] <= Len(lg2) - m2
  BY <1>1, <1>2 DEF Following
<1>4. ASSUME Len(lg2) - k <= QUEUE_SIZE
      PROVE  /\ Len(s) - n + m2 = Len(lg2) - k
             /\ \A i \in n + 1 .. Len(s) : s[i] = k + (i - n)
  <2>1. Len(lg) - k <= QUEUE_SIZE
    BY <1>1, <1>4
  <2>2. /\ Len(s) - n + m = Len(lg) - k
        /\ \A i \in n + 1 .. Len(s) : s[i] = k + (i - n)
    BY <2>1 DEF Following
  <2>3. m < QUEUE_SIZE
    BY <1>1, <1>4
  <2>4. QED BY <1>1, <1>2, <2>2, <2>3
<1>5. QED BY <1>3, <1>4 DEF Following

-----------------------------------------------------------------------------
(* The steps, for what has been sent *)

LEMMA SentAtFirst == Init => SentOk
<1> SUFFICES ASSUME Init  PROVE SentOk
  OBVIOUS
<1>1. Len(<<>>) = 0
  BY EmptySeq
<1>2. \A c \in Calls : TimelineOk(c)
  <2>1. log = <<>> /\ \A c \in Calls : timeline[c] = <<>>
    BY DEF Init
  <2>2. 1 .. Len(<<>>) = {}
    BY <1>1
  <2>3. \A c : HistoryOf(<<>>, <<>>, c)
    BY <2>2 DEF HistoryOf, Rising
  <2>4. ASSUME NEW c \in Calls  PROVE TimelineOk(c)
    <3>1. timeline[c] = <<>> /\ HistoryOf(log, timeline[c], c)
      BY <2>1, <2>3
    <3>2. \A e : e \notin 1 .. Len(log)
      BY <2>1, <2>2, Zenon
    <3>3. QED BY <3>1, <3>2, Zenon DEF TimelineOk
  <2>5. QED BY <2>4
<1>3. \A w \in Sockets : SocketOk(w)
  BY <1>1 DEF Init, SocketOk
<1>4. QED BY <1>2, <1>3 DEF Init, SentOk

LEMMA OthersSent ==
  ASSUME TypeOK, SentOk, NEW w \in Sockets, SocketOk(w)',
         log' = log, timeline' = timeline, active' = active,
         \A x \in Sockets \ {w} :
           /\ phase'[x] = phase[x] /\ queue'[x] = queue[x] /\ sent'[x] = sent[x]
           /\ since'[x] = since[x] /\ watched'[x] = watched[x]
           /\ history'[x] = history[x] /\ toReplay'[x] = toReplay[x]
           /\ x \in subscribers => x \in subscribers'
  PROVE  SentOk'
<1>1. \A c \in Calls : TimelineOk(c)'
  BY DEF SentOk, TimelineOk
<1>2. ASSUME NEW x \in Sockets \ {w}  PROVE SocketOk(x)'
  <2>1. SocketOk(x)
    BY DEF SentOk
  <2>2. ReplayOk(x) => ReplayOk(x)'
    BY DEF ReplayOk
  <2>3. phase[x] = phase'[x] /\ (StreamOk(x) => StreamOk(x)')
    BY DEF StreamOk
  <2>4. QED BY <2>1, <2>2, <2>3 DEF SocketOk
<1>3. QED BY <1>1, <1>2 DEF SentOk

LEMMA PublishSent ==
  ASSUME IInv, IInv', SentOk, NEW c \in Calls, PublishEvent(c), active' \subseteq active \cup {c}
  PROVE  SentOk'
<1> DEFINE n == Len(log)
<1>1. /\ n \in Nat /\ n + 1 \in Event /\ Len(log') = n + 1 /\ log'[n + 1] = c
      /\ \A i \in 1 .. n : log'[i] = log[i]
      /\ n + 1 \in 1 .. Len(log')
  <2>1. log' = Append(log, c) /\ log \in Seq(Calls) /\ n + 1 \in Event /\ n \in Nat
    BY LenProperties DEF PublishEvent, IInv, TypeOK
  <2>2. Len(log') = n + 1 /\ log'[n + 1] = c /\ \A i \in 1 .. n : log'[i] = log[i]
    BY <2>1, AppendIs
  <2>3. QED BY <2>1, <2>2
<1>2. Grows(log, log')
  BY <1>1 DEF Grows
<1>3. /\ timeline'[c] = Recorded(timeline[c], n + 1)
      /\ \A d \in Calls \ {c} : timeline'[d] = timeline[d]
      /\ timeline[c] \in Seq(Event) /\ Len(timeline[c]) <= MAX_EVENTS_PER_CALL
  BY DEF PublishEvent, IInv, TypeOK
<1>4. /\ HistoryOf(log', timeline'[c], c) /\ timeline'[c] # <<>>
      /\ timeline'[c][Len(timeline'[c])] = n + 1
  <2>1. HistoryOf(log, timeline[c], c)
    BY DEF SentOk, TimelineOk
  <2>2. HistoryOf(log', timeline[c], c)
    BY <1>2, <2>1, HistoryStays
  <2>3. \A i \in 1 .. Len(timeline[c]) : timeline[c][i] < n + 1
    BY <1>1, <2>1 DEF HistoryOf
  <2>4. QED BY <1>1, <1>3, <2>2, <2>3, RecordedHistory
<1>5. ASSUME NEW d \in Calls  PROVE TimelineOk(d)'
  <2>1. CASE d = c
    <3>1. \A e \in 1 .. Len(log') : e <= n + 1
      BY <1>1
    <3>2. QED BY <1>4, <2>1, <3>1 DEF TimelineOk
  <2>2. CASE d # c
    <3>1. /\ timeline'[d] = timeline[d] /\ HistoryOf(log, timeline[d], d)
          /\ \A e \in 1 .. n : log[e] = d
               => timeline[d] # <<>> /\ e <= timeline[d][Len(timeline[d])]
      BY <1>3, <2>2 DEF SentOk, TimelineOk
    <3>2. HistoryOf(log', timeline[d], d)
      BY <1>2, <3>1, HistoryStays
    <3>3. \A e \in 1 .. Len(log') : log'[e] = d => e \in 1 .. n /\ log[e] = d
      BY <1>1, <2>2
    <3>4. QED BY <3>1, <3>2, <3>3 DEF TimelineOk
  <2>3. QED BY <2>1, <2>2
<1>6. \A d \in Calls : timeline[d] # <<>> \/ d = c => timeline'[d] # <<>>
  BY <1>3, <1>4
<1>7. ASSUME NEW w \in Sockets  PROVE SocketOk(w)'
  <2> DEFINE k == since[w]
             m == Len(queue[w])
             m2 == Len(queue'[w])
             s == sent[w]
  <2>1. /\ phase' = phase /\ sent' = sent /\ since' = since /\ watched' = watched
        /\ toReplay' = toReplay /\ history' = history /\ subscribers' = subscribers
    BY DEF PublishEvent
  <2>2. /\ k \in Nat /\ k <= n /\ s \in Seq(Event) /\ Len(s) \in Nat
        /\ watched[w] \subseteq Calls /\ queue[w] \in Seq(Event) /\ m \in Nat
    BY LenProperties, SizesAssumption DEF IInv, TypeOK, SentOk, SocketOk
  <2>3. ASSUME NEW l \in 0 .. Len(s), w \in subscribers, Following(log, s, l, k, m)
        PROVE  Following(log', s, l, k, m2)
    <3>1. /\ queue'[w] = Enqueue(queue[w], n + 1) /\ m <= QUEUE_SIZE /\ k + m <= n
          /\ QUEUE_SIZE \in Nat
      BY <2>3, SizesAssumption DEF PublishEvent, IInv, TypeOK, SubscribedWhen
    <3>2. /\ m2 \in Nat /\ m2 <= m + 1 /\ (m < QUEUE_SIZE => m2 = m + 1)
      <4>1. CASE m = QUEUE_SIZE
        <5>1. queue[w] # <<>> /\ queue'[w] = Append(Tail(queue[w]), n + 1)
          BY <1>1, <2>2, <3>1, <4>1, EnqueueIs
        <5>2. Tail(queue[w]) \in Seq(Event) /\ Len(Tail(queue[w])) = m - 1
          BY <2>2, <5>1, TailIs
        <5>3. m2 = (m - 1) + 1
          BY <1>1, <5>1, <5>2, AppendIs
        <5>4. QED BY <2>2, <4>1, <5>3
      <4>2. CASE m < QUEUE_SIZE
        <5>1. queue'[w] = Append(queue[w], n + 1)
          BY <1>1, <2>2, <3>1, <4>2, EnqueueIs
        <5>2. m2 = m + 1
          BY <1>1, <2>2, <5>1, AppendIs
        <5>3. QED BY <2>2, <5>2
      <4>3. QED BY <2>2, <3>1, <4>1, <4>2
    <3>3. QED BY <1>1, <2>2, <2>3, <3>1, <3>2, FollowingStays
  <2> HIDE DEF n, m, m2
  <2>4. ReplayOk(w) => ReplayOk(w)'
    <3>1. ASSUME NEW d \in watched[w] \ toReplay[w],
                 Replaying(log, s, history[w], d, watched[w] \ toReplay[w], k)
          PROVE  Replaying(log', s, history[w], d, watched[w] \ toReplay[w], k)
      BY <1>2, <2>2, <3>1, ReplayingStays DEF n
    <3>2. QED BY <2>1, <3>1 DEF ReplayOk
  <2>5. ASSUME StreamOk(w), phase[w] = "stream" => w \in subscribers  PROVE StreamOk(w)'
    <3>1. PICK l \in 0 .. Len(s) :
            /\ Replayed(log, s, l, watched[w])
            /\ Streamed(s, l, k)
            /\ phase[w] = "stream" =>
                 /\ Following(log, s, l, k, m)
                 /\ \A d \in watched[w] : LastOf(log, s, l, d, k)
      BY <2>5 DEF StreamOk, m
    <3>2. Replayed(log', s, l, watched[w])
      BY <1>2, <3>1, ReplayedStays
    <3>3. phase[w] = "stream" => Following(log', s, l, k, m2)
      BY <2>3, <2>5, <3>1
    <3>4. phase[w] = "stream" => \A d \in watched[w] : LastOf(log', s, l, d, k)
      BY <1>2, <2>2, <3>1, LastStays DEF n
    <3>5. QED BY <2>1, <3>1, <3>2, <3>3, <3>4 DEF StreamOk, m2
  <2>6. SocketOk(w)
    BY DEF SentOk
  <2>7. /\ \A d \in watched'[w] : timeline'[d] # <<>>
        /\ since'[w] <= Len(log')
    BY <1>1, <1>6, <2>1, <2>2, <2>6 DEF SocketOk, n
  <2>8. phase[w] = "replay" => Following(log', s, Len(s), k, m2)
    <3>1. Len(s) \in 0 .. Len(s)
      BY <2>2
    <3>2. QED BY <2>3, <2>6, <3>1 DEF SocketOk, m
  <2>9. QED BY <2>1, <2>4, <2>5, <2>6, <2>7, <2>8 DEF SocketOk, m2
<1>8. \A d \in active' : timeline'[d] # <<>>
  BY <1>6 DEF SentOk, IInv, TypeOK
<1>9. QED BY <1>5, <1>7, <1>8 DEF SentOk

\* From a point where the calls of all but rest have been replayed, the loop goes on to
\* the history of one of the others, or has none left.
LEMMA ProceedSent ==
  ASSUME TypeOK, SentOk, NEW w \in Sockets, NEW all \in SUBSET Calls, NEW rest \in SUBSET all,
         \A c \in all : timeline[c] # <<>>,
         NEW s, Len(s) \in Nat, NEW k \in Nat, k <= Len(log),
         Replayed(log, s, Len(s), all \ rest),
         \A d \in all \ rest : LastOf(log, s, Len(s), d, k),
         ProceedWith(w, rest)
  PROVE  /\ phase'[w] \in {"replay", "stream"} /\ toReplay'[w] \subseteq all
         /\ phase'[w] = "replay" =>
              \E c \in all \ toReplay'[w] :
                Replaying(log, s, history'[w], c, all \ toReplay'[w], k)
         /\ phase'[w] = "stream" =>
              /\ Replayed(log, s, Len(s), all)
              /\ \A d \in all : LastOf(log, s, Len(s), d, k)
<1>1. ASSUME NEW c \in rest, StartReplay(w, c, rest \ {c})
      PROVE  /\ phase'[w] = "replay" /\ toReplay'[w] = rest \ {c}
             /\ Replaying(log, s, history'[w], c, all \ toReplay'[w], k)
  <2>1. /\ phase'[w] = "replay" /\ toReplay'[w] = rest \ {c} /\ history'[w] = timeline[c]
    BY <1>1 DEF StartReplay, Enter, TypeOK
  <2>2. /\ HistoryOf(log, timeline[c], c) /\ timeline[c] # <<>>
        /\ \A e \in 1 .. Len(log) : log[e] = c => e <= timeline[c][Len(timeline[c])]
    BY DEF SentOk, TimelineOk
  <2>3. \A e \in 1 .. k : log[e] = c => e <= timeline[c][Len(timeline[c])]
    <3>1. Len(log) \in Nat /\ \A e \in 1 .. k : e \in 1 .. Len(log)
      BY LenProperties DEF TypeOK
    <3>2. QED BY <2>2, <3>1
  <2> DEFINE seen == all \ (rest \ {c})
  <2>4. seen \cup {c} = seen /\ seen \ {c} = all \ rest /\ all \ rest \subseteq seen
    OBVIOUS
  <2> HIDE DEF seen
  <2>5. Replayed(log, s, Len(s), seen \cup {c})
    BY <2>4 DEF Replayed
  <2>6. \A i \in 1 .. Len(s) : log[s[i]] # c
    BY DEF Replayed
  <2>7. \A d \in seen \ {c} : LastOf(log, s, Len(s), d, k)
    BY <2>4
  <2>8. Replaying(log, s, timeline[c], c, seen, k)
    BY <2>2, <2>3, <2>5, <2>6, <2>7 DEF Replaying
  <2>9. QED BY <2>1, <2>8 DEF seen
<1>2. ASSUME StartStream(w, rest)
      PROVE  phase'[w] = "stream" /\ toReplay'[w] = {} /\ rest = {}
  BY <1>2 DEF StartStream, Enter, TypeOK
<1>3. CASE \E c \in rest : StartReplay(w, c, rest \ {c})
  <2>1. PICK c \in rest : StartReplay(w, c, rest \ {c})
    BY <1>3
  <2>2. c \in all \ (rest \ {c}) /\ rest \ {c} \subseteq all
    OBVIOUS
  <2>3. QED BY <1>1, <2>1, <2>2
<1>4. CASE StartStream(w, rest)
  <2>1. all \ rest = all
    BY <1>2, <1>4
  <2>2. QED BY <1>2, <1>4, <2>1
<1>5. QED BY <1>3, <1>4 DEF ProceedWith

LEMMA FollowingFromStart ==
  ASSUME NEW lg, Len(lg) \in Nat, NEW s, Len(s) \in Nat,
         NEW k \in Nat, NEW m \in Nat
  PROVE  /\ Streamed(s, Len(s), k)
         /\ Following(lg, s, Len(s), k, m) <=> (Len(lg) - k <= QUEUE_SIZE => m = Len(lg) - k)
<1>1. \A i : i \notin Len(s) + 1 .. Len(s)
  OBVIOUS
<1>2. Len(s) - Len(s) + m = m
  OBVIOUS
<1>3. QED BY <1>1, <1>2 DEF Streamed, Following

LEMMA ProceedLeavesOthers ==
  ASSUME TypeOK, NEW w \in Sockets, NEW rest, ProceedWith(w, rest)
  PROVE  \A x \in Sockets \ {w} : /\ phase'[x] = phase[x] /\ toReplay'[x] = toReplay[x]
                                  /\ history'[x] = history[x] /\ queue'[x] = queue[x]
BY DEF ProceedWith, StartReplay, StartStream, Enter, TypeOK

\* After a step of w that may have gone on to the next history or to its queue.
LEMMA Proceeded ==
  ASSUME IInv, SentOk, NEW w \in Sockets, NEW all \in SUBSET Calls, NEW rest \in SUBSET all,
         NEW s, Len(s) \in Nat, NEW k \in Nat, k <= Len(log), NEW m \in Nat,
         Replayed(log, s, Len(s), all \ rest),
         \A d \in all \ rest : LastOf(log, s, Len(s), d, k),
         Len(log) - k <= QUEUE_SIZE => m = Len(log) - k,
         \A c \in all : timeline[c] # <<>>,
         ProceedWith(w, rest), log' = log, timeline' = timeline, w \in subscribers',
         sent'[w] = s, watched'[w] = all, since'[w] = k, Len(queue'[w]) = m
  PROVE  SocketOk(w)'
<1>1. TypeOK /\ Len(log) \in Nat
  BY LenProperties DEF IInv, TypeOK
<1>2. /\ phase'[w] \in {"replay", "stream"} /\ toReplay'[w] \subseteq all
      /\ phase'[w] = "replay" =>
           \E c \in all \ toReplay'[w] : Replaying(log, s, history'[w], c, all \ toReplay'[w], k)
      /\ phase'[w] = "stream" =>
           /\ Replayed(log, s, Len(s), all)
           /\ \A d \in all : LastOf(log, s, Len(s), d, k)
  <2>1. /\ \A c \in all : timeline[c] # <<>>
        /\ Replayed(log, s, Len(s), all \ rest)
        /\ \A d \in all \ rest : LastOf(log, s, Len(s), d, k)
    OBVIOUS
  <2>2. QED
    BY ONLY <1>1, <2>1, ProceedSent, SentOk, w \in Sockets, all \in SUBSET Calls,
            rest \in SUBSET all, Len(s) \in Nat, k \in Nat, k <= Len(log), ProceedWith(w, rest)
<1>3. Streamed(s, Len(s), k) /\ Following(log, s, Len(s), k, m)
  BY <1>1, FollowingFromStart
<1>4. phase'[w] = "replay" => ReplayOk(w)'
  BY <1>2 DEF ReplayOk
<1>5. phase'[w] = "stream" => StreamOk(w)'
  <2>1. Len(s) \in 0 .. Len(s)
    OBVIOUS
  <2>2. QED BY <1>2, <1>3, <2>1 DEF StreamOk
<1>6. QED BY <1>2, <1>3, <1>4, <1>5 DEF SocketOk

LEMMA ConnectSent ==
  ASSUME IInv, SentOk, NEW w \in Sockets, Connect(w)
  PROVE  SentOk'
<1>1. /\ TypeOK /\ phase[w] = "new" /\ ProceedWith(w, active)
      /\ log' = log /\ timeline' = timeline /\ active' = active /\ sent' = sent /\ queue' = queue
      /\ w \in subscribers' /\ subscribers \subseteq subscribers'
      /\ since' = [since EXCEPT ![w] = Len(log)] /\ watched' = [watched EXCEPT ![w] = active]
  BY DEF Connect, ProceedWith, IInv
<1>2. /\ since'[w] = Len(log) /\ watched'[w] = active /\ Len(log) \in Nat
      /\ active \in SUBSET Calls
      /\ \A x \in Sockets \ {w} : since'[x] = since[x] /\ watched'[x] = watched[x]
  BY <1>1, LenProperties DEF TypeOK
<1>3. sent'[w] = <<>> /\ queue'[w] = <<>>
  BY <1>1 DEF SentOk, SocketOk, IInv, SubscribedWhen
<1>4. Len(<<>>) = 0 /\ active \ active = {}
  BY EmptySeq
<1>5. Replayed(log, <<>>, Len(<<>>), active \ active)
  BY <1>4 DEF Replayed
<1>6. \A c \in active : timeline[c] # <<>>
  BY DEF SentOk
<1>7. Len(log) <= Len(log) /\ Len(log) - Len(log) = 0
  BY <1>2
<1>8. SocketOk(w)'
  <2>1. /\ Len(sent'[w]) = 0 /\ Len(queue'[w]) = 0
        /\ Replayed(log, sent'[w], Len(sent'[w]), active \ active)
        /\ active \in SUBSET active /\ Len(sent'[w]) \in Nat
        /\ \A d \in active \ active : LastOf(log, sent'[w], Len(sent'[w]), d, Len(log))
    BY <1>3, <1>4, <1>5
  <2>2. /\ log' = log /\ timeline' = timeline /\ w \in subscribers' /\ ProceedWith(w, active)
        /\ watched'[w] = active /\ since'[w] = Len(log) /\ Len(log) <= Len(log)
        /\ Len(log) \in Nat /\ 0 \in Nat
        /\ Len(log) - Len(log) <= QUEUE_SIZE => 0 = Len(log) - Len(log)
    BY <1>1, <1>2, <1>7
  <2>3. QED BY ONLY <1>2, <1>6, <2>1, <2>2, IInv, SentOk, w \in Sockets, Proceeded
<1>9. QED BY <1>1, <1>2, <1>8, ProceedLeavesOthers, OthersSent

LEMMA ReplaySent ==
  ASSUME IInv, SentOk, NEW w \in Sockets, Replay(w)
  PROVE  SentOk'
<1> DEFINE s == sent[w]
           h == history[w]
           s2 == Append(s, Head(h))
           all == watched[w]
           rest == toReplay[w]
           k == since[w]
           m == Len(queue[w])
<1>1. /\ TypeOK /\ phase[w] = "replay" /\ log' = log /\ timeline' = timeline /\ active' = active
      /\ subscribers' = subscribers /\ since' = since /\ watched' = watched
      /\ sent' = [sent EXCEPT ![w] = s2]
  BY DEF Replay, Send, IInv
<1>2. /\ s \in Seq(Event) /\ h \in Seq(Event) /\ all \in SUBSET Calls /\ k \in Nat
      /\ m \in Nat /\ Len(log) \in Nat
  BY <1>1, LenProperties, SizesAssumption DEF TypeOK
<1>3. /\ h # <<>> /\ rest \in SUBSET all /\ k <= Len(log) /\ w \in subscribers
      /\ \A c \in all : timeline[c] # <<>>
      /\ ReplayOk(w) /\ Following(log, s, Len(s), k, m)
  BY <1>1 DEF SentOk, SocketOk, IInv, ReplayHasMore
<1>4. /\ Head(h) \in Event /\ Head(h) = h[1] /\ Len(h) \in Nat \ {0}
      /\ s2 \in Seq(Event) /\ Len(s2) = Len(s) + 1 /\ Len(s) \in Nat /\ Len(s2) \in Nat
  <2>1. Head(h) \in Event /\ Head(h) = h[1] /\ Len(h) \in Nat \ {0}
    BY <1>2, <1>3, TailIs
  <2>2. s2 \in Seq(Event) /\ Len(s2) = Len(s) + 1 /\ Len(s) \in Nat
    BY <1>2, <2>1, AppendIs, LenProperties
  <2>3. QED BY <2>1, <2>2
<1>5. PICK c \in all \ rest : Replaying(log, s, h, c, all \ rest, k)
  BY <1>3 DEF ReplayOk
<1>6. /\ sent'[w] = s2 /\ \A x \in Sockets \ {w} : sent'[x] = sent[x]
  BY <1>1 DEF TypeOK
<1>7. Len(log) - k <= QUEUE_SIZE => m = Len(log) - k
  BY <1>2, <1>3, <1>4, FollowingFromStart
<1>8. Following(log, s2, Len(s2), k, m)
  BY <1>2, <1>4, <1>7, FollowingFromStart
<1>9. CASE Len(h) > 1
  <2>1. /\ history' = [history EXCEPT ![w] = Tail(h)]
        /\ phase' = phase /\ queue' = queue /\ toReplay' = toReplay
    BY <1>9 DEF Replay
  <2>2. history'[w] = Tail(h) /\ \A x \in Sockets \ {w} : history'[x] = history[x]
    BY <1>1, <2>1 DEF TypeOK
  <2>3. Replaying(log, s2, Tail(h), c, all \ rest, k)
    BY <1>2, <1>5, <1>9, ReplayingOneMore
  <2> HIDE DEF s, h, s2, m
  <2>4. ReplayOk(w)'
    BY <1>1, <1>6, <2>1, <2>2, <2>3 DEF ReplayOk
  <2>5. SocketOk(w)'
    BY <1>1, <1>3, <1>6, <1>8, <2>1, <2>4 DEF SocketOk, m
  <2>6. QED BY <1>1, <1>6, <2>1, <2>2, <2>5, OthersSent
<1>10. CASE ~(Len(h) > 1)
  <2>1. ProceedWith(w, rest) /\ queue' = queue
    BY <1>10 DEF Replay, ProceedWith
  <2>2. (all \ rest) \cup {c} = all \ rest
    OBVIOUS
  <2>3. Len(h) = 1
    <3>1. \A l \in Nat \ {0} : ~(l > 1) => l = 1
      OBVIOUS
    <3>2. QED BY <1>4, <1>10, <3>1, Zenon
  <2>4. /\ Replayed(log, s2, Len(s2), all \ rest)
        /\ \A d \in all \ rest : LastOf(log, s2, Len(s2), d, k)
    <3>1. /\ Replayed(log, s2, Len(s) + 1, (all \ rest) \cup {c})
          /\ \A d \in (all \ rest) \ {c} : LastOf(log, s2, Len(s) + 1, d, k)
          /\ LastOf(log, s2, Len(s) + 1, c, k)
      BY <1>2, <1>4, <1>5, <2>3, ReplayedOneMore
    <3> HIDE DEF s, s2, all, rest, k
    <3>2. QED BY <1>4, <2>2, <3>1
  <2> HIDE DEF s, h, s2, all, rest, k, m
  <2>5. /\ watched'[w] = all /\ since'[w] = k /\ Len(queue'[w]) = m /\ w \in subscribers'
    BY <1>1, <1>3, <2>1 DEF all, k, m
  <2>6. SocketOk(w)'
    BY <1>1, <1>2, <1>3, <1>4, <1>6, <1>7, <2>1, <2>4, <2>5, Proceeded
  <2>7. QED BY <1>1, <1>6, <2>1, <2>6, ProceedLeavesOthers, OthersSent
<1>11. QED BY <1>9, <1>10

LEMMA StreamSent ==
  ASSUME IInv, SentOk, NEW w \in Sockets, Stream(w)
  PROVE  SentOk'
<1> DEFINE s == sent[w]
           e == Head(queue[w])
           s2 == Append(s, e)
           k == since[w]
           m == Len(queue[w])
<1>1. /\ TypeOK /\ phase[w] = "stream" /\ queue[w] # <<>>
      /\ log' = log /\ timeline' = timeline /\ active' = active /\ phase' = phase
      /\ subscribers' = subscribers /\ since' = since /\ watched' = watched
      /\ toReplay' = toReplay /\ history' = history
      /\ sent' = [sent EXCEPT ![w] = s2] /\ queue' = [queue EXCEPT ![w] = Tail(queue[w])]
  BY DEF Stream, Send, IInv
<1>2. /\ s \in Seq(Event) /\ Len(s) \in Nat /\ queue[w] \in Seq(Event) /\ k \in Nat
      /\ Len(log) \in Nat
  BY <1>1, LenProperties, SizesAssumption DEF TypeOK
<1>3. /\ e \in Event /\ e = queue[w][1] /\ m \in Nat \ {0} /\ Len(Tail(queue[w])) = m - 1
      /\ s2 \in Seq(Event) /\ Len(s2) = Len(s) + 1
  <2>1. e \in Event /\ e = queue[w][1] /\ m \in Nat \ {0} /\ Len(Tail(queue[w])) = m - 1
    BY <1>1, <1>2, TailIs
  <2>2. QED BY <1>2, <2>1, AppendIs
<1>4. SocketOk(w) /\ StreamOk(w) /\ w \in subscribers
  BY <1>1 DEF SentOk, SocketOk
<1>5. k + m <= Len(log) /\ e = Len(log) - m + 1
  <2>1. 1 \in DOMAIN queue[w]
    BY <1>2, <1>3, LenProperties
  <2>2. QED BY <1>3, <1>4, <2>1 DEF IInv, SubscribedWhen, QueueIsNewest
<1>6. PICK n \in 0 .. Len(s) :
        /\ Replayed(log, s, n, watched[w])
        /\ Streamed(s, n, k)
        /\ Following(log, s, n, k, m)
        /\ \A d \in watched[w] : LastOf(log, s, n, d, k)
  BY <1>1, <1>4 DEF StreamOk
<1>7. Streamed(s2, n, k) /\ Following(log, s2, n, k, m - 1)
  BY <1>2, <1>3, <1>5, <1>6, StreamedOneMore
<1>8. Replayed(log, s2, n, watched[w]) /\ \A d \in watched[w] : LastOf(log, s2, n, d, k)
  BY <1>2, <1>3, <1>6, ReplayUnchanged
<1>9. /\ sent'[w] = s2 /\ Len(queue'[w]) = m - 1
      /\ \A x \in Sockets \ {w} : sent'[x] = sent[x] /\ queue'[x] = queue[x]
  <2>1. sent'[w] = s2 /\ queue'[w] = Tail(queue[w])
    BY <1>1 DEF TypeOK
  <2>2. \A x \in Sockets \ {w} : sent'[x] = sent[x] /\ queue'[x] = queue[x]
    BY <1>1 DEF TypeOK
  <2>3. QED BY <1>3, <2>1, <2>2, Zenon
<1>10. n \in 0 .. Len(s2)
  BY <1>2, <1>3
<1> HIDE DEF s, e, s2, k, m
<1>11. StreamOk(w)'
  BY <1>1, <1>6, <1>7, <1>8, <1>9, <1>10 DEF StreamOk, k
<1>12. SocketOk(w)'
  BY <1>1, <1>4, <1>11 DEF SocketOk
<1>13. QED BY <1>1, <1>9, <1>12, OthersSent

LEMMA LeavingSent ==
  ASSUME IInv, SentOk, NEW w \in Sockets, Disconnect(w) \/ Unsubscribe(w)
  PROVE  SentOk'
<1>1. TypeOK /\ SocketOk(w)
  BY DEF IInv, SentOk
<1>2. CASE Disconnect(w)
  <2>1. UNCHANGED <<events, subscribers, phase, queue, toReplay, history, sent, start>>
    BY <1>2 DEF Disconnect
  <2>2. SocketOk(w)'
    BY <1>1, <2>1 DEF SocketOk, ReplayOk, StreamOk
  <2>3. QED BY <1>1, <2>1, <2>2, OthersSent
<1>3. CASE Unsubscribe(w)
  <2>1. /\ UNCHANGED <<events, queue, toReplay, history, sent, start>>
        /\ phase' = [phase EXCEPT ![w] = "gone"] /\ subscribers' = subscribers \ {w}
        /\ phase[w] \in {"replay", "stream"}
    BY <1>3 DEF Unsubscribe
  <2>2. phase'[w] = "gone" /\ \A x \in Sockets \ {w} : phase'[x] = phase[x]
    BY <1>1, <2>1 DEF TypeOK
  <2>3. \E n \in 0 .. Len(sent[w]) :
          Replayed(log, sent[w], n, watched[w]) /\ Streamed(sent[w], n, since[w])
    <3>1. CASE phase[w] = "stream"
      BY <1>1, <3>1 DEF SocketOk, StreamOk
    <3>2. CASE phase[w] = "replay"
      <4>1. PICK c \in watched[w] \ toReplay[w] :
              Replayed(log, sent[w], Len(sent[w]), (watched[w] \ toReplay[w]) \cup {c})
        BY <1>1, <3>2 DEF SocketOk, ReplayOk, Replaying
      <4>2. Replayed(log, sent[w], Len(sent[w]), watched[w])
        BY <4>1 DEF Replayed
      <4>3. Len(sent[w]) \in Nat /\ since[w] \in Nat /\ Len(log) \in Nat
        BY <1>1, LenProperties, SizesAssumption DEF TypeOK
      <4>4. Streamed(sent[w], Len(sent[w]), since[w]) /\ Len(sent[w]) \in 0 .. Len(sent[w])
        BY <4>3, FollowingFromStart
      <4>5. QED BY <4>2, <4>4
    <3>3. QED BY <2>1, <3>1, <3>2
  <2>4. StreamOk(w)'
    BY <2>1, <2>2, <2>3 DEF StreamOk
  <2>5. SocketOk(w)'
    BY <1>1, <2>1, <2>2, <2>4 DEF SocketOk
  <2>6. QED BY <1>1, <2>1, <2>2, <2>5, OthersSent
<1>4. QED BY <1>2, <1>3

\* What each client has been sent is a replay without repetitions, followed by
\* rising events from its queue.
THEOREM SentInvariance == Spec => []SentOk
<1>1. IInv /\ IInv' /\ SentOk /\ [Next]_vars => SentOk'
  <2> SUFFICES ASSUME IInv, IInv', SentOk, [Next]_vars  PROVE SentOk'
    OBVIOUS
  <2>1. ASSUME NEW c \in Calls, Webhook(c) \/ CallEnds(c)  PROVE SentOk'
    <3>1. PublishEvent(c) /\ active' \subseteq active \cup {c}
      BY <2>1 DEF Webhook, CallEnds
    <3>2. QED BY <3>1, PublishSent
  <2>2. ASSUME NEW w \in Sockets,
               Connect(w) \/ Replay(w) \/ Stream(w) \/ Disconnect(w) \/ Unsubscribe(w)
        PROVE  SentOk'
    BY <2>2, ConnectSent, ReplaySent, StreamSent, LeavingSent
  <2>3. CASE UNCHANGED vars
    <3>1. \A c \in Calls : TimelineOk(c)'
      BY <2>3 DEF vars, SentOk, TimelineOk
    <3>2. \A w \in Sockets : SocketOk(w)'
      BY <2>3 DEF vars, SentOk, SocketOk, ReplayOk, StreamOk
    <3>3. QED BY <2>3, <3>1, <3>2 DEF vars, SentOk
  <2>4. QED BY <2>1, <2>2, <2>3 DEF Next
<1>2. QED BY <1>1, SentAtFirst, Invariance, PTL DEF Spec

-----------------------------------------------------------------------------
(* What follows of it *)

LEMMA DupsAreRecent == IInv /\ SentOk => ResentOnlyIfRecent
<1> SUFFICES ASSUME IInv, SentOk, NEW w \in Sockets,
                    NEW i \in DOMAIN sent[w], NEW j \in DOMAIN sent[w],
                    i < j, sent[w][j] = sent[w][i]
             PROVE  /\ sent[w][i] > since[w] /\ log[sent[w][i]] \in watched[w]
                    /\ \A x \in DOMAIN sent[w] \ {i, j} : sent[w][x] # sent[w][i]
  BY DEF ResentOnlyIfRecent
<1> DEFINE s == sent[w]
           k == since[w]
<1>1. /\ s \in Seq(Event) /\ Len(s) \in Nat /\ DOMAIN s = 1 .. Len(s)
      /\ phase[w] \in {"new", "replay", "stream", "gone"} /\ k \in Nat
  BY LenProperties, SizesAssumption DEF IInv, TypeOK
<1>2. \A x \in 1 .. Len(s) : s[x] \in Nat
  <2>1. ASSUME NEW x \in 1 .. Len(s)  PROVE s[x] \in Event
    BY <1>1, ElementOfSeq
  <2>2. QED BY <2>1, SizesAssumption DEF Event
<1>3. SocketOk(w)
  BY DEF SentOk
<1>4. PICK n \in 0 .. Len(s) : Replayed(log, s, n, watched[w]) /\ Streamed(s, n, k)
  <2>1. CASE phase[w] = "new"
    <3>1. s = <<>>
      BY <1>3, <2>1 DEF SocketOk
    <3>2. Len(s) = 0
      BY <3>1, EmptySeq
    <3>3. QED BY <1>1, <3>2
  <2>2. CASE phase[w] = "replay"
    <3>1. PICK c \in watched[w] \ toReplay[w] :
            Replayed(log, s, Len(s), (watched[w] \ toReplay[w]) \cup {c})
      BY <1>3, <2>2 DEF SocketOk, ReplayOk, Replaying
    <3>2. Replayed(log, s, Len(s), watched[w])
      BY <3>1 DEF Replayed
    <3>3. Len(log) \in Nat
      BY LenProperties DEF IInv, TypeOK
    <3>4. Streamed(s, Len(s), k) /\ Len(s) \in 0 .. Len(s)
      BY <1>1, <3>3, FollowingFromStart
    <3>5. QED BY <3>2, <3>4
  <2>3. CASE phase[w] \in {"stream", "gone"}
    BY <1>3, <2>3 DEF SocketOk, StreamOk
  <2>4. QED BY <1>1, <2>1, <2>2, <2>3
<1> HIDE DEF s, k
<1>5. /\ \A x \in 1 .. n : log[s[x]] \in watched[w] /\ \A y \in 1 .. n : x < y => s[x] # s[y]
      /\ \A x \in n + 1 .. Len(s) : k < s[x] /\ \A y \in n + 1 .. Len(s) : x < y => s[x] < s[y]
  BY <1>4 DEF Replayed, Streamed
<1>6. \A x, y \in 1 .. Len(s) : x < y /\ s[x] = s[y] => x \in 1 .. n /\ y \in n + 1 .. Len(s)
  <2>1. \A x \in 1 .. Len(s) : x \in 1 .. n \/ x \in n + 1 .. Len(s)
    BY <1>1, <1>4
  <2>2. SUFFICES ASSUME NEW x \in 1 .. Len(s), NEW y \in 1 .. Len(s), x < y, s[x] = s[y]
                 PROVE  x \in 1 .. n /\ y \in n + 1 .. Len(s)
    OBVIOUS
  <2>3. ~(x \in 1 .. n /\ y \in 1 .. n)
    BY <1>5, <2>2
  <2>4. ~(x \in n + 1 .. Len(s) /\ y \in n + 1 .. Len(s))
    BY <1>2, <1>5, <2>2
  <2>5. ~(x \in n + 1 .. Len(s) /\ y \in 1 .. n)
    BY <1>1, <1>4, <2>2
  <2>6. QED BY <2>1, <2>3, <2>4, <2>5
<1>7. /\ i \in 1 .. Len(s) /\ j \in 1 .. Len(s) /\ s[i] = s[j]
  BY <1>1 DEF s
<1>8. i \in 1 .. n /\ j \in n + 1 .. Len(s)
  BY <1>6, <1>7
<1>9. s[i] > k /\ log[s[i]] \in watched[w]
  BY <1>1, <1>2, <1>5, <1>7, <1>8
<1>10. ASSUME NEW x \in 1 .. Len(s), x # i, x # j  PROVE s[x] # s[i]
  <2> SUFFICES ASSUME s[x] = s[i]  PROVE FALSE
    OBVIOUS
  <2>1. CASE x < i
    BY <1>1, <1>4, <1>6, <1>7, <1>8, <2>1
  <2>2. CASE i < x /\ x < j
    BY <1>1, <1>4, <1>6, <1>7, <1>8, <2>2
  <2>3. CASE j < x
    BY <1>1, <1>4, <1>6, <1>7, <1>8, <2>3
  <2>4. QED BY <1>1, <1>7, <1>10, <2>1, <2>2, <2>3
<1>11. QED BY <1>1, <1>9, <1>10 DEF s, k

LEMMA LastIsCurrent == IInv /\ SentOk => CaughtUpIsCurrent
<1> SUFFICES ASSUME IInv, SentOk, NEW w \in subscribers, NEW c \in Calls,
                    phase[w] = "stream", queue[w] = <<>>, Len(log) - since[w] <= QUEUE_SIZE,
                    c \in watched[w] \/ Of(c, since[w] + 1 .. Len(log)) # {}
             PROVE  \E i \in DOMAIN sent[w] :
                      /\ \A e \in Of(c, 1 .. Len(log)) : e <= sent[w][i]
                      /\ \A j \in DOMAIN sent[w] : j > i => log[sent[w][j]] # c
                      /\ log[sent[w][i]] = c
  BY DEF CaughtUpIsCurrent
<1> DEFINE s == sent[w]
           k == since[w]
           p == Len(log)
<1>1. /\ w \in Sockets /\ s \in Seq(Event) /\ Len(s) \in Nat /\ DOMAIN s = 1 .. Len(s)
      /\ k \in Nat /\ p \in Nat
  BY LenProperties, SizesAssumption DEF IInv, TypeOK
<1>2. SocketOk(w) /\ k <= p /\ TimelineOk(c)
  BY <1>1 DEF SentOk, SocketOk
<1>3. Len(queue[w]) = 0
  BY EmptySeq
<1>4. PICK n \in 0 .. Len(s) :
        /\ Following(log, s, n, k, 0)
        /\ \A d \in watched[w] : LastOf(log, s, n, d, k)
  BY <1>2, <1>3 DEF SocketOk, StreamOk
<1>5. Len(s) - n = p - k /\ \A i \in n + 1 .. Len(s) : s[i] = k + (i - n)
  BY <1>1, <1>4 DEF Following
<1>6. SUFFICES \E i \in 1 .. Len(s) :
                 /\ \A e \in 1 .. p : log[e] = c => e <= s[i]
                 /\ \A j \in 1 .. Len(s) : j > i => log[s[j]] # c
                 /\ log[s[i]] = c
  BY <1>1 DEF Of
<1> HIDE DEF s, p, k
<1>7. CASE \E e \in k + 1 .. p : log[e] = c
  <2>1. PICK e \in k + 1 .. p : log[e] = c
    BY <1>7
  <2> DEFINE h == timeline[c]
             last == h[Len(h)]
  <2>2. /\ h # <<>> /\ \A x \in 1 .. p : log[x] = c => x <= last
        /\ \A x \in 1 .. Len(h) : h[x] \in 1 .. p /\ log[h[x]] = c
    BY <1>1, <1>2, <2>1 DEF TimelineOk, HistoryOf, p
  <2>3. Len(h) \in 1 .. Len(h)
    BY <2>2, EmptySeq DEF IInv, TypeOK
  <2> HIDE DEF h
  <2>4. last \in 1 .. p /\ log[last] = c
    BY <2>2, <2>3
  <2> HIDE DEF last
  <2>5. e \in Nat /\ e <= last /\ k < e
    BY <1>1, <2>1, <2>2
  <2> DEFINE i == n + (last - k)
  <2>6. i \in n + 1 .. Len(s) /\ i \in 1 .. Len(s)
    BY <1>1, <1>4, <1>5, <2>4, <2>5
  <2>7. s[i] = last
    <3>1. s[i] = k + (i - n)
      BY <1>5, <2>6
    <3>2. QED BY <1>1, <1>4, <2>4, <2>5, <3>1
  <2>8. ASSUME NEW j \in 1 .. Len(s), j > i  PROVE log[s[j]] # c
    <3>1. j \in n + 1 .. Len(s) /\ i \in Int /\ n \in Nat
      BY <1>1, <1>4, <2>6, <2>8
    <3>2. s[j] = k + (j - n)
      BY <1>5, <3>1
    <3>3. s[j] \in 1 .. p /\ ~(s[j] <= last)
      BY <1>1, <1>4, <1>5, <2>4, <2>5, <2>8, <3>1, <3>2
    <3>4. QED BY <2>2, <3>3
  <2> HIDE DEF i
  <2>9. QED BY <2>2, <2>4, <2>6, <2>7, <2>8
<1>8. CASE \A e \in k + 1 .. p : log[e] # c
  <2>1. c \in watched[w]
    BY <1>8 DEF Of, k, p
  <2>2. PICK i \in 1 .. n : /\ log[s[i]] = c
                            /\ \A e \in 1 .. k : log[e] = c => e <= s[i]
                            /\ \A j \in 1 .. n : i < j => log[s[j]] # c
    BY <1>4, <2>1 DEF LastOf
  <2>3. \A e \in 1 .. p : log[e] = c => e \in 1 .. k
    BY <1>1, <1>8
  <2>4. ASSUME NEW j \in 1 .. Len(s), j > i  PROVE log[s[j]] # c
    <3>1. CASE j \in 1 .. n
      BY <2>2, <2>4, <3>1
    <3>2. CASE j \in n + 1 .. Len(s)
      <4>1. s[j] = k + (j - n)
        BY <1>5, <3>2
      <4>2. s[j] \in k + 1 .. p
        BY <1>1, <1>4, <1>5, <3>2, <4>1
      <4>3. QED BY <1>8, <4>2
    <3>3. QED BY <1>1, <1>4, <3>1, <3>2
  <2>5. i \in 1 .. Len(s)
    BY <1>1, <1>4
  <2>6. QED BY <2>2, <2>3, <2>4, <2>5
<1>9. QED BY <1>7, <1>8

\* A socket is sent an event a second time only when it was published after the
\* socket subscribed, of a call that was replayed, and never a third time: the
\* replay and the queue each send an event once.
THEOREM ResentAtMostOnce == Spec => []ResentOnlyIfRecent
BY Invariance, SentInvariance, DupsAreRecent, PTL

\* A socket that has drained its queue without an overflow was last sent, of each
\* call it should know of, that call's latest event.
THEOREM CaughtUpSocketsAreCurrent == Spec => []CaughtUpIsCurrent
BY Invariance, SentInvariance, LastIsCurrent, PTL
=============================================================================
