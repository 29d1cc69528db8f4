------------------------------ MODULE Outbound ------------------------------
(***************************************************************************)
(* The outbound call trigger: POST /api/calls (app/api/routes_calls.py),   *)
(* the rate limiter (app/calls/rate_limit.py), the placeholder session a   *)
(* placed call leaves in the store (app/calls/service.py,                  *)
(* register_outbound_call), and the age of those placeholders              *)
(* (app/calls/store.py, evict_expired and run_eviction_loop).              *)
(*                                                                         *)
(* A request is one atomic action: the handler awaits only the store's     *)
(* lock, and the REST call to Plivo blocks the event loop.  Time is        *)
(* discrete and several requests may come at the same instant.             *)
(*                                                                         *)
(* run_eviction_loop is a coroutine that nothing starts: EvictionRuns is   *)
(* FALSE for the program as it is, TRUE to see what the loop would do.     *)
(***************************************************************************)
EXTENDS Naturals, Sequences, FiniteSets

CONSTANTS
  Destinations,          \* normalised numbers
  Typed, NotANumber,     \* what a user types as the number, and its reading when
  Normalize,             \* phonenumbers (external) does not accept it
  RequestUuids,          \* ids returned by the REST call, never used twice
  MAX_CALLS_PER_WINDOW, WINDOW_SECONDS,
  Ttl, IntervalSeconds,  \* SESSION_TTL_MINUTES and the loop's interval
  EvictionRuns,          \* whether something has started run_eviction_loop
  MaxClock, MaxRequests, MaxRestarts  \* bounds of the model

ASSUME OutboundAssumption ==
  /\ {MAX_CALLS_PER_WINDOW, WINDOW_SECONDS, Ttl, IntervalSeconds} \subseteq Nat \ {0}
  /\ {MaxClock, MaxRequests, MaxRestarts} \subseteq Nat
  /\ EvictionRuns \in BOOLEAN
  /\ NotANumber \notin Destinations
  /\ Normalize \in [Typed -> Destinations \cup {NotANumber}]

VARIABLES
  clock,    \* seconds
  callsAt,  \* the limiter's dictionary: times of attempts, oldest first
  created,  \* the placeholders in the store, with the time each was created
  wakeAt,   \* when the eviction loop's sleep ends
  answers,  \* history: the answer to every request since the last restart
  past      \* history: the answers of each process before this one

vars == <<clock, callsAt, created, wakeAt, answers, past>>

Answer == [at : 0 .. MaxClock, status : {"201", "429", "500"}]

Init ==
  /\ clock = 0
  /\ callsAt = [d \in {} |-> <<>>]
  /\ created = [r \in {} |-> 0]
  /\ wakeAt = IntervalSeconds
  /\ answers = [d \in Destinations |-> <<>>]
  /\ past = <<>>

-----------------------------------------------------------------------------
(* The rate limiter *)

InWindow(t, now) == t + WINDOW_SECONDS > now

\* defaultdict(list)
CallsAt(d) == IF d \in DOMAIN callsAt THEN callsAt[d] ELSE <<>>

\* The times of a list that are in the window, in their order: the i-th of what is
\* kept is the one with i kept up to it.
InWindowOf(times, now) ==
  LET kept    == {k \in DOMAIN times : InWindow(times[k], now)}
      rank(k) == Cardinality({j \in kept : j <= k})
  IN  [i \in 1 .. Cardinality(kept) |-> times[CHOOSE k \in kept : rank(k) = i]]

Recent__KeepsAll(d) == Append(CallsAt(d), clock)

Recent__NewestFirst(d) == <<clock>> \o InWindowOf(CallsAt(d), clock)

\* The attempts of the last window and the one being made.
Recent(d) == Append(InWindowOf(CallsAt(d), clock), clock)

-----------------------------------------------------------------------------
(* POST /api/calls *)

LimiterKey__AsTyped(raw) == raw

LimiterKey(raw) == Normalize[raw]

Allowed(raw) == Len(Recent(LimiterKey(raw))) <= MAX_CALLS_PER_WINDOW

Put(dict, k, v) == [x \in DOMAIN dict \cup {k} |-> IF x = k THEN v ELSE dict[x]]

\* Up to and with allow(): the attempt is counted before anyone knows what
\* becomes of it.  What is not a number is refused (422) before anything changes.
Attempt(raw, status) ==
  LET d == Normalize[raw]
  IN  /\ d # NotANumber
      /\ callsAt' = Put(callsAt, LimiterKey(raw), Recent(LimiterKey(raw)))
      /\ answers' = [answers EXCEPT ![d] = Append(@, [at |-> clock, status |-> status])]
      /\ UNCHANGED <<clock, wakeAt, past>>

PlaceCall(raw, r) ==
  /\ Allowed(raw) /\ r \notin DOMAIN created
  /\ Attempt(raw, "201")
  /\ created' = Put(created, r, clock)

\* The REST client raises: nothing is registered, but the attempt was counted.
RestFails(raw) == Allowed(raw) /\ Attempt(raw, "500") /\ UNCHANGED created

Refuse(raw) == ~Allowed(raw) /\ Attempt(raw, "429") /\ UNCHANGED created

-----------------------------------------------------------------------------
(* The store's clock *)

Expired__Young(r) == clock < created[r] + Ttl

Expired(r) == clock > created[r] + Ttl

\* evict_expired(), from one sleep of the loop to the next.
EvictExpired ==
  /\ EvictionRuns /\ clock = wakeAt
  /\ created' = [r \in {x \in DOMAIN created : ~Expired(x)} |-> created[r]]
  /\ wakeAt' = clock + IntervalSeconds
  /\ UNCHANGED <<clock, callsAt, answers, past>>

\* The loop, if it runs, wakes up when it is due.
Tick ==
  /\ clock < MaxClock
  /\ EvictionRuns => clock < wakeAt
  /\ clock' = clock + 1
  /\ UNCHANGED <<callsAt, created, wakeAt, answers, past>>

\* Nothing is persisted, and the new process starts with an empty limiter.  The
\* calls of the old one have been placed all the same.
Restart ==
  /\ Len(past) < MaxRestarts
  /\ past' = Append(past, answers)
  /\ callsAt' = [d \in {} |-> <<>>]
  /\ created' = [r \in {} |-> 0]
  /\ wakeAt' = clock + IntervalSeconds
  /\ answers' = [d \in Destinations |-> <<>>]
  /\ UNCHANGED clock

\* What each process has answered.
Processes == {answers} \cup {past[k] : k \in DOMAIN past}

\* The requests all of them have answered.
Requests ==
  LET history == Append(past, answers)
  IN  UNION {{<<k, d>>} \X DOMAIN history[k][d] : k \in DOMAIN history, d \in Destinations}

Next ==
  \/ \E raw \in Typed :
       /\ Cardinality(Requests) < MaxRequests
       /\ RestFails(raw) \/ Refuse(raw) \/ \E r \in RequestUuids : PlaceCall(raw, r)
  \/ EvictExpired \/ Tick \/ Restart

Spec == Init /\ [][Next]_vars

-----------------------------------------------------------------------------
(* Properties *)

\* The limiter remembers attempts in the order they were made, and placeholders
\* and answers are from the past.
TypeOK ==
  /\ clock \in 0 .. MaxClock
  /\ \A d \in DOMAIN callsAt :
       /\ callsAt[d] \in Seq(0 .. clock)
       /\ \A i, j \in DOMAIN callsAt[d] : i < j => callsAt[d][i] <= callsAt[d][j]
  /\ DOMAIN created \subseteq RequestUuids
  /\ \A r \in DOMAIN created : created[r] \in 0 .. clock
  /\ wakeAt \in Nat
  /\ answers \in [Destinations -> Seq(Answer)]
  /\ past \in Seq([Destinations -> Seq(Answer)]) /\ Len(past) <= MaxRestarts

\* Those of the first n answers that a window ending at t holds.
AnsweredInWindow(a, n, t) == {i \in 1 .. n : a[i].at <= t /\ InWindow(a[i].at, t)}

Placed(a, indices) == {i \in indices : a[i].status = "201"}

\* The promise of the limiter (rate_limit.py): whichever window one looks at,
\* not only those that end at an attempt, and however the number was spelled
\* (_normalize_destination), no process places more calls than the limit to one
\* destination in it.  The limiter is in memory: a window with a restart in it
\* may hold as many again.
WindowBound ==
  \A log \in Processes, d \in Destinations, t \in 0 .. clock :
    Cardinality(Placed(log[d], AnsweredInWindow(log[d], Len(log[d]), t))) <= MAX_CALLS_PER_WINDOW

Refusals(a) == {i \in DOMAIN a : a[i].status = "429"}

\* "Wait a minute and try again" (routes_calls.py): a destination is refused only
\* when as many requests as the limit were made for it, to the same process and
\* within the last window, so a caller who has let a window pass is never refused.
RefusedOnlyWhenBusy ==
  \A log \in Processes, d \in Destinations : \A i \in Refusals(log[d]) :
    Cardinality(AnsweredInWindow(log[d], i - 1, log[d][i].at)) >= MAX_CALLS_PER_WINDOW

\* docs/DECISIONS.md 7: the limiter allows three calls per destination per sixty
\* second window.  It does not: it counts the requests it refused and those whose
\* REST call failed, and can refuse a destination that nobody has called.
RefusalFollowsCalls ==
  \A d \in Destinations : \A i \in Refusals(answers[d]) :
    Cardinality(Placed(answers[d], AnsweredInWindow(answers[d], i - 1, answers[d][i].at)))
      >= MAX_CALLS_PER_WINDOW

\* docs/ARCHITECTURE.md, "How state is keyed and evicted": a background task
\* removes sessions older than the TTL on an interval, which is how the
\* placeholder of a placed call goes away (docs/DECISIONS.md 6).
PlaceholdersAgeOut ==
  \A r \in DOMAIN created : clock <= created[r] + Ttl + IntervalSeconds
=============================================================================
