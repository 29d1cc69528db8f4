---------------------------- MODULE OutboundProofs ----------------------------
(***************************************************************************)
(* Proofs about the outbound trigger, for any number of destinations,      *)
(* spellings, requests and restarts, any limit and any window: what the    *)
(* limiter promises of each process, and whom it refuses.                  *)
(*                                                                         *)
(* Pruning drops a prefix, since times never go back; so what the limiter  *)
(* remembers of a destination are its last requests, and what it forgot    *)
(* has left the window for good.                                           *)
(***************************************************************************)
EXTENDS Outbound, SequenceTheorems, FiniteSetTheorems, TLAPS

-----------------------------------------------------------------------------
(* The invariant *)

\* The answers to one destination, in the order of their times and none from the future.
Chronological(a, now) ==
  /\ a \in Seq(Answer)
  /\ \A i \in 1 .. Len(a) : a[i].at <= now
  /\ \A i, j \in 1 .. Len(a) : i <= j => a[i].at <= a[j].at

\* The limiter's list is the times of the last answers; those before have left the window.
Remembers(times, a, now) ==
  /\ times \in Seq(Nat) /\ Len(times) <= Len(a)
  /\ \A i \in 1 .. Len(times) : times[i] = a[Len(a) - Len(times) + i].at
  /\ \A i \in 1 .. Len(a) - Len(times) : ~InWindow(a[i].at, now)

\* A list of times is those of the last c answers, the ones of the window that ends now.
KeepsLast(times, c, a, now) ==
  /\ times \in Seq(Nat) /\ Len(times) = c
  /\ \A i \in 1 .. c : times[i] = a[Len(a) - c + i].at
  /\ \A i \in 1 .. Len(a) : InWindow(a[i].at, now) <=> i > Len(a) - c

\* At most the limit of calls in every window, those that end in the future included.
Bounded(a) ==
  \A t \in Nat : Cardinality(Placed(a, AnsweredInWindow(a, Len(a), t))) <= MAX_CALLS_PER_WINDOW

RefusedWhenBusy(a) ==
  \A i \in Refusals(a) :
    Cardinality(AnsweredInWindow(a, i - 1, a[i].at)) >= MAX_CALLS_PER_WINDOW

ClockOk == clock \in 0 .. MaxClock

DestinationOk(d) ==
  /\ Chronological(answers[d], clock)
  /\ Remembers(CallsAt(d), answers[d], clock)
  /\ Bounded(answers[d]) /\ RefusedWhenBusy(answers[d])

\* The processes that are gone kept to the limit as the running one does.
PastOk ==
  /\ past \in Seq([Destinations -> Seq(Answer)]) /\ Len(past) <= MaxRestarts
  /\ \A k \in 1 .. Len(past), d \in Destinations :
       Bounded(past[k][d]) /\ RefusedWhenBusy(past[k][d])

PlaceholdersOk ==
  /\ DOMAIN created \subseteq RequestUuids
  /\ \A r \in DOMAIN created : created[r] \in 0 .. clock
  /\ wakeAt \in Nat

OInv ==
  /\ ClockOk
  /\ DOMAIN callsAt \subseteq Destinations /\ answers \in [Destinations -> Seq(Answer)]
  /\ \A d \in Destinations : DestinationOk(d)
  /\ PastOk /\ PlaceholdersOk

-----------------------------------------------------------------------------
(* Pruning *)

\* A set of indices that has all the later ones is the last so many.
LEMMA UpwardClosed ==
  ASSUME NEW n \in Nat, NEW K \in SUBSET (1 .. n),
         \A k \in K : \A j \in k .. n : j \in K
  PROVE  /\ Cardinality(K) \in 0 .. n
         /\ K = n - Cardinality(K) + 1 .. n
<1> DEFINE c == Cardinality(K)
<1>1. /\ IsFiniteSet(1 .. n) /\ Cardinality(1 .. n) = n
  BY FS_Interval
<1>2. IsFiniteSet(K) /\ c <= n /\ c \in Nat
  BY <1>1, FS_Subset, FS_CardinalityType
<1> HIDE DEF c
<1>3. ASSUME NEW k \in K  PROVE k \in n - c + 1 .. n
  <2>1. k .. n \subseteq K
    OBVIOUS
  <2>2. Cardinality(k .. n) = n - k + 1
    BY FS_Interval
  <2>3. n - k + 1 <= c
    BY <1>2, <2>1, <2>2, FS_Subset DEF c
  <2>4. QED BY <1>2, <2>3
<1>4. IsFiniteSet(n - c + 1 .. n) /\ Cardinality(n - c + 1 .. n) = c
  BY <1>2, FS_Interval
<1>5. K \in SUBSET (n - c + 1 .. n)
  BY <1>3
<1>6. n - c + 1 .. n = K
  BY <1>4, <1>5, FS_Subset DEF c
<1>7. QED BY <1>2, <1>6 DEF c

\* Of a list in order, what is in the window is its end.
LEMMA KeptIsTheEnd ==
  ASSUME NEW times \in Seq(Nat), NEW now \in Nat,
         \A i, j \in 1 .. Len(times) : i <= j => times[i] <= times[j]
  PROVE  \E c \in 0 .. Len(times) :
           /\ InWindowOf(times, now) = [i \in 1 .. c |-> times[Len(times) - c + i]]
           /\ \A i \in 1 .. Len(times) : InWindow(times[i], now) <=> i > Len(times) - c
<1> DEFINE n == Len(times)
           kept == {k \in DOMAIN times : InWindow(times[k], now)}
           rank(k) == Cardinality({j \in kept : j <= k})
           c == Cardinality(kept)
<1>1. n \in Nat /\ DOMAIN times = 1 .. n /\ \A i \in 1 .. n : times[i] \in Nat
  BY ElementOfSeq
<1>2. WINDOW_SECONDS \in Nat
  BY OutboundAssumption
<1>3. \A k \in kept : \A j \in k .. n : j \in kept
  BY <1>1, <1>2 DEF InWindow
<1>4. kept \in SUBSET (1 .. n)
  BY <1>1
<1> HIDE DEF n, kept
<1>5. c \in 0 .. n /\ kept = n - c + 1 .. n
  BY <1>1, <1>3, <1>4, UpwardClosed
<1> HIDE DEF c
<1>6. ASSUME NEW k \in kept  PROVE rank(k) = k - (n - c)
  <2>1. {j \in kept : j <= k} = n - c + 1 .. k
    BY <1>1, <1>5
  <2>2. k \in Int /\ n - c + 1 \in Int /\ k >= n - c + 1
    BY <1>1, <1>5
  <2>3. Cardinality(n - c + 1 .. k) = k - (n - c + 1) + 1
    BY <2>2, FS_Interval
  <2>4. rank(k) = Cardinality(n - c + 1 .. k)
    BY ONLY <2>1, Zenon
  <2> HIDE DEF rank
  <2>5. QED BY <1>1, <1>5, <2>2, <2>3, <2>4
<1>7. ASSUME NEW i \in 1 .. c  PROVE (CHOOSE k \in kept : rank(k) = i) = n - c + i
  <2>1. n - c + i \in kept
    BY <1>1, <1>5
  <2>2. ASSUME NEW k \in kept  PROVE rank(k) = i <=> k = n - c + i
    <3>1. rank(k) = k - (n - c) /\ k \in Int
      BY <1>1, <1>5, <1>6
    <3> HIDE DEF rank
    <3>2. QED BY <1>1, <1>5, <3>1
  <2> HIDE DEF rank
  <2>3. QED BY <2>1, <2>2
<1>8. InWindowOf(times, now) = [i \in 1 .. c |-> times[CHOOSE k \in kept : rank(k) = i]]
  BY DEF InWindowOf, c, kept
<1>9. InWindowOf(times, now) = [i \in 1 .. c |-> times[n - c + i]]
  BY <1>7, <1>8
<1>10. \A i \in 1 .. n : InWindow(times[i], now) <=> i > n - c
  BY <1>1, <1>5, SMTT(30) DEF kept
<1>11. QED BY <1>5, <1>9, <1>10 DEF n

\* What the limiter counts of a destination when it is asked: the answers of the window.
LEMMA RecentAreTheLast ==
  ASSUME NEW now \in Nat, NEW a, Chronological(a, now), NEW times, Remembers(times, a, now)
  PROVE  \E c \in 0 .. Len(a) : KeepsLast(InWindowOf(times, now), c, a, now)
<1> DEFINE n == Len(a)
           m == Len(times)
<1>1. n \in Nat /\ m \in 0 .. n /\ \A i \in 1 .. n : a[i].at \in Nat
  <2>1. n \in Nat /\ \A i \in 1 .. n : a[i] \in Answer
    BY ElementOfSeq DEF Chronological
  <2>2. \A x \in Answer : x.at \in Nat
    BY DEF Answer
  <2>3. QED BY <2>1, <2>2 DEF Remembers
<1>2. /\ times \in Seq(Nat)
      /\ \A i \in 1 .. m : times[i] = a[n - m + i].at
      /\ \A i \in 1 .. n - m : ~InWindow(a[i].at, now)
  BY DEF Remembers
<1>3. \A i, j \in 1 .. n : i <= j => a[i].at <= a[j].at
  BY DEF Chronological
<1> HIDE DEF n, m
<1>4. \A i, j \in 1 .. m : i <= j => times[i] <= times[j]
  <2> SUFFICES ASSUME NEW i \in 1 .. m, NEW j \in 1 .. m, i <= j
               PROVE  times[i] <= times[j]
    OBVIOUS
  <2>1. n - m + i \in 1 .. n /\ n - m + j \in 1 .. n /\ n - m + i <= n - m + j
    BY <1>1
  <2>2. QED BY <1>2, <1>3, <2>1
<1>5. PICK c \in 0 .. m :
        /\ InWindowOf(times, now) = [i \in 1 .. c |-> times[m - c + i]]
        /\ \A i \in 1 .. m : InWindow(times[i], now) <=> i > m - c
  BY <1>2, <1>4, KeptIsTheEnd DEF m
<1>6. \A i \in 1 .. c : times[m - c + i] = a[n - c + i].at /\ times[m - c + i] \in Nat
  <2> SUFFICES ASSUME NEW i \in 1 .. c
               PROVE  times[m - c + i] = a[n - c + i].at /\ times[m - c + i] \in Nat
    OBVIOUS
  <2>1. m - c + i \in 1 .. m /\ n - m + (m - c + i) = n - c + i /\ n - c + i \in 1 .. n
    BY <1>1, <1>5
  <2>2. QED BY <1>1, <1>2, <2>1
<1> DEFINE kept == [i \in 1 .. c |-> times[m - c + i]]
<1>7. kept \in Seq(Nat) /\ Len(kept) = c
  <2>1. kept \in [1 .. c -> Nat]
    BY ONLY <1>6
  <2>2. c \in Nat
    BY <1>1
  <2> HIDE DEF kept
  <2>3. QED BY <2>1, <2>2
<1>8. \A i \in 1 .. n : InWindow(a[i].at, now) <=> i > n - c
  <2> SUFFICES ASSUME NEW i \in 1 .. n
               PROVE  InWindow(a[i].at, now) <=> i > n - c
    OBVIOUS
  <2>1. CASE i <= n - m
    BY <1>1, <1>2, <1>5, <2>1
  <2>2. CASE i > n - m
    <3>1. i - (n - m) \in 1 .. m /\ times[i - (n - m)] = a[i].at
      <4>1. i - (n - m) \in 1 .. m /\ n - m + (i - (n - m)) = i
        BY <1>1, <2>2
      <4>2. QED BY <1>2, <4>1
    <3>2. InWindow(a[i].at, now) <=> i - (n - m) > m - c
      BY <1>5, <3>1
    <3>3. QED BY <1>1, <1>5, <3>2
  <2>3. QED BY <1>1, <2>1, <2>2
<1>9. \A i \in 1 .. c : kept[i] = a[n - c + i].at
  BY <1>6
<1>10. c \in 0 .. n /\ InWindowOf(times, now) = kept
  BY <1>1, <1>5
<1> HIDE DEF kept
<1>11. KeepsLast(kept, c, a, now)
  BY <1>7, <1>8, <1>9 DEF KeepsLast, n
<1>12. QED BY <1>10, <1>11 DEF n

-----------------------------------------------------------------------------
(* Requests *)

LEMMA Parameters ==
  /\ MAX_CALLS_PER_WINDOW \in Nat \ {0} /\ WINDOW_SECONDS \in Nat \ {0}
  /\ Ttl \in Nat /\ IntervalSeconds \in Nat
  /\ MaxClock \in Nat /\ MaxRestarts \in Nat
BY OutboundAssumption

LEMMA AppendedAnswer ==
  ASSUME NEW a \in Seq(Answer), NEW e \in Answer
  PROVE  /\ Len(Append(a, e)) = Len(a) + 1 /\ Len(a) \in Nat
         /\ Append(a, e) \in Seq(Answer)
         /\ Append(a, e)[Len(a) + 1] = e
         /\ \A i \in 1 .. Len(a) : Append(a, e)[i] = a[i]
OBVIOUS

\* What a destination was told, and what the limiter has of it, after one more request
\* at this instant.
LEMMA OneMoreIsRemembered ==
  ASSUME NEW now \in 0 .. MaxClock, NEW a, Chronological(a, now),
         NEW times, Remembers(times, a, now), NEW e \in Answer, e.at = now
  PROVE  /\ Chronological(Append(a, e), now)
         /\ Remembers(Append(InWindowOf(times, now), now), Append(a, e), now)
<1>1. now \in Nat
  BY Parameters
<1>2. PICK c \in 0 .. Len(a) : KeepsLast(InWindowOf(times, now), c, a, now)
  BY <1>1, RecentAreTheLast
<1> DEFINE n == Len(a)
           recent == InWindowOf(times, now)
           b == Append(a, e)
<1>3. /\ Len(b) = n + 1 /\ n \in Nat /\ b \in Seq(Answer)
      /\ b[n + 1] = e /\ \A i \in 1 .. n : b[i] = a[i]
  BY AppendedAnswer DEF Chronological
<1>4. /\ \A i \in 1 .. n : a[i].at <= now
      /\ \A i, j \in 1 .. n : i <= j => a[i].at <= a[j].at
  BY DEF Chronological
<1>5. /\ recent \in Seq(Nat) /\ Len(recent) = c /\ c \in 0 .. n
      /\ \A i \in 1 .. c : recent[i] = a[n - c + i].at
      /\ \A i \in 1 .. n : InWindow(a[i].at, now) <=> i > n - c
  BY <1>2 DEF KeepsLast
<1> HIDE DEF n, recent, b
<1>6. Chronological(b, now)
  <2>1. \A i \in 1 .. n + 1 : b[i].at <= now
    BY <1>1, <1>3, <1>4
  <2>2. \A i, j \in 1 .. n + 1 : i <= j => b[i].at <= b[j].at
    BY <1>1, <1>3, <1>4, <2>1
  <2>3. QED BY <1>3, <2>1, <2>2 DEF Chronological
<1>7. Remembers(Append(recent, now), b, now)
  <2> DEFINE r == Append(recent, now)
  <2>1. /\ r \in Seq(Nat) /\ Len(r) = c + 1 /\ r[c + 1] = now
        /\ \A i \in 1 .. c : r[i] = recent[i]
    BY <1>1, <1>5
  <2> HIDE DEF r
  <2>2. ASSUME NEW i \in 1 .. Len(r)  PROVE r[i] = b[Len(b) - Len(r) + i].at
    <3>1. CASE i = c + 1
      <4>1. Len(b) - Len(r) + i = n + 1
        BY <1>3, <1>5, <2>1, <3>1
      <4>2. QED BY <1>3, <2>1, <3>1, <4>1
    <3>2. CASE i # c + 1
      <4>1. i \in 1 .. c /\ Len(b) - Len(r) + i = n - c + i /\ n - c + i \in 1 .. n
        BY <1>3, <1>5, <2>1, <3>2
      <4>2. r[i] = recent[i]
        BY ONLY <2>1, <4>1
      <4>3. recent[i] = a[n - c + i].at
        BY ONLY <1>5, <4>1
      <4>4. b[n - c + i] = a[n - c + i]
        BY ONLY <1>3, <4>1
      <4>5. QED BY ONLY <4>1, <4>2, <4>3, <4>4, Zenon
    <3>3. QED BY <3>1, <3>2
  <2>3. ASSUME NEW i \in 1 .. Len(b) - Len(r)  PROVE ~InWindow(b[i].at, now)
    <3>1. i \in 1 .. n /\ ~(i > n - c)
      BY <1>3, <1>5, <2>1
    <3>2. QED BY <1>3, <1>5, <3>1
  <2>4. r \in Seq(Nat) /\ Len(r) <= Len(b)
    BY <1>3, <1>5, <2>1
  <2>5. Remembers(r, b, now)
    BY ONLY <2>2, <2>3, <2>4, Zenon DEF Remembers
  <2>6. QED BY <2>5 DEF r
<1>8. QED BY <1>6, <1>7 DEF b, recent

\* The bound and the refusals after one more request: it is let through only if it and
\* those of its window are within the limit, and refused only if they are not.
LEMMA OneMoreIsFair ==
  ASSUME NEW now \in 0 .. MaxClock, NEW a, Chronological(a, now),
         NEW times, Remembers(times, a, now), Bounded(a), RefusedWhenBusy(a),
         NEW e \in Answer, e.at = now,
         e.status = "201" => Len(InWindowOf(times, now)) + 1 <= MAX_CALLS_PER_WINDOW,
         e.status = "429" => Len(InWindowOf(times, now)) + 1 > MAX_CALLS_PER_WINDOW
  PROVE  Bounded(Append(a, e)) /\ RefusedWhenBusy(Append(a, e))
<1> DEFINE n == Len(a)
           b == Append(a, e)
           limit == MAX_CALLS_PER_WINDOW
<1>1. /\ Len(b) = n + 1 /\ n \in Nat /\ b \in Seq(Answer) /\ a \in Seq(Answer)
      /\ b[n + 1] = e /\ \A i \in 1 .. n : b[i] = a[i]
  BY AppendedAnswer DEF Chronological
<1>2. /\ now \in Nat /\ limit \in Nat /\ WINDOW_SECONDS \in Nat
      /\ \A i \in 1 .. n : a[i].at \in Nat /\ a[i].at <= now
  <2>1. \A i \in 1 .. n : a[i] \in Answer /\ a[i].at <= now
    BY <1>1, ElementOfSeq DEF Chronological
  <2>2. \A x \in Answer : x.at \in Nat
    BY DEF Answer
  <2>3. QED BY <2>1, <2>2, Parameters
<1>3. PICK c \in 0 .. n :
        /\ Len(InWindowOf(times, now)) = c
        /\ \A i \in 1 .. n : InWindow(a[i].at, now) <=> i > n - c
  <2>1. PICK c \in 0 .. Len(a) : KeepsLast(InWindowOf(times, now), c, a, now)
    BY <1>2, RecentAreTheLast
  <2>2. QED BY <2>1 DEF KeepsLast
<1>5. ASSUME NEW m \in 0 .. n, NEW t
      PROVE  AnsweredInWindow(b, m, t) = AnsweredInWindow(a, m, t)
  BY <1>1 DEF AnsweredInWindow
<1>6. /\ e.status = "201" => c + 1 <= limit
      /\ e.status = "429" => c + 1 > limit
  BY <1>3
<1>8. Bounded(b)
  <2> SUFFICES ASSUME NEW t \in Nat
               PROVE  Cardinality(Placed(b, AnsweredInWindow(b, Len(b), t))) <= limit
    BY DEF Bounded
  <2> DEFINE P == Placed(a, AnsweredInWindow(a, n, t))
             Q == Placed(b, AnsweredInWindow(b, Len(b), t))
             here == e.status = "201" /\ now <= t /\ InWindow(now, t)
  <2>1. Q = {i \in 1 .. n + 1 : b[i].at <= t /\ InWindow(b[i].at, t) /\ b[i].status = "201"}
    BY <1>1 DEF Placed, AnsweredInWindow
  <2>2. P = {i \in 1 .. n : a[i].at <= t /\ InWindow(a[i].at, t) /\ a[i].status = "201"}
    BY DEF Placed, AnsweredInWindow
  <2>3. Cardinality(P) <= limit
    BY DEF Bounded
  <2> HIDE DEF n, b, P, Q
  <2>4. CASE ~here
    <3>1. Q = P
      BY <1>1, <2>1, <2>2, <2>4
    <3>2. QED BY <2>3, <3>1 DEF Q
  <2>5. CASE here
    <3>1. ASSUME NEW i \in 1 .. n, a[i].at <= t, InWindow(a[i].at, t)
          PROVE  i > n - c
      <4>1. InWindow(a[i].at, now)
        BY <1>2, <2>5, <3>1 DEF InWindow
      <4>2. QED BY <1>3, <4>1
    <3>2. ASSUME NEW i \in Q  PROVE i \in n - c + 1 .. n + 1
      <4>1. i \in 1 .. n + 1 /\ b[i].at <= t /\ InWindow(b[i].at, t)
        BY <2>1
      <4>2. CASE i = n + 1
        BY <1>1, <1>3, <4>2
      <4>3. CASE i # n + 1
        <5>1. i \in 1 .. n /\ b[i] = a[i]
          BY <1>1, <4>1, <4>3
        <5>2. a[i].at <= t /\ InWindow(a[i].at, t)
          BY <4>1, <5>1
        <5>3. QED BY <1>1, <1>3, <3>1, <5>1, <5>2
      <4>4. QED BY <4>2, <4>3
    <3>3. IsFiniteSet(n - c + 1 .. n + 1) /\ Cardinality(n - c + 1 .. n + 1) = c + 1
      BY <1>1, <1>3, FS_Interval
    <3>4. Cardinality(Q) <= c + 1 /\ IsFiniteSet(Q)
      <4>1. Q \in SUBSET (n - c + 1 .. n + 1)
        BY <3>2
      <4>2. QED BY <3>3, <4>1, FS_Subset
    <3>5. Cardinality(Q) \in Nat
      BY <3>4, FS_CardinalityType
    <3>6. QED BY <1>2, <1>3, <1>6, <2>5, <3>4, <3>5 DEF Q
  <2>6. QED BY <2>4, <2>5
<1>9. RefusedWhenBusy(b)
  <2> SUFFICES ASSUME NEW i \in 1 .. n + 1, b[i].status = "429", NEW t, t = b[i].at
               PROVE  Cardinality(AnsweredInWindow(b, i - 1, t)) >= limit
    <3>1. Refusals(b) = {i \in 1 .. n + 1 : b[i].status = "429"}
      BY <1>1 DEF Refusals
    <3>2. QED BY <3>1 DEF RefusedWhenBusy
  <2>1. AnsweredInWindow(b, i - 1, t) = AnsweredInWindow(a, i - 1, t)
    <3>1. i - 1 \in 0 .. n
      BY <1>1
    <3>2. QED BY <1>5, <3>1
  <2>2. CASE i <= n
    <3>1. i \in Refusals(a) /\ t = a[i].at
      BY <1>1, <2>2 DEF Refusals
    <3>2. QED BY <2>1, <3>1 DEF RefusedWhenBusy
  <2>3. CASE i = n + 1
    <3>1. t = now /\ b[i].status = e.status /\ i - 1 = n
      BY <1>1, <2>3
    <3>2. AnsweredInWindow(a, n, now) = n - c + 1 .. n
      BY <1>1, <1>2, <1>3, SMTT(30) DEF AnsweredInWindow
    <3>3. Cardinality(n - c + 1 .. n) = c
      BY <1>1, <1>3, FS_Interval
    <3>4. c >= limit
      BY <1>2, <1>3, <1>6, <3>1
    <3>5. Cardinality(AnsweredInWindow(a, n, now)) = c
      BY ONLY <3>2, <3>3, Zenon
    <3>6. QED BY <2>1, <3>1, <3>4, <3>5
  <2>4. QED BY <1>1, <2>2, <2>3
<1>10. QED BY <1>8, <1>9

\* A request disturbs no other destination: windows are kept per number.
LEMMA OthersUntouched ==
  ASSUME NEW d, DestinationOk(d), answers'[d] = answers[d], CallsAt(d)' = CallsAt(d),
         clock' = clock
  PROVE  DestinationOk(d)'
BY DEF DestinationOk

LEMMA AttemptIsOk ==
  ASSUME OInv, NEW raw \in Typed, NEW status \in {"201", "429", "500"},
         Attempt(raw, status), Allowed(raw) <=> status # "429"
  PROVE  /\ DOMAIN callsAt' \subseteq Destinations /\ answers' \in [Destinations -> Seq(Answer)]
         /\ \A x \in Destinations : DestinationOk(x)'
<1> DEFINE d == Normalize[raw]
           e == [at |-> clock, status |-> status]
<1>1. d \in Destinations
  BY OutboundAssumption DEF Attempt
<1>2. /\ callsAt' = [x \in DOMAIN callsAt \cup {d} |-> IF x = d THEN Recent(d) ELSE callsAt[x]]
      /\ answers' = [answers EXCEPT ![d] = Append(@, e)] /\ clock' = clock
  BY DEF Attempt, LimiterKey, Put
<1>3. clock \in 0 .. MaxClock /\ e \in Answer /\ e.at = clock /\ e.status = status
  BY DEF OInv, ClockOk, Answer
<1>4. status # "429" <=> Len(Recent(d)) <= MAX_CALLS_PER_WINDOW
  BY DEF Allowed, LimiterKey
<1> HIDE DEF d, e
<1>5. DestinationOk(d) /\ answers \in [Destinations -> Seq(Answer)] /\ DOMAIN callsAt \subseteq Destinations
  BY <1>1 DEF OInv
<1>6. ASSUME NEW x \in Destinations, x # d  PROVE DestinationOk(x)'
  <2>1. answers'[x] = answers[x] /\ CallsAt(x)' = CallsAt(x)
    BY <1>2, <1>5, <1>6 DEF CallsAt
  <2>2. DestinationOk(x)
    BY DEF OInv
  <2>3. QED BY <1>2, <2>1, <2>2, OthersUntouched
<1>7. DestinationOk(d)'
  <2>1. answers'[d] = Append(answers[d], e) /\ CallsAt(d)' = Recent(d)
    BY <1>1, <1>2, <1>5 DEF CallsAt
  <2>2. Recent(d) = Append(InWindowOf(CallsAt(d), clock), clock)
    BY DEF Recent
  <2>3. Chronological(answers'[d], clock) /\ Remembers(CallsAt(d)', answers'[d], clock)
    BY <1>3, <1>5, <2>1, <2>2, OneMoreIsRemembered DEF DestinationOk
  <2>4. /\ e.status = "201" => Len(Recent(d)) <= MAX_CALLS_PER_WINDOW
        /\ e.status = "429" => ~(Len(Recent(d)) <= MAX_CALLS_PER_WINDOW)
    BY <1>3, <1>4
  <2>9. clock \in Nat /\ InWindowOf(CallsAt(d), clock) \in Seq(Nat)
    <3>1. clock \in Nat /\ Chronological(answers[d], clock)
          /\ Remembers(CallsAt(d), answers[d], clock)
      BY <1>3, <1>5 DEF DestinationOk
    <3>2. InWindowOf(CallsAt(d), clock) \in Seq(Nat)
      BY <3>1, RecentAreTheLast DEF KeepsLast
    <3>3. QED BY <3>1, <3>2
  <2>5. Len(Recent(d)) \in Nat
    BY <2>2, <2>9
  <2>6. e.status = "429" => Len(Recent(d)) > MAX_CALLS_PER_WINDOW
    BY <2>4, <2>5, Parameters
  <2>7. Bounded(Append(answers[d], e)) /\ RefusedWhenBusy(Append(answers[d], e))
    <3>1. Len(Recent(d)) = Len(InWindowOf(CallsAt(d), clock)) + 1
      BY <2>2, <2>9
    <3>2. /\ Chronological(answers[d], clock) /\ Remembers(CallsAt(d), answers[d], clock)
          /\ Bounded(answers[d]) /\ RefusedWhenBusy(answers[d])
      BY <1>5 DEF DestinationOk
    <3>3. QED BY <1>3, <2>4, <2>6, <3>1, <3>2, OneMoreIsFair
  <2>8. QED BY <1>2, <2>1, <2>3, <2>7 DEF DestinationOk
<1>8. DOMAIN callsAt' \subseteq Destinations /\ answers' \in [Destinations -> Seq(Answer)]
  <2>1. Append(answers[d], e) \in Seq(Answer)
    BY <1>1, <1>3, <1>5, AppendedAnswer
  <2>2. QED BY <1>1, <1>2, <1>5, <2>1
<1>9. QED BY <1>6, <1>7, <1>8

-----------------------------------------------------------------------------
(* The invariant holds *)

LEMMA FunctionIsSeq ==
  ASSUME NEW S, NEW m \in Nat, NEW f \in [1 .. m -> S]
  PROVE  f \in Seq(S)
OBVIOUS

\* A destination nobody has asked for since the last restart.
LEMMA NothingAsked ==
  ASSUME NEW now \in Nat
  PROVE  Chronological(<<>>, now) /\ Remembers(<<>>, <<>>, now)
BY DEF Chronological, Remembers

LEMMA NoneCounted == Bounded(<<>>) /\ RefusedWhenBusy(<<>>)
<1>1. ASSUME NEW t  PROVE Placed(<<>>, AnsweredInWindow(<<>>, Len(<<>>), t)) = {}
  BY DEF Placed, AnsweredInWindow
<1>2. Bounded(<<>>)
  BY <1>1, FS_EmptySet, Parameters DEF Bounded
<1>3. RefusedWhenBusy(<<>>)
  BY DEF RefusedWhenBusy, Refusals
<1>4. QED BY <1>2, <1>3

LEMMA InitIsOk == Init => OInv
<1> SUFFICES ASSUME Init  PROVE OInv
  OBVIOUS
<1>1. /\ ClockOk /\ clock = 0
      /\ DOMAIN callsAt \subseteq Destinations /\ answers \in [Destinations -> Seq(Answer)]
  BY Parameters DEF Init, ClockOk
<1>2. ASSUME NEW d \in Destinations  PROVE DestinationOk(d)
  <2>1. answers[d] = <<>> /\ CallsAt(d) = <<>>
    BY DEF Init, CallsAt
  <2>2. QED BY <1>1, <2>1, NothingAsked, NoneCounted DEF DestinationOk
<1>3. PlaceholdersOk
  BY Parameters DEF Init, PlaceholdersOk
<1>4. PastOk
  <2>1. past = <<>> /\ \A S : <<>> \in Seq(S)
    BY DEF Init
  <2>2. QED BY <2>1, Parameters DEF PastOk
<1>5. QED BY <1>1, <1>2, <1>3, <1>4 DEF OInv

\* Only a restart writes the record of the processes that are gone.
LEMMA PastUntouched ==
  ASSUME PastOk, past' = past
  PROVE  PastOk'
BY DEF PastOk

LEMMA AProcessIsOver ==
  ASSUME OInv, Restart
  PROVE  PastOk'
<1>1. /\ past' = Append(past, answers) /\ Len(past) < MaxRestarts
      /\ past \in Seq([Destinations -> Seq(Answer)]) /\ answers \in [Destinations -> Seq(Answer)]
  BY DEF Restart, OInv, PastOk
<1>2. /\ past' \in Seq([Destinations -> Seq(Answer)]) /\ Len(past') = Len(past) + 1
      /\ Len(past) \in Nat /\ past'[Len(past) + 1] = answers
      /\ \A k \in 1 .. Len(past) : past'[k] = past[k]
  BY <1>1
<1>3. ASSUME NEW k \in 1 .. Len(past'), NEW d \in Destinations
      PROVE  Bounded(past'[k][d]) /\ RefusedWhenBusy(past'[k][d])
  <2>1. CASE k = Len(past) + 1
    BY <1>2, <2>1 DEF OInv, DestinationOk
  <2>2. CASE k # Len(past) + 1
    <3>1. k \in 1 .. Len(past) /\ past'[k] = past[k]
      BY <1>2, <2>2
    <3>2. QED BY <3>1 DEF OInv, PastOk
  <2>3. QED BY <2>1, <2>2
<1>4. Len(past') <= MaxRestarts
  BY <1>1, <1>2, Parameters
<1>5. QED BY <1>2, <1>3, <1>4 DEF PastOk

\* Time only takes requests out of the window.
LEMMA TickIsOk ==
  ASSUME OInv, Tick
  PROVE  OInv'
<1>1. /\ clock \in Nat /\ clock' = clock + 1 /\ ClockOk' /\ WINDOW_SECONDS \in Nat
      /\ UNCHANGED <<callsAt, created, wakeAt, answers, past>>
  BY Parameters DEF OInv, ClockOk, Tick
<1>2. ASSUME NEW d \in Destinations  PROVE DestinationOk(d)'
  <2>1. DestinationOk(d)
    BY DEF OInv
  <2>2. answers'[d] = answers[d] /\ CallsAt(d)' = CallsAt(d)
    BY <1>1 DEF CallsAt
  <2>3. answers[d] \in Seq(Answer) /\ \A i \in 1 .. Len(answers[d]) : answers[d][i].at \in Nat
    <3>1. \A x \in Answer : x.at \in Nat
      BY DEF Answer
    <3>2. QED BY <2>1, <3>1, ElementOfSeq DEF DestinationOk, Chronological
  <2>4. Chronological(answers[d], clock + 1)
    BY <1>1, <2>1, <2>3 DEF DestinationOk, Chronological
  <2>5. Remembers(CallsAt(d), answers[d], clock + 1)
    <3>1. Remembers(CallsAt(d), answers[d], clock)
      BY <2>1 DEF DestinationOk
    <3>2. ASSUME NEW i \in 1 .. Len(answers[d]) - Len(CallsAt(d))
          PROVE  ~InWindow(answers[d][i].at, clock + 1)
      <4>1. i \in 1 .. Len(answers[d])
        BY <2>3, <3>1 DEF Remembers
      <4>2. ~InWindow(answers[d][i].at, clock) /\ answers[d][i].at \in Nat
        BY <2>3, <3>1, <4>1 DEF Remembers
      <4>3. QED BY <1>1, <4>2 DEF InWindow
    <3>3. QED BY <3>1, <3>2 DEF Remembers
  <2>6. QED BY <1>1, <2>1, <2>2, <2>4, <2>5 DEF DestinationOk
<1>3. PlaceholdersOk'
  BY <1>1, Parameters DEF OInv, PlaceholdersOk
<1>4. PastOk'
  BY <1>1, PastUntouched DEF OInv
<1>5. QED BY <1>1, <1>2, <1>3, <1>4 DEF OInv

LEMMA StepIsOk == OInv /\ [Next]_vars => OInv'
<1> SUFFICES ASSUME OInv, [Next]_vars  PROVE OInv'
  OBVIOUS
<1>a. ClockOk /\ clock \in Nat /\ PlaceholdersOk /\ PastOk
  BY Parameters DEF OInv, ClockOk
<1>b. ASSUME UNCHANGED <<callsAt, answers, clock, past>>, PlaceholdersOk'
      PROVE  OInv'
  <2>1. ASSUME NEW d \in Destinations  PROVE DestinationOk(d)'
    <3>1. CallsAt(d)' = CallsAt(d)
      BY <1>b DEF CallsAt
    <3>2. QED BY <1>b, <3>1, OthersUntouched DEF OInv
  <2>2. QED BY <1>a, <1>b, <2>1, PastUntouched DEF OInv, ClockOk
<1>1. ASSUME NEW raw \in Typed, RestFails(raw)
      PROVE  OInv'
  <2>1. Attempt(raw, "500") /\ Allowed(raw) /\ UNCHANGED <<created, clock, wakeAt, past>>
    BY <1>1 DEF RestFails, Attempt
  <2>2. ClockOk' /\ PlaceholdersOk' /\ PastOk'
    BY <1>a, <2>1, PastUntouched DEF ClockOk, PlaceholdersOk
  <2>3. QED BY <2>1, <2>2, AttemptIsOk DEF OInv
<1>2. ASSUME NEW raw \in Typed, Refuse(raw)
      PROVE  OInv'
  <2>1. Attempt(raw, "429") /\ ~Allowed(raw) /\ UNCHANGED <<created, clock, wakeAt, past>>
    BY <1>2 DEF Refuse, Attempt
  <2>2. ClockOk' /\ PlaceholdersOk' /\ PastOk'
    BY <1>a, <2>1, PastUntouched DEF ClockOk, PlaceholdersOk
  <2>3. QED BY <2>1, <2>2, AttemptIsOk DEF OInv
<1>3. ASSUME NEW raw \in Typed, NEW r \in RequestUuids, PlaceCall(raw, r)
      PROVE  OInv'
  <2>1. /\ Attempt(raw, "201") /\ Allowed(raw) /\ UNCHANGED <<clock, wakeAt, past>>
        /\ created' = Put(created, r, clock)
    BY <1>3 DEF PlaceCall, Attempt
  <2>2. DOMAIN created' = DOMAIN created \cup {r}
        /\ \A x \in DOMAIN created' : created'[x] = IF x = r THEN clock ELSE created[x]
    BY <2>1 DEF Put
  <2>3. ClockOk' /\ PlaceholdersOk' /\ PastOk'
    BY <1>a, <2>1, <2>2, PastUntouched, Parameters DEF ClockOk, PlaceholdersOk
  <2>4. QED BY <2>1, <2>3, AttemptIsOk DEF OInv
<1>4. CASE EvictExpired
  <2>1. /\ UNCHANGED <<callsAt, answers, clock, past>>
        /\ wakeAt' = clock + IntervalSeconds
        /\ DOMAIN created' \subseteq DOMAIN created
        /\ \A r \in DOMAIN created' : created'[r] = created[r] /\ ~(clock > created[r] + Ttl)
    BY <1>4 DEF EvictExpired, Expired
  <2>2. PlaceholdersOk'
    BY <1>a, <2>1, Parameters DEF PlaceholdersOk
  <2>3. QED BY <1>b, <2>1, <2>2
<1>5. CASE Tick
  BY <1>5, TickIsOk
<1>6. CASE Restart
  <2>1. /\ clock' = clock /\ wakeAt' = clock + IntervalSeconds
        /\ DOMAIN callsAt' = {} /\ DOMAIN created' = {}
        /\ answers' = [d \in Destinations |-> <<>>]
    BY <1>6 DEF Restart
  <2>2. ASSUME NEW d \in Destinations  PROVE DestinationOk(d)'
    <3>1. answers'[d] = <<>> /\ CallsAt(d)' = <<>>
      BY <2>1 DEF CallsAt
    <3>2. QED BY <1>a, <2>1, <3>1, NothingAsked, NoneCounted DEF DestinationOk
  <2>3. PlaceholdersOk'
    BY <1>a, <2>1, Parameters DEF PlaceholdersOk
  <2>4. PastOk'
    BY <1>6, AProcessIsOver
  <2>5. QED BY <1>a, <2>1, <2>2, <2>3, <2>4 DEF OInv, ClockOk
<1>7. CASE UNCHANGED vars
  <2>1. PlaceholdersOk'
    BY <1>a, <1>7 DEF vars, PlaceholdersOk
  <2>2. QED BY <1>b, <1>7, <2>1 DEF vars
<1>8. QED BY <1>1, <1>2, <1>3, <1>4, <1>5, <1>6, <1>7 DEF Next

-----------------------------------------------------------------------------
(* Theorems *)

\* The invariant of whatever is requested, refused, failed, evicted or restarted.
THEOREM Invariance == Spec => []OInv
BY InitIsOk, StepIsOk, PTL DEF Spec

\* Type correctness: the limiter's lists stay in order and nothing is from the future,
\* whatever is pruned and whenever the process restarts.
THEOREM TypeCorrect == Spec => []TypeOK
<1>1. OInv => TypeOK
  <2> SUFFICES ASSUME OInv  PROVE TypeOK
    OBVIOUS
  <2>1. clock \in 0 .. MaxClock /\ clock \in Nat
    BY Parameters DEF OInv, ClockOk
  <2>2. ASSUME NEW d \in DOMAIN callsAt
        PROVE  /\ callsAt[d] \in Seq(0 .. clock)
               /\ \A i, j \in DOMAIN callsAt[d] : i < j => callsAt[d][i] <= callsAt[d][j]
    <3> DEFINE s == callsAt[d]
               a == answers[d]
               n == Len(a)
               m == Len(s)
    <3>1. Chronological(a, clock) /\ Remembers(s, a, clock)
      BY DEF OInv, DestinationOk, CallsAt
    <3>2. n \in Nat /\ m \in 0 .. n /\ s \in Seq(Nat) /\ DOMAIN s = 1 .. m
      BY <3>1 DEF Chronological, Remembers
    <3>3. \A i \in 1 .. m : n - m + i \in 1 .. n /\ s[i] = a[n - m + i].at /\ s[i] \in Nat
      BY <3>1, <3>2, ElementOfSeq DEF Remembers
    <3>4. \A i \in 1 .. m : s[i] \in 0 .. clock
      BY <2>1, <3>1, <3>3 DEF Chronological
    <3>5. \A i, j \in 1 .. m : i < j => s[i] <= s[j]
      <4> SUFFICES ASSUME NEW i \in 1 .. m, NEW j \in 1 .. m, i < j  PROVE s[i] <= s[j]
        OBVIOUS
      <4>1. /\ n - m + i \in 1 .. n /\ n - m + j \in 1 .. n /\ n - m + i <= n - m + j
            /\ s[i] = a[n - m + i].at /\ s[j] = a[n - m + j].at
        BY <3>2, <3>3
      <4>2. QED BY <3>1, <4>1 DEF Chronological
    <3>6. s \in Seq(0 .. clock)
      <4>1. s = [i \in 1 .. m |-> s[i]]
        BY <3>2, LenProperties
      <4> HIDE DEF s, m
      <4>2. s \in [1 .. m -> 0 .. clock]
        BY ONLY <3>4, <4>1
      <4>3. m \in Nat
        BY <3>2
      <4>4. QED BY ONLY <4>2, <4>3, FunctionIsSeq
    <3> HIDE DEF s, m
    <3>7. QED BY <3>2, <3>5, <3>6 DEF s
  <2>3. answers \in [Destinations -> Seq(Answer)]
    BY DEF OInv
  <2>4. QED BY <2>1, <2>2, <2>3 DEF OInv, PastOk, PlaceholdersOk, TypeOK
<1>2. QED BY <1>1, Invariance, PTL

\* Every log is the running process's or that of one before it.
LEMMA EveryProcessIsOk ==
  ASSUME OInv, NEW log \in Processes, NEW d \in Destinations
  PROVE  Bounded(log[d]) /\ RefusedWhenBusy(log[d])
<1>1. CASE log = answers
  BY <1>1 DEF OInv, DestinationOk
<1>2. CASE log # answers
  <2>1. PICK k \in DOMAIN past : log = past[k]
    BY <1>2 DEF Processes
  <2>2. k \in 1 .. Len(past)
    BY DEF OInv, PastOk
  <2>3. QED BY <2>1, <2>2 DEF OInv, PastOk
<1>3. QED BY <1>1, <1>2

\* No process places more calls than the limit in any window, not only those that end
\* at an attempt, whatever was refused or failed in between and however numbers are
\* spelled: over a restart the limit is that of each of the two processes.
THEOREM WindowsAreBounded == Spec => []WindowBound
<1>1. OInv => WindowBound
  <2> SUFFICES ASSUME OInv, NEW log \in Processes, NEW d \in Destinations, NEW t \in 0 .. clock
               PROVE  Cardinality(Placed(log[d], AnsweredInWindow(log[d], Len(log[d]), t)))
                        <= MAX_CALLS_PER_WINDOW
    BY DEF WindowBound
  <2>1. t \in Nat
    BY DEF OInv, ClockOk
  <2>2. QED BY <2>1, EveryProcessIsOk DEF Bounded
<1>2. QED BY <1>1, Invariance, PTL

\* A destination is refused only when as many requests as the limit were made for it in
\* the window: nobody is refused for another destination, nor after letting a window pass.
THEOREM OnlyTheBusyAreRefused == Spec => []RefusedOnlyWhenBusy
<1>1. OInv => RefusedOnlyWhenBusy
  BY EveryProcessIsOk DEF RefusedWhenBusy, RefusedOnlyWhenBusy
<1>2. QED BY <1>1, Invariance, PTL
=============================================================================
