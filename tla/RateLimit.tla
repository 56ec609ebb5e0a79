------------------------------- MODULE RateLimit -------------------------------
(***************************************************************************)
(* rate_limiter.py: a sliding window per client behind one lock, with a    *)
(* cleanup that drops idle clients and, above max_keys, the clients that   *)
(* asked least recently.  allow reads the clock before it takes the lock,  *)
(* so requests may be counted in another order than that of their times.   *)
(***************************************************************************)
EXTENDS Optional, Naturals, Sequences, FiniteSets

CONSTANTS
  Client,
  Asker,               \* the server's threads
  MaxRequests, Window, MaxKeys, CleanupInterval,
  MaxTime              \* bound: the clock stops here

Times == 0 .. MaxTime
Asking == [client : Client, now : Times]

ASSUME RateAssumption ==
  /\ {MaxRequests, Window, MaxKeys, CleanupInterval} \subseteq Nat \ {0} /\ MaxTime \in Nat
  /\ None \notin Asking

VARIABLES
  clock,
  asking,              \* the call of allow a thread is in, with the time it read
  hits,                \* _hits: the times of the requests counted for a client
  recency,             \* the order of _hits: least recently asking first
  lastCleanup,
  grants,              \* history: all requests let through, in the order of the lock
  newest,              \* history: the latest time of a request that had the lock
  dropped              \* history: clients dropped with requests still in their window

rateVars == <<clock, asking, hits, recency, lastCleanup, grants, newest, dropped>>

Grant == [at : Times, late : BOOLEAN]   \* late: one that read the clock later had the lock before

RateTypeOK ==
  /\ clock \in Times /\ asking \in [Asker -> Maybe(Asking)]
  /\ hits \in [Client -> Seq(Times)] /\ recency \in Seq(Client) /\ lastCleanup \in Times
  /\ grants \in [Client -> Seq(Grant)] /\ newest \in Times /\ dropped \subseteq Client

RateInit ==
  /\ clock = 0 /\ asking = [a \in Asker |-> None]
  /\ hits = [c \in Client |-> <<>>] /\ recency = <<>> /\ lastCleanup = 0
  /\ grants = [c \in Client |-> <<>>] /\ newest = 0 /\ dropped = {}

Advance ==
  /\ clock < MaxTime
  /\ clock' = clock + 1
  /\ UNCHANGED <<asking, hits, recency, lastCleanup, grants, newest, dropped>>

\* allow, up to the lock
ReadClock(a, c) ==
  /\ asking[a] = None
  /\ asking' = [asking EXCEPT ![a] = [client |-> c, now |-> clock]]
  /\ UNCHANGED <<clock, hits, recency, lastCleanup, grants, newest, dropped>>

\* Mutant of Outdated: a request exactly one window old is forgotten.
OutdatedEarly(t, now) == t + Window <= now

\* timestamps[0] < cutoff
Outdated(t, now) == t + Window < now

\* The while loops: popleft as long as the first is outdated
Recent(ts, now) ==
  LET first == CHOOSE n \in 1 .. Len(ts) + 1 :
        /\ \A i \in 1 .. n - 1 : Outdated(ts[i], now)
        /\ n \in DOMAIN ts => ~Outdated(ts[n], now)
  IN SubSeq(ts, first, Len(ts))

\* _cleanup_locked: the windows and the order afterwards
Busy(now) == {c \in Client : Recent(hits[c], now) # <<>>}
Ordered(now) == LET busy(c) == c \in Busy(now) IN SelectSeq(recency, busy)
Surplus(now) == IF Len(Ordered(now)) > MaxKeys THEN Len(Ordered(now)) - MaxKeys ELSE 0
Evicted(now) == {Ordered(now)[i] : i \in 1 .. Surplus(now)}

\* Without a cleanup, and with one
Due(now) == now >= lastCleanup + CleanupInterval
Kept(c, now) ==
  IF ~Due(now) THEN hits[c] ELSE IF c \in Evicted(now) THEN <<>> ELSE Recent(hits[c], now)
KeptOrder(now) ==
  IF ~Due(now) THEN recency ELSE SubSeq(Ordered(now), Surplus(now) + 1, Len(Ordered(now)))

\* allow, with the lock
Allow(a) ==
  LET c == asking[a].client
      now == asking[a].now
      window == Recent(Kept(c, now), now)
      passes == Len(window) < MaxRequests
      others(d) == d # c
  IN /\ asking[a] # None
     /\ Len(grants[c]) < 2 * MaxRequests          \* bound: requests followed
     /\ asking' = [asking EXCEPT ![a] = None]
     /\ hits' = [d \in Client |->
          IF d # c THEN Kept(d, now) ELSE IF passes THEN Append(window, now) ELSE window]
     /\ recency' = Append(SelectSeq(KeptOrder(now), others), c)
     /\ lastCleanup' = IF Due(now) THEN now ELSE lastCleanup
     /\ grants' = IF passes
          THEN [grants EXCEPT ![c] = Append(@, [at |-> now, late |-> now < newest])] ELSE grants
     /\ newest' = IF now > newest THEN now ELSE newest
     /\ dropped' = IF Due(now) THEN dropped \cup Evicted(now) ELSE dropped
     /\ UNCHANGED clock

RateNext == Advance \/ \E a \in Asker : Allow(a) \/ \E c \in Client : ReadClock(a, c)

RateSpec == RateInit /\ [][RateNext]_rateVars

\* The requests of client c let through in the window of request n before it
InWindow(c, n) == {i \in 1 .. n : grants[c][i].at + Window >= grants[c][n].at}

\* Of a client that was never dropped to keep the table small, a request is let
\* through only as one of at most max_requests in the window before it, unless a
\* request that read the clock later overtook it at the lock: neither the pruning
\* in allow nor a cleanup for another client's request forgets a request too early.
WindowHolds ==
  \A c \in Client \ dropped : \A n \in DOMAIN grants[c] :
    grants[c][n].late \/ Cardinality(InWindow(c, n)) <= MaxRequests
================================================================================
