----------------------------- MODULE RateLimiter -----------------------------
(***************************************************************************)
(* The rate limiter of server.go: one token bucket per client IP in a      *)
(* sync.Map, taken by the request goroutines, and the cleanup goroutine    *)
(* that removes idle buckets.                                              *)
(*                                                                         *)
(* allow loads the bucket and only then locks it; cleanup judges a bucket  *)
(* under its lock and only then deletes the key.  Between the two halves   *)
(* of either, the others run.                                              *)
(*                                                                         *)
(* The fractions of a token are counted in units: a request costs Cost     *)
(* units and a bucket gains Rate units per tick of the clock, Second ticks *)
(* being a second.  The code's floating-point rounding is left out.        *)
(***************************************************************************)
EXTENDS Integers, Sequences

CONSTANTS
  IPs,          \* client addresses
  Requests,     \* the request goroutines
  Cost,         \* units of one token
  Rate,         \* units gained per tick (requests_per_minute)
  Burst,        \* tokens a bucket holds
  IdleLimit,    \* ticks after which a bucket counts as idle (10 minutes)
  Second,       \* ticks of one second
  NULL,         \* no entry in the map, no promise, no key
  MaxTime,      \* bound: the clock stops there
  MaxCleanups   \* bound: how often cleanup's ticker fires

ASSUME RateAssumption ==
  /\ Cost \in Nat \ {0} /\ Rate \in Nat \ {0} /\ Burst \in Nat \ {0}
  /\ IdleLimit \in Nat /\ Second \in Nat \ {0}
  /\ MaxTime \in Nat /\ MaxCleanups \in Nat

ASSUME NullAssumption == NULL \notin Nat \cup IPs

VARIABLES
  now,       \* the clock
  buckets,   \* RateLimiter.buckets: per IP the number of its bucket, or NULL
  heap,      \* the bucket objects: [tokens, lastSeen] in units and ticks
  request,   \* per goroutine where it is in allow, its IP and its bucket
  cutoff,    \* cleanup's cutoff
  keys,      \* the keys cleanup's Range has still to visit
  doomed,    \* the key cleanup has judged idle and is about to delete
  cleanups,  \* counts the cleanups (bound)
  ideal,     \* per IP a bucket that is never removed (history variable)
  promise,   \* per IP when the last Retry-After is over, or NULL (history)
  allowance  \* per IP the units cleanup gave away (history variable)

cleanupVars == <<cutoff, keys, doomed, cleanups>>
vars == <<now, buckets, heap, request, cutoff, keys, doomed, cleanups, ideal,
          promise, allowance>>

Capacity == Burst * Cost

Smaller(a, b) == IF a < b THEN a ELSE b

Larger(a, b) == IF a < b THEN b ELSE a

FullBucket == [tokens |-> Capacity, lastSeen |-> now]

Idle == [stage |-> "idle", ip |-> NULL, bucket |-> NULL]

\* Mutant of Refilled: the bucket is not capped.
RefilledUncapped(b, t) == b.tokens + (t - b.lastSeen) * Rate

\* min(burst, tokens + elapsed * rate)
Refilled(b, t) == Smaller(Capacity, b.tokens + (t - b.lastSeen) * Rate)

\* Mutant of RetryAfter: the fraction of a second is cut off.
RetryAfterCut(tokens) == (Cost - tokens) \div (Rate * Second)

\* int((1 - tokens) / rate) + 1, in seconds.
RetryAfter(tokens) == (Cost - tokens) \div (Rate * Second) + 1

Init ==
  /\ now = 0
  /\ buckets = [ip \in IPs |-> NULL] /\ heap = <<>>
  /\ request = [r \in Requests |-> Idle]
  /\ cutoff = 0 /\ keys = {} /\ doomed = NULL /\ cleanups = 0
  /\ ideal = [ip \in IPs |-> FullBucket]
  /\ promise = [ip \in IPs |-> NULL]
  /\ allowance = [ip \in IPs |-> 0]

-----------------------------------------------------------------------------
(* allow *)

\* Mutant of Load: the new bucket replaces the one another request stored.
LoadStores(r, ip) ==
  /\ request[r].stage = "idle"
  /\ heap' = Append(heap, FullBucket)
  /\ buckets' = [buckets EXCEPT ![ip] = Len(heap) + 1]
  /\ request' = [request EXCEPT
       ![r] = [stage |-> "loaded", ip |-> ip, bucket |-> buckets'[ip]]]
  /\ UNCHANGED <<now, cleanupVars, ideal, promise, allowance>>

\* buckets.LoadOrStore(ip, a full bucket)
Load(r, ip) ==
  /\ request[r].stage = "idle"
  /\ IF buckets[ip] = NULL
       THEN /\ heap' = Append(heap, FullBucket)
            /\ buckets' = [buckets EXCEPT ![ip] = Len(heap) + 1]
       ELSE UNCHANGED <<heap, buckets>>
  /\ request' = [request EXCEPT
       ![r] = [stage |-> "loaded", ip |-> ip, bucket |-> buckets'[ip]]]
  /\ UNCHANGED <<now, cleanupVars, ideal, promise, allowance>>

\* The bucket of r, locked and refilled.
Bucket(r) == heap[request[r].bucket]

Tokens(r) == Refilled(Bucket(r), now)

\* A token is left: the request is admitted.
Admit(r) ==
  LET ip == request[r].ip IN
  /\ request[r].stage = "loaded" /\ Tokens(r) >= Cost
  /\ heap' = [heap EXCEPT
       ![request[r].bucket] = [tokens |-> Tokens(r) - Cost, lastSeen |-> now]]
  /\ request' = [request EXCEPT ![r] = Idle]
  /\ ideal' = [ideal EXCEPT
       ![ip] = [tokens |-> Refilled(@, now) - Cost, lastSeen |-> now]]
  /\ promise' = [promise EXCEPT ![ip] = NULL]
  /\ allowance' = IF buckets[ip] = request[r].bucket
                     THEN allowance
                     ELSE [allowance EXCEPT ![ip] = @ + Cost]
  /\ UNCHANGED <<now, buckets, cleanupVars>>

\* Status 429 with a Retry-After header.
Reject(r) ==
  LET ip == request[r].ip IN
  /\ request[r].stage = "loaded" /\ Tokens(r) < Cost
  /\ heap' = [heap EXCEPT
       ![request[r].bucket] = [tokens |-> Tokens(r), lastSeen |-> now]]
  /\ request' = [request EXCEPT ![r] = Idle]
  /\ promise' = [promise EXCEPT ![ip] = now + RetryAfter(Tokens(r)) * Second]
  /\ UNCHANGED <<now, buckets, cleanupVars, ideal, allowance>>

-----------------------------------------------------------------------------
(* cleanup *)

\* The ticker fires; Range visits the keys the map has now.
StartCleanup ==
  /\ keys = {} /\ doomed = NULL /\ cleanups < MaxCleanups
  /\ cleanups' = cleanups + 1
  /\ cutoff' = now - IdleLimit
  /\ keys' = {ip \in IPs : buckets[ip] # NULL}
  /\ UNCHANGED <<now, buckets, heap, request, doomed, ideal, promise, allowance>>

\* lastSeen is compared with cutoff under the bucket's lock.
Judge(ip) ==
  /\ ip \in keys /\ doomed = NULL
  /\ keys' = keys \ {ip}
  /\ doomed' = IF heap[buckets[ip]].lastSeen < cutoff THEN ip ELSE NULL
  /\ UNCHANGED <<now, buckets, heap, request, cutoff, cleanups, ideal, promise,
                 allowance>>

\* buckets.Delete(k), after the lock has been released.
Delete ==
  /\ doomed # NULL
  /\ buckets' = [buckets EXCEPT ![doomed] = NULL]
  /\ allowance' = [allowance EXCEPT
       ![doomed] = @ + Capacity - Refilled(heap[buckets[doomed]], now)]
  /\ doomed' = NULL
  /\ UNCHANGED <<now, heap, request, cutoff, keys, cleanups, ideal, promise>>

-----------------------------------------------------------------------------
Tick ==
  /\ now < MaxTime
  /\ now' = now + 1
  /\ UNCHANGED <<buckets, heap, request, cleanupVars, ideal, promise, allowance>>

Next ==
  \/ \E r \in Requests, ip \in IPs : Load(r, ip)
  \/ \E r \in Requests : Admit(r) \/ Reject(r)
  \/ StartCleanup \/ Delete \/ \E ip \in IPs : Judge(ip)
  \/ Tick

Spec == Init /\ [][Next]_vars

-----------------------------------------------------------------------------
(* Properties *)

\* Type invariant: in particular a bucket never holds more than its burst.
TypeOK ==
  /\ now \in 0..MaxTime
  /\ heap \in Seq([tokens : 0..Capacity, lastSeen : 0..MaxTime])
  /\ buckets \in [IPs -> DOMAIN heap \cup {NULL}]
  /\ request \in [Requests ->
       {Idle} \cup [stage : {"loaded"}, ip : IPs, bucket : DOMAIN heap]]
  /\ cutoff \in Int /\ keys \subseteq IPs /\ doomed \in IPs \cup {NULL}
  /\ cleanups \in 0..MaxCleanups /\ allowance \in [IPs -> Nat]
  /\ ideal \in [IPs -> [tokens : Int, lastSeen : 0..MaxTime]]
  /\ promise \in [IPs -> Nat \cup {NULL}]

\* server.go:38, "enforces a token bucket per IP": the requests admitted for an
\* IP, through whatever bucket object, are requests that one bucket that is
\* never removed would have admitted too.
EnforcesTokenBucket == \A ip \in IPs : ideal[ip].tokens >= 0

\* How far that guarantee can fail: by the tokens a bucket lacked when cleanup
\* deleted it, and by the requests that had loaded the deleted bucket before.
ExcessIsBounded == \A ip \in IPs : ideal[ip].tokens + allowance[ip] >= 0

\* A client that waits for the seconds Retry-After names finds a token, if no
\* other request of its IP took it, however many were rejected meanwhile (as
\* long as cleanup gave nothing away).
RetryAfterSuffices ==
  \A ip \in IPs :
    promise[ip] # NULL /\ buckets[ip] # NULL /\ allowance[ip] = 0 =>
      Refilled(heap[buckets[ip]], Larger(promise[ip], now)) >= Cost
=============================================================================
