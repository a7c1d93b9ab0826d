-------------------------- MODULE RateLimiterProofs --------------------------
(***************************************************************************)
(* Proofs about RateLimiter, for any rate, burst, idle limit and number of *)
(* addresses, requests and cleanups.                                       *)
(***************************************************************************)
EXTENDS RateLimiter, TLAPS

-----------------------------------------------------------------------------
(* Arithmetic.  The products are hidden from the provers behind these facts. *)

LEMMA Products ==
  /\ \A a, b \in Nat : a * b \in Nat
  /\ \A a, b \in Int : a * b \in Int /\ (a + 1) * b = a * b + b
  /\ \A b \in Int : 0 * b = 0
OBVIOUS

LEMMA Positive == \A a, b \in Nat \ {0} : a * b \in Nat \ {0}
OBVIOUS

LEMMA CapacityType == Capacity \in Nat /\ Capacity >= Cost
<1>1. \A a, b \in Nat \ {0} : a * b >= b
  OBVIOUS
<1> QED BY <1>1, Products, RateAssumption DEF Capacity

LEMMA RetryAfterType ==
  ASSUME NEW tokens \in Int, tokens < Cost
  PROVE  RetryAfter(tokens) * Second \in Nat
<1>1. Rate * Second \in Nat \ {0}
  BY Positive, RateAssumption
<1>2. \A a \in Nat, b \in Nat \ {0} : a \div b \in Nat
  OBVIOUS
<1>3. RetryAfter(tokens) \in Nat
  BY <1>1, <1>2, RateAssumption DEF RetryAfter
<1> QED BY <1>3, Products, RateAssumption

\* A bucket: what it holds is a number, at most its capacity; nothing is
\* gained in no time; each tick gains Rate until it is full.
Times(b) == b.tokens \in Int /\ b.lastSeen \in Nat

LEMMA RefilledFacts ==
  ASSUME NEW b, Times(b), b.tokens <= Capacity, NEW t \in Nat, b.lastSeen <= t
  PROVE  /\ Refilled(b, t) \in Int /\ Refilled(b, t) <= Capacity
         /\ b.tokens >= 0 => Refilled(b, t) >= 0
         /\ Refilled(b, t + 1) = Smaller(Capacity, Refilled(b, t) + Rate)
         /\ b.lastSeen = t => Refilled(b, t) = b.tokens
         /\ Refilled(b, t) >= b.tokens
<1> DEFINE d == t - b.lastSeen
           p == d * Rate
<1>1. d \in Nat /\ Rate \in Nat /\ Capacity \in Nat
  BY CapacityType, RateAssumption DEF Times
<1>2. p \in Nat
  BY <1>1, Products
<1>3. ((t + 1) - b.lastSeen) * Rate = p + Rate
  <2>1. (t + 1) - b.lastSeen = d + 1
    BY DEF Times
  <2>2. d \in Int /\ Rate \in Int
    BY <1>1
  <2> HIDE DEF d
  <2> QED BY <2>1, <2>2, Products
<1>4. d = 0 => p = 0
  BY <1>1, Products
<1>5. Refilled(b, t) = Smaller(Capacity, b.tokens + p)
  BY DEF Refilled
<1>6. Refilled(b, t + 1) = Smaller(Capacity, b.tokens + (p + Rate))
  <2> HIDE DEF d, p
  <2>1. Refilled(b, t + 1)
          = Smaller(Capacity, b.tokens + ((t + 1) - b.lastSeen) * Rate)
    BY DEF Refilled
  <2> QED BY <1>3, <2>1
<1>7. b.lastSeen = t => d = 0
  BY DEF Times
<1> HIDE DEF p, d
<1> QED BY <1>1, <1>2, <1>4, <1>5, <1>6, <1>7 DEF Smaller, Times


-----------------------------------------------------------------------------
(* The inductive invariant.                                                *)

\* No clock reading lies in the future, and the ideal buckets are not overfull.
InThePast ==
  /\ \A n \in DOMAIN heap : heap[n].lastSeen <= now
  /\ \A ip \in IPs : ideal[ip].lastSeen <= now /\ ideal[ip].tokens <= Capacity

\* cleanup deletes only what is in the map, each key once.
KeysPresent ==
  /\ \A ip \in keys : buckets[ip] # NULL
  /\ doomed # NULL => doomed \notin keys /\ buckets[doomed] # NULL

\* Two addresses never share a bucket, neither in the map nor through the
\* reference a request holds.
Separate ==
  /\ \A ip1, ip2 \in IPs :
       ip1 # ip2 /\ buckets[ip1] # NULL => buckets[ip1] # buckets[ip2]
  /\ \A r \in Requests, ip \in IPs :
       request[r].stage = "loaded" /\ request[r].ip # ip =>
         buckets[ip] # request[r].bucket

\* What the next request of ip finds: its bucket, or a new one.
Found(ip) ==
  IF buckets[ip] = NULL THEN Capacity ELSE Refilled(heap[buckets[ip]], now)

\* With the allowance the ideal bucket holds at least what a request finds.
Covered ==
  \A ip \in IPs : Refilled(ideal[ip], now) + allowance[ip] >= Found(ip)

Inv ==
  /\ TypeOK /\ InThePast /\ KeysPresent /\ Separate
  /\ Covered /\ ExcessIsBounded

-----------------------------------------------------------------------------
(* What the invariant says of the buckets at the present time.             *)

LEMMA SeqElement ==
  ASSUME NEW S, NEW s \in Seq(S), NEW n \in DOMAIN s PROVE s[n] \in S
OBVIOUS

LEMMA Appended ==
  ASSUME NEW S, NEW s \in Seq(S), NEW e \in S
  PROVE  /\ Append(s, e) \in Seq(S)
         /\ DOMAIN Append(s, e) = DOMAIN s \cup {Len(s) + 1}
         /\ Len(s) + 1 \notin DOMAIN s /\ Append(s, e)[Len(s) + 1] = e
         /\ \A i \in DOMAIN s : Append(s, e)[i] = s[i]
OBVIOUS

LEMMA HeapFacts ==
  ASSUME TypeOK, InThePast, NEW n \in DOMAIN heap
  PROVE  /\ heap[n] \in [tokens : 0..Capacity, lastSeen : 0..MaxTime]
         /\ now \in Nat /\ heap[n].lastSeen <= now
         /\ Refilled(heap[n], now) \in 0..Capacity
         /\ Refilled(heap[n], now + 1)
              = Smaller(Capacity, Refilled(heap[n], now) + Rate)
<1>1. heap[n] \in [tokens : 0..Capacity, lastSeen : 0..MaxTime]
  BY SeqElement DEF TypeOK
<1>2. now \in Nat /\ heap[n].lastSeen <= now
  BY RateAssumption DEF TypeOK, InThePast
<1>3. Capacity \in Nat
  BY CapacityType, RateAssumption
<1>4. /\ Times(heap[n]) /\ heap[n].tokens <= Capacity /\ heap[n].tokens >= 0
  BY <1>1, <1>3, RateAssumption DEF Times
<1> QED BY <1>1, <1>2, <1>3, <1>4, RefilledFacts

LEMMA IdealFacts ==
  ASSUME TypeOK, InThePast, NEW ip \in IPs
  PROVE  /\ ideal[ip] \in [tokens : Int, lastSeen : 0..MaxTime]
         /\ Refilled(ideal[ip], now) \in Int
         /\ Refilled(ideal[ip], now) <= Capacity
         /\ Refilled(ideal[ip], now) >= ideal[ip].tokens
         /\ Refilled(ideal[ip], now + 1)
              = Smaller(Capacity, Refilled(ideal[ip], now) + Rate)
<1>1. ideal[ip] \in [tokens : Int, lastSeen : 0..MaxTime]
  BY DEF TypeOK
<1>2. /\ now \in Nat /\ ideal[ip].lastSeen <= now
      /\ ideal[ip].tokens <= Capacity
  BY RateAssumption DEF TypeOK, InThePast
<1>3. Times(ideal[ip])
  BY <1>1, RateAssumption DEF Times
<1> QED BY <1>1, <1>2, <1>3, RefilledFacts

LEMMA FoundFacts ==
  ASSUME TypeOK, InThePast, NEW ip \in IPs
  PROVE  Found(ip) \in 0..Capacity
<1>1. Capacity \in 0..Capacity
  BY CapacityType
<1>2. buckets[ip] # NULL => buckets[ip] \in DOMAIN heap
  BY DEF TypeOK
<1> QED BY <1>1, <1>2, HeapFacts DEF Found

\* A bucket just used holds what was written into it.
LEMMA JustUsed ==
  ASSUME NEW v \in Int, v <= Capacity, NEW t \in Nat
  PROVE  Refilled([tokens |-> v, lastSeen |-> t], t) = v
<1> DEFINE b == [tokens |-> v, lastSeen |-> t]
<1>1. Times(b) /\ b.tokens = v /\ b.lastSeen = t
  BY DEF Times
<1> HIDE DEF b
<1>2. Refilled(b, t) = v
  BY <1>1, RefilledFacts
<1> QED BY <1>2 DEF b

-----------------------------------------------------------------------------
(* Init and the steps.                                                     *)

LEMMA InitInv == Init => Inv
<1> SUFFICES ASSUME Init PROVE Inv
  OBVIOUS
<1>1. Capacity \in Nat
  BY CapacityType
<1>2. TypeOK
  BY <1>1, RateAssumption, NullAssumption DEF Init, TypeOK, Idle, FullBucket
<1>3. InThePast
  BY <1>1, <1>2 DEF Init, InThePast, FullBucket
<1>4. KeysPresent
  BY DEF Init, KeysPresent
<1>5. Separate
  BY DEF Init, Separate, Idle
<1>6. Covered
  <2> SUFFICES ASSUME NEW ip \in IPs
               PROVE  Refilled(ideal[ip], now) + allowance[ip] >= Found(ip)
    BY DEF Covered
  <2>1. ideal[ip] = [tokens |-> Capacity, lastSeen |-> 0] /\ now = 0
    BY DEF Init, FullBucket
  <2>2. Refilled(ideal[ip], now) = Capacity
    BY <1>1, <2>1, JustUsed
  <2>3. Found(ip) = Capacity /\ allowance[ip] = 0
    BY DEF Init, Found
  <2> QED BY <1>1, <2>2, <2>3
<1>7. ExcessIsBounded
  <2> SUFFICES ASSUME NEW ip \in IPs PROVE ideal[ip].tokens + allowance[ip] >= 0
    BY DEF ExcessIsBounded
  <2>1. ideal[ip].tokens = Capacity /\ allowance[ip] = 0
    BY DEF Init, FullBucket
  <2> QED BY <1>1, <2>1
<1> QED BY <1>2, <1>3, <1>4, <1>5, <1>6, <1>7 DEF Inv

LEMMA StutterInv == Inv /\ UNCHANGED vars => Inv'
BY DEF Inv, vars, cleanupVars, TypeOK, InThePast, KeysPresent, Separate,
       Covered, Found, ExcessIsBounded, Refilled, Idle

\* A step that leaves the bucket of x as it is, and the clock.
LEMMA SameFound ==
  ASSUME NEW x \in IPs, now' = now, buckets'[x] = buckets[x],
         buckets[x] # NULL => heap'[buckets[x]] = heap[buckets[x]]
  PROVE  Found(x)' = Found(x)
<1>1. Found(x)' = IF buckets'[x] = NULL THEN Capacity
                  ELSE Refilled(heap'[buckets'[x]], now')
  BY DEF Found, Refilled
<1> QED BY <1>1 DEF Found

LEMMA LoadInv ==
  ASSUME Inv, NEW r \in Requests, NEW ip \in IPs, Load(r, ip) PROVE Inv'
<1> USE DEF Inv
<1>1. Capacity \in Nat /\ now \in Nat
  BY CapacityType, RateAssumption DEF TypeOK
<1> DEFINE B == [tokens : 0..Capacity, lastSeen : 0..MaxTime]
           n == Len(heap) + 1
<1>2. /\ FullBucket \in B /\ FullBucket.lastSeen = now
      /\ Refilled(FullBucket, now) = Capacity
  BY <1>1, JustUsed DEF FullBucket, TypeOK
<1>3. /\ UNCHANGED <<now, cutoff, keys, doomed, cleanups, ideal, promise,
                     allowance>>
      /\ request' = [request EXCEPT
           ![r] = [stage |-> "loaded", ip |-> ip, bucket |-> buckets'[ip]]]
  BY DEF Load, cleanupVars
<1>4. CASE buckets[ip] = NULL
  <2>1. /\ heap' = Append(heap, FullBucket)
        /\ buckets' = [buckets EXCEPT ![ip] = n]
    BY <1>4 DEF Load
  <2>2. /\ heap' \in Seq(B) /\ DOMAIN heap' = DOMAIN heap \cup {n}
        /\ n \notin DOMAIN heap /\ heap'[n] = FullBucket
        /\ \A i \in DOMAIN heap : heap'[i] = heap[i]
    <3>1. heap \in Seq(B)
      BY DEF TypeOK
    <3> HIDE DEF B
    <3> QED BY <1>2, <2>1, <3>1, Appended
  <2>3. \A x \in IPs : buckets[x] # NULL => buckets[x] \in DOMAIN heap
    BY DEF TypeOK
  <2>4. n # NULL
    BY <2>2, NullAssumption DEF TypeOK
  <2>5. TypeOK'
    <3>1. buckets' \in [IPs -> DOMAIN heap' \cup {NULL}] /\ buckets'[ip] = n
      BY <2>1, <2>2 DEF TypeOK
    <3>2. request' \in [Requests ->
            {Idle} \cup [stage : {"loaded"}, ip : IPs, bucket : DOMAIN heap']]
      BY <1>3, <2>2, <3>1 DEF TypeOK
    <3> HIDE DEF n
    <3> QED BY <1>3, <2>2, <3>1, <3>2 DEF TypeOK, Idle
  <2> HIDE DEF n, B
  <2>6. InThePast'
    <3>1. \A i \in DOMAIN heap' : heap'[i].lastSeen <= now'
      BY <1>1, <1>2, <1>3, <2>2 DEF InThePast
    <3> QED BY <1>3, <3>1 DEF InThePast
  <2>7. KeysPresent'
    BY <1>3, <2>1, <2>4 DEF KeysPresent, TypeOK
  <2>8. Separate'
    <3>1. /\ buckets'[ip] = n
          /\ \A x \in IPs \ {ip} : buckets'[x] = buckets[x]
          /\ \A x \in IPs : buckets[x] # n
      BY <2>1, <2>2, <2>3, <2>4 DEF TypeOK
    <3>2. \A x1, x2 \in IPs :
            x1 # x2 /\ buckets'[x1] # NULL => buckets'[x1] # buckets'[x2]
      BY <3>1 DEF Separate
    <3>3. ASSUME NEW q \in Requests, NEW x \in IPs,
                 request'[q].stage = "loaded", request'[q].ip # x
          PROVE  buckets'[x] # request'[q].bucket
      <4>1. CASE q = r
        BY <1>3, <3>1, <3>3, <4>1 DEF TypeOK
      <4>2. CASE q # r
        <5>1. request'[q] = request[q]
          BY <1>3, <4>2 DEF TypeOK
        <5>2. request[q].bucket \in DOMAIN heap
          BY <3>3, <5>1 DEF TypeOK, Idle
        <5> QED BY <2>2, <3>1, <3>3, <5>1, <5>2 DEF Separate
      <4> QED BY <4>1, <4>2
    <3> QED BY <3>2, <3>3 DEF Separate
  <2>9. Covered'
    <3> SUFFICES ASSUME NEW x \in IPs
                 PROVE  Refilled(ideal[x], now) + allowance[x] >= Found(x)'
      BY <1>3 DEF Covered, Refilled
    <3>1. Found(x)' = Found(x)
      BY <1>2, <1>3, <1>4, <2>1, <2>2, <2>3, <2>4 DEF Found, TypeOK, Refilled
    <3> QED BY <3>1 DEF Covered
  <2>10. ExcessIsBounded'
    BY <1>3 DEF ExcessIsBounded
  <2> QED BY <2>5, <2>6, <2>7, <2>8, <2>9, <2>10
<1>5. CASE buckets[ip] # NULL
  <2>1. UNCHANGED <<heap, buckets>>
    BY <1>5 DEF Load
  <2>2. buckets[ip] \in DOMAIN heap
    BY <1>5 DEF TypeOK
  <2>3. TypeOK'
    BY <1>3, <2>1, <2>2 DEF TypeOK, Idle
  <2>4. InThePast' /\ KeysPresent' /\ Covered' /\ ExcessIsBounded'
    BY <1>3, <2>1 DEF InThePast, KeysPresent, Covered, ExcessIsBounded, Found,
                      Refilled
  <2>5. Separate'
    BY <1>3, <1>5, <2>1 DEF Separate, TypeOK, Idle
  <2> QED BY <2>3, <2>4, <2>5
<1> QED BY <1>4, <1>5

\* What a request that has locked its bucket knows of it.
LEMMA LoadedFacts ==
  ASSUME TypeOK, InThePast, NEW r \in Requests, request[r].stage = "loaded"
  PROVE  /\ request[r].ip \in IPs /\ request[r].bucket \in DOMAIN heap
         /\ Tokens(r) \in 0..Capacity
         /\ Tokens(r) = Refilled(heap[request[r].bucket], now)
         /\ Capacity \in Nat /\ now \in 0..MaxTime /\ now \in Nat /\ Cost \in Nat
<1>1. request[r].ip \in IPs /\ request[r].bucket \in DOMAIN heap
  BY DEF TypeOK, Idle
<1>2. Tokens(r) = Refilled(heap[request[r].bucket], now)
  BY DEF Tokens, Bucket
<1>3. Tokens(r) \in 0..Capacity
  BY <1>1, <1>2, HeapFacts
<1>4. Capacity \in Nat /\ now \in 0..MaxTime /\ now \in Nat /\ Cost \in Nat
  BY CapacityType, RateAssumption DEF TypeOK
<1> QED BY <1>1, <1>2, <1>3, <1>4

LEMMA UsedBucket ==
  ASSUME TypeOK, InThePast, NEW n \in DOMAIN heap, NEW v \in 0..Capacity,
         heap' = [heap EXCEPT ![n] = [tokens |-> v, lastSeen |-> now]]
  PROVE  /\ heap' \in Seq([tokens : 0..Capacity, lastSeen : 0..MaxTime])
         /\ DOMAIN heap' = DOMAIN heap
         /\ \A i \in DOMAIN heap : heap'[i].lastSeen <= now
         /\ Refilled(heap'[n], now) = v
         /\ \A i \in DOMAIN heap \ {n} : heap'[i] = heap[i]
<1>1. now \in Nat /\ now \in 0..MaxTime /\ Capacity \in Nat
  BY CapacityType, RateAssumption DEF TypeOK
<1>2. [tokens |-> v, lastSeen |-> now]
        \in [tokens : 0..Capacity, lastSeen : 0..MaxTime]
  BY <1>1
<1>3. /\ heap' \in Seq([tokens : 0..Capacity, lastSeen : 0..MaxTime])
      /\ DOMAIN heap' = DOMAIN heap
      /\ heap'[n] = [tokens |-> v, lastSeen |-> now]
      /\ \A i \in DOMAIN heap \ {n} : heap'[i] = heap[i]
  BY SMTT(30), <1>2 DEF TypeOK
<1>4. Refilled(heap'[n], now) = v
  BY <1>1, <1>3, JustUsed
<1>5. \A i \in DOMAIN heap : heap'[i].lastSeen <= now
  BY <1>1, <1>3 DEF InThePast
<1> QED BY <1>3, <1>4, <1>5

LEMMA AdmitInv ==
  ASSUME Inv, NEW r \in Requests, Admit(r) PROVE Inv'
<1> USE DEF Inv
<1>0. PICK ip \in IPs, n \in DOMAIN heap :
         ip = request[r].ip /\ n = request[r].bucket
  BY LoadedFacts DEF Admit
<1> DEFINE T == Tokens(r)
           I == Refilled(ideal[ip], now)
<1>1. /\ request[r].stage = "loaded" /\ T >= Cost
      /\ heap' = [heap EXCEPT ![n] = [tokens |-> T - Cost, lastSeen |-> now]]
      /\ request' = [request EXCEPT ![r] = Idle]
      /\ ideal' = [ideal EXCEPT ![ip] = [tokens |-> I - Cost, lastSeen |-> now]]
      /\ promise' = [promise EXCEPT ![ip] = NULL]
      /\ allowance' = IF buckets[ip] = n THEN allowance
                      ELSE [allowance EXCEPT ![ip] = @ + Cost]
      /\ UNCHANGED <<now, buckets, cutoff, keys, doomed, cleanups>>
  BY <1>0 DEF Admit, cleanupVars
<1>2. /\ T \in 0..Capacity
      /\ T = Refilled(heap[n], now)
      /\ Capacity \in Nat /\ now \in 0..MaxTime /\ now \in Nat /\ Cost \in Nat
  BY <1>0, <1>1, LoadedFacts
<1>3. I \in Int /\ I <= Capacity /\ allowance[ip] \in Nat
  BY <1>2, IdealFacts DEF TypeOK
<1> HIDE DEF T, I
<1>4. /\ heap' \in Seq([tokens : 0..Capacity, lastSeen : 0..MaxTime])
      /\ DOMAIN heap' = DOMAIN heap
      /\ \A i \in DOMAIN heap : heap'[i].lastSeen <= now
      /\ Refilled(heap'[n], now) = T - Cost
      /\ \A i \in DOMAIN heap \ {n} : heap'[i] = heap[i]
  <2>1. T - Cost \in 0..Capacity
    BY <1>1, <1>2
  <2> QED BY <1>1, <1>2, <2>1, UsedBucket
<1>5. /\ ideal'[ip] = [tokens |-> I - Cost, lastSeen |-> now]
      /\ Refilled(ideal'[ip], now) = I - Cost
      /\ \A x \in IPs \ {ip} : ideal'[x] = ideal[x]
      /\ ideal' \in [IPs -> [tokens : Int, lastSeen : 0..MaxTime]]
  <2>1. I - Cost \in Int /\ I - Cost <= Capacity
    BY <1>2, <1>3
  <2>2. Refilled([tokens |-> I - Cost, lastSeen |-> now], now) = I - Cost
    BY <1>2, <2>1, JustUsed
  <2> QED BY <1>1, <1>2, <2>1, <2>2 DEF TypeOK
<1>6. /\ allowance' \in [IPs -> Nat]
      /\ allowance'[ip] = IF buckets[ip] = n THEN allowance[ip]
                                             ELSE allowance[ip] + Cost
      /\ \A x \in IPs \ {ip} : allowance'[x] = allowance[x]
  <2>1. allowance \in [IPs -> Nat]
    BY DEF TypeOK
  <2>2. CASE buckets[ip] = n
    BY <1>1, <1>3, <2>1, <2>2
  <2>3. CASE buckets[ip] # n
    <3>1. allowance' = [allowance EXCEPT ![ip] = @ + Cost]
      BY <1>1, <2>3
    <3>2. allowance[ip] + Cost \in Nat
      BY <1>2, <1>3
    <3> QED BY <2>1, <2>3, <3>1, <3>2
  <2> QED BY <2>2, <2>3
<1>7. TypeOK'
  BY <1>1, <1>2, <1>4, <1>5, <1>6 DEF TypeOK, Idle
<1>8. InThePast'
  BY SMTT(30), <1>1, <1>2, <1>3, <1>4, <1>5 DEF InThePast
<1>9. KeysPresent'
  BY <1>1 DEF KeysPresent
<1>10. Separate'
  BY <1>1 DEF Separate, TypeOK, Idle
<1>11. I + allowance[ip] >= Found(ip)
  BY <1>2 DEF Covered, I
<1>12. Found(ip) \in 0..Capacity
  BY <1>2, FoundFacts
<1>13. I - Cost + allowance'[ip] >= Found(ip)' /\ I - Cost + allowance'[ip] >= 0
  <2>1. CASE buckets[ip] = n
    <3>1. n # NULL
      BY SMTT(30), <1>2, NullAssumption DEF TypeOK
    <3>2. Found(ip) = T
      BY <1>2, <2>1, <3>1 DEF Found
    <3>3. Found(ip)' = Refilled(heap'[n], now)
      <4>1. Found(ip)' = IF buckets'[ip] = NULL THEN Capacity
                         ELSE Refilled(heap'[buckets'[ip]], now')
        BY DEF Found, Refilled
      <4>2. buckets' = buckets /\ now' = now
        BY <1>1
      <4> QED BY <2>1, <3>1, <4>1, <4>2
    <3>4. Found(ip)' = T - Cost
      BY <1>4, <3>3
    <3>5. allowance'[ip] = allowance[ip]
      BY <1>6, <2>1
    <3>6. I + allowance[ip] >= T
      BY <1>11, <3>2
    <3>7. T >= Cost /\ T \in Nat /\ Cost \in Nat
      BY <1>1, <1>2
    <3> QED BY <1>3, <3>4, <3>5, <3>6, <3>7
  <2>2. CASE buckets[ip] # n
    <3>1. Found(ip)' = Found(ip)
      BY <1>1, <1>4, <2>2, SameFound DEF TypeOK
    <3>2. allowance'[ip] = allowance[ip] + Cost
      BY <1>6, <2>2
    <3>3. Found(ip) \in Nat /\ Cost \in Nat
      BY <1>2, <1>12
    <3> QED BY <1>3, <1>11, <3>1, <3>2, <3>3
  <2> QED BY <2>1, <2>2
<1>14. ASSUME NEW x \in IPs, x # ip PROVE Found(x)' = Found(x)
  <2>1. buckets[x] # n
    BY <1>0, <1>1, <1>14 DEF Separate
  <2> QED BY <1>1, <1>4, <1>14, <2>1, SameFound DEF TypeOK
<1>15. Covered'
  <2> SUFFICES ASSUME NEW x \in IPs
               PROVE  Refilled(ideal'[x], now) + allowance'[x] >= Found(x)'
    BY <1>1 DEF Covered, Refilled
  <2>1. CASE x = ip
    BY <1>5, <1>13, <2>1
  <2>2. CASE x # ip
    <3>1. Refilled(ideal[x], now) + allowance[x] >= Found(x)
      BY DEF Covered
    <3> QED BY <1>5, <1>6, <1>14, <2>2, <3>1
  <2> QED BY <2>1, <2>2
<1>16. ExcessIsBounded'
  <2> SUFFICES ASSUME NEW x \in IPs PROVE ideal'[x].tokens + allowance'[x] >= 0
    BY DEF ExcessIsBounded
  <2>1. CASE x = ip
    BY <1>5, <1>13, <2>1
  <2>2. CASE x # ip
    BY <1>5, <1>6, <2>2 DEF ExcessIsBounded
  <2> QED BY <2>1, <2>2
<1> QED BY <1>7, <1>8, <1>9, <1>10, <1>15, <1>16

LEMMA RejectInv ==
  ASSUME Inv, NEW r \in Requests, Reject(r) PROVE Inv'
<1> USE DEF Inv
<1>0. PICK ip \in IPs, n \in DOMAIN heap :
         ip = request[r].ip /\ n = request[r].bucket
  BY LoadedFacts DEF Reject
<1> DEFINE T == Tokens(r)
           W == RetryAfter(T) * Second
<1>1. /\ request[r].stage = "loaded" /\ T < Cost
      /\ heap' = [heap EXCEPT ![n] = [tokens |-> T, lastSeen |-> now]]
      /\ request' = [request EXCEPT ![r] = Idle]
      /\ promise' = [promise EXCEPT ![ip] = now + W]
      /\ UNCHANGED <<now, buckets, cutoff, keys, doomed, cleanups, ideal,
                     allowance>>
  BY <1>0 DEF Reject, cleanupVars
<1>2. /\ T \in 0..Capacity /\ T = Refilled(heap[n], now)
      /\ Capacity \in Nat /\ now \in 0..MaxTime /\ now \in Nat
  BY <1>0, <1>1, LoadedFacts
<1>3. now + W \in Nat
  <2>1. T \in Int
    BY <1>2
  <2> HIDE DEF T
  <2>2. W \in Nat
    BY <1>1, <2>1, RetryAfterType
  <2> HIDE DEF W
  <2> QED BY <1>2, <2>2
<1> HIDE DEF T, W
<1>4. /\ heap' \in Seq([tokens : 0..Capacity, lastSeen : 0..MaxTime])
      /\ DOMAIN heap' = DOMAIN heap
      /\ \A i \in DOMAIN heap : heap'[i].lastSeen <= now
      /\ Refilled(heap'[n], now) = T
      /\ \A i \in DOMAIN heap \ {n} : heap'[i] = heap[i]
  BY <1>1, <1>2, UsedBucket
<1>5. TypeOK'
  BY <1>1, <1>2, <1>3, <1>4 DEF TypeOK, Idle
<1>6. InThePast'
  BY <1>1, <1>4 DEF InThePast
<1>7. KeysPresent'
  BY <1>1 DEF KeysPresent
<1>8. Separate'
  BY <1>1 DEF Separate, TypeOK, Idle
<1>9. ASSUME NEW x \in IPs PROVE Found(x)' = Found(x)
  <2>1. Found(x)' = IF buckets'[x] = NULL THEN Capacity
                    ELSE Refilled(heap'[buckets'[x]], now')
    BY DEF Found, Refilled
  <2>2. CASE buckets[x] = n
    BY <1>1, <1>2, <1>4, <2>1, <2>2 DEF Found
  <2>3. CASE buckets[x] # n
    BY <1>1, <1>4, <2>3, SameFound DEF TypeOK
  <2> QED BY <2>2, <2>3
<1>10. Covered'
  BY <1>1, <1>9 DEF Covered, Refilled
<1>11. ExcessIsBounded'
  BY <1>1 DEF ExcessIsBounded
<1> QED BY <1>5, <1>6, <1>7, <1>8, <1>10, <1>11

LEMMA StartCleanupInv == ASSUME Inv, StartCleanup PROVE Inv'
<1> USE DEF Inv, StartCleanup
<1>1. TypeOK'
  BY RateAssumption DEF TypeOK, Idle
<1>2. InThePast' /\ KeysPresent' /\ Separate'
  BY DEF InThePast, KeysPresent, Separate
<1>3. Covered' /\ ExcessIsBounded'
  BY DEF Covered, ExcessIsBounded, Found, Refilled
<1> QED BY <1>1, <1>2, <1>3

LEMMA JudgeInv == ASSUME Inv, NEW ip \in IPs, Judge(ip) PROVE Inv'
<1> USE DEF Inv, Judge
<1>1. TypeOK'
  BY DEF TypeOK, Idle
<1>2. InThePast' /\ Separate'
  BY DEF InThePast, Separate
<1>3. KeysPresent'
  BY DEF KeysPresent
<1>4. Covered' /\ ExcessIsBounded'
  BY DEF Covered, ExcessIsBounded, Found, Refilled
<1> QED BY <1>1, <1>2, <1>3, <1>4

LEMMA DeleteInv == ASSUME Inv, Delete PROVE Inv'
<1> USE DEF Inv
<1>1. PICK ip \in IPs : ip = doomed
  BY DEF Delete, TypeOK
<1> DEFINE H == Refilled(heap[buckets[ip]], now)
<1>2. /\ buckets' = [buckets EXCEPT ![ip] = NULL]
      /\ allowance' = [allowance EXCEPT ![ip] = @ + Capacity - H]
      /\ doomed' = NULL
      /\ UNCHANGED <<now, heap, request, cutoff, keys, cleanups, ideal, promise>>
  BY <1>1 DEF Delete
<1>3. buckets[ip] \in DOMAIN heap /\ buckets[ip] # NULL
  BY <1>1, NullAssumption DEF Delete, KeysPresent, TypeOK
<1>4. H \in 0..Capacity /\ Capacity \in Nat /\ allowance[ip] \in Nat
  BY <1>3, HeapFacts, CapacityType, RateAssumption DEF TypeOK
<1>5. Found(ip) = H
  BY <1>3 DEF Found
<1> HIDE DEF H
<1>6. /\ allowance' \in [IPs -> Nat]
      /\ allowance'[ip] = allowance[ip] + (Capacity - H)
      /\ \A x \in IPs \ {ip} : allowance'[x] = allowance[x]
  <2>1. allowance[ip] + Capacity - H = allowance[ip] + (Capacity - H)
    BY <1>4
  <2>2. allowance[ip] + (Capacity - H) \in Nat
    BY <1>4
  <2>3. allowance \in [IPs -> Nat]
    BY DEF TypeOK
  <2> QED BY <1>2, <2>1, <2>2, <2>3
<1>7. TypeOK'
  BY <1>2, <1>6 DEF TypeOK, Idle
<1>8. InThePast'
  BY <1>2 DEF InThePast
<1>9. KeysPresent'
  BY <1>1, <1>2, <1>3 DEF KeysPresent, TypeOK, Delete
<1>10. Separate'
  <2>1. \A x \in IPs : buckets'[x] = IF x = ip THEN NULL ELSE buckets[x]
    BY <1>2 DEF TypeOK
  <2>2. \A q \in Requests : request[q].stage = "loaded" =>
          request[q].bucket # NULL
    <3>1. \A i \in DOMAIN heap : i # NULL
      BY NullAssumption DEF TypeOK
    <3>2. \A q \in Requests : request[q].stage = "loaded" =>
            request[q].bucket \in DOMAIN heap
      BY DEF TypeOK, Idle
    <3> QED BY <3>1, <3>2
  <2> QED BY <1>2, <2>1, <2>2 DEF Separate
<1>11. Covered'
  <2> SUFFICES ASSUME NEW x \in IPs
               PROVE  Refilled(ideal[x], now) + allowance'[x] >= Found(x)'
    BY <1>2 DEF Covered, Refilled
  <2>1. Refilled(ideal[x], now) + allowance[x] >= Found(x)
    BY DEF Covered
  <2>2. CASE x = ip
    <3>1. Found(x)' = Capacity
      BY <1>2, <2>2 DEF Found, TypeOK
    <3>2. Refilled(ideal[x], now) \in Int
      BY IdealFacts
    <3> QED BY <1>4, <1>5, <1>6, <2>1, <2>2, <3>1, <3>2
  <2>3. CASE x # ip
    BY <1>2, <1>6, <2>1, <2>3, SameFound DEF TypeOK
  <2> QED BY <2>2, <2>3
<1>12. ExcessIsBounded'
  <2> SUFFICES ASSUME NEW x \in IPs PROVE ideal[x].tokens + allowance'[x] >= 0
    BY <1>2 DEF ExcessIsBounded
  <2>1. ideal[x].tokens + allowance[x] >= 0 /\ ideal[x].tokens \in Int
    BY IdealFacts DEF ExcessIsBounded
  <2>2. CASE x = ip
    BY <1>4, <1>6, <2>1, <2>2
  <2>3. CASE x # ip
    BY <1>6, <2>1, <2>3
  <2> QED BY <2>2, <2>3
<1> QED BY <1>7, <1>8, <1>9, <1>10, <1>11, <1>12

LEMMA TickInv == ASSUME Inv, Tick PROVE Inv'
<1> USE DEF Inv
<1>1. /\ now < MaxTime /\ now' = now + 1
      /\ UNCHANGED <<buckets, heap, request, cutoff, keys, doomed, cleanups,
                     ideal, promise, allowance>>
  BY DEF Tick, cleanupVars
<1>2. now \in Nat /\ Capacity \in Nat /\ Rate \in Nat
  BY CapacityType, RateAssumption DEF TypeOK
<1>3. TypeOK'
  BY <1>1, <1>2, RateAssumption DEF TypeOK, Idle
<1>4. InThePast'
  <2>1. ASSUME NEW i \in DOMAIN heap PROVE heap[i].lastSeen <= now + 1
    BY <1>2, HeapFacts, RateAssumption
  <2>2. ASSUME NEW ip \in IPs PROVE ideal[ip].lastSeen <= now + 1
    BY <1>2, IdealFacts, RateAssumption DEF InThePast
  <2> QED BY <1>1, <2>1, <2>2 DEF InThePast
<1>5. KeysPresent' /\ Separate'
  BY <1>1 DEF KeysPresent, Separate
<1>6. Covered'
  <2> SUFFICES ASSUME NEW x \in IPs
               PROVE  Refilled(ideal[x], now + 1) + allowance[x] >= Found(x)'
    BY <1>1 DEF Covered, Refilled
  <2> DEFINE I == Refilled(ideal[x], now)
  <2>1. /\ I \in Int /\ I <= Capacity
        /\ Refilled(ideal[x], now + 1) = Smaller(Capacity, I + Rate)
        /\ allowance[x] \in Nat /\ I + allowance[x] >= Found(x)
    BY IdealFacts DEF Covered, TypeOK
  <2> HIDE DEF I
  <2>2. Found(x)' = IF buckets[x] = NULL THEN Capacity
                    ELSE Refilled(heap[buckets[x]], now + 1)
    BY <1>1 DEF Found, Refilled
  <2>3. CASE buckets[x] = NULL
    <3>1. Found(x) = Capacity /\ Found(x)' = Capacity
      BY <2>2, <2>3 DEF Found
    <3> QED BY <1>2, <2>1, <3>1 DEF Smaller
  <2>4. CASE buckets[x] # NULL
    <3>1. buckets[x] \in DOMAIN heap
      BY <2>4 DEF TypeOK
    <3>2. /\ Found(x) \in 0..Capacity
          /\ Found(x)' = Smaller(Capacity, Found(x) + Rate)
      BY <2>2, <2>4, <3>1, HeapFacts DEF Found
    <3> QED BY <1>2, <2>1, <3>2 DEF Smaller
  <2> QED BY <2>3, <2>4
<1>7. ExcessIsBounded'
  BY <1>1 DEF ExcessIsBounded
<1> QED BY <1>3, <1>4, <1>5, <1>6, <1>7

-----------------------------------------------------------------------------
(* The theorems.                                                           *)

LEMMA NextInv == Inv /\ [Next]_vars => Inv'
<1> SUFFICES ASSUME Inv, [Next]_vars PROVE Inv'
  OBVIOUS
<1>1. ASSUME NEW r \in Requests, NEW ip \in IPs, Load(r, ip) PROVE Inv'
  BY <1>1, LoadInv
<1>2. ASSUME NEW r \in Requests, Admit(r) PROVE Inv'
  BY <1>2, AdmitInv
<1>3. ASSUME NEW r \in Requests, Reject(r) PROVE Inv'
  BY <1>3, RejectInv
<1>4. CASE StartCleanup
  BY <1>4, StartCleanupInv
<1>5. ASSUME NEW ip \in IPs, Judge(ip) PROVE Inv'
  BY <1>5, JudgeInv
<1>6. CASE Delete
  BY <1>6, DeleteInv
<1>7. CASE Tick
  BY <1>7, TickInv
<1>8. CASE UNCHANGED vars
  BY <1>8, StutterInv
<1> QED BY <1>1, <1>2, <1>3, <1>4, <1>5, <1>6, <1>7, <1>8 DEF Next

THEOREM Invariance == Spec => []Inv
<1> QED BY InitInv, NextInv, PTL DEF Spec

\* No bucket ever holds more than its burst, or less than nothing, whatever
\* requests and cleanups interleave with (allow, cleanup).
THEOREM TypeCorrect == Spec => []TypeOK
<1>1. Inv => TypeOK
  BY DEF Inv
<1> QED BY <1>1, Invariance, PTL

\* All that a client gets beyond a token bucket is what cleanup gives away:
\* what the deleted bucket lacked, and what requests still take from it.
THEOREM ExcessHolds == Spec => []ExcessIsBounded
<1>1. Inv => ExcessIsBounded
  BY DEF Inv
<1> QED BY <1>1, Invariance, PTL

-----------------------------------------------------------------------------
(* Retry-After.  As long as cleanup gave nothing away, a bucket it has     *)
(* deleted is still full for the requests that had loaded it, so that only *)
(* the bucket in the map is ever found empty.                              *)

\* Requests of two addresses never hold the same bucket.
Apart ==
  \A r, q \in Requests :
    /\ request[r].stage = "loaded" /\ request[q].stage = "loaded"
    /\ request[r].ip # request[q].ip
    => request[r].bucket # request[q].bucket

\* The bucket of r is the one in the map, or full.
Whole(r) ==
  request[r].stage = "loaded" /\ allowance[request[r].ip] = 0 =>
    request[r].bucket = buckets[request[r].ip] \/ Tokens(r) = Capacity

Waits(ip) ==
  promise[ip] # NULL /\ buckets[ip] # NULL /\ allowance[ip] = 0 =>
    Refilled(heap[buckets[ip]], Larger(promise[ip], now)) >= Cost

RetryInv == Apart /\ (\A r \in Requests : Whole(r)) /\ (\A ip \in IPs : Waits(ip))

LEMMA RefilledType ==
  ASSUME NEW b, Times(b), NEW t \in Nat
  PROVE  Refilled(b, t) \in Int
<1> DEFINE p == (t - b.lastSeen) * Rate
<1>1. p \in Int
  <2>1. t - b.lastSeen \in Int /\ Rate \in Int
    BY RateAssumption DEF Times
  <2> QED BY <2>1, Products
<1>2. Refilled(b, t) = Smaller(Capacity, b.tokens + p)
  BY DEF Refilled
<1> HIDE DEF p
<1> QED BY <1>1, <1>2, CapacityType DEF Smaller, Times

\* A bucket that nobody uses never holds less.
LEMMA RefilledGrows ==
  ASSUME NEW b, Times(b), NEW t \in Nat, NEW u \in Nat, b.lastSeen <= t, t <= u
  PROVE  Refilled(b, t) <= Refilled(b, u)
<1> DEFINE d == t - b.lastSeen
           e == u - t
<1>1. d \in Nat /\ e \in Nat /\ u - b.lastSeen = d + e
  BY DEF Times
<1>2. Rate \in Nat /\ Capacity \in Nat
  BY CapacityType, RateAssumption
<1> HIDE DEF d, e
<1>3. /\ d * Rate \in Nat /\ e * Rate \in Nat
      /\ (u - b.lastSeen) * Rate = d * Rate + e * Rate
  <2>1. \A x, y, z \in Nat : x * z \in Nat /\ y * z \in Nat /\ (x + y) * z = x * z + y * z
    OBVIOUS
  <2> QED BY <1>1, <1>2, <2>1
<1>4. /\ Refilled(b, t) = Smaller(Capacity, b.tokens + d * Rate)
      /\ Refilled(b, u) = Smaller(Capacity, b.tokens + (u - b.lastSeen) * Rate)
  BY DEF Refilled, d
<1> DEFINE p == d * Rate
           s == e * Rate
           v == (u - b.lastSeen) * Rate
<1> HIDE DEF p, s, v
<1>5. p \in Nat /\ s \in Nat /\ v = p + s
  BY <1>3 DEF p, s, v
<1>6. Refilled(b, t) = Smaller(Capacity, b.tokens + p) /\ Refilled(b, u) = Smaller(Capacity, b.tokens + v)
  BY <1>4 DEF p, v
<1> QED BY <1>2, <1>5, <1>6 DEF Smaller, Times

\* In the seconds that Retry-After names the bucket gains what it lacked.
LEMMA RetryAfterFills ==
  ASSUME NEW tokens \in Nat, tokens < Cost
  PROVE  tokens + (RetryAfter(tokens) * Second) * Rate >= Cost
<1> DEFINE u == Rate * Second
           k == (Cost - tokens) \div u
<1>1. u \in Nat \ {0} /\ Cost - tokens \in Nat
  BY Positive, RateAssumption
<1>2. \A a \in Nat, b \in Nat \ {0} : a \div b \in Nat /\ a < (a \div b) * b + b
  OBVIOUS
<1>3. k \in Nat /\ Cost - tokens < k * u + u
  <2> HIDE DEF u
  <2> QED BY <1>1, <1>2
<1>4. ((k + 1) * Second) * Rate = k * u + u
  <2>1. \A x, y, z \in Nat : ((x + 1) * y) * z = x * (z * y) + z * y
    OBVIOUS
  <2> HIDE DEF k
  <2> QED BY <1>3, <2>1, RateAssumption
<1>5. k * u \in Nat
  <2> HIDE DEF k, u
  <2> QED BY <1>1, <1>3, Products
<1>6. RetryAfter(tokens) = k + 1
  BY DEF RetryAfter
<1> HIDE DEF k, u
<1>7. (RetryAfter(tokens) * Second) * Rate = k * u + u
  BY <1>4, <1>6
<1> DEFINE w == (RetryAfter(tokens) * Second) * Rate
           p == k * u
<1> HIDE DEF w, p
<1>8. w = p + u /\ p \in Nat /\ Cost - tokens < p + u
  BY <1>3, <1>5, <1>7 DEF w, p
<1>9. tokens + w >= Cost
  BY <1>1, <1>8, RateAssumption
<1> QED BY <1>9 DEF w

LEMMA SameWhole ==
  ASSUME NEW q \in Requests, Whole(q), request'[q] = request[q], now' = now,
         request[q].stage = "loaded" =>
           /\ allowance'[request[q].ip] = allowance[request[q].ip]
           /\ buckets'[request[q].ip] = buckets[request[q].ip]
           /\ heap'[request[q].bucket] = heap[request[q].bucket]
  PROVE  Whole(q)'
<1>1. Tokens(q)' = Refilled(heap'[request'[q].bucket], now')
  BY DEF Tokens, Bucket, Refilled
<1>2. request[q].stage = "loaded" => Tokens(q)' = Tokens(q)
  BY <1>1 DEF Tokens, Bucket
<1> QED BY <1>2 DEF Whole

LEMMA SameWaits ==
  ASSUME NEW x \in IPs, Waits(x), now' = now, promise'[x] = promise[x],
         buckets'[x] = buckets[x], allowance'[x] = allowance[x],
         buckets[x] # NULL => heap'[buckets[x]] = heap[buckets[x]]
  PROVE  Waits(x)'
BY DEF Waits, Refilled, Larger

\* A full bucket answers every promise.
LEMMA FullSuffices ==
  ASSUME NEW b, Times(b), NEW t \in Nat, NEW u \in Nat, b.lastSeen <= t, t <= u,
         Refilled(b, t) = Capacity
  PROVE  Refilled(b, u) >= Cost
<1>1. Refilled(b, u) >= Capacity
  BY RefilledGrows
<1>2. Refilled(b, u) \in Int
  BY RefilledType
<1> QED BY <1>1, <1>2, CapacityType, RateAssumption


LEMMA RetryInit == Init => RetryInv
<1> SUFFICES ASSUME Init PROVE RetryInv
  OBVIOUS
<1>1. \A r \in Requests : request[r].stage = "idle"
  BY DEF Init, Idle
<1>2. \A ip \in IPs : promise[ip] = NULL
  BY DEF Init
<1> QED BY <1>1, <1>2 DEF RetryInv, Apart, Whole, Waits

LEMMA RetryLoad ==
  ASSUME Inv, RetryInv, NEW r \in Requests, NEW ip \in IPs, Load(r, ip)
  PROVE  RetryInv'
<1> USE DEF Inv, RetryInv
<1>1. /\ UNCHANGED <<now, cutoff, keys, doomed, cleanups, ideal, promise, allowance>>
      /\ request' = [request EXCEPT
           ![r] = [stage |-> "loaded", ip |-> ip, bucket |-> buckets'[ip]]]
  BY DEF Load, cleanupVars
<1>2. /\ request'[r].ip = ip /\ request'[r].bucket = buckets'[ip]
      /\ \A q \in Requests \ {r} : request'[q] = request[q]
  BY <1>1 DEF TypeOK
<1> DEFINE n == Len(heap) + 1
<1>3. CASE buckets[ip] = NULL
  <2>1. /\ heap' = Append(heap, FullBucket)
        /\ buckets' = [buckets EXCEPT ![ip] = n]
    BY <1>3 DEF Load
  <2>2. n \notin DOMAIN heap /\ heap'[n] = FullBucket /\ \A i \in DOMAIN heap : heap'[i] = heap[i]
    BY SMTT(30), <2>1 DEF TypeOK
  <2>3. n \in Nat /\ n # NULL
    BY NullAssumption DEF TypeOK
  <2>4. buckets'[ip] = n /\ \A x \in IPs \ {ip} : buckets'[x] = buckets[x]
    BY <2>1 DEF TypeOK
  <2> HIDE DEF n
  <2>5. \A q \in Requests : request[q].stage = "loaded" =>
          request[q].bucket \in DOMAIN heap /\ request[q].ip \in IPs
    BY SMTT(30) DEF TypeOK, Idle
  <2>6. Apart'
    BY <1>2, <2>2, <2>4, <2>5 DEF Apart
  <2>7. ASSUME NEW q \in Requests PROVE Whole(q)'
    <3>1. CASE q = r
      BY <1>2, <3>1 DEF Whole
    <3>2. CASE q # r
      <4>1. request'[q] = request[q] /\ now' = now /\ allowance' = allowance
        BY <1>1, <1>2, <3>2
      <4>2. CASE request[q].stage = "loaded" /\ request[q].ip # ip
        BY <2>2, <2>4, <2>5, <4>1, <4>2, SameWhole
      <4>3. CASE request[q].stage = "loaded" /\ request[q].ip = ip
        <5>1. request[q].bucket # NULL
          BY SMTT(30), <2>5, <4>3, NullAssumption DEF TypeOK
        <5>2. allowance'[ip] = 0 => Tokens(q) = Capacity
          BY <1>3, <4>1, <4>3, <5>1 DEF Whole
        <5>3. Tokens(q)' = Tokens(q)
          BY <2>2, <2>5, <4>1, <4>3 DEF Tokens, Bucket, Refilled
        <5> QED BY <4>1, <4>3, <5>2, <5>3 DEF Whole
      <4>4. CASE request[q].stage # "loaded"
        BY <4>1, <4>4 DEF Whole
      <4> QED BY <4>2, <4>3, <4>4
    <3> QED BY <3>1, <3>2
  <2>8. ASSUME NEW x \in IPs PROVE Waits(x)'
    <3>1. CASE x = ip
      <4>1. now \in Nat /\ FullBucket.lastSeen = now /\ Times(FullBucket)
            /\ Refilled(FullBucket, now) = Capacity
        BY CapacityType, JustUsed, RateAssumption DEF FullBucket, TypeOK, Times
      <4>2. promise[x] # NULL => Larger(promise[x], now) \in Nat /\ now <= Larger(promise[x], now)
        BY <4>1 DEF TypeOK, Larger
      <4>3. promise[x] # NULL => Refilled(FullBucket, Larger(promise[x], now)) >= Cost
        BY <4>1, <4>2, FullSuffices
      <4> QED BY <1>1, <2>2, <2>4, <3>1, <4>3 DEF Waits, Refilled, Larger
    <3>2. CASE x # ip
      <4>1. buckets[x] # NULL => buckets[x] \in DOMAIN heap
        BY DEF TypeOK
      <4> QED BY <1>1, <2>2, <2>4, <3>2, <4>1, SameWaits
    <3> QED BY <3>1, <3>2
  <2> QED BY <2>6, <2>7, <2>8
<1>4. CASE buckets[ip] # NULL
  <2>1. UNCHANGED <<heap, buckets>>
    BY <1>4 DEF Load
  <2>2. Apart'
    BY <1>2, <1>4, <2>1 DEF Apart, Separate
  <2>3. ASSUME NEW q \in Requests PROVE Whole(q)'
    <3>1. CASE q = r
      BY <1>2, <3>1 DEF Whole
    <3>2. CASE q # r
      BY <1>1, <1>2, <2>1, <3>2, SameWhole
    <3> QED BY <3>1, <3>2
  <2>4. ASSUME NEW x \in IPs PROVE Waits(x)'
    BY <1>1, <2>1, SameWaits
  <2> QED BY <2>2, <2>3, <2>4
<1> QED BY <1>3, <1>4

\* Admit and Reject: r uses its bucket n.
LEMMA RetryUse ==
  ASSUME Inv, RetryInv, NEW r \in Requests, request[r].stage = "loaded",
         NEW b, heap' = [heap EXCEPT ![request[r].bucket] = b],
         request' = [request EXCEPT ![r] = Idle],
         UNCHANGED <<now, buckets>>,
         \A x \in IPs \ {request[r].ip} : allowance'[x] = allowance[x] /\ promise'[x] = promise[x],
         buckets[request[r].ip] = request[r].bucket =>
           allowance'[request[r].ip] = allowance[request[r].ip],
         buckets[request[r].ip] # request[r].bucket => allowance'[request[r].ip] # 0
  PROVE  /\ Apart' /\ \A q \in Requests : Whole(q)'
         /\ \A x \in IPs \ {request[r].ip} : Waits(x)'
<1> USE DEF Inv, RetryInv
<1> DEFINE n == request[r].bucket
           ip == request[r].ip
<1>1. ip \in IPs /\ n \in DOMAIN heap
  BY LoadedFacts
<1>2. request'[r].stage = "idle" /\ \A q \in Requests \ {r} : request'[q] = request[q]
  BY DEF Idle, TypeOK
<1>3. \A i \in DOMAIN heap \ {n} : heap'[i] = heap[i]
  BY DEF TypeOK
<1>4. Apart'
  BY <1>2 DEF Apart
<1>5. ASSUME NEW q \in Requests PROVE Whole(q)'
  <2>1. CASE request'[q].stage # "loaded"
    BY <2>1 DEF Whole
  <2>2. CASE request'[q].stage = "loaded"
    <3>1. q # r /\ request'[q] = request[q] /\ request[q].stage = "loaded"
      BY <1>2, <2>2
    <3>2. request[q].ip \in IPs /\ request[q].bucket \in DOMAIN heap
      BY <3>1, LoadedFacts
    <3>3. CASE request[q].ip # ip
      <4>1. request[q].bucket # n
        BY <3>1, <3>3 DEF Apart
      <4> QED BY <1>3, <3>1, <3>2, <3>3, <4>1, SameWhole
    <3>4. CASE request[q].ip = ip /\ request[q].bucket = buckets[ip]
      BY <3>1, <3>4 DEF Whole
    <3>5. CASE request[q].ip = ip /\ request[q].bucket # buckets[ip]
      <4>1. CASE buckets[ip] = n
        BY <1>3, <3>1, <3>2, <3>5, <4>1, SameWhole
      <4>2. CASE buckets[ip] # n
        BY <3>1, <3>5, <4>2 DEF Whole
      <4> QED BY <4>1, <4>2
    <3> QED BY <3>3, <3>4, <3>5
  <2> QED BY <2>1, <2>2
<1>6. ASSUME NEW x \in IPs \ {ip} PROVE Waits(x)'
  <2>1. buckets[x] # NULL => buckets[x] \in DOMAIN heap /\ buckets[x] # n
    BY SMTT(30), <1>1 DEF Separate, TypeOK
  <2> QED BY <1>3, <2>1, SameWaits
<1> QED BY <1>4, <1>5, <1>6

LEMMA RetryAdmit ==
  ASSUME Inv, RetryInv, NEW r \in Requests, Admit(r) PROVE RetryInv'
<1> USE DEF Inv
<1>1. request[r].stage = "loaded" /\ request[r].ip \in IPs
  BY LoadedFacts DEF Admit
<1>0. PICK ip \in IPs : ip = request[r].ip
  BY <1>1
<1>2. allowance[ip] \in Nat /\ Cost \in Nat \ {0} /\ allowance \in [IPs -> Nat]
  BY <1>1, RateAssumption DEF TypeOK
<1>3. /\ \A x \in IPs \ {ip} : allowance'[x] = allowance[x] /\ promise'[x] = promise[x]
      /\ promise'[ip] = NULL
  BY <1>0 DEF Admit, TypeOK
<1>4. /\ buckets[ip] = request[r].bucket => allowance'[ip] = allowance[ip]
      /\ buckets[ip] # request[r].bucket => allowance'[ip] # 0
  <2>1. CASE buckets[ip] = request[r].bucket
    BY <1>0, <2>1 DEF Admit
  <2>2. CASE buckets[ip] # request[r].bucket
    <3>1. allowance'[ip] = allowance[ip] + Cost
      BY <1>0, <1>2, <2>2 DEF Admit
    <3> QED BY <1>2, <2>2, <3>1
  <2> QED BY <2>1, <2>2
<1>5. /\ heap' = [heap EXCEPT ![request[r].bucket] = [tokens |-> Tokens(r) - Cost, lastSeen |-> now]]
      /\ request' = [request EXCEPT ![r] = Idle] /\ UNCHANGED <<now, buckets>>
  BY DEF Admit
<1>6. /\ Apart' /\ \A q \in Requests : Whole(q)'
      /\ \A x \in IPs \ {ip} : Waits(x)'
  BY <1>0, <1>1, <1>3, <1>4, <1>5, RetryUse
<1>7. Waits(ip)'
  BY <1>3 DEF Waits
<1> QED BY <1>6, <1>7 DEF RetryInv

LEMMA RetryReject ==
  ASSUME Inv, RetryInv, NEW r \in Requests, Reject(r) PROVE RetryInv'
<1> USE DEF Inv
<1>1. /\ request[r].stage = "loaded" /\ request[r].ip \in IPs /\ Tokens(r) < Cost
      /\ request[r].bucket \in DOMAIN heap /\ Tokens(r) \in 0..Capacity /\ now \in Nat
  BY LoadedFacts DEF Reject
<1>0. PICK ip \in IPs : ip = request[r].ip
  BY <1>1
<1> DEFINE b == [tokens |-> Tokens(r), lastSeen |-> now]
           W == RetryAfter(Tokens(r)) * Second
<1>2. /\ heap' = [heap EXCEPT ![request[r].bucket] = b]
      /\ request' = [request EXCEPT ![r] = Idle] /\ UNCHANGED <<now, buckets, allowance>>
      /\ promise' = [promise EXCEPT ![ip] = now + W]
  BY <1>0 DEF Reject
<1>3. CASE buckets[ip] # request[r].bucket /\ allowance[ip] = 0
  \* It was found full, and is not rejected.
  <2>1. Tokens(r) = Capacity
    BY <1>0, <1>1, <1>3 DEF RetryInv, Whole
  <2> QED BY <1>1, <2>1, CapacityType, RateAssumption
<1>4. CASE buckets[ip] = request[r].bucket \/ allowance[ip] # 0
  <2>1. /\ Apart' /\ \A q \in Requests : Whole(q)'
        /\ \A x \in IPs \ {ip} : Waits(x)'
    <3>1. \A x \in IPs \ {ip} : promise'[x] = promise[x]
      BY <1>2 DEF TypeOK
    <3> QED BY <1>0, <1>1, <1>2, <1>4, <3>1, RetryUse
  <2>2. Waits(ip)'
    <3>1. CASE allowance[ip] # 0
      BY <1>1, <1>2, <3>1 DEF Waits
    <3>2. CASE buckets[ip] = request[r].bucket
      <4>1. heap'[buckets'[ip]] = b /\ promise'[ip] = now + W
        BY <1>1, <1>2, <3>2 DEF TypeOK
      <4>2. W \in Nat /\ Tokens(r) + W * Rate >= Cost
        <5>1. Tokens(r) \in Nat
          BY <1>1, CapacityType
        <5> QED BY <1>1, <5>1, RetryAfterType, RetryAfterFills
      <4> HIDE DEF W
      <4>3. Larger(now + W, now) = now + W /\ (now + W) - now = W
        BY <1>1, <4>2 DEF Larger
      <4>4. Refilled(b, now + W) >= Cost
        <5> DEFINE p == W * Rate
                   T == Tokens(r)
        <5>1. p \in Nat /\ T + p >= Cost /\ T \in Nat
          BY <1>1, <4>2, CapacityType, Products, RateAssumption
        <5>2. Refilled(b, now + W) = Smaller(Capacity, T + p)
          BY <4>3 DEF Refilled
        <5> HIDE DEF p, T
        <5> QED BY <5>1, <5>2, CapacityType, RateAssumption DEF Smaller
      <4> HIDE DEF b
      <4> QED BY <1>2, <4>1, <4>3, <4>4 DEF Waits, Refilled, Larger
    <3> QED BY <1>4, <3>1, <3>2
  <2> QED BY <2>1, <2>2 DEF RetryInv
<1> QED BY <1>3, <1>4

LEMMA RetryDelete == ASSUME Inv, RetryInv, Delete PROVE RetryInv'
<1> USE DEF Inv, RetryInv
<1>1. PICK ip \in IPs : ip = doomed
  BY DEF Delete, TypeOK
<1> DEFINE H == Refilled(heap[buckets[ip]], now)
<1>2. /\ buckets' = [buckets EXCEPT ![ip] = NULL]
      /\ allowance' = [allowance EXCEPT ![ip] = @ + Capacity - H]
      /\ UNCHANGED <<now, heap, request, promise>>
  BY <1>1 DEF Delete
<1>3. buckets[ip] \in DOMAIN heap
  BY <1>1, NullAssumption DEF Delete, KeysPresent, TypeOK
<1>4. H \in 0..Capacity /\ Capacity \in Nat /\ allowance[ip] \in Nat
  BY <1>3, HeapFacts, CapacityType DEF TypeOK
<1>5. /\ buckets'[ip] = NULL /\ allowance'[ip] = allowance[ip] + Capacity - H
      /\ \A x \in IPs \ {ip} : buckets'[x] = buckets[x] /\ allowance'[x] = allowance[x]
  BY <1>2 DEF TypeOK
<1>6. allowance'[ip] = 0 => allowance[ip] = 0 /\ H = Capacity
  <2>1. allowance'[ip] = allowance[ip] + Capacity - H
    BY <1>5
  <2> HIDE DEF H
  <2> QED BY ONLY <1>4, <2>1
<1>7. Apart'
  BY <1>2 DEF Apart
<1>8. ASSUME NEW q \in Requests PROVE Whole(q)'
  <2>1. CASE request[q].stage # "loaded"
    BY <1>2, <2>1 DEF Whole
  <2>2. CASE request[q].stage = "loaded" /\ request[q].ip # ip
    <3>1. request[q].ip \in IPs
      BY <2>2, LoadedFacts
    <3> QED BY <1>2, <1>5, <2>2, <3>1, SameWhole
  <2>3. CASE request[q].stage = "loaded" /\ request[q].ip = ip
    <3>1. Tokens(q)' = Tokens(q)
      BY <1>2 DEF Tokens, Bucket, Refilled
    <3>2. request[q].bucket = buckets[ip] => Tokens(q) = H
      BY DEF Tokens, Bucket
    <3> QED BY <1>2, <1>6, <2>3, <3>1, <3>2 DEF Whole
  <2> QED BY <2>1, <2>2, <2>3
<1>9. ASSUME NEW x \in IPs PROVE Waits(x)'
  <2>1. CASE x = ip
    BY <1>5, <2>1 DEF Waits
  <2>2. CASE x # ip
    BY <1>2, <1>5, <2>2, SameWaits
  <2> QED BY <2>1, <2>2
<1> QED BY <1>7, <1>8, <1>9

LEMMA RetryTick == ASSUME Inv, RetryInv, Tick PROVE RetryInv'
<1> USE DEF Inv, RetryInv
<1>1. now' = now + 1 /\ UNCHANGED <<buckets, heap, request, promise, allowance>>
  BY DEF Tick
<1>2. now \in Nat /\ Capacity \in Nat /\ Rate \in Nat
  BY CapacityType, RateAssumption DEF TypeOK
<1>3. Apart'
  BY <1>1 DEF Apart
<1>4. ASSUME NEW q \in Requests PROVE Whole(q)'
  <2>1. CASE request[q].stage # "loaded"
    BY <1>1, <2>1 DEF Whole
  <2>2. CASE request[q].stage = "loaded"
    <3>1. Tokens(q)' = Refilled(heap[request[q].bucket], now + 1)
      BY <1>1 DEF Tokens, Bucket, Refilled
    <3>2. Tokens(q)' = Smaller(Capacity, Tokens(q) + Rate) /\ Tokens(q) \in 0..Capacity
      BY <2>2, <3>1, LoadedFacts, HeapFacts
    <3>3. Tokens(q) = Capacity => Tokens(q)' = Capacity
      BY <1>2, <3>2 DEF Smaller
    <3> QED BY <1>1, <3>3 DEF Whole
  <2> QED BY <2>1, <2>2
<1>5. ASSUME NEW x \in IPs PROVE Waits(x)'
  <2> SUFFICES ASSUME promise[x] # NULL, buckets[x] # NULL, allowance[x] = 0
               PROVE  Refilled(heap[buckets[x]], Larger(promise[x], now + 1)) >= Cost
    BY <1>1 DEF Waits, Refilled, Larger
  <2> DEFINE b == heap[buckets[x]]
             t == Larger(promise[x], now)
             u == Larger(promise[x], now + 1)
  <2>1. promise[x] \in Nat /\ buckets[x] \in DOMAIN heap
    BY DEF TypeOK
  <2>2. t \in Nat /\ u \in Nat /\ now <= t /\ t <= u
    BY <1>2, <2>1 DEF Larger
  <2>3. Times(b) /\ b.lastSeen <= now
    BY <2>1, HeapFacts, CapacityType, RateAssumption DEF Times
  <2>4. Refilled(b, t) >= Cost
    BY DEF Waits
  <2> HIDE DEF b, t, u
  <2>5. b.lastSeen <= t
    BY <1>2, <2>2, <2>3 DEF Times
  <2>6. Refilled(b, t) <= Refilled(b, u)
    BY <2>2, <2>3, <2>5, RefilledGrows
  <2>7. Refilled(b, t) \in Int /\ Refilled(b, u) \in Int
    BY <2>2, <2>3, RefilledType
  <2>8. Refilled(b, u) >= Cost
    BY <2>4, <2>6, <2>7, RateAssumption
  <2> QED BY <2>8 DEF b, u
<1> QED BY <1>3, <1>4, <1>5

LEMMA RetryNext == Inv /\ RetryInv /\ [Next]_vars => RetryInv'
<1> SUFFICES ASSUME Inv, RetryInv, [Next]_vars PROVE RetryInv'
  OBVIOUS
<1>1. ASSUME NEW r \in Requests, NEW ip \in IPs, Load(r, ip) PROVE RetryInv'
  BY <1>1, RetryLoad
<1>2. ASSUME NEW r \in Requests, Admit(r) PROVE RetryInv'
  BY <1>2, RetryAdmit
<1>3. ASSUME NEW r \in Requests, Reject(r) PROVE RetryInv'
  BY <1>3, RetryReject
<1>4. ASSUME UNCHANGED <<now, buckets, heap, request, promise, allowance>> PROVE RetryInv'
  BY <1>4, SameWhole, SameWaits DEF RetryInv, Apart
<1>5. StartCleanup \/ (\E ip \in IPs : Judge(ip)) \/ UNCHANGED vars =>
        UNCHANGED <<now, buckets, heap, request, promise, allowance>>
  BY DEF StartCleanup, Judge, vars
<1> QED BY <1>1, <1>2, <1>3, <1>4, <1>5, RetryDelete, RetryTick DEF Next

\* A client that comes back when Retry-After says finds a token, unless another
\* request took it or cleanup gave one away, whatever the rate and the burst,
\* and however many of its requests were rejected through other references.
THEOREM RetryAfterHolds == Spec => []RetryAfterSuffices
<1>1. RetryInv => RetryAfterSuffices
  BY DEF RetryInv, Waits, RetryAfterSuffices
<1> QED BY <1>1, InitInv, NextInv, RetryInit, RetryNext, PTL DEF Spec
=============================================================================
