----------------------- MODULE TenantRateLimitProofs -----------------------
(***************************************************************************)
(* Theorems about TenantRateLimit, for every number of instances, calls    *)
(* and tenants, every quota and every length of a minute.                  *)
(***************************************************************************)
EXTENDS TenantRateLimit, FiniteSetTheorems, TLAPS

USE HostAssumption, EnvAssumption, ModeAssumption, RateAssumption

\* The requests for key k that are still to be counted
Pending(k) == {c \in Calls : at[c] \in Undecided /\ quota[c] = k}

(***************************************************************************)
(* The inductive invariant, in two parts.  Nothing is counted or passed on *)
(* that was not asked for, whatever the constants are: what is pending is  *)
(* not counted yet.  And if counters live for a minute at least, a counter *)
(* that has counted a request of a minute does not start over before that  *)
(* minute has ended.                                                       *)
(***************************************************************************)
Asked ==
    \A k \in Keys :
        /\ count[k] + Cardinality(Pending(k)) <= asked[k]
        /\ \A i \in Instances : bucket[i][k].count + Cardinality(Pending(k)) <= asked[k]
        /\ \A p \in Places : passed[p][k] + Cardinality(Pending(k)) <= asked[k]

\* of each request that is to be counted: its key, and the time
InTime ==
    \A c \in Calls : at[c] \in Undecided =>
        /\ quota[c] \in Keys
        /\ quota[c][2] * Minute <= now
        /\ now < (quota[c][2] + 1) * Minute + Linger

CountInv == TypeOK /\ Asked /\ InTime /\ LimitedOnlyBeyondQuota

RedisLives ==
    \A k \in Keys :
        /\ passed[Redis][k] <= count[k]
        /\ count[k] > 0 => lapse[k] >= (k[2] + 1) * Minute

BucketsLive ==
    \A i \in Instances, k \in Keys :
        /\ passed[i][k] <= bucket[i][k].count
        /\ bucket[i][k].count > 0 => bucket[i][k].start >= k[2] * Minute

QuotaInv == QuotaKept /\ RedisLives /\ BucketsLive

-----------------------------------------------------------------------------
\* The minute that a time falls into
LEMMA DivisionBounds ==
  ASSUME NEW n \in Nat, NEW m \in Nat \ {0}
  PROVE  /\ n \div m \in Nat
         /\ (n \div m) * m <= n
         /\ n < (n \div m + 1) * m
  OBVIOUS

LEMMA ProductGrows ==
  ASSUME NEW a \in Nat, NEW b \in Nat, NEW m \in Nat \ {0}, a <= b
  PROVE  a * m <= b * m
  OBVIOUS

LEMMA MinuteOf ==
  ASSUME NEW n \in 0 .. MaxTime
  PROVE  /\ n \div Minute \in Minutes
         /\ (n \div Minute) * Minute <= n
         /\ n < (n \div Minute + 1) * Minute
  <1> DEFINE q == n \div Minute
             r == MaxTime \div Minute
  <1>1. /\ q \in Nat /\ q * Minute <= n /\ n < (q + 1) * Minute
        /\ r \in Nat /\ MaxTime < (r + 1) * Minute
    BY DivisionBounds
  <1>2. ASSUME r + 1 <= q PROVE FALSE
    <2>1. (r + 1) * Minute <= q * Minute
      BY <1>1, <1>2, ProductGrows
    <2>2. (r + 1) * Minute \in Int /\ q * Minute \in Int
      BY <1>1
    <2> QED
      BY <1>1, <2>1, <2>2
  <1> QED
    BY <1>1, <1>2 DEF Minutes

\* Pending requests are counted as natural numbers
LEMMA PendingFinite ==
  ASSUME IsFiniteSet(Calls), NEW k
  PROVE  IsFiniteSet(Pending(k)) /\ Cardinality(Pending(k)) \in Nat
  BY FS_Subset, FS_CardinalityType DEF Pending

LEMMA PendingFinitePrime ==
  ASSUME IsFiniteSet(Calls), NEW k
  PROVE  IsFiniteSet(Pending(k)') /\ Cardinality(Pending(k)') \in Nat
  <1>1. Pending(k)' \subseteq Calls
    BY DEF Pending
  <1> QED
    BY <1>1, FS_Subset, FS_CardinalityType

\* a step that makes no request pending
LEMMA PendingShrinks ==
  ASSUME IsFiniteSet(Calls), NEW k, Pending(k)' \subseteq Pending(k)
  PROVE  /\ Cardinality(Pending(k)') \in Nat /\ Cardinality(Pending(k)) \in Nat
         /\ Cardinality(Pending(k)') <= Cardinality(Pending(k))
  BY PendingFinite, PendingFinitePrime, FS_Subset

\* a step after which call c is no longer pending
LEMMA PendingCounted ==
  ASSUME IsFiniteSet(Calls), NEW k, NEW c \in Pending(k), Pending(k)' = Pending(k) \ {c}
  PROVE  /\ Cardinality(Pending(k)') \in Nat /\ Cardinality(Pending(k)) \in Nat
         /\ Cardinality(Pending(k)) = Cardinality(Pending(k)') + 1
  <1>1. /\ IsFiniteSet(Pending(k))
        /\ Cardinality(Pending(k)) \in Nat /\ Cardinality(Pending(k)') \in Nat
    BY PendingFinite, PendingFinitePrime
  <1>2. Cardinality(Pending(k) \ {c}) = Cardinality(Pending(k)) - 1
    BY <1>1, FS_RemoveElement
  <1> QED
    BY <1>1, <1>2

\* a step that makes call c pending
LEMMA PendingAsked ==
  ASSUME IsFiniteSet(Calls), NEW k, NEW c, Pending(k)' \subseteq Pending(k) \cup {c}
  PROVE  /\ Cardinality(Pending(k)') \in Nat /\ Cardinality(Pending(k)) \in Nat
         /\ Cardinality(Pending(k)') <= Cardinality(Pending(k)) + 1
  <1>1. IsFiniteSet(Pending(k)) /\ Cardinality(Pending(k)) \in Nat
        /\ Cardinality(Pending(k)') \in Nat
    BY PendingFinite, PendingFinitePrime
  <1>2. /\ IsFiniteSet(Pending(k) \cup {c})
        /\ Cardinality(Pending(k) \cup {c}) <= Cardinality(Pending(k)) + 1
        /\ Cardinality(Pending(k) \cup {c}) \in Nat
    <2>1. Cardinality(Pending(k) \cup {c}) = IF c \in Pending(k) THEN Cardinality(Pending(k))
                                              ELSE Cardinality(Pending(k)) + 1
      BY <1>1, FS_AddElement
    <2>2. IsFiniteSet(Pending(k) \cup {c})
      BY <1>1, FS_AddElement
    <2> QED
      BY <1>1, <2>1, <2>2
  <1>3. Cardinality(Pending(k)') <= Cardinality(Pending(k) \cup {c})
    BY <1>2, FS_Subset
  <1> QED
    BY <1>1, <1>2, <1>3
-----------------------------------------------------------------------------
\* the parts of a step that concern getRedisClient
LEMMA ClientTypes ==
  ASSUME TypeOK
  PROVE  /\ \A c \in Calls : Host[c] \in Instances
         /\ NoRedis(Env) \in {"failed", "memory"}
  BY DEF TypeOK, NoRedis

LEMMA CountInit == IsFiniteSet(Calls) /\ Init => CountInv
  <1> SUFFICES ASSUME IsFiniteSet(Calls), Init PROVE CountInv
    OBVIOUS
  <1>1. TypeOK /\ InTime /\ LimitedOnlyBeyondQuota
    BY DEF Init, ClientInit, TypeOK, InTime, LimitedOnlyBeyondQuota, Undecided, NoBucket,
         ClientStates, ClientPhases, Keys, Minutes, Places, Redis
  <1>2. ASSUME NEW k \in Keys PROVE Cardinality(Pending(k)) = 0
    <2>1. Pending(k) = {}
      BY DEF Pending, Init, ClientInit, Undecided
    <2> QED
      BY <2>1, FS_EmptySet
  <1>3. Asked
    BY <1>2 DEF Init, Asked, NoBucket, Places, Redis
  <1> QED
    BY <1>1, <1>3 DEF CountInv

\* Call c has been counted, or has failed: all keys but its own are as before
LEMMA OnePendingLess ==
  ASSUME IsFiniteSet(Calls), TypeOK, NEW c \in Calls, at[c] \in Undecided,
         at' = [at EXCEPT ![c] = at'[c]], at'[c] \notin Undecided,
         \A d \in Calls \ {c} : quota'[d] = quota[d]
  PROVE  \A k \in Keys :
           /\ Cardinality(Pending(k)') \in Nat /\ Cardinality(Pending(k)) \in Nat
           /\ Cardinality(Pending(k)') <= Cardinality(Pending(k))
           /\ k = quota[c] => Cardinality(Pending(k)) = Cardinality(Pending(k)') + 1
  <1> TAKE k \in Keys
  <1>1. /\ Pending(k)' \subseteq Pending(k)
        /\ k = quota[c] => c \in Pending(k) /\ Pending(k)' = Pending(k) \ {c}
    BY DEF Pending, TypeOK
  <1> QED
    BY <1>1, PendingShrinks, PendingCounted

\* a step that only continues calls, or ends them
LEMMA NonePendingMore ==
  ASSUME IsFiniteSet(Calls), TypeOK,
         \A c \in Calls : at'[c] \in Undecided => at[c] \in Undecided /\ quota'[c] = quota[c]
  PROVE  \A k \in Keys :
           /\ Cardinality(Pending(k)') \in Nat /\ Cardinality(Pending(k)) \in Nat
           /\ Cardinality(Pending(k)') <= Cardinality(Pending(k))
  <1> TAKE k \in Keys
  <1>1. Pending(k)' \subseteq Pending(k)
    BY DEF Pending
  <1> QED
    BY <1>1, PendingShrinks

\* what Asked gives for one key
LEMMA AskedBounds ==
  ASSUME TypeOK, Asked, IsFiniteSet(Calls), NEW k \in Keys
  PROVE  /\ Cardinality(Pending(k)) \in Nat /\ count[k] \in Nat
         /\ asked[k] \in 0 .. MaxAsked
         /\ count[k] + Cardinality(Pending(k)) <= asked[k]
         /\ \A i \in Instances : /\ bucket[i][k].count \in Nat
                                 /\ bucket[i][k].count + Cardinality(Pending(k)) <= asked[k]
         /\ \A p \in Places : /\ passed[p][k] \in Nat
                              /\ passed[p][k] + Cardinality(Pending(k)) <= asked[k]
  BY PendingFinite DEF TypeOK, Asked

\* what a counter has let through is what it had, or nothing
LEMMA ThroughBound ==
  ASSUME TypeOK, NEW p \in Places, NEW k \in Keys, NEW n \in Nat
  PROVE  /\ Through(p, k, n) \in Nat
         /\ Through(p, k, n) <= passed[p][k]
         /\ Through(p, k, n) # passed[p][k] => n = 1 /\ MinuteOver(k) /\ Through(p, k, n) = 0
  BY DEF Through, TypeOK

\* the record of one counter changes
LEMMA PassedChanges ==
  ASSUME TypeOK, NEW p \in Places, NEW k \in Keys, NEW m \in 0 .. MaxAsked,
         passed' = [passed EXCEPT ![p][k] = m]
  PROVE  /\ passed' \in [Places -> [Keys -> 0 .. MaxAsked]]
         /\ \A q \in Places, j \in Keys :
              passed'[q][j] = IF q = p /\ j = k THEN m ELSE passed[q][j]
  <1>1. passed \in [Places -> [Keys -> 0 .. MaxAsked]]
    BY DEF TypeOK
  <1> HIDE DEF Places, Keys
  <1> QED
    BY <1>1

\* what Verdict does, whichever way it goes
LEMMA VerdictEffect ==
  ASSUME TypeOK, NEW c \in Calls, NEW p \in Places, NEW n \in Nat, quota[c] \in Keys,
         Verdict(c, p, n), passed[p][quota[c]] + 1 <= MaxAsked
  PROVE  /\ at' = [at EXCEPT ![c] = "idle"]
         /\ quota' = [quota EXCEPT ![c] = NoQuota]
         /\ passed' \in [Places -> [Keys -> 0 .. MaxAsked]]
         /\ \A q \in Places, j \in Keys :
              \/ passed'[q][j] = passed[q][j] /\ (q = p /\ j = quota[c] => n > Rpm)
              \/ /\ q = p /\ j = quota[c] /\ n <= Rpm
                 /\ passed'[q][j] = Through(p, quota[c], n) + 1
                 /\ passed'[q][j] \in Nat /\ passed'[q][j] <= passed[q][j] + 1
         /\ limited' = limited \/ (n > Rpm /\ limited' = limited \cup {quota[c]})
  <1>1. CASE n > Rpm
    BY <1>1 DEF Verdict, Over, TurnAway, TypeOK
  <1>2. CASE ~(n > Rpm)
    <2> DEFINE m == Through(p, quota[c], n) + 1
    <2>1. m \in 0 .. MaxAsked /\ m <= passed[p][quota[c]] + 1
      BY ThroughBound DEF TypeOK
    <2>2. passed' = [passed EXCEPT ![p][quota[c]] = m] /\ Over(c) /\ UNCHANGED limited
      BY <1>2 DEF Verdict, PassOn
    <2>3. /\ passed' \in [Places -> [Keys -> 0 .. MaxAsked]]
          /\ \A q \in Places, j \in Keys :
               passed'[q][j] = IF q = p /\ j = quota[c] THEN m ELSE passed[q][j]
      <3> DEFINE k == quota[c]
      <3>1. k \in Keys /\ m \in 0 .. MaxAsked /\ passed' = [passed EXCEPT ![p][k] = m]
        BY <2>1, <2>2
      <3>2. passed \in [Places -> [Keys -> 0 .. MaxAsked]]
        BY DEF TypeOK
      <3> HIDE DEF m, k
      <3>3. /\ passed' \in [Places -> [Keys -> 0 .. MaxAsked]]
            /\ \A q \in Places, j \in Keys :
                 passed'[q][j] = IF q = p /\ j = k THEN m ELSE passed[q][j]
        BY <3>1, <3>2
      <3> QED
        BY <3>3 DEF k
    <2> HIDE DEF m
    <2> QED
      BY <1>2, <2>1, <2>2, <2>3 DEF Over, m
  <1> QED
    BY <1>1, <1>2

\* what INCR and EXPIRE do
LEMMA IncrementEffect ==
  ASSUME TypeOK, NEW k \in Keys, Increment(k), Counted(k) + 1 <= MaxAsked
  PROVE  /\ count' \in [Keys -> 0 .. MaxAsked]
         /\ lapse' \in [Keys -> 0 .. (MaxTime + Expire)]
         /\ \A j \in Keys : /\ count'[j] = IF j = k THEN Counted(k) + 1 ELSE count[j]
                            /\ lapse'[j] = IF j = k THEN now + Expire ELSE lapse[j]
  <1>1. /\ count \in [Keys -> 0 .. MaxAsked] /\ lapse \in [Keys -> 0 .. (MaxTime + Expire)]
        /\ now + Expire \in 0 .. (MaxTime + Expire) /\ Counted(k) + 1 \in 0 .. MaxAsked
    BY DEF TypeOK, Counted
  <1> QED
    BY <1>1 DEF Increment

LEMMA CountStep ==
  ASSUME IsFiniteSet(Calls), CountInv, [Next]_vars PROVE CountInv'
  <1>t. TypeOK /\ Asked /\ InTime /\ LimitedOnlyBeyondQuota
    BY DEF CountInv
  <1>1. ASSUME NEW c \in Calls, NEW t \in Tenants, Ask(c, t) PROVE CountInv'
    <2> DEFINE k == <<t, now \div Minute>>
    <2>1. /\ k \in Keys /\ k[2] * Minute <= now /\ now < (k[2] + 1) * Minute
          /\ (k[2] + 1) * Minute \in Int
      <3>1. /\ now \div Minute \in Minutes /\ now \div Minute \in Int
            /\ (now \div Minute) * Minute <= now /\ now < (now \div Minute + 1) * Minute
        <4>1. now \in 0 .. MaxTime
          BY <1>t DEF TypeOK
        <4>2. \A m \in Minutes : m \in Int
          BY DEF Minutes
        <4> QED
          BY <4>1, <4>2, MinuteOf
      <3> DEFINE m == now \div Minute
      <3> HIDE DEF m
      <3>2. <<t, m>> \in Keys /\ <<t, m>>[2] = m /\ (m + 1) * Minute \in Int
        BY <3>1 DEF m, Keys
      <3> QED
        BY <3>1, <3>2 DEF m
    <2> HIDE DEF k
    <2>2. /\ client' \in [Instances -> ClientStates] /\ at' \in [Calls -> ClientPhases]
          /\ at[c] = "idle" /\ \A d \in Calls \ {c} : at'[d] = at[d]
      BY <1>1, <1>t, ClientTypes DEF Ask, GetRedisClient, TypeOK, ClientStates, ClientPhases
    <2>3. /\ asked[k] < MaxAsked /\ asked' = [asked EXCEPT ![k] = @ + 1]
          /\ quota' = [quota EXCEPT ![c] = k]
          /\ UNCHANGED <<up, now, count, lapse, bucket, passed, limited>>
      BY <1>1 DEF Ask, counters, verdicts, k
    <2>4. TypeOK'
      BY <1>t, <2>1, <2>2, <2>3 DEF TypeOK
    <2>5. ASSUME NEW j \in Keys
          PROVE  /\ Cardinality(Pending(j)') \in Nat /\ Cardinality(Pending(j)) \in Nat
                 /\ j # k => Cardinality(Pending(j)') <= Cardinality(Pending(j))
                 /\ Cardinality(Pending(j)') <= Cardinality(Pending(j)) + 1
      <3>1. Pending(j)' \subseteq Pending(j) \cup {c}
        BY <2>2, <2>3, <1>t DEF Pending, TypeOK
      <3>2. j # k => Pending(j)' \subseteq Pending(j)
        BY <2>2, <2>3, <1>t DEF Pending, TypeOK
      <3> QED
        BY <3>1, <3>2, PendingAsked, PendingShrinks
    <2>6. Asked'
      <3> SUFFICES ASSUME NEW j \in Keys
                   PROVE  /\ count[j] + Cardinality(Pending(j)') <= asked'[j]
                          /\ \A i \in Instances :
                               bucket[i][j].count + Cardinality(Pending(j)') <= asked'[j]
                          /\ \A p \in Places :
                               passed[p][j] + Cardinality(Pending(j)') <= asked'[j]
        BY <2>3 DEF Asked
      <3>1. asked'[j] = IF j = k THEN asked[j] + 1 ELSE asked[j]
        BY <2>1, <2>3, <1>t DEF TypeOK
      <3> QED
        BY <3>1, <2>5, <1>t, AskedBounds
    <2>7. InTime'
      BY <2>1, <2>2, <2>3, <1>t DEF InTime, TypeOK
    <2>8. LimitedOnlyBeyondQuota'
      BY <2>1, <2>3, <1>t DEF LimitedOnlyBeyondQuota, TypeOK
    <2> QED
      BY <2>4, <2>6, <2>7, <2>8 DEF CountInv
  <1>2. ASSUME NEW c \in Calls, RedisCount(c) PROVE CountInv'
    <2> DEFINE k == quota[c]
               n == Counted(k) + 1
    <2>1. /\ at[c] = "redis" /\ at[c] \in Undecided /\ k \in Keys /\ quota[c] = k
          /\ UNCHANGED <<up, client, now, bucket, asked>>
          /\ Increment(k) /\ Verdict(c, Redis, n)
      BY <1>2, <1>t DEF RedisCount, RateKey, InTime, Undecided
    <2>2. \A j \in Keys :
            /\ Cardinality(Pending(j)') \in Nat /\ Cardinality(Pending(j)) \in Nat
            /\ Cardinality(Pending(j)') <= Cardinality(Pending(j))
            /\ j = k => Cardinality(Pending(j)) = Cardinality(Pending(j)') + 1
      <3>1. at' = [at EXCEPT ![c] = at'[c]] /\ at'[c] \notin Undecided
            /\ \A d \in Calls \ {c} : quota'[d] = quota[d]
        BY <2>1, <1>t DEF Verdict, Over, TypeOK, Undecided
      <3> QED
        BY <2>1, <3>1, <1>t, OnePendingLess
    <2>3. n \in 1 .. asked[k] /\ n <= count[k] + 1 /\ asked[k] \in 0 .. MaxAsked
          /\ passed[Redis][k] + 1 <= asked[k]
      BY <2>1, <2>2, <1>t, AskedBounds DEF Counted, Places, Redis
    <2>i. Redis \in Places
      BY DEF Places
    <2>v. /\ at' = [at EXCEPT ![c] = "idle"]
          /\ quota' = [quota EXCEPT ![c] = NoQuota]
          /\ passed' \in [Places -> [Keys -> 0 .. MaxAsked]]
          /\ \A q \in Places, j \in Keys :
               \/ passed'[q][j] = passed[q][j]
               \/ j = k /\ passed'[q][j] \in Nat /\ passed'[q][j] <= passed[q][j] + 1
          /\ limited' = limited \/ (n > Rpm /\ limited' = limited \cup {k})
      <3> HIDE DEF k, n
      <3>1. n \in Nat /\ passed[Redis][k] + 1 <= MaxAsked
        BY <2>1, <2>3, <2>i, <1>t DEF TypeOK
      <3> QED
        BY <3>1, <2>1, <2>i, <1>t, VerdictEffect
    <2>c. /\ count' \in [Keys -> 0 .. MaxAsked]
          /\ lapse' \in [Keys -> 0 .. (MaxTime + Expire)]
          /\ \A j \in Keys : count'[j] = IF j = k THEN n ELSE count[j]
      BY <2>1, <2>3, <1>t, IncrementEffect
    <2> HIDE DEF k, n
    <2>4. TypeOK'
      BY <2>1, <2>v, <2>c, <1>t DEF TypeOK, ClientPhases
    <2>5. Asked'
      <3> SUFFICES ASSUME NEW j \in Keys
                   PROVE  /\ count'[j] + Cardinality(Pending(j)') <= asked[j]
                          /\ \A i \in Instances :
                               bucket[i][j].count + Cardinality(Pending(j)') <= asked[j]
                          /\ \A p \in Places :
                               passed'[p][j] + Cardinality(Pending(j)') <= asked[j]
        BY <2>1 DEF Asked
      <3>1. /\ Cardinality(Pending(j)) \in Nat /\ Cardinality(Pending(j)') \in Nat
            /\ Cardinality(Pending(j)') <= Cardinality(Pending(j))
            /\ j = k => Cardinality(Pending(j)) = Cardinality(Pending(j)') + 1
        BY <2>2
      <3>2. count'[j] + Cardinality(Pending(j)') <= asked[j]
        BY <2>c, <2>3, <3>1, <1>t, AskedBounds
      <3>3. \A p \in Places : passed'[p][j] + Cardinality(Pending(j)') <= asked[j]
        BY <2>v, <3>1, <1>t, AskedBounds
      <3> QED
        BY <3>1, <3>2, <3>3, <1>t, AskedBounds
    <2>6. InTime'
      BY <2>1, <2>v, <1>t DEF InTime, TypeOK, Undecided
    <2>7. LimitedOnlyBeyondQuota'
      BY <2>1, <2>v, <2>3, <1>t DEF LimitedOnlyBeyondQuota, TypeOK
    <2> QED
      BY <2>4, <2>5, <2>6, <2>7 DEF CountInv
  <1>3. ASSUME NEW c \in Calls, RedisDrop(c) PROVE CountInv'
    <2> DEFINE k == quota[c]
    <2>1. /\ at[c] = "redis" /\ at[c] \in Undecided /\ k \in Keys /\ quota[c] = k
          /\ UNCHANGED <<up, client, now, quota, bucket, asked, limited>>
          /\ \/ /\ Increment(k)
                /\ passed' = [passed EXCEPT ![Redis][k] = Through(Redis, k, Counted(k) + 1)]
             \/ UNCHANGED <<count, lapse, passed>>
          /\ at' = [at EXCEPT ![c] = "failed"]
      BY <1>3, <1>t DEF RedisDrop, RateKey, InTime, Undecided
    <2>2. \A j \in Keys :
            /\ Cardinality(Pending(j)') \in Nat /\ Cardinality(Pending(j)) \in Nat
            /\ Cardinality(Pending(j)') <= Cardinality(Pending(j))
            /\ j = k => Cardinality(Pending(j)) = Cardinality(Pending(j)') + 1
      <3>1. at' = [at EXCEPT ![c] = at'[c]] /\ at'[c] \notin Undecided
            /\ \A d \in Calls \ {c} : quota'[d] = quota[d]
        BY <2>1, <1>t DEF TypeOK, Undecided
      <3> QED
        BY <2>1, <3>1, <1>t, OnePendingLess
    <2>3. Counted(k) + 1 \in 1 .. asked[k] /\ asked[k] \in 0 .. MaxAsked
      BY <2>1, <2>2, <1>t, AskedBounds DEF Counted
    <2>c. /\ count' \in [Keys -> 0 .. MaxAsked]
          /\ lapse' \in [Keys -> 0 .. (MaxTime + Expire)]
          /\ \A j \in Keys : \/ count'[j] = count[j]
                             \/ j = k /\ count'[j] = Counted(k) + 1
      <3>1. CASE Increment(k)
        BY <2>1, <2>3, <1>t, <3>1, IncrementEffect
      <3>2. CASE UNCHANGED <<count, lapse>>
        BY <3>2, <1>t DEF TypeOK
      <3> QED
        BY <2>1, <3>1, <3>2
    <2>p. /\ passed' \in [Places -> [Keys -> 0 .. MaxAsked]]
          /\ \A q \in Places, j \in Keys :
               passed'[q][j] \in Nat /\ passed'[q][j] <= passed[q][j]
      <3> DEFINE n == Through(Redis, k, Counted(k) + 1)
      <3>1. Redis \in Places /\ Counted(k) + 1 \in Nat
        BY <2>3 DEF Places
      <3>2. /\ passed \in [Places -> [Keys -> 0 .. MaxAsked]]
            /\ n \in 0 .. MaxAsked /\ n <= passed[Redis][k]
        BY <2>1, <3>1, <1>t, ThroughBound DEF TypeOK
      <3> HIDE DEF n, k
      <3>3. CASE passed' = [passed EXCEPT ![Redis][k] = n]
        BY <2>1, <3>1, <3>2, <3>3, <1>t, PassedChanges
      <3>4. CASE UNCHANGED passed
        BY <3>2, <3>4
      <3> QED
        BY <2>1, <3>3, <3>4 DEF n
    <2> HIDE DEF k
    <2>4. TypeOK'
      BY <2>1, <2>c, <2>p, <1>t DEF TypeOK, ClientPhases
    <2>5. Asked'
      <3> SUFFICES ASSUME NEW j \in Keys
                   PROVE  /\ count'[j] + Cardinality(Pending(j)') <= asked[j]
                          /\ \A i \in Instances :
                               bucket[i][j].count + Cardinality(Pending(j)') <= asked[j]
                          /\ \A p \in Places :
                               passed'[p][j] + Cardinality(Pending(j)') <= asked[j]
        BY <2>1 DEF Asked
      <3>1. count[k] \in Nat /\ Counted(k) \in Nat /\ Counted(k) <= count[k]
        BY <2>1, <1>t DEF Counted, TypeOK
      <3> QED
        BY <3>1, <2>c, <2>p, <2>2, <2>3, <1>t, AskedBounds
    <2>6. InTime' /\ LimitedOnlyBeyondQuota'
      BY <2>1, <1>t DEF InTime, LimitedOnlyBeyondQuota, TypeOK, Undecided
    <2> QED
      BY <2>4, <2>5, <2>6 DEF CountInv
  <1>4. ASSUME NEW c \in Calls, MemoryCount(c) PROVE CountInv'
    <2> DEFINE k == quota[c]
               i == Host[c]
               old == bucket[i][k]
               new == IF old.count = 0 \/ now - old.start >= Expire
                      THEN [start |-> now, count |-> 1]
                      ELSE [old EXCEPT !.count = @ + 1]
    <2>1. /\ at[c] = "memory" /\ at[c] \in Undecided /\ k \in Keys /\ quota[c] = k
          /\ i \in Instances /\ i \in Places
          /\ UNCHANGED <<up, client, now, count, lapse, asked>>
          /\ bucket' = [bucket EXCEPT ![i][k] = new] /\ Verdict(c, i, new.count)
      BY <1>4, <1>t DEF MemoryCount, RateKey, InTime, Undecided, Places
    <2>2. \A j \in Keys :
            /\ Cardinality(Pending(j)') \in Nat /\ Cardinality(Pending(j)) \in Nat
            /\ Cardinality(Pending(j)') <= Cardinality(Pending(j))
            /\ j = k => Cardinality(Pending(j)) = Cardinality(Pending(j)') + 1
      <3>1. at' = [at EXCEPT ![c] = at'[c]] /\ at'[c] \notin Undecided
            /\ \A d \in Calls \ {c} : quota'[d] = quota[d]
        BY <2>1, <1>t DEF Verdict, Over, TypeOK, Undecided
      <3> QED
        BY <2>1, <3>1, <1>t, OnePendingLess
    <2>3. /\ new.count \in 1 .. asked[k] /\ new.count <= old.count + 1
          /\ asked[k] \in 0 .. MaxAsked /\ passed[i][k] + 1 <= asked[k]
          /\ new \in [start : 0 .. MaxTime, count : 0 .. MaxAsked]
      <3>1. old \in [start : 0 .. MaxTime, count : 0 .. MaxAsked] /\ now \in 0 .. MaxTime
        BY <2>1, <1>t DEF TypeOK
      <3>2. old.count + 1 <= asked[k] /\ passed[i][k] + 1 <= asked[k] /\ asked[k] \in 0 .. MaxAsked
        BY <2>1, <2>2, <1>t, AskedBounds
      <3> QED
        BY <3>1, <3>2
    <2>v. /\ at' = [at EXCEPT ![c] = "idle"]
          /\ quota' = [quota EXCEPT ![c] = NoQuota]
          /\ passed' \in [Places -> [Keys -> 0 .. MaxAsked]]
          /\ \A q \in Places, j \in Keys :
               \/ passed'[q][j] = passed[q][j]
               \/ j = k /\ passed'[q][j] \in Nat /\ passed'[q][j] <= passed[q][j] + 1
          /\ limited' = limited \/ (new.count > Rpm /\ limited' = limited \cup {k})
      <3> HIDE DEF k, i, new
      <3>1. new.count \in Nat /\ passed[i][k] + 1 <= MaxAsked
        BY <2>1, <2>3, <1>t DEF TypeOK
      <3> QED
        BY <3>1, <2>1, <1>t, VerdictEffect
    <2> HIDE DEF k, i, new
    <2>4. TypeOK'
      <3>1. bucket' \in [Instances -> [Keys -> [start : 0 .. MaxTime, count : 0 .. MaxAsked]]]
        BY <2>1, <2>3, <1>t DEF TypeOK
      <3> QED
        BY <2>1, <2>v, <3>1, <1>t DEF TypeOK, ClientPhases
    <2>5. Asked'
      <3> SUFFICES ASSUME NEW j \in Keys
                   PROVE  /\ count[j] + Cardinality(Pending(j)') <= asked[j]
                          /\ \A h \in Instances :
                               bucket'[h][j].count + Cardinality(Pending(j)') <= asked[j]
                          /\ \A p \in Places :
                               passed'[p][j] + Cardinality(Pending(j)') <= asked[j]
        BY <2>1 DEF Asked
      <3>1. \A h \in Instances : bucket'[h][j] = IF h = i /\ j = k THEN new ELSE bucket[h][j]
        BY <2>1, <1>t DEF TypeOK
      <3>2. /\ Cardinality(Pending(j)) \in Nat /\ Cardinality(Pending(j)') \in Nat
            /\ Cardinality(Pending(j)') <= Cardinality(Pending(j))
            /\ j = k => Cardinality(Pending(j)) = Cardinality(Pending(j)') + 1
        BY <2>2
      <3>3. count[j] + Cardinality(Pending(j)') <= asked[j]
        BY <3>2, <1>t, AskedBounds
      <3>4. \A p \in Places : passed'[p][j] + Cardinality(Pending(j)') <= asked[j]
        BY <2>v, <3>2, <1>t, AskedBounds
      <3>5. \A h \in Instances : bucket'[h][j].count + Cardinality(Pending(j)') <= asked[j]
        <4> TAKE h \in Instances
        <4>1. /\ bucket[h][j].count \in Nat /\ asked[j] \in Nat
              /\ bucket[h][j].count + Cardinality(Pending(j)) <= asked[j]
          BY <1>t, AskedBounds
        <4>2. CASE h = i /\ j = k
          BY <4>1, <4>2, <3>1, <3>2, <2>3 DEF k, i
        <4>3. CASE ~(h = i /\ j = k)
          BY <4>1, <4>3, <3>1, <3>2
        <4> QED
          BY <4>2, <4>3
      <3> QED
        BY <3>3, <3>4, <3>5
    <2>6. InTime'
      BY <2>1, <2>v, <1>t DEF InTime, TypeOK, Undecided
    <2>7. LimitedOnlyBeyondQuota'
      BY <2>1, <2>v, <2>3, <1>t DEF LimitedOnlyBeyondQuota, TypeOK
    <2> QED
      BY <2>4, <2>5, <2>6, <2>7 DEF CountInv
  <1>5. ASSUME \A c \in Calls : at'[c] \in Undecided => at[c] \in Undecided /\ quota'[c] = quota[c],
               \A i \in Instances, k \in Keys : \/ bucket'[i][k] = bucket[i][k]
                                                \/ bucket'[i][k].count = 0,
               \A p \in Places, k \in Keys : passed'[p][k] = passed[p][k] \/ passed'[p][k] = 0,
               UNCHANGED <<now, count, asked, limited>>, TypeOK'
        PROVE  CountInv'
    <2>1. \A j \in Keys :
            /\ Cardinality(Pending(j)') \in Nat /\ Cardinality(Pending(j)) \in Nat
            /\ Cardinality(Pending(j)') <= Cardinality(Pending(j))
      BY <1>5, <1>t, NonePendingMore
    <2>2. Asked'
      BY <1>5, <2>1, <1>t, AskedBounds DEF Asked
    <2>3. InTime' /\ LimitedOnlyBeyondQuota'
      BY <1>5, <1>t DEF InTime, LimitedOnlyBeyondQuota
    <2> QED
      BY <1>5, <2>2, <2>3 DEF CountInv
  <1>6. ASSUME NEW c \in Calls, Unavailable(c) PROVE CountInv'
    <2>1. TypeOK'
      <3>1. /\ at' = [at EXCEPT ![c] = "idle"] /\ quota' = [quota EXCEPT ![c] = NoQuota]
            /\ UNCHANGED <<up, client, now, count, lapse, bucket, asked, passed, limited>>
        BY <1>6 DEF Unavailable, Over, counters, verdicts
      <3>2. at' \in [Calls -> ClientPhases] /\ quota' \in [Calls -> Keys \cup {NoQuota}]
        BY <3>1, <1>t DEF TypeOK, ClientPhases
      <3> QED
        BY <3>1, <3>2, <1>t DEF TypeOK
    <2> QED
      BY <1>5, <1>6, <2>1, <1>t DEF Unavailable, Over, counters, verdicts, TypeOK, Undecided
  <1>7. ASSUME NEW i \in Instances, Connect(i) PROVE CountInv'
    <2>1. TypeOK'
      <3>1. /\ up' \in [Instances -> BOOLEAN] /\ client' \in [Instances -> ClientStates]
            /\ at' \in [Calls -> ClientPhases]
        <4>1. /\ up \in [Instances -> BOOLEAN] /\ client \in [Instances -> ClientStates]
              /\ at \in [Calls -> ClientPhases] /\ NoRedis(Env) \in ClientPhases
          BY <1>t, ClientTypes DEF TypeOK, ClientPhases
        <4>2. CASE ConnectResolved(i)
          BY <4>1, <4>2 DEF ConnectResolved, ClientPhases, ClientStates
        <4>3. CASE ConnectRejected(i)
          BY <4>1, <4>3 DEF ConnectRejected, ClientPhases, ClientStates
        <4>4. CASE ConnectionLost(i)
          BY <4>1, <4>4 DEF ConnectionLost, ClientStates
        <4> QED
          BY <1>7, <4>2, <4>3, <4>4 DEF Connect
      <3>2. UNCHANGED <<now, quota, count, lapse, bucket, asked, passed, limited>>
        BY <1>7 DEF Connect, rateRest, counters, verdicts
      <3> QED
        BY <3>1, <3>2, <1>t DEF TypeOK
    <2>2. \A c \in Calls : at'[c] \in Undecided => at[c] \in Undecided
      BY <1>7, <1>t DEF Connect, ConnectResolved, ConnectRejected, ConnectionLost, TypeOK, Undecided
    <2> QED
      BY <1>5, <1>7, <2>1, <2>2 DEF Connect, rateRest, counters, verdicts
  <1>8. ASSUME NEW i \in Instances, Recover(i) PROVE CountInv'
    <2>1. TypeOK'
      BY <1>8, <1>t DEF Recover, Restart, rateRest, counters, verdicts, TypeOK
    <2> QED
      BY <1>5, <1>8, <2>1 DEF Recover, Restart, rateRest, counters, verdicts
  <1>9. ASSUME NEW i \in MayCrash, Crash(i) PROVE CountInv'
    <2>1. TypeOK'
      BY <1>9, <1>t DEF Crash, Die, NoBucket, TypeOK, ClientPhases, ClientStates, Places
    <2>2. \A c \in Calls : at'[c] \in Undecided => at[c] \in Undecided /\ quota'[c] = quota[c]
      BY <1>9, <1>t DEF Crash, Die, TypeOK, Undecided
    <2>3. \A h \in Instances, k \in Keys : \/ bucket'[h][k] = bucket[h][k]
                                           \/ bucket'[h][k].count = 0
      BY <1>9, <1>t DEF Crash, NoBucket, TypeOK
    <2>4. \A p \in Places, k \in Keys : passed'[p][k] = passed[p][k] \/ passed'[p][k] = 0
      BY <1>9, <1>t DEF Crash, TypeOK
    <2> QED
      BY <1>5, <1>9, <2>1, <2>2, <2>3, <2>4 DEF Crash
  <1>10. CASE Tick
    <2>1. TypeOK'
      BY <1>10, <1>t DEF Tick, TypeOK, counters, verdicts
    <2>2. \A j \in Keys :
            /\ Cardinality(Pending(j)') \in Nat /\ Cardinality(Pending(j)) \in Nat
            /\ Cardinality(Pending(j)') <= Cardinality(Pending(j))
      BY <1>10, <1>t, NonePendingMore DEF Tick
    <2>3. Asked'
      BY <1>10, <2>2, <1>t, AskedBounds DEF Asked, Tick, counters, verdicts
    <2>4. InTime'
      <3> SUFFICES ASSUME NEW c \in Calls, at[c] \in Undecided
                   PROVE  /\ quota[c] \in Keys /\ quota[c][2] * Minute <= now + 1
                          /\ now + 1 < (quota[c][2] + 1) * Minute + Linger
        BY <1>10 DEF InTime, Tick
      <3>1. quota[c] \in Keys /\ quota[c][2] * Minute <= now
            /\ now + 1 < (quota[c][2] + 1) * Minute + Linger
        BY <1>10, <1>t DEF InTime, Tick
      <3>2. quota[c][2] * Minute \in Int /\ now \in Int
        BY <3>1, <1>t DEF Keys, Minutes, TypeOK
      <3> QED
        BY <3>1, <3>2
    <2>5. LimitedOnlyBeyondQuota'
      BY <1>10, <1>t DEF LimitedOnlyBeyondQuota, Tick, verdicts
    <2> QED
      BY <2>1, <2>3, <2>4, <2>5 DEF CountInv
  <1>11. ASSUME UNCHANGED vars PROVE CountInv'
    <2>1. TypeOK'
      BY <1>11, <1>t DEF vars, rateRest, counters, verdicts, TypeOK
    <2> QED
      BY <1>5, <1>11, <2>1 DEF vars, rateRest, counters, verdicts
  <1> QED
    BY <1>1, <1>2, <1>3, <1>4, <1>6, <1>7, <1>8, <1>9, <1>10, <1>11 DEF Next, PassUncounted

-----------------------------------------------------------------------------
\* a request that is still to be counted leaves room for one more
LEMMA RoomForOne ==
  ASSUME IsFiniteSet(Calls), CountInv, NEW c \in Calls, at[c] \in Undecided
  PROVE  /\ quota[c] \in Keys
         /\ count[quota[c]] + 1 <= MaxAsked
         /\ \A p \in Places : passed[p][quota[c]] + 1 <= MaxAsked
         /\ count[quota[c]] + 1 <= asked[quota[c]]
         /\ \A i \in Instances : bucket[i][quota[c]].count + 1 <= asked[quota[c]]
  <1> DEFINE k == quota[c]
  <1>1. k \in Keys /\ c \in Pending(k)
    BY DEF CountInv, InTime, Pending
  <1>2. Cardinality(Pending(k)) \in Nat /\ Cardinality(Pending(k)) # 0
    BY <1>1, PendingFinite, FS_EmptySet
  <1> HIDE DEF k
  <1>3. /\ asked[k] \in 0 .. MaxAsked /\ count[k] \in Nat
        /\ count[k] + Cardinality(Pending(k)) <= asked[k]
        /\ \A p \in Places : /\ passed[p][k] \in Nat
                             /\ passed[p][k] + Cardinality(Pending(k)) <= asked[k]
        /\ \A i \in Instances : /\ bucket[i][k].count \in Nat
                                /\ bucket[i][k].count + Cardinality(Pending(k)) <= asked[k]
    BY <1>1, AskedBounds DEF CountInv
  <1> DEFINE waiting == Cardinality(Pending(k))
             come == asked[k]
  <1> HIDE DEF waiting, come
  <1>4. \A n \in Nat : n + waiting <= come => n + 1 <= come /\ n + 1 <= MaxAsked
    BY <1>2, <1>3 DEF waiting, come
  <1>5. count[k] + 1 <= come /\ count[k] + 1 <= MaxAsked
    BY <1>3, <1>4 DEF waiting, come
  <1>6. \A p \in Places : passed[p][k] + 1 <= MaxAsked
    BY <1>3, <1>4 DEF waiting, come
  <1>7. \A i \in Instances : bucket[i][k].count + 1 <= come
    BY <1>3, <1>4 DEF waiting, come
  <1> QED
    BY <1>1, <1>5, <1>6, <1>7 DEF k, come

\* the minute of a key, from its start to its end
LEMMA MinuteSpan ==
  ASSUME NEW k \in Keys
  PROVE  /\ k[2] * Minute \in Int /\ (k[2] + 1) * Minute \in Int
         /\ (k[2] + 1) * Minute = k[2] * Minute + Minute
  <1> DEFINE m == k[2]
  <1>1. m \in Int
    BY DEF Keys, Minutes
  <1> HIDE DEF m
  <1>2. /\ m * Minute \in Int /\ (m + 1) * Minute \in Int
        /\ (m + 1) * Minute = m * Minute + Minute
    BY <1>1
  <1> QED
    BY <1>2 DEF m

\* once it has ended it is over
LEMMA MinuteEnds ==
  ASSUME TypeOK, NEW k \in Keys, (k[2] + 1) * Minute <= now PROVE MinuteOver(k)
  <1> DEFINE m == k[2]
             q == now \div Minute
  <1>1. m \in Nat /\ now \in Nat
    BY DEF Keys, Minutes, TypeOK
  <1>2. q \in Nat /\ now < (q + 1) * Minute
    BY <1>1, DivisionBounds
  <1>3. (m + 1) * Minute <= now
    OBVIOUS
  <1> HIDE DEF m, q
  <1>4. ASSUME q <= m PROVE FALSE
    <2>1. (q + 1) * Minute <= (m + 1) * Minute
      BY <1>1, <1>2, <1>4, ProductGrows
    <2>2. (q + 1) * Minute \in Int /\ (m + 1) * Minute \in Int
      BY <1>1, <1>2
    <2> QED
      BY <1>1, <1>2, <1>3, <2>1, <2>2
  <1>5. m < q
    BY <1>1, <1>2, <1>4
  <1> QED
    BY <1>5 DEF MinuteOver, m, q

\* A counter in Redis has let through no more than it has counted.  If it
\* starts over its minute has ended, so what it let through starts over too.
LEMMA RedisThrough ==
  ASSUME TypeOK, RedisLives, NEW k \in Keys
  PROVE  /\ Counted(k) \in Nat /\ Counted(k) <= count[k]
         /\ Through(Redis, k, Counted(k) + 1) \in Nat
         /\ Through(Redis, k, Counted(k) + 1) <= Counted(k)
  <1>1. /\ Redis \in Places /\ count[k] \in Nat /\ lapse[k] \in Nat /\ now \in Nat
        /\ passed[Redis][k] \in Nat /\ passed[Redis][k] <= count[k]
        /\ count[k] > 0 => lapse[k] >= (k[2] + 1) * Minute
    BY DEF TypeOK, RedisLives, Places
  <1>2. Counted(k) \in Nat /\ Counted(k) <= count[k]
    BY <1>1 DEF Counted
  <1>3. /\ Through(Redis, k, Counted(k) + 1) \in Nat
        /\ Through(Redis, k, Counted(k) + 1) <= passed[Redis][k]
    BY <1>1, <1>2, ThroughBound
  <1>4. CASE Counted(k) = count[k]
    BY <1>1, <1>2, <1>3, <1>4
  <1>5. CASE Counted(k) # count[k]
    <2>1. Counted(k) = 0 /\ lapse[k] <= now /\ count[k] > 0
      BY <1>1, <1>5 DEF Counted
    <2>2. MinuteOver(k)
      <3>1. (k[2] + 1) * Minute <= now
        BY <1>1, <2>1, MinuteSpan
      <3> QED
        BY <3>1, MinuteEnds
    <2>3. Through(Redis, k, Counted(k) + 1) = 0
      BY <2>1, <2>2 DEF Through
    <2> QED
      BY <1>2, <2>1, <2>3
  <1> QED
    BY <1>4, <1>5

\* the bucket after one more request
Refreshed(old) == IF old.count = 0 \/ now - old.start >= Expire
                  THEN [start |-> now, count |-> 1]
                  ELSE [old EXCEPT !.count = @ + 1]

\* The same for a bucket in a process, counting a request of a minute that
\* has begun.
LEMMA BucketThrough ==
  ASSUME Expire >= Minute, TypeOK, BucketsLive, NEW i \in Instances, NEW k \in Keys,
         k[2] * Minute <= now
  PROVE  LET new == Refreshed(bucket[i][k]) IN
         /\ new.count \in Nat /\ new.count <= bucket[i][k].count + 1
         /\ new.start >= k[2] * Minute
         /\ Through(i, k, new.count) \in Nat
         /\ Through(i, k, new.count) + 1 <= new.count
  <1> DEFINE old == bucket[i][k]
             new == Refreshed(old)
  <1>1. /\ i \in Places /\ now \in Nat /\ passed[i][k] \in Nat /\ passed[i][k] <= old.count
        /\ old \in [start : 0 .. MaxTime, count : 0 .. MaxAsked]
        /\ old.count > 0 => old.start >= k[2] * Minute
    BY DEF TypeOK, BucketsLive, Places
  <1>2. /\ k[2] * Minute \in Int /\ (k[2] + 1) * Minute \in Int
        /\ (k[2] + 1) * Minute = k[2] * Minute + Minute
    BY MinuteSpan
  <1> DEFINE begin == k[2] * Minute
  <1> HIDE DEF old, begin
  <1>3. new.count \in Nat /\ new.count <= old.count + 1 /\ new.start >= begin
    BY <1>1, <1>2 DEF begin, Refreshed
  <1>4. Through(i, k, new.count) \in Nat /\ Through(i, k, new.count) <= passed[i][k]
    BY <1>1, <1>3, ThroughBound
  <1>5. ASSUME new.count = old.count + 1 PROVE Through(i, k, new.count) + 1 <= new.count
    <2> DEFINE x == Through(i, k, new.count)
               n == new.count
    <2> HIDE DEF new, x, n
    <2>1. /\ x \in Nat /\ x <= passed[i][k] /\ passed[i][k] <= old.count
          /\ n = old.count + 1 /\ old.count \in Nat /\ passed[i][k] \in Nat
      BY <1>1, <1>4, <1>5 DEF x, n
    <2>2. x + 1 <= n
      BY <2>1
    <2> QED
      BY <2>2 DEF x, n
  <1>6. ASSUME new.count # old.count + 1 PROVE Through(i, k, new.count) + 1 <= new.count
    <2>1. old.count > 0 /\ now - old.start >= Expire /\ new.count = 1
      BY <1>1, <1>6 DEF Refreshed
    <2>2. (k[2] + 1) * Minute <= now
      <3> DEFINE end == (k[2] + 1) * Minute
      <3> HIDE DEF end
      <3>1. begin \in Int /\ end = begin + Minute
        BY <1>2 DEF begin, end
      <3>2. old.start >= begin /\ old.start \in Int /\ now \in Int
        BY <1>1, <2>1 DEF begin
      <3>3. end <= now
        BY <2>1, <3>1, <3>2
      <3> QED
        BY <3>3 DEF end
    <2>3. MinuteOver(k)
      BY <2>2, MinuteEnds
    <2>4. Through(i, k, new.count) = 0
      BY <2>1, <2>3 DEF Through
    <2> QED
      BY <2>1, <2>4
  <1> QED
    BY <1>3, <1>4, <1>5, <1>6 DEF old, begin

LEMMA QuotaInit == Init => QuotaInv
  BY DEF Init, QuotaInv, QuotaKept, RedisLives, BucketsLive, NoBucket, Places, Redis

LEMMA QuotaStep ==
  ASSUME IsFiniteSet(Calls), Expire >= Minute, CountInv, QuotaInv, [Next]_vars
  PROVE  QuotaInv'
  <1>t. /\ TypeOK /\ Redis \in Places /\ \A i \in Instances : i \in Places /\ i # Redis
        /\ QuotaKept /\ RedisLives /\ BucketsLive
        /\ \A q \in Places, j \in Keys : passed[q][j] \in Nat
    BY DEF CountInv, QuotaInv, Places, Redis, TypeOK
  <1>1. ASSUME UNCHANGED <<count, lapse, bucket, passed>> PROVE QuotaInv'
    BY <1>1, <1>t DEF QuotaInv, QuotaKept, RedisLives, BucketsLive
  \* the counter of k in Redis is incremented, and lets m requests through
  <1>2. ASSUME NEW k \in Keys, k[2] * Minute <= now, Increment(k), Counted(k) + 1 <= MaxAsked,
               UNCHANGED bucket,
               \A q \in Places, j \in Keys :
                 \/ passed'[q][j] = passed[q][j] /\ (q = Redis => j # k)
                 \/ /\ q = Redis /\ j = k /\ passed'[q][j] \in Nat
                    /\ passed'[q][j] <= Rpm /\ passed'[q][j] <= Counted(k) + 1
        PROVE  QuotaInv'
    <2>1. \A j \in Keys : /\ count'[j] = IF j = k THEN Counted(k) + 1 ELSE count[j]
                          /\ lapse'[j] = IF j = k THEN now + Expire ELSE lapse[j]
      BY <1>2, <1>t, IncrementEffect
    <2>2. now + Expire >= (k[2] + 1) * Minute
      <3>1. now \in Int
        BY <1>t DEF TypeOK
      <3> QED
        BY <3>1, <1>2, MinuteSpan
    <2>3. RedisLives'
      <3> SUFFICES ASSUME NEW j \in Keys
                   PROVE  /\ passed'[Redis][j] <= count'[j]
                          /\ count'[j] > 0 => lapse'[j] >= (j[2] + 1) * Minute
        BY DEF RedisLives
      <3> QED
        BY <1>2, <2>1, <2>2, <1>t DEF RedisLives
    <2>4. QuotaKept' /\ BucketsLive'
      BY <1>2, <1>t DEF QuotaKept, BucketsLive
    <2> QED
      BY <2>3, <2>4 DEF QuotaInv
  <1>3. ASSUME NEW c \in Calls, RedisCount(c) \/ RedisDrop(c) PROVE QuotaInv'
    <2> DEFINE k == quota[c]
               n == Counted(k) + 1
    <2>1. at[c] \in Undecided /\ UNCHANGED bucket
      BY <1>3 DEF RedisCount, RedisDrop, Undecided
    <2>2. /\ k \in Keys /\ count[k] \in Nat /\ count[k] + 1 <= MaxAsked
          /\ passed[Redis][k] + 1 <= MaxAsked /\ k[2] * Minute <= now
      BY <2>1, <1>t, RoomForOne DEF TypeOK, CountInv, InTime
    <2>3. /\ n \in Nat /\ n <= MaxAsked /\ Counted(k) \in Nat
          /\ Through(Redis, k, n) \in Nat /\ Through(Redis, k, n) <= n - 1
      <3>1. /\ Counted(k) \in Nat /\ Counted(k) <= count[k]
            /\ Through(Redis, k, n) \in Nat /\ Through(Redis, k, n) <= Counted(k)
        BY <2>2, <1>t, RedisThrough
      <3>2. MaxAsked \in Nat
        OBVIOUS
      <3> DEFINE x == Through(Redis, k, n)
                 y == Counted(k)
      <3> HIDE DEF x, y
      <3>3. x \in Nat /\ y \in Nat /\ x <= y /\ y <= count[k] /\ n = y + 1
        BY <3>1 DEF x, y
      <3>4. n \in Nat /\ n <= MaxAsked /\ x <= n - 1
        BY <3>2, <3>3, <2>2
      <3> QED
        BY <3>3, <3>4 DEF x, y
    <2>s. Through(Redis, k, n) <= passed[Redis][k] /\ passed[Redis][k] <= Rpm
      BY <2>2, <2>3, <1>t, ThroughBound DEF QuotaKept
    <2>4. CASE RedisCount(c)
      <3>1. Increment(k) /\ Verdict(c, Redis, n)
        BY <2>4 DEF RedisCount, RateKey
      <3>2. \A q \in Places, j \in Keys :
              \/ passed'[q][j] = passed[q][j] /\ (q = Redis /\ j = k => n > Rpm)
              \/ /\ q = Redis /\ j = k /\ n <= Rpm
                 /\ passed'[q][j] = Through(Redis, k, n) + 1
        BY <3>1, <2>2, <2>3, <1>t, VerdictEffect
      <3> DEFINE x == Through(Redis, k, n)
      <3> HIDE DEF x, n, k
      <3>3. \A q \in Places, j \in Keys :
              \/ passed'[q][j] = passed[q][j] /\ (q = Redis => j # k)
              \/ /\ q = Redis /\ j = k /\ passed'[q][j] \in Nat
                 /\ passed'[q][j] <= Rpm /\ passed'[q][j] <= n
        BY <3>2, <2>2, <2>3, <2>s, <1>t DEF x
      <3> QED
        BY <1>2, <2>1, <2>2, <2>3, <3>1, <3>3 DEF n
    <2>5. CASE RedisDrop(c)
      <3>1. CASE UNCHANGED <<count, lapse, passed>>
        BY <1>1, <2>1, <3>1
      <3>2. CASE /\ Increment(k)
                 /\ passed' = [passed EXCEPT ![Redis][k] = Through(Redis, k, n)]
        <4> DEFINE x == Through(Redis, k, n)
        <4> HIDE DEF x, n, k
        <4>1. x \in 0 .. MaxAsked
          <5>1. passed[Redis][k] \in Nat /\ passed[Redis][k] + 1 <= MaxAsked
            BY <2>2, <1>t
          <5>2. x \in Nat /\ x <= passed[Redis][k]
            BY <2>3, <2>s DEF x
          <5> QED
            BY <5>1, <5>2
        <4>2. \A q \in Places, j \in Keys :
                passed'[q][j] = IF q = Redis /\ j = k THEN x ELSE passed[q][j]
          <5>1. passed' = [passed EXCEPT ![Redis][k] = x] /\ k \in Keys
            BY <2>2, <3>2 DEF x
          <5>2. TypeOK /\ Redis \in Places
            BY <1>t
          <5> QED
            BY <5>1, <5>2, <4>1, PassedChanges
        <4>3. \A q \in Places, j \in Keys :
                \/ passed'[q][j] = passed[q][j] /\ (q = Redis => j # k)
                \/ /\ q = Redis /\ j = k /\ passed'[q][j] \in Nat
                   /\ passed'[q][j] <= Rpm /\ passed'[q][j] <= n
          BY <4>2, <4>1, <2>2, <2>3, <2>s, <1>t DEF x
        <4> QED
          BY <1>2, <2>1, <2>2, <2>3, <3>2, <4>3 DEF n
      <3> QED
        BY <2>5, <3>1, <3>2 DEF RedisDrop, RateKey
    <2> QED
      BY <1>3, <2>4, <2>5
  <1>4. ASSUME NEW c \in Calls, MemoryCount(c) PROVE QuotaInv'
    <2> DEFINE k == quota[c]
               i == Host[c]
               new == Refreshed(bucket[i][k])
    <2>1. /\ at[c] \in Undecided /\ i \in Instances /\ UNCHANGED <<count, lapse, now>>
          /\ bucket' = [bucket EXCEPT ![i][k] = new] /\ Verdict(c, i, new.count)
      BY <1>4 DEF MemoryCount, RateKey, Undecided, Refreshed
    <2>2. /\ k \in Keys /\ passed[i][k] + 1 <= MaxAsked /\ k[2] * Minute <= now
      BY <2>1, <1>t, RoomForOne DEF CountInv, InTime
    <2>3. /\ new.count \in Nat /\ new.start >= k[2] * Minute
          /\ Through(i, k, new.count) \in Nat
          /\ Through(i, k, new.count) + 1 <= new.count
      BY <2>1, <2>2, <1>t, BucketThrough
    <2>4. \A h \in Instances, j \in Keys :
            bucket'[h][j] = IF h = i /\ j = k THEN new ELSE bucket[h][j]
      BY <2>1, <2>2, <1>t DEF TypeOK
    <2>5. \A q \in Places, j \in Keys :
            \/ passed'[q][j] = passed[q][j] /\ (q = i /\ j = k => new.count > Rpm)
            \/ /\ q = i /\ j = k /\ new.count <= Rpm
               /\ passed'[q][j] = Through(i, k, new.count) + 1
      <3> HIDE DEF i, new
      <3> QED
        BY <2>1, <2>2, <2>3, <1>t, VerdictEffect
    <2> DEFINE x == Through(i, k, new.count)
    <2> HIDE DEF k, i, new, x
    <2>6. \A q \in Places, j \in Keys :
            \/ passed'[q][j] = passed[q][j] /\ (q = i => j # k)
            \/ /\ q = i /\ j = k /\ passed'[q][j] \in Nat
               /\ passed'[q][j] <= Rpm /\ passed'[q][j] <= new.count
      BY <2>1, <2>2, <2>3, <2>5, <1>t DEF QuotaKept, x
    <2>7. QuotaKept'
      BY <2>6, <1>t DEF QuotaKept
    <2>8. RedisLives'
      BY <2>1, <2>6, <1>t DEF RedisLives
    <2>9. BucketsLive'
      BY <2>1, <2>2, <2>3, <2>4, <2>6, <1>t DEF BucketsLive
    <2> QED
      BY <2>7, <2>8, <2>9 DEF QuotaInv
  <1>5. ASSUME NEW i \in MayCrash, Crash(i) PROVE QuotaInv'
    <2>1. /\ i \in Instances /\ UNCHANGED <<count, lapse>>
          /\ \A q \in Places, j \in Keys : passed'[q][j] = IF q = i THEN 0 ELSE passed[q][j]
          /\ \A h \in Instances, j \in Keys :
               bucket'[h][j] = IF h = i THEN NoBucket ELSE bucket[h][j]
      BY <1>5, <1>t DEF Crash, TypeOK
    <2> QED
      BY <2>1, <1>t DEF QuotaInv, QuotaKept, RedisLives, BucketsLive, NoBucket
  <1>6. ASSUME NEW c \in Calls, (\E t \in Tenants : Ask(c, t)) \/ PassUncounted(c) \/ Unavailable(c)
        PROVE  QuotaInv'
    BY <1>1, <1>6 DEF Ask, PassUncounted, Unavailable, counters, verdicts, vars, rateRest
  <1>7. ASSUME NEW i \in Instances, Connect(i) \/ Recover(i) PROVE QuotaInv'
    BY <1>1, <1>7 DEF Connect, Recover, rateRest, counters, verdicts
  <1>8. CASE Tick \/ UNCHANGED vars
    BY <1>1, <1>8 DEF Tick, vars, rateRest, counters, verdicts
  <1> QED
    BY <1>3, <1>4, <1>5, <1>6, <1>7, <1>8 DEF Next

-----------------------------------------------------------------------------
\* The types hold, so no counter ever exceeds what was asked for.
THEOREM TypeCorrect == IsFiniteSet(Calls) => (Spec => []TypeOK)
  <1> SUFFICES ASSUME IsFiniteSet(Calls) PROVE Spec => []TypeOK
    OBVIOUS
  <1>1. Init => CountInv
    BY CountInit
  <1>2. CountInv /\ [Next]_vars => CountInv'
    BY CountStep
  <1>3. CountInv => TypeOK
    BY DEF CountInv
  <1> QED
    BY <1>1, <1>2, <1>3, PTL DEF Spec

\* A tenant is limited only in a minute in which it asked for more than its
\* quota, wherever the requests were counted (index.js:50-61).
THEOREM LimitedFairly == IsFiniteSet(Calls) => (Spec => []LimitedOnlyBeyondQuota)
  <1> SUFFICES ASSUME IsFiniteSet(Calls) PROVE Spec => []LimitedOnlyBeyondQuota
    OBVIOUS
  <1>1. Init => CountInv
    BY CountInit
  <1>2. CountInv /\ [Next]_vars => CountInv'
    BY CountStep
  <1>3. CountInv => LimitedOnlyBeyondQuota
    BY DEF CountInv
  <1> QED
    BY <1>1, <1>2, <1>3, PTL DEF Spec

\* No counter, in Redis or in a process, lets a tenant pass more often than
\* its quota within the minute, nor from any later start over of the counter
\* on, however late requests come to be counted, if counters live for a minute
\* at least, as those of index.js:53 do (index.js:43-63, redis-state.js:98-114).
THEOREM QuotaIsKept ==
    IsFiniteSet(Calls) /\ Expire >= Minute => (Spec => []QuotaKept)
  <1> SUFFICES ASSUME IsFiniteSet(Calls), Expire >= Minute PROVE Spec => []QuotaKept
    OBVIOUS
  <1>1. Init => CountInv /\ QuotaInv
    BY CountInit, QuotaInit
  <1>2. CountInv /\ QuotaInv /\ [Next]_vars => (CountInv /\ QuotaInv)'
    BY CountStep, QuotaStep
  <1>3. CountInv /\ QuotaInv => QuotaKept
    BY DEF QuotaInv
  <1> QED
    BY <1>1, <1>2, <1>3, PTL DEF Spec

-----------------------------------------------------------------------------
\* Of each counter: it was last counted in time, and lives Expire from then.
LapseInTime == \A k \in Keys : lapse[k] < (k[2] + 1) * Minute + Linger + Expire

\* the bound of a key is a number, and positive
LEMMA LapseBound ==
  ASSUME NEW k \in Keys
  PROVE  (k[2] + 1) * Minute \in Int /\ (k[2] + 1) * Minute > 0
  <1> DEFINE m == k[2]
  <1>1. m \in Nat
    BY DEF Keys, Minutes
  <1> HIDE DEF m
  <1>2. (m + 1) * Minute \in Int /\ (m + 1) * Minute > 0
    BY <1>1
  <1> QED
    BY <1>2 DEF m

LEMMA LapseInit == Init => LapseInTime
  BY LapseBound DEF Init, LapseInTime

LEMMA LapseStep ==
  ASSUME IsFiniteSet(Calls), CountInv, LapseInTime, [Next]_vars PROVE LapseInTime'
  <1>1. ASSUME UNCHANGED lapse PROVE LapseInTime'
    BY <1>1 DEF LapseInTime
  <1>2. ASSUME NEW c \in Calls, at[c] \in Undecided, Increment(quota[c]) PROVE LapseInTime'
    <2> DEFINE k == quota[c]
    <2>1. k \in Keys /\ now < (k[2] + 1) * Minute + Linger /\ now \in Int
      BY <1>2 DEF CountInv, InTime, TypeOK
    <2>2. (k[2] + 1) * Minute \in Int
      BY <2>1, LapseBound
    <2> HIDE DEF k
    <2>3. now + Expire < (k[2] + 1) * Minute + Linger + Expire
      BY <2>1, <2>2
    <2>4. \A j \in Keys : lapse'[j] = IF j = k THEN now + Expire ELSE lapse[j]
      BY <1>2, <2>1 DEF Increment, CountInv, TypeOK, k
    <2> QED
      BY <2>3, <2>4 DEF LapseInTime
  <1>3. ASSUME NEW c \in Calls, RedisCount(c) \/ RedisDrop(c) PROVE LapseInTime'
    BY <1>1, <1>2, <1>3 DEF RedisCount, RedisDrop, RateKey, Undecided
  <1>4. ASSUME NEW c \in Calls, \/ \E t \in Tenants : Ask(c, t)
                                \/ PassUncounted(c) \/ MemoryCount(c) \/ Unavailable(c)
        PROVE  LapseInTime'
    BY <1>1, <1>4 DEF Ask, PassUncounted, MemoryCount, Unavailable, counters, vars, rateRest
  <1>5. ASSUME NEW i \in Instances, Connect(i) \/ Recover(i) \/ Crash(i) PROVE LapseInTime'
    BY <1>1, <1>5 DEF Connect, Recover, Crash, rateRest, counters
  <1>6. CASE Tick \/ UNCHANGED vars
    BY <1>1, <1>6 DEF Tick, vars, rateRest, counters
  <1> QED
    BY <1>3, <1>4, <1>5, <1>6 DEF Next

\* No counter lives longer than Expire after the last moment at which a
\* request of its minute can be counted, so none limits a later minute, and
\* Redis forgets them all (redis-state.js:101-103).
THEOREM CountersLapse == IsFiniteSet(Calls) => (Spec => []OldCountersLapse)
  <1> SUFFICES ASSUME IsFiniteSet(Calls) PROVE Spec => []OldCountersLapse
    OBVIOUS
  <1>1. Init => CountInv /\ LapseInTime
    BY CountInit, LapseInit
  <1>2. CountInv /\ LapseInTime /\ [Next]_vars => (CountInv /\ LapseInTime)'
    BY CountStep, LapseStep
  <1>3. CountInv /\ LapseInTime => OldCountersLapse
    <2> SUFFICES ASSUME CountInv, LapseInTime, NEW k \in Keys, now < lapse[k]
                 PROVE  now < (k[2] + 1) * Minute + Linger + Expire
      BY DEF OldCountersLapse
    <2>1. now \in Int /\ lapse[k] \in Int /\ (k[2] + 1) * Minute \in Int
      BY LapseBound DEF CountInv, TypeOK
    <2> QED
      BY <2>1 DEF LapseInTime
  <1> QED
    BY <1>1, <1>2, <1>3, PTL DEF Spec
-----------------------------------------------------------------------------
(***************************************************************************)
(* The refinement: without clock, counters and client the middleware is    *)
(* the gate of QuotaGate.  A slot that is free wants nothing.              *)
(***************************************************************************)
FreeSlots == \A c \in Calls : at[c] = "idle" => quota[c] = NoQuota

LEMMA FreeSlotsInit == Init => FreeSlots
  BY DEF Init, FreeSlots

LEMMA FreeSlotsStep ==
  ASSUME TypeOK, FreeSlots, [Next]_vars PROVE FreeSlots'
  <1>t. at \in [Calls -> ClientPhases] /\ quota \in [Calls -> Keys \cup {NoQuota}]
    BY DEF TypeOK
  <1>1. ASSUME \A c \in Calls : \/ at'[c] = "idle" /\ quota'[c] = NoQuota
                                \/ at'[c] # "idle"
                                \/ at'[c] = at[c] /\ quota'[c] = quota[c]
        PROVE  FreeSlots'
    BY <1>1 DEF FreeSlots
  <1>2. ASSUME NEW c \in Calls, NEW t \in Tenants, Ask(c, t) PROVE FreeSlots'
    <2>1. at'[c] # "idle" /\ \A d \in Calls \ {c} : at'[d] = at[d] /\ quota'[d] = quota[d]
      BY <1>2, <1>t DEF Ask, GetRedisClient, NoRedis
    <2> QED
      BY <2>1, <1>1
  <1>3. ASSUME NEW c \in Calls, RedisCount(c) \/ MemoryCount(c) \/ Unavailable(c) PROVE FreeSlots'
    BY <1>1, <1>3, <1>t DEF RedisCount, MemoryCount, Unavailable, Verdict, Over
  <1>4. ASSUME NEW c \in Calls, RedisDrop(c) \/ PassUncounted(c) PROVE FreeSlots'
    BY <1>1, <1>4, <1>t DEF RedisDrop, PassUncounted, vars, rateRest
  <1>5. ASSUME NEW i \in Instances, Connect(i) PROVE FreeSlots'
    <2>1. \A c \in Calls : at'[c] = at[c] \/ at'[c] # "idle"
      BY <1>5, <1>t DEF Connect, ConnectResolved, ConnectRejected, ConnectionLost, NoRedis
    <2> QED
      BY <2>1, <1>1, <1>5 DEF Connect, rateRest
  <1>6. ASSUME NEW i \in Instances, Recover(i) \/ Crash(i) PROVE FreeSlots'
    BY <1>1, <1>6, <1>t DEF Recover, Restart, Crash, Die, rateRest
  <1>7. CASE Tick \/ UNCHANGED vars
    BY <1>1, <1>7 DEF Tick, vars, rateRest
  <1> QED
    BY <1>2, <1>3, <1>4, <1>5, <1>6, <1>7 DEF Next

\* the key of a request is a key
LEMMA AskedKey ==
  ASSUME TypeOK, NEW t \in Tenants PROVE <<t, now \div Minute>> \in Keys
  <1>1. now \in 0 .. MaxTime
    BY DEF TypeOK
  <1>2. now \div Minute \in Minutes
    BY <1>1, MinuteOf
  <1> QED
    BY <1>2 DEF Keys

\* minutes end one after the other
LEMMA MinutesGrow ==
  ASSUME NEW n \in Nat PROVE n \div Minute <= (n + 1) \div Minute
  <1> DEFINE a == n \div Minute
             b == (n + 1) \div Minute
  <1>1. /\ a \in Nat /\ a * Minute <= n
        /\ b \in Nat /\ n + 1 < (b + 1) * Minute
    BY DivisionBounds
  <1> HIDE DEF a, b
  <1>2. ASSUME b + 1 <= a PROVE FALSE
    <2>1. (b + 1) * Minute <= a * Minute
      BY <1>1, <1>2, ProductGrows
    <2>2. (b + 1) * Minute \in Int /\ a * Minute \in Int
      BY <1>1
    <2> QED
      BY <1>1, <2>1, <2>2
  <1>3. a <= b
    BY <1>1, <1>2
  <1> QED
    BY <1>3 DEF a, b

over == {k \in Keys : MinuteOver(k)}

\* a verdict after the n-th count of a counter that has let fewer than n through
LEMMA VerdictIsGates ==
  ASSUME TypeOK, NEW c \in Calls, NEW p \in Places, NEW n \in Nat, quota[c] \in Keys,
         Verdict(c, p, n), UNCHANGED <<now, asked>>,
         Through(p, quota[c], n) + 1 <= n, n <= asked[quota[c]]
  PROVE  QG!Next
  <1> DEFINE m == Through(p, quota[c], n)
  <1>1. QG!Done({c})
    BY DEF Verdict, Over, QG!Done, TypeOK
  <1>2. asked[quota[c]] \in Nat /\ m \in Nat /\ UNCHANGED over
    BY ThroughBound DEF TypeOK, over, MinuteOver
  <1>3. CASE n > Rpm
    <2>1. asked[quota[c]] > Rpm
      BY <1>2, <1>3, RateAssumption
    <2>2. QG!TurnAway(c)
      BY <1>1, <1>2, <1>3, <2>1 DEF Verdict, TurnAway, QG!TurnAway, over
    <2> QED
      BY <2>2 DEF QG!Next
  <1>4. CASE ~(n > Rpm)
    <2>1. m < Rpm
      BY <1>2, <1>4
    <2>2. m \in QG!Remembered(p, quota[c])
      BY DEF Through, QG!Remembered
    <2>3. passed' = [passed EXCEPT ![p][quota[c]] = m + 1] /\ UNCHANGED limited
      BY <1>4 DEF Verdict, PassOn
    <2> HIDE DEF m
    <2>4. QG!Pass(c, p)
      BY <1>1, <1>2, <2>1, <2>2, <2>3 DEF QG!Pass, over
    <2> QED
      BY <2>4 DEF QG!Next
  <1> QED
    BY <1>3, <1>4

LEMMA GateInit == Init => QG!Init
  <1> SUFFICES ASSUME Init PROVE QG!Init
    OBVIOUS
  <1>1. now \div Minute = 0
    <2>1. 0 \div Minute \in Nat /\ (0 \div Minute) * Minute <= 0
      BY DivisionBounds
    <2>2. 0 \div Minute >= 1 => 1 * Minute <= (0 \div Minute) * Minute
      BY <2>1, ProductGrows
    <2>3. 0 \div Minute = 0
      BY <2>1, <2>2
    <2> QED
      BY <2>3 DEF Init
  <1>2. {k \in Keys : MinuteOver(k)} = {}
    <2>1. \A k \in Keys : k[2] \in Nat
      BY DEF Keys, Minutes
    <2> QED
      BY <1>1, <2>1 DEF MinuteOver
  <1> QED
    BY <1>2 DEF Init, QG!Init

LEMMA GateStep ==
  ASSUME IsFiniteSet(Calls), Expire >= Minute, CountInv, QuotaInv, FreeSlots,
         [Next]_vars
  PROVE  [QG!Next]_(QG!vars)
  <1>t. /\ TypeOK /\ RedisLives /\ BucketsLive
        /\ at \in [Calls -> ClientPhases] /\ quota \in [Calls -> Keys \cup {NoQuota}]
        /\ passed \in [Places -> [Keys -> 0 .. MaxAsked]]
    BY DEF CountInv, QuotaInv, TypeOK
  <1>o. UNCHANGED now => UNCHANGED over
    BY DEF over, MinuteOver
  <1>0. ASSUME UNCHANGED <<now, quota, asked, passed, limited>> PROVE UNCHANGED QG!vars
    BY <1>0, <1>o DEF QG!vars, over
  <1>1. ASSUME NEW c \in Calls, NEW t \in Tenants, Ask(c, t) PROVE QG!Next
    <2> DEFINE k == <<t, now \div Minute>>
    <2>1. k \in Keys /\ quota[c] = NoQuota
      BY <1>1, <1>t, AskedKey DEF Ask, FreeSlots
    <2>2. k \notin over
      <3>1. now \div Minute \in Int
        BY <2>1 DEF Keys, Minutes
      <3> QED
        BY <3>1 DEF over, MinuteOver
    <2>3. QG!Ask(c, k)
      BY <1>1, <1>o, <2>1, <2>2 DEF Ask, verdicts, QG!Ask, over
    <2> HIDE DEF k
    <2> QED
      BY <2>1, <2>3 DEF QG!Next
  <1>2. ASSUME NEW c \in Calls, RedisCount(c) PROVE QG!Next
    <2> DEFINE k == quota[c]
               n == Counted(k) + 1
    <2>1. at[c] \in Undecided /\ UNCHANGED <<now, asked>> /\ Verdict(c, Redis, n)
      BY <1>2 DEF RedisCount, RateKey, Undecided
    <2>2. /\ k \in Keys /\ count[k] + 1 <= asked[k] /\ Redis \in Places
          /\ count[k] \in Nat /\ asked[k] \in Nat
      BY <2>1, <1>t, RoomForOne DEF Places, TypeOK
    <2>3. /\ Counted(k) \in Nat /\ Counted(k) <= count[k]
          /\ Through(Redis, k, n) \in Nat /\ Through(Redis, k, n) <= Counted(k)
      BY <2>2, <1>t, RedisThrough
    <2> DEFINE x == Through(Redis, k, n)
               y == Counted(k)
    <2> HIDE DEF x, y
    <2>4. y + 1 \in Nat /\ x + 1 <= y + 1 /\ y + 1 <= asked[k]
      BY <2>2, <2>3 DEF x, y
    <2> USE DEF x, y
    <2> QED
      BY <2>1, <2>2, <2>4, <1>t, VerdictIsGates
  <1>3. ASSUME NEW c \in Calls, MemoryCount(c) PROVE QG!Next
    <2> DEFINE k == quota[c]
               i == Host[c]
               new == Refreshed(bucket[i][k])
    <2>1. /\ at[c] \in Undecided /\ i \in Instances /\ i \in Places
          /\ UNCHANGED <<now, asked>> /\ Verdict(c, i, new.count)
      BY <1>3 DEF MemoryCount, RateKey, Undecided, Places, Refreshed
    <2>2. /\ k \in Keys /\ bucket[i][k].count + 1 <= asked[k]
          /\ bucket[i][k].count \in Nat /\ asked[k] \in Nat /\ k[2] * Minute <= now
      BY <2>1, <1>t, RoomForOne DEF TypeOK, CountInv, InTime
    <2>3. /\ new.count \in Nat /\ new.count <= bucket[i][k].count + 1
          /\ Through(i, k, new.count) + 1 <= new.count
      BY <2>1, <2>2, <1>t, BucketThrough
    <2> HIDE DEF i, new
    <2>4. new.count <= asked[k]
      BY <2>2, <2>3
    <2> QED
      BY <2>1, <2>2, <2>3, <2>4, <1>t, VerdictIsGates
  <1>4. ASSUME NEW c \in Calls, Unavailable(c) PROVE QG!Next
    <2>1. QG!Done({c}) /\ UNCHANGED over
      BY <1>4, <1>t, <1>o DEF Unavailable, Over, QG!Done
    <2> QED
      BY <1>4, <2>1 DEF Unavailable, verdicts, QG!GiveUp, QG!Next, over
  <1>5. ASSUME NEW c \in Calls, RedisDrop(c) PROVE [QG!Next]_(QG!vars)
    <2> DEFINE k == quota[c]
               n == Counted(k) + 1
               x == Through(Redis, k, n)
    <2>1. /\ at[c] \in Undecided /\ Redis \in Places /\ UNCHANGED <<now, quota, asked, limited>>
          /\ UNCHANGED passed \/ passed' = [passed EXCEPT ![Redis][k] = x]
      BY <1>5 DEF RedisDrop, RateKey, Undecided, Places
    <2>2. k \in Keys /\ (x # passed[Redis][k] => x = 0 /\ MinuteOver(k))
      <3>1. k \in Keys /\ n \in Nat
        BY <2>1, <1>t, RoomForOne DEF Counted, TypeOK
      <3> QED
        BY <2>1, <3>1, <1>t, ThroughBound
    <2> HIDE DEF x, k
    <2>3. CASE UNCHANGED passed
      BY <1>0, <2>1, <2>3
    <2>4. CASE passed' = [passed EXCEPT ![Redis][k] = x] /\ x = passed[Redis][k]
      <3>1. UNCHANGED passed
        BY <2>1, <2>2, <2>4, <1>t
      <3> QED
        BY <1>0, <2>1, <3>1
    <2>5. CASE passed' = [passed EXCEPT ![Redis][k] = x] /\ x # passed[Redis][k]
      <3>1. QG!Forget(Redis, k)
        BY <1>o, <2>1, <2>2, <2>5 DEF QG!Forget, over
      <3> QED
        BY <2>1, <2>2, <3>1 DEF QG!Next
    <2> QED
      BY <2>1, <2>3, <2>4, <2>5
  <1>6. ASSUME NEW i \in Instances, Connect(i) \/ Recover(i) PROVE UNCHANGED QG!vars
    BY <1>0, <1>6 DEF Connect, Recover, rateRest, verdicts
  <1>7. ASSUME NEW i \in MayCrash, Crash(i) PROVE QG!Next
    <2> DEFINE C == {c \in Calls : Host[c] = i}
    <2>1. C \in SUBSET Calls /\ i \in Places /\ UNCHANGED over
      BY <1>7, <1>o DEF Crash, Places
    <2>2. /\ quota' = [c \in Calls |-> IF c \in C THEN NoQuota ELSE quota[c]]
          /\ passed' = [passed EXCEPT ![i] = [k \in Keys |-> 0]]
          /\ UNCHANGED <<asked, limited>>
      BY <1>7 DEF Crash
    <2>3. QG!Replace(i, C)
      <3> HIDE DEF C
      <3> QED
        BY <2>1, <2>2 DEF QG!Replace, QG!Done, over
    <2> HIDE DEF C
    <2> QED
      BY <2>1, <2>3 DEF QG!Next
  <1>8. ASSUME Tick PROVE QG!Next
    <2>1. now \div Minute <= now' \div Minute /\ now \div Minute \in Nat
          /\ now' \div Minute \in Nat
      <3>1. now \in Nat /\ now' = now + 1 /\ now + 1 \in Nat
        BY <1>8, <1>t DEF Tick, TypeOK
      <3>2. now \div Minute <= (now + 1) \div Minute
        BY <3>1, MinutesGrow
      <3>3. now \div Minute \in Nat /\ (now + 1) \div Minute \in Nat
        BY <3>1, DivisionBounds
      <3> QED
        BY <3>1, <3>2, <3>3
    <2>2. over \subseteq over'
      <3>1. \A k \in Keys : k[2] \in Nat
        BY DEF Keys, Minutes
      <3> QED
        BY <2>1, <3>1 DEF over, MinuteOver
    <2>3. over' \in SUBSET Keys
      BY DEF over
    <2>4. QG!Elapse(over')
      BY <1>8, <2>2 DEF Tick, verdicts, QG!Elapse, over
    <2> QED
      BY <2>3, <2>4 DEF QG!Next
  <1>9. ASSUME (\E c \in Calls : PassUncounted(c)) \/ UNCHANGED vars PROVE UNCHANGED QG!vars
    BY <1>0, <1>9 DEF PassUncounted, vars, rateRest, verdicts
  <1> QED
    BY <1>1, <1>2, <1>3, <1>4, <1>5, <1>6, <1>7, <1>8, <1>9 DEF Next

\* The middleware, with its clock, its expiring counters, its client and the
\* crashes of its processes, implements the gate: for any number of instances,
\* calls and tenants and however late a request is counted, where counters
\* live for a minute at least, as those of index.js:53 do (index.js:43-63,
\* redis-state.js:98-114).
THEOREM GateRefines ==
    IsFiniteSet(Calls) /\ Expire >= Minute => (Spec => DecidesByQuota)
  <1> SUFFICES ASSUME IsFiniteSet(Calls), Expire >= Minute PROVE Spec => DecidesByQuota
    OBVIOUS
  <1>1. Init => CountInv /\ QuotaInv /\ FreeSlots /\ QG!Init
    BY CountInit, QuotaInit, FreeSlotsInit, GateInit
  <1>2. CountInv /\ QuotaInv /\ FreeSlots /\ [Next]_vars
        => (CountInv /\ QuotaInv /\ FreeSlots)'
    BY CountStep, QuotaStep, FreeSlotsStep DEF CountInv
  <1>3. CountInv /\ QuotaInv /\ FreeSlots /\ [Next]_vars => [QG!Next]_(QG!vars)
    BY GateStep
  <1> QED
    BY <1>1, <1>2, <1>3, PTL DEF Spec, DecidesByQuota, QG!Spec

-----------------------------------------------------------------------------
(***************************************************************************)
(* Where no call falls back to its process, the gate in Redis is the only  *)
(* one.                                                                    *)
(***************************************************************************)
Closed == FailClosed(Env) \/ NeverFallsBack

OnlyRedis ==
    /\ \A c \in Calls : at[c] # "memory"
    /\ \A i \in Instances, k \in Keys : passed[i][k] = 0

LEMMA OnlyRedisInit == Init => OnlyRedis
  BY DEF Init, ClientInit, OnlyRedis, Places

LEMMA OnlyRedisStep ==
  ASSUME Closed, CountInv, OnlyRedis, [Next]_vars PROVE OnlyRedis'
  <1>t. /\ at \in [Calls -> ClientPhases] /\ passed \in [Places -> [Keys -> 0 .. MaxAsked]]
        /\ \A i \in Instances : i \in Places /\ i # Redis
        /\ \A c \in Calls : at[c] # "memory"
    BY DEF CountInv, TypeOK, Places, Redis, OnlyRedis
  <1>1. ASSUME \A c \in Calls : at'[c] = at[c] \/ at'[c] # "memory",
               \A i \in Instances, k \in Keys : passed'[i][k] \in {0, passed[i][k]}
        PROVE  OnlyRedis'
    BY <1>1 DEF OnlyRedis
  <1>2. ASSUME NEW c \in Calls, NEW t \in Tenants, Ask(c, t) PROVE OnlyRedis'
    <2>1. \A d \in Calls : at'[d] = at[d] \/ at'[d] # "memory"
      BY <1>2, <1>t DEF Ask, GetRedisClient, NoRedis, Closed, NeverFallsBack
    <2> QED
      BY <1>1, <1>2, <2>1 DEF Ask, verdicts
  <1>3. ASSUME NEW c \in Calls, RedisCount(c) PROVE OnlyRedis'
    <2>1. \A d \in Calls : at'[d] = at[d] \/ at'[d] # "memory"
      BY <1>3, <1>t DEF RedisCount, Verdict, Over
    <2>2. \A i \in Instances : passed'[i] = passed[i]
      BY <1>3, <1>t DEF RedisCount, Verdict, PassOn, TurnAway
    <2> QED
      BY <1>1, <2>1, <2>2
  <1>4. ASSUME NEW c \in Calls, RedisDrop(c) \/ Unavailable(c) \/ PassUncounted(c)
        PROVE  OnlyRedis'
    <2>1. \A d \in Calls : at'[d] = at[d] \/ at'[d] # "memory"
      BY <1>4, <1>t DEF RedisDrop, Unavailable, PassUncounted, Over, vars
    <2>2. \A i \in Instances : passed'[i] = passed[i]
      BY <1>4, <1>t DEF RedisDrop, Unavailable, PassUncounted, verdicts, vars, rateRest
    <2> QED
      BY <1>1, <2>1, <2>2
  <1>5. ASSUME NEW c \in Calls, MemoryCount(c) PROVE OnlyRedis'
    BY <1>5, <1>t DEF MemoryCount
  <1>6. ASSUME NEW i \in Instances, Connect(i) \/ Recover(i) PROVE OnlyRedis'
    <2>1. \A d \in Calls : at'[d] = at[d] \/ at'[d] # "memory"
      BY <1>6, <1>t DEF Connect, ConnectResolved, ConnectRejected, ConnectionLost, Recover, Restart, NoRedis,
         Closed, NeverFallsBack
    <2> QED
      BY <1>1, <1>6, <2>1 DEF Connect, Recover, rateRest, verdicts
  <1>7. ASSUME NEW i \in MayCrash, Crash(i) PROVE OnlyRedis'
    <2>1. \A d \in Calls : at'[d] = at[d] \/ at'[d] # "memory"
      BY <1>7, <1>t DEF Crash, Die
    <2>2. \A h \in Instances, k \in Keys : passed'[h][k] \in {0, passed[h][k]}
      BY <1>7, <1>t DEF Crash
    <2> QED
      BY <1>1, <2>1, <2>2
  <1>8. CASE Tick \/ UNCHANGED vars
    BY <1>1, <1>8 DEF Tick, vars, rateRest, verdicts
  <1> QED
    BY <1>2, <1>3, <1>4, <1>5, <1>6, <1>7, <1>8 DEF Next

\* In production, and wherever else no call falls back, the requests of a
\* tenant and minute that are passed on within it are at most its quota in
\* all, over any number of instances; and so are, from any later start over
\* of the counter on, those that are counted late (redis-state.js:29-51,
\* 98-114, index.js:43-63).
THEOREM ProductionQuota ==
    IsFiniteSet(Calls) /\ Expire >= Minute /\ Closed => (Spec => []TenantQuotaKept)
  <1> SUFFICES ASSUME IsFiniteSet(Calls), Expire >= Minute, Closed
               PROVE  Spec => []TenantQuotaKept
    OBVIOUS
  <1>1. Init => CountInv /\ QuotaInv /\ OnlyRedis
    BY CountInit, QuotaInit, OnlyRedisInit
  <1>2. CountInv /\ QuotaInv /\ OnlyRedis /\ [Next]_vars => (CountInv /\ QuotaInv /\ OnlyRedis)'
    BY CountStep, QuotaStep, OnlyRedisStep
  <1>3. QuotaInv /\ OnlyRedis => TenantQuotaKept
    BY DEF QuotaInv, QuotaKept, OnlyRedis, TenantQuotaKept, Places
  <1> QED
    BY <1>1, <1>2, <1>3, PTL DEF Spec
=============================================================================
