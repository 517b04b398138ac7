----------------------------- MODULE TokenBucket -----------------------------
(***************************************************************************)
(* The rate limiter (apps/api/rate_limit.py): before a handler runs, a Lua *)
(* script in Redis charges the request to two token buckets, the API key's *)
(* and the tenant's, or to neither.  A bucket is a Redis hash of its       *)
(* tokens and the time they were counted, with a TTL: a request refills it *)
(* for the time since, and a hash that expired counts as a full bucket.    *)
(* The script is atomic, so a request is one action.  Time is in ticks,    *)
(* and the instances' clocks agree: a bucket is refilled by the clock of   *)
(* whichever instance asks, which the module does not vary.  Buckets of    *)
(* different route classes are independent; these are the ones of one.     *)
(***************************************************************************)
EXTENDS Integers

CONSTANTS
    ApiKeys,           \* API keys of the tenant
    Tenant,         \* the name of the tenant's own bucket
    Rate,           \* [Buckets -> tokens per tick] (rps)
    Burst,          \* [Buckets -> capacity]
    Cost,           \* the weight of the route class (_RUN_WEIGHT, or 1)
    Absent

Buckets == ApiKeys \cup {Tenant}

ASSUME BucketAssumption ==
    /\ Tenant \notin ApiKeys
    /\ Rate \in [Buckets -> Nat \ {0}] /\ Burst \in [Buckets -> Nat \ {0}]
    /\ Cost \in Nat \ {0}
    /\ Absent \notin [tokens : Nat, idle : Nat]

VARIABLES
    hashes,         \* Redis: [Buckets -> [tokens, idle], idle ticks since written; or Absent]
    credit          \* history: a bucket nobody ever forgets, charged for every admission

bucketVars == <<hashes, credit>>

Ceiling(a, b) == (a + b - 1) \div b
Lower(a, b) == IF a < b THEN a ELSE b
Higher(a, b) == IF a > b THEN a ELSE b

\* (Mutant of Ttl: half the time an empty bucket takes to fill.)
TtlShort(b) == Higher(1, Ceiling(Burst[b], 2 * Rate[b]))

(* _ttl_seconds: twice the time an empty bucket takes to fill. *)
Ttl(b) == Higher(1, Ceiling(2 * Burst[b], Rate[b]))

(* get_tokens. *)
Level(b) == IF hashes[b] = Absent THEN Burst[b]
            ELSE Lower(Burst[b], hashes[b].tokens + Rate[b] * hashes[b].idle)

(* retry_after_ms, in ticks. *)
RetryAfter(b) == IF Level(b) >= Cost THEN 0 ELSE Ceiling(Cost - Level(b), Rate[b])

Allowed(k) == Level(k) >= Cost /\ Level(Tenant) >= Cost

(* RateLimiter.check: the wait of the bucket that refused, the longer of   *)
(* the two when both did.                                                  *)
Wait(k) ==
    IF Level(k) >= Cost /\ Level(Tenant) < Cost THEN RetryAfter(Tenant)
    ELSE IF Level(k) < Cost /\ Level(Tenant) < Cost /\ RetryAfter(Tenant) > RetryAfter(k)
         THEN RetryAfter(Tenant)
    ELSE RetryAfter(k)

(* The hash the script writes, the bucket charged or only refilled. *)
WrittenHash(b, charge) == [tokens |-> Level(b) - charge, idle |-> 0]

BucketInit == /\ hashes = [b \in Buckets |-> Absent]
              /\ credit = Burst

(* A request of key k that both buckets can pay. *)
Admit(k) ==
    /\ Allowed(k)
    /\ hashes' = [b \in Buckets |-> IF b \in {k, Tenant} THEN WrittenHash(b, Cost) ELSE hashes[b]]
    /\ credit' = [b \in Buckets |-> IF b \in {k, Tenant} THEN Higher(0, credit[b] - Cost)
                                    ELSE credit[b]]

(* One that either cannot: both hashes are written, neither is charged. *)
Refuse(k) ==
    /\ ~Allowed(k)
    /\ hashes' = [b \in Buckets |-> IF b \in {k, Tenant} THEN WrittenHash(b, 0) ELSE hashes[b]]
    /\ UNCHANGED credit

(* A second passes; Redis drops the hashes whose TTL ends. *)
Elapse ==
    /\ hashes' = [b \in Buckets |->
                    IF hashes[b] = Absent \/ hashes[b].idle + 1 >= Ttl(b) THEN Absent
                    ELSE [hashes[b] EXCEPT !.idle = @ + 1]]
    /\ credit' = [b \in Buckets |-> Lower(Burst[b], credit[b] + Rate[b])]

BucketNext == Elapse \/ \E k \in ApiKeys : Admit(k) \/ Refuse(k)

BucketSpec == BucketInit /\ [][BucketNext]_bucketVars
-----------------------------------------------------------------------------
(* Whatever is written, expires and is refilled lazily, every key and the  *)
(* tenant have exactly the tokens of a bucket filled at the configured     *)
(* rate and charged once for each admitted request: a refused request      *)
(* costs nothing, one bucket's refusal does not charge the other, and      *)
(* forgetting an idle bucket gives nothing away.  And a refusal names the  *)
(* exact wait: after it, and not a tick before, both buckets could pay.    *)
(* Source: apps/api/rate_limit.py:63-114, 200-206, 234-305.                *)
RateKept ==
    /\ \A b \in Buckets : Level(b) = credit[b]
    /\ \A k \in ApiKeys :
         LET Pays(t) == \A b \in {k, Tenant} : Lower(Burst[b], credit[b] + Rate[b] * t) >= Cost
         IN  /\ Allowed(k) <=> Pays(0)
             /\ ~Allowed(k) /\ (\A b \in {k, Tenant} : Burst[b] >= Cost) =>
                   Pays(Wait(k)) /\ ~Pays(Wait(k) - 1)

BucketTypeOK ==
    /\ \A b \in Buckets :
         \/ hashes[b] = Absent
         \/ hashes[b].tokens \in 0 .. Burst[b] /\ hashes[b].idle \in 0 .. Ttl(b) - 1
    /\ credit \in [Buckets -> Nat]
=============================================================================
