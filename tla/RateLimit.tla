------------------------------ MODULE RateLimit ------------------------------
(***************************************************************************)
(* Admission to the MCP endpoint: authGate (transport_http.go), which is     *)
(* rateLimit, then requireAuth, then rateLimitVerified, over the token       *)
(* buckets of rate_limit.go.  Buckets live behind an LRU, and a request      *)
(* keeps its pointer to one across the three locked steps of a charge:       *)
(* cache Get, PeekOrAdd on a miss, take under the bucket's own mutex.        *)
(* Tokens are counted in units, Unit of them to a token, so that a rate      *)
(* below one token per second is a whole number of units per second.         *)
(***************************************************************************)
EXTENDS Integers, Lru, FiniteSets

CONSTANTS
  Request,     \* the requests of a behaviour
  Client,      \* [ip, cred, id]: where a request comes from, what it carries
  Exempt,      \* MCP_RATE_LIMIT_EXEMPT identities
  OAuth,       \* whether OAuth is configured
  Burst,       \* bucket capacity, in tokens
  Unit,        \* units to a token
  Rate,        \* units regained per second
  MaxBuckets,  \* rateBucketCacheSize
  MaxTime      \* bound: the clock, in seconds

(* Whoever is authenticated has a name: addAuthToken's callers and verify   *)
(* (oauth.go:152-158) refuse an empty identity.                             *)
ASSUME ClientAssumption ==
  \A c \in Client :
    /\ c.cred \in {"static", "bearer", "none"}
    /\ c.cred # "none" => c.id # ""

ASSUME RateAssumption ==
  /\ Burst \in Nat \ {0} /\ Unit \in Nat \ {0} /\ Rate \in Nat \ {0}
  /\ OAuth \in BOOLEAN /\ MaxBuckets \in Nat \ {0}
  /\ MaxTime \in Nat

VARIABLES
  now,      \* the clock
  cache,    \* rateLimiter.buckets: key -> place in heap
  heap,     \* every bucket ever created
  evicted,  \* history: buckets the cache pushed out
  req       \* Request -> where it is in authGate

vars == <<now, cache, heap, evicted, req>>

Idle == [pc |-> "idle"]

Init ==
  /\ now = 0
  /\ cache = LruEmpty /\ heap = << >> /\ evicted = 0
  /\ req = [r \in Request |-> Idle]

-----------------------------------------------------------------------------
(* The token bucket. *)

(* A zero-valued bucket; last = -1 is the zero time.  spent and born are    *)
(* history: the tokens it gave out, and when it was first used.             *)
NewBucket(key) == [key |-> key, tokens |-> 0, last |-> -1, spent |-> 0, born |-> -1]

Least(m, n) == IF m < n THEN m ELSE n

(* take's refill: full on first use, at most full ever after. *)
Refill(b) ==
  [b EXCEPT
     !.tokens = IF b.last = -1 THEN Burst * Unit
                ELSE Least(Burst * Unit, @ + (now - b.last) * Rate),
     !.last = now,
     !.born = IF @ = -1 THEN now ELSE @]

HasToken(b) == b.tokens >= Unit

(* Mutant of Spend: the request passes and the bucket is not debited. *)
SpendNothing(b) == [b EXCEPT !.spent = @ + 1]

Spend(b) == [b EXCEPT !.tokens = @ - Unit, !.spent = @ + 1]

(* Mutant of RetryAfter: whole seconds, rounded down. *)
RetryAfterFloor(b) ==
  LET secs == (Unit - b.tokens) \div Rate
  IN  IF secs < 1 THEN 1 ELSE secs

(* The Retry-After of a refusal: the deficit's regeneration time, rounded   *)
(* up to whole seconds and never zero.                                      *)
RetryAfter(b) ==
  LET secs == (Unit - b.tokens + Rate - 1) \div Rate
  IN  IF secs < 1 THEN 1 ELSE secs

-----------------------------------------------------------------------------
(* Who is charged. *)

(* A request carries an operator's static token, a bearer token the table   *)
(* does not know (an OAuth JWT, or not), or neither.                         *)
IdKey(id) == <<"id", id>>
IpKey(c)  == <<"ip", c.ip>>

CallerKey(c) == IF c.cred = "static" THEN IdKey(c.id) ELSE IpKey(c)

(* Whether rateLimit leaves the billing until the token is verified. *)
Defers(c) == OAuth /\ c.cred = "bearer"

(* Mutant of VerifiedKey: the source address goes on paying. *)
VerifiedKeyByIp(c) == IpKey(c)

(* The bucket a verified identity pays from. *)
VerifiedKey(c) == IF c.id # "" THEN IdKey(c.id) ELSE IpKey(c)

(* Exempt before verification: a static token's identity, known at once. *)
Exempted(c) == c.cred = "static" /\ c.id \in Exempt

Done(c, outcome, bill) ==
  [pc |-> "done", client |-> c, outcome |-> outcome, bill |-> bill]

(* A 429; what the refusal was about is kept as history. *)
Limited(c, at, b) ==
  [pc |-> "done", client |-> c, outcome |-> "limited", bill |-> << >>,
   at |-> at, ready |-> now + RetryAfter(b), spent |-> b.spent]

Charging(c, key, why) == [pc |-> "get", client |-> c, key |-> key, why |-> why]

-----------------------------------------------------------------------------
Tick ==
  /\ now < MaxTime
  /\ now' = now + 1
  /\ UNCHANGED <<cache, heap, evicted, req>>

(* rateLimit: exempt identities go straight on, a deferred request peeks,   *)
(* every other pays now.                                                     *)
Arrive(r, c) ==
  /\ req[r] = Idle
  /\ req' = [req EXCEPT ![r] =
       IF Exempted(c)
         THEN [pc |-> "auth", client |-> c, bill |-> << >>]
       ELSE IF Defers(c) THEN Charging(c, CallerKey(c), "peek")
       ELSE Charging(c, CallerKey(c), "gate")]
  /\ UNCHANGED <<now, cache, heap, evicted>>

(* bucketFor, fast path: the LRU Get. *)
GetBucket(r) ==
  /\ req[r].pc = "get"
  /\ cache' = LruGet(cache, req[r].key)
  /\ req' = [req EXCEPT ![r] =
       IF LruHas(cache, req[r].key)
       THEN [pc |-> "take", client |-> @.client, why |-> @.why,
             at |-> LruValue(cache, @.key)]
       ELSE [@ EXCEPT !.pc = "add"]]
  /\ UNCHANGED <<now, heap, evicted>>

(* Mutant of Install: a plain Add, with which the last first contact wins. *)
InstallOver(l, key, at) == LruAdd(l, key, at, MaxBuckets)

(* bucketFor, slow path: PeekOrAdd loads or stores in one step.  A          *)
(* candidate that lost is garbage and never enters the heap.                *)
Install(l, key, at) == LruPeekOrAdd(l, key, at, MaxBuckets)

AddBucket(r) ==
  LET key == req[r].key
      at  == Len(heap) + 1
      l   == Install(cache, key, at)
      got == LruValue(l, key)
  IN  /\ req[r].pc = "add"
      /\ cache' = l
      /\ heap' = IF got = at THEN Append(heap, NewBucket(key)) ELSE heap
      /\ evicted' = evicted
           + Cardinality({i \in DOMAIN cache : ~LruHas(l, cache[i].key)})
      /\ req' = [req EXCEPT ![r] = [pc |-> "take", client |-> @.client,
                                    why |-> @.why, at |-> got]]
      /\ UNCHANGED now

(* take, for the reason the request is at the bucket: to be let in          *)
(* ("gate"), to be let through unbilled ("peek"), to pay once verified, or  *)
(* to pay for a token that failed, whatever the bucket says.                *)
Take(r) ==
  LET c    == req[r].client
      why  == req[r].why
      b    == Refill(heap[req[r].at])
      ok   == HasToken(b)
      bill == <<b.key>>
  IN  /\ req[r].pc = "take"
      /\ heap' = [heap EXCEPT ![req[r].at] =
                    IF ok /\ why # "peek" THEN Spend(b) ELSE b]
      /\ req' = [req EXCEPT ![r] =
           CASE why = "failed" ->
                  Done(c, "unauthorized", IF ok THEN bill ELSE << >>)
             [] why # "failed" /\ ~ok -> Limited(c, req[r].at, b)
             [] why = "verified" /\ ok -> Done(c, "served", bill)
             [] why = "gate" /\ ok -> [pc |-> "auth", client |-> c, bill |-> bill]
             [] why = "peek" /\ ok -> [pc |-> "auth", client |-> c, bill |-> << >>]]
      /\ UNCHANGED <<now, cache, evicted>>

(* requireAuth with the static table, and rateLimitVerified, which passes a *)
(* request that rateLimit did not defer.                                    *)
Authenticate(r) ==
  LET c == req[r].client
  IN  /\ req[r].pc = "auth" /\ c.cred = "static"
      /\ req' = [req EXCEPT ![r] = Done(c, "served", @.bill)]
      /\ UNCHANGED <<now, cache, heap, evicted>>

(* requireAuth verifies a JWT, and rateLimitVerified bills its identity. *)
Verify(r) ==
  LET c == req[r].client
  IN  /\ req[r].pc = "auth" /\ c.cred = "bearer" /\ OAuth
      /\ req' = [req EXCEPT ![r] =
                   IF c.id \in Exempt THEN Done(c, "served", << >>)
                   ELSE Charging(c, VerifiedKey(c), "verified")]
      /\ UNCHANGED <<now, cache, heap, evicted>>

(* No credential path matches: a deferred request is billed to its source   *)
(* address (chargeFailedAuth), any other has paid already.                  *)
Refuse(r) ==
  LET c == req[r].client
  IN  /\ req[r].pc = "auth" /\ c.cred # "static"
      /\ req' = [req EXCEPT ![r] =
                   IF Defers(c) THEN Charging(c, IpKey(c), "failed")
                   ELSE Done(c, "unauthorized", @.bill)]
      /\ UNCHANGED <<now, cache, heap, evicted>>

(* Every request has been answered and the clock is at its bound. *)
Rest ==
  /\ now = MaxTime
  /\ \A r \in Request : req[r].pc = "done"
  /\ UNCHANGED vars

Next ==
  \/ Tick
  \/ \E r \in Request :
       \/ \E c \in Client : Arrive(r, c)
       \/ GetBucket(r) \/ AddBucket(r) \/ Take(r)
       \/ Authenticate(r) \/ Verify(r) \/ Refuse(r)
  \/ Rest

Spec == Init /\ [][Next]_vars

-----------------------------------------------------------------------------
(* Every variable has its type, and the cache keeps its bound. *)
TypeOK ==
  /\ now \in 0..MaxTime /\ evicted \in Nat
  /\ Len(cache) <= MaxBuckets
  /\ \A i \in DOMAIN cache :
       cache[i].val \in DOMAIN heap /\ heap[cache[i].val].key = cache[i].key
  /\ \A i \in DOMAIN heap :
       heap[i].tokens \in 0..Burst * Unit /\ heap[i].last \in -1..now
  /\ \A r \in Request : req[r].pc \in {"idle", "get", "add", "take", "auth", "done"}

(* The limit itself: from its first use on, a bucket never lets out more    *)
(* than its burst plus what its rate regenerates, whatever the order in     *)
(* which concurrent requests, peeks and refills reach it.  And first        *)
(* contacts that race converge on one bucket: each bucket ever handed out   *)
(* is cached or was evicted, so a caller never has two full bursts without  *)
(* the eviction the LRU is documented to trade.                             *)
RateRespected ==
  /\ TypeOK
  /\ Len(heap) = Len(cache) + evicted
  /\ \A i \in DOMAIN heap : heap[i].last # -1 =>
       heap[i].spent * Unit + heap[i].tokens
         <= Burst * Unit + (heap[i].last - heap[i].born) * Rate

(* Every request is billed once, to the right bucket, whichever of the      *)
(* three layers answers it: served ones to their identity unless exempt,    *)
(* refused credentials at most once and only to their address, and one that *)
(* was rate limited not at all.                                             *)
BilledOnce ==
  \A r \in Request : req[r].pc = "done" =>
    LET c == req[r].client
    IN  CASE req[r].outcome = "served" ->
               req[r].bill = IF c.id \in Exempt THEN << >> ELSE <<IdKey(c.id)>>
          [] req[r].outcome = "unauthorized" -> req[r].bill \in {<< >>, <<IpKey(c)>>}
          [] OTHER -> req[r].bill = << >>

(* A client that waits out its Retry-After is let in: from then on the      *)
(* bucket that refused it has a token, unless somebody else has spent one   *)
(* since, however often peeks have refilled it in between.                  *)
RetryIsEnough ==
  \A r \in Request :
    LET q == req[r]
    IN  q.pc = "done" /\ q.outcome = "limited" =>
          (now >= q.ready /\ heap[q.at].spent = q.spent
             => HasToken(Refill(heap[q.at])))
=============================================================================
