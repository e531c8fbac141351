--------------------------- MODULE RateLimitProofs ---------------------------
(***************************************************************************)
(* The rate limiter's safety properties for every burst, rate, cache size   *)
(* and set of clients, and any number of requests.                          *)
(***************************************************************************)
EXTENDS RateLimit, DataProofs

(* The keys buckets are filed under. *)
Keys == {IdKey(c.id) : c \in Client} \cup {IpKey(c) : c \in Client}

Bucket == [key : Keys, tokens : 0..(Burst * Unit), last : Int, spent : Nat, born : Int]

(* What a bucket gave out and still holds is within its burst and what its  *)
(* rate has regained since its first use.                                   *)
Within(b) ==
  b.spent * Unit + b.tokens <= Burst * Unit + (b.last - b.born) * Rate

(* A bucket is as it was made, or within its limit.                         *)
BucketOK(b, t) ==
  /\ b \in Bucket
  /\ b.last \in -1..t
  /\ b.last = -1 => b = NewBucket(b.key)
  /\ b.last # -1 => b.born \in 0..b.last /\ Within(b)

Buckets == heap \in Seq(Bucket) /\ \A i \in DOMAIN heap : BucketOK(heap[i], now)

(* The cache leads each key to a bucket of that key, and the buckets it no  *)
(* longer leads to were counted as they went.                               *)
Cached ==
  /\ LruOK(cache, Keys, Nat) /\ Len(cache) <= MaxBuckets
  /\ \A k \in LruKeys(cache) :
       LruValue(cache, k) \in DOMAIN heap /\ heap[LruValue(cache, k)].key = k
  /\ Len(heap) = Len(cache) + evicted

(* The bucket a request is at is the one its reason to be there names. *)
Pays(c, key, why) ==
  \/ why = "gate" /\ ~Exempted(c) /\ ~Defers(c) /\ key = CallerKey(c)
  \/ why \in {"peek", "failed"} /\ Defers(c) /\ key = IpKey(c)
  \/ why = "verified" /\ Defers(c) /\ c.id \notin Exempt /\ key = VerifiedKey(c)

(* The bill of a request on its way to requireAuth: paid at the gate, or    *)
(* not at all.                                                              *)
GateBill(c, bill) ==
  \/ (Exempted(c) \/ Defers(c)) /\ bill = << >>
  \/ ~Exempted(c) /\ ~Defers(c) /\ bill = <<CallerKey(c)>>

(* The bill of an answered request, by its outcome. *)
FinalBill(c, outcome, bill) ==
  CASE outcome = "served" -> bill = IF c.id \in Exempt THEN << >> ELSE <<IdKey(c.id)>>
    [] outcome = "unauthorized" -> bill \in {<< >>, <<IpKey(c)>>}
    [] OTHER -> bill = << >>

(* A refused bucket b will have a token at the time that was promised,      *)
(* unless one has been spent since.                                         *)
Promised(b, ready, spent) ==
  /\ b.last # -1 /\ spent <= b.spent
  /\ b.spent = spent => b.tokens >= Unit \/ b.tokens + (ready - b.last) * Rate >= Unit

Reasons == {"gate", "peek", "verified", "failed"}
Bills == {<< >>} \cup {<<k>> : k \in Keys}

Looking == [pc : {"get", "add"}, client : Client, key : Keys, why : Reasons]
Taking  == [pc : {"take"}, client : Client, why : Reasons, at : Nat]
Passing == [pc : {"auth"}, client : Client, bill : Bills]
Settled == [pc : {"done"}, client : Client, outcome : {"served", "unauthorized"}, bill : Bills]
Refused == [pc : {"done"}, client : Client, outcome : {"limited"}, bill : {<< >>},
            at : Nat, ready : Nat, spent : Nat]

LookingOK(q) == q \in Looking /\ Pays(q.client, q.key, q.why)
TakingOK(q, hp) == /\ q \in Taking /\ q.at \in DOMAIN hp
                   /\ Pays(q.client, hp[q.at].key, q.why)
PassingOK(q) == q \in Passing /\ GateBill(q.client, q.bill)
SettledOK(q) == q \in Settled /\ FinalBill(q.client, q.outcome, q.bill)
RefusedOK(q, hp) == /\ q \in Refused /\ q.at \in DOMAIN hp
                    /\ Promised(hp[q.at], q.ready, q.spent)

(* Where a request is in authGate agrees with the buckets in hp. *)
RequestOK(q, hp) ==
  \/ q = Idle \/ LookingOK(q) \/ TakingOK(q, hp) \/ PassingOK(q)
  \/ SettledOK(q) \/ RefusedOK(q, hp)

Requests == DOMAIN req = Request /\ \A r \in Request : RequestOK(req[r], heap)

(* The inductive invariant. *)
Inv == now \in 0..MaxTime /\ evicted \in Nat /\ Buckets /\ Cached /\ Requests

-----------------------------------------------------------------------------
(* Division rounds down, and rounded up it covers the dividend. *)
LEMMA DivCovers ==
  ASSUME NEW a \in Nat, NEW b \in Nat \ {0}
  PROVE  /\ a \div b \in Nat
         /\ (a \div b) * b <= a /\ a < (a \div b) * b + b
OBVIOUS

(* A product grows with its factor. *)
LEMMA TimesMonotonic ==
  ASSUME NEW a \in Int, NEW b \in Int, a <= b, NEW c \in Nat
  PROVE  a * c <= b * c /\ a * c \in Int /\ b * c \in Int
OBVIOUS

(* A product of a sum or a difference. *)
LEMMA TimesDistributes ==
  ASSUME NEW a \in Int, NEW b \in Int, NEW c \in Int
  PROVE  (a + b) * c = a * c + b * c /\ (a - b) * c = a * c - b * c
OBVIOUS

(* A bucket whose fields are given new values of their types is a bucket. *)
LEMMA BucketUpdate ==
  ASSUME NEW K, NEW T, NEW B, B = [key : K, tokens : T, last : Int, spent : Nat, born : Int],
         NEW b \in B, NEW tokens \in T, NEW last \in Int, NEW born \in Int, NEW spent \in Nat
  PROVE  /\ [b EXCEPT !.tokens = tokens, !.last = last, !.born = born] \in B
         /\ [b EXCEPT !.tokens = tokens, !.spent = spent] \in B
OBVIOUS

(* The bucket's capacity is a token at least. *)
LEMMA Capacity == Burst * Unit \in Nat /\ Burst * Unit >= Unit
<1>1. Burst \in Nat /\ 1 <= Burst /\ Unit \in Nat
  BY RateAssumption
<1>2. 1 * Unit <= Burst * Unit /\ Burst * Unit \in Int /\ 1 * Unit = Unit
  BY <1>1, TimesMonotonic
<1> QED
  BY <1>1, <1>2

(* The time a refusal promises is in the future, and by then the rate has   *)
(* regained what the token lacks.                                           *)
LEMMA RetryAfterCovers ==
  ASSUME NEW b \in Bucket, b.tokens < Unit
  PROVE  RetryAfter(b) \in Nat \ {0} /\ b.tokens + RetryAfter(b) * Rate >= Unit
<1> DEFINE d == Unit - b.tokens + Rate - 1
           s == d \div Rate
           n == RetryAfter(b)
<1>1. b.tokens \in Nat /\ Unit \in Nat \ {0} /\ Rate \in Nat \ {0} /\ d \in Nat
  BY RateAssumption, Capacity DEF Bucket
<1>2. s \in Nat /\ s * Rate <= d /\ d < s * Rate + Rate
  BY <1>1, DivCovers
<1>3. n = IF s < 1 THEN 1 ELSE s
  BY DEF RetryAfter
<1>4. n \in Nat \ {0} /\ s <= n
  BY <1>2, <1>3
<1>5. s * Rate <= n * Rate /\ s * Rate \in Int /\ n * Rate \in Int
  BY <1>1, <1>2, <1>4, TimesMonotonic
<1> HIDE DEF s, n
<1>6. Unit - b.tokens <= s * Rate
  BY <1>1, <1>2, <1>5
<1> QED
  BY <1>1, <1>4, <1>5, <1>6 DEF n

-----------------------------------------------------------------------------
(* A refill keeps a bucket within its limit and every promise about it. *)
LEMMA RefillOK ==
  ASSUME now \in Nat, NEW b, BucketOK(b, now)
  PROVE  LET a == Refill(b)
         IN  /\ BucketOK(a, now) /\ a.last = now
             /\ a.key = b.key /\ a.spent = b.spent
             /\ \A ready, spent \in Nat :
                  Promised(b, ready, spent) => Promised(a, ready, spent)
<1> DEFINE a == Refill(b)
           BU == Burst * Unit
           gain == (now - b.last) * Rate
<1>1. /\ b \in Bucket /\ b.last \in -1..now /\ Rate \in Nat \ {0} /\ Unit \in Nat \ {0}
      /\ BU \in Nat /\ BU >= Unit /\ b.tokens \in 0..BU /\ b.spent \in Nat /\ b.born \in Int
  BY RateAssumption, Capacity DEF BucketOK, Bucket
<1>2. /\ a.last = now /\ a.key = b.key /\ a.spent = b.spent
      /\ a.born = IF b.born = -1 THEN now ELSE b.born
      /\ a.tokens = IF b.last = -1 THEN BU ELSE Least(BU, b.tokens + gain)
  BY <1>1 DEF Refill, Bucket
<1>3. gain \in Int /\ (b.last # -1 => gain \in Nat)
  <2>1. now - b.last \in Nat /\ Rate \in Nat
    BY <1>1
  <2> QED
    BY <2>1, TimesMonotonic
<1>4. a.tokens \in 0..BU
  BY <1>1, <1>2, <1>3 DEF Least
<1>5. a \in Bucket
  <2> DEFINE born == IF b.born = -1 THEN now ELSE b.born
             tokens == IF b.last = -1 THEN Burst * Unit
                       ELSE Least(Burst * Unit, b.tokens + (now - b.last) * Rate)
  <2>1. tokens \in 0..(Burst * Unit) /\ born \in Int /\ now \in Int
    BY <1>1, <1>2, <1>4
  <2>2. a = [b EXCEPT !.tokens = tokens, !.last = now, !.born = born]
    BY DEF Refill
  <2> HIDE DEF tokens, born
  <2> QED
    BY <1>1, <2>1, <2>2, BucketUpdate DEF Bucket
<1> HIDE DEF a
<1>7. CASE b.last = -1
  <2>1. b.spent = 0 /\ b.born = -1
    BY <1>7 DEF BucketOK, NewBucket
  <2>2. Within(a)
    <3>1. a.born = now /\ a.spent = 0 /\ a.tokens <= BU
      BY <1>1, <1>4, <1>2, <2>1
    <3>2. 0 * Unit = 0 /\ (now - now) * Rate = 0
      BY <1>1
    <3> QED
      BY <1>1, <1>4, <1>2, <3>1, <3>2 DEF Within
  <2>3. \A ready, spent \in Nat : ~Promised(b, ready, spent)
    BY <1>7 DEF Promised
  <2> QED
    BY <1>1, <1>5, <1>2, <2>1, <2>2, <2>3 DEF BucketOK, a
<1>8. CASE b.last # -1
  <2>1. b.born \in 0..b.last /\ a.born = b.born /\ Within(b)
    BY <1>2, <1>8 DEF BucketOK
  <2>2. a.tokens <= b.tokens + gain
    BY <1>1, <1>2, <1>3, <1>8 DEF Least
  <2>3. /\ (now - b.born) * Rate = gain + (b.last - b.born) * Rate
        /\ (b.last - b.born) * Rate \in Int
    <3>1. now - b.born = (now - b.last) + (b.last - b.born)
          /\ now - b.last \in Int /\ b.last - b.born \in Int /\ Rate \in Int
      BY <1>1, <2>1
    <3>2. ((now - b.last) + (b.last - b.born)) * Rate = gain + (b.last - b.born) * Rate
      BY <3>1, TimesDistributes
    <3> QED
      BY <3>1, <3>2
  <2>4. b.spent * Unit \in Int
    BY <1>1
  <2>5. Within(a)
    BY <1>1, <1>3, <1>4, <1>2, <2>1, <2>2, <2>3, <2>4 DEF Within
  <2>6. ASSUME NEW ready \in Nat, NEW spent \in Nat, Promised(b, ready, spent)
        PROVE  Promised(a, ready, spent)
    <3>1. spent <= a.spent /\ a.last # -1
      BY <1>2, <2>6 DEF Promised
    <3>2. CASE a.spent = spent
      <4>1. b.tokens >= Unit \/ b.tokens + (ready - b.last) * Rate >= Unit
        BY <1>2, <2>6, <3>2 DEF Promised
      <4>2. (ready - b.last) * Rate = gain + (ready - now) * Rate
            /\ (ready - now) * Rate \in Int
        <5>1. ready - b.last = (now - b.last) + (ready - now)
              /\ now - b.last \in Int /\ ready - now \in Int /\ Rate \in Int
          BY <1>1
        <5>2. ((now - b.last) + (ready - now)) * Rate = gain + (ready - now) * Rate
          BY <5>1, TimesDistributes
        <5> QED
          BY <5>1, <5>2
      <4>3. CASE a.tokens = BU
        BY <1>1, <1>2, <3>1, <3>2, <4>3 DEF Promised
      <4>4. CASE a.tokens = b.tokens + gain
        BY <1>1, <1>3, <1>2, <1>8, <3>1, <3>2, <4>1, <4>2, <4>4 DEF Promised
      <4> QED
        BY <1>2, <1>8, <4>3, <4>4 DEF Least
    <3> QED
      BY <3>1, <3>2 DEF Promised
  <2> QED
    BY <1>1, <1>5, <1>2, <2>1, <2>5, <2>6 DEF BucketOK, a
<1> QED
  BY <1>7, <1>8

(* So does the spending of a token it has. *)
LEMMA SpendOK ==
  ASSUME NEW t \in Nat, NEW b, BucketOK(b, t), b.last # -1, HasToken(b)
  PROVE  LET a == Spend(b)
         IN  /\ BucketOK(a, t) /\ a.last = b.last
             /\ a.key = b.key /\ a.spent = b.spent + 1
             /\ \A ready, spent \in Nat :
                  Promised(b, ready, spent) => Promised(a, ready, spent)
<1> DEFINE a == Spend(b)
<1>1. /\ b \in Bucket /\ Unit \in Nat \ {0} /\ Burst * Unit \in Nat
      /\ b.tokens \in 0..(Burst * Unit) /\ b.tokens >= Unit
      /\ b.spent \in Nat /\ b.born \in 0..b.last /\ Within(b)
  BY RateAssumption, Capacity DEF BucketOK, Bucket, HasToken
<1>2. /\ a.key = b.key /\ a.tokens = b.tokens - Unit /\ a.last = b.last
      /\ a.spent = b.spent + 1 /\ a.born = b.born
  BY <1>1 DEF Spend, Bucket
<1>3. a \in Bucket
  <2>1. b.tokens - Unit \in 0..(Burst * Unit)
    BY <1>1
  <2> QED
    <3>1. b.spent + 1 \in Nat /\ 0 \in Int
      BY <1>1
    <3>2. a = [b EXCEPT !.tokens = b.tokens - Unit, !.spent = b.spent + 1]
      BY DEF Spend
    <3> QED
      BY <1>1, <2>1, <3>1, <3>2, BucketUpdate DEF Bucket
<1> HIDE DEF a
<1>5. Within(a)
  <2>1. (b.spent + 1) * Unit = b.spent * Unit + Unit /\ b.spent * Unit \in Int
    <3>1. (b.spent + 1) * Unit = b.spent * Unit + 1 * Unit /\ 1 * Unit = Unit
      BY <1>1, TimesDistributes
    <3> QED
      BY <1>1, <3>1
  <2> QED
    BY <1>1, <1>2, <2>1 DEF Within
<1>6. \A ready, spent \in Nat : Promised(b, ready, spent) => Promised(a, ready, spent)
  BY <1>1, <1>2 DEF Promised
<1> QED
  BY <1>1, <1>2, <1>3, <1>5, <1>6 DEF BucketOK, a

-----------------------------------------------------------------------------
(* The buckets of hq are those of hp, and perhaps more; what was promised   *)
(* of one still holds.                                                      *)
Continues(hp, hq) ==
  /\ DOMAIN hp \subseteq DOMAIN hq
  /\ \A i \in DOMAIN hp :
       /\ hq[i].key = hp[i].key
       /\ \A ready, spent \in Nat : Promised(hp[i], ready, spent) => Promised(hq[i], ready, spent)

(* A request that does nothing stays in order while others use the buckets. *)
LEMMA RequestContinues ==
  ASSUME NEW hp, NEW hq, Continues(hp, hq), NEW q, RequestOK(q, hp)
  PROVE  RequestOK(q, hq)
<1>1. TakingOK(q, hp) => TakingOK(q, hq)
  BY DEF TakingOK, Continues
<1>2. RefusedOK(q, hp) => RefusedOK(q, hq)
  BY DEF RefusedOK, Refused, Continues
<1> QED
  BY <1>1, <1>2 DEF RequestOK

(* One request's step leaves the requests in order if it leaves that one in *)
(* order.                                                                   *)
LEMMA OneRequest ==
  ASSUME Requests, Continues(heap, heap'), NEW r \in Request, NEW q,
         RequestOK(q, heap'), req' = [req EXCEPT ![r] = q]
  PROVE  Requests'
<1>1. DOMAIN req = Request /\ DOMAIN req' = Request
  BY DEF Requests
<1>2. ASSUME NEW s \in Request PROVE RequestOK(req'[s], heap')
  <2>1. CASE s = r
    BY <1>1, <2>1
  <2>2. CASE s # r
    <3>1. req'[s] = req[s] /\ RequestOK(req[s], heap)
      BY <1>1, <2>2 DEF Requests
    <3> QED
      BY <3>1, RequestContinues
  <2> QED
    BY <2>1, <2>2
<1> QED
  BY <1>1, <1>2 DEF Requests

(* Where a request is says what is known of it. *)
LEMMA RequestAt ==
  ASSUME NEW q, NEW hp, RequestOK(q, hp)
  PROVE  /\ q.pc \in {"get", "add"} => LookingOK(q)
         /\ q.pc = "take" => TakingOK(q, hp)
         /\ q.pc = "auth" => PassingOK(q)
         /\ q.pc = "done" => SettledOK(q) \/ RefusedOK(q, hp)
         /\ q.pc \in {"idle", "get", "add", "take", "auth", "done"}
BY DEF RequestOK, Idle, LookingOK, TakingOK, PassingOK, SettledOK, RefusedOK,
       Looking, Taking, Passing, Settled, Refused

(* The keys of a client are keys, and a deferred request is one with a      *)
(* bearer token.                                                            *)
LEMMA ClientKeys ==
  ASSUME NEW c \in Client
  PROVE  /\ CallerKey(c) \in Keys /\ VerifiedKey(c) \in Keys
         /\ IpKey(c) \in Keys /\ IdKey(c.id) \in Keys
         /\ c.cred # "static" => CallerKey(c) = IpKey(c)
         /\ c.cred = "static" => CallerKey(c) = IdKey(c.id)
         /\ c.cred = "bearer" => VerifiedKey(c) = IdKey(c.id)
BY ClientAssumption DEF CallerKey, VerifiedKey, Keys

-----------------------------------------------------------------------------
(* The invariant holds before the first request. *)
LEMMA InvInit == Init => Inv
<1> SUFFICES ASSUME Init PROVE Inv
  OBVIOUS
<1>1. Cached
  <2>1. LruOK(cache, Keys, Nat) /\ LruKeys(cache) = {}
    BY LruEmptyOK DEF Init
  <2>2. Len(heap) = 0 /\ Len(cache) = 0 /\ evicted = 0
    BY DEF Init, LruEmpty
  <2> QED
    BY RateAssumption, <2>1, <2>2 DEF Cached
<1>2. Requests
  BY DEF Init, Requests, RequestOK
<1>3. Buckets
  BY DEF Init, Buckets
<1> QED
  BY RateAssumption, <1>1, <1>2, <1>3 DEF Inv, Init

(* The clock's tick changes no bucket. *)
LEMMA InvTick ==
  ASSUME Inv, Tick
  PROVE  Inv'
<1>1. now' \in 0..MaxTime /\ now' = now + 1 /\ now \in Nat
      /\ UNCHANGED <<cache, heap, evicted, req>>
  BY RateAssumption DEF Inv, Tick
<1>2. Buckets'
  BY <1>1 DEF Inv, Buckets, BucketOK
<1> QED
  BY <1>1, <1>2 DEF Inv, Cached, Requests

(* A step that changes the requests alone preserves the rest. *)
LEMMA InvRequests ==
  ASSUME Inv, UNCHANGED <<now, cache, heap, evicted>>,
         NEW r \in Request, NEW q, RequestOK(q, heap), req' = [req EXCEPT ![r] = q]
  PROVE  Inv'
<1>1. Continues(heap, heap')
  BY DEF Continues
<1>2. Requests'
  BY <1>1, OneRequest DEF Inv
<1> QED
  BY <1>2 DEF Inv, Buckets, Cached

(* rateLimit charges the right bucket, or none. *)
LEMMA InvArrive ==
  ASSUME Inv, NEW r \in Request, NEW c \in Client, Arrive(r, c)
  PROVE  Inv'
<1> DEFINE q == IF Exempted(c)
                  THEN [pc |-> "auth", client |-> c, bill |-> << >>]
                ELSE IF Defers(c) THEN Charging(c, CallerKey(c), "peek")
                ELSE Charging(c, CallerKey(c), "gate")
<1>1. req' = [req EXCEPT ![r] = q]
  BY DEF Arrive
<1>2. RequestOK(q, heap)
  <2>1. CASE Exempted(c)
    BY <2>1 DEF RequestOK, PassingOK, Passing, Bills, GateBill
  <2>2. CASE ~Exempted(c) /\ Defers(c)
    BY <2>2, ClientKeys DEF Charging, RequestOK, LookingOK, Looking, Reasons, Pays, Defers
  <2>3. CASE ~Exempted(c) /\ ~Defers(c)
    BY <2>3, ClientKeys DEF Charging, RequestOK, LookingOK, Looking, Reasons, Pays
  <2> QED
    BY <2>1, <2>2, <2>3
<1> HIDE DEF q
<1> QED
  BY <1>1, <1>2, InvRequests DEF Arrive

(* The LRU's fast path leads the request to a bucket of its key. *)
LEMMA InvGetBucket ==
  ASSUME Inv, NEW r \in Request, GetBucket(r)
  PROVE  Inv'
<1> DEFINE k == req[r].key
           q == IF LruHas(cache, k)
                  THEN [pc |-> "take", client |-> req[r].client, why |-> req[r].why,
                        at |-> LruValue(cache, k)]
                  ELSE [req[r] EXCEPT !.pc = "add"]
<1>1. /\ cache' = LruGet(cache, k) /\ req' = [req EXCEPT ![r] = q]
      /\ UNCHANGED <<now, heap, evicted>>
  BY DEF GetBucket
<1>2. LookingOK(req[r])
  BY RequestAt DEF GetBucket, Inv, Requests
<1>3. RequestOK(q, heap)
  <2>1. CASE LruHas(cache, k)
    <3>1. k \in LruKeys(cache)
      BY <2>1, LruHasKey
    <3>2. /\ LruValue(cache, k) \in DOMAIN heap /\ heap[LruValue(cache, k)].key = k
          /\ LruValue(cache, k) \in Nat
      BY <3>1, LruFound DEF Inv, Cached
    <3> QED
      BY <1>2, <2>1, <3>2 DEF LookingOK, Looking, RequestOK, TakingOK, Taking
  <2>2. CASE ~LruHas(cache, k)
    <3>1. /\ q \in Looking /\ q.client = req[r].client
          /\ q.key = req[r].key /\ q.why = req[r].why
      BY <1>2, <2>2 DEF LookingOK, Looking
    <3> QED
      BY <1>2, <3>1 DEF LookingOK, RequestOK
  <2> QED
    BY <2>1, <2>2
<1> HIDE DEF q
<1>4. Continues(heap, heap')
  BY <1>1 DEF Continues
<1>5. Requests'
  BY <1>1, <1>3, <1>4, OneRequest DEF Inv
<1>6. Cached'
  <2>1. /\ LruOK(cache', Keys, Nat) /\ LruKeys(cache') = LruKeys(cache)
        /\ Len(cache') = Len(cache) /\ SameValues(cache, cache')
    BY <1>1, LruGetOK DEF Inv, Cached
  <2> QED
    BY <1>1, <2>1 DEF Inv, Cached, SameValues
<1> QED
  BY <1>1, <1>5, <1>6 DEF Inv, Buckets

(* A bucket fresh from the heap is in order. *)
LEMMA NewBucketOK ==
  ASSUME NEW k \in Keys, NEW t \in Nat
  PROVE  BucketOK(NewBucket(k), t) /\ NewBucket(k).key = k
<1>1. 0 \in 0..(Burst * Unit)
  BY Capacity
<1>2. NewBucket(k) \in Bucket
  BY <1>1 DEF NewBucket, Bucket
<1> QED
  BY <1>2 DEF BucketOK, NewBucket

(* What is pushed out is counted: a key of the cache for an Add that        *)
(* evicts, nothing otherwise.                                               *)
LEMMA OnePushedOut ==
  ASSUME NEW V, NEW l, LruOK(l, Keys, V), NEW x \in LruKeys(l), NEW m,
         LruKeys(m) \cap LruKeys(l) = LruKeys(l) \ {x}
  PROVE  Cardinality({i \in DOMAIN l : ~LruHas(m, l[i].key)}) = 1
<1> DEFINE p == LruPlace(l, x)
<1>1. p \in DOMAIN l /\ l[p].key = x
  BY LruFound
<1>2. \A i \in DOMAIN l : l[i].key \in LruKeys(l) /\ (l[i].key = x => i = p)
  BY <1>1 DEF LruKeys, LruOK
<1>3. {i \in DOMAIN l : ~LruHas(m, l[i].key)} = {p}
  BY <1>1, <1>2, LruHasKey
<1> QED
  BY <1>3, FS_Singleton

(* PeekOrAdd leads the request to the one bucket of its key, new or not. *)
LEMMA InvAddBucket ==
  ASSUME Inv, NEW r \in Request, AddBucket(r)
  PROVE  Inv'
<1> DEFINE k == req[r].key
           n == Len(heap) + 1
           l == Install(cache, k, n)
           gone == {i \in DOMAIN cache : ~LruHas(l, cache[i].key)}
           q == [pc |-> "take", client |-> req[r].client, why |-> req[r].why,
                 at |-> LruValue(l, k)]
<1>1. /\ cache' = l /\ req' = [req EXCEPT ![r] = q] /\ now' = now
      /\ heap' = IF LruValue(l, k) = n THEN Append(heap, NewBucket(k)) ELSE heap
      /\ evicted' = evicted + Cardinality(gone)
  BY DEF AddBucket
<1>2. LookingOK(req[r]) /\ k \in Keys
  BY RequestAt DEF AddBucket, Inv, Requests, LookingOK, Looking
<1>3. /\ heap \in Seq(Bucket) /\ Len(heap) \in Nat /\ DOMAIN heap = 1..Len(heap)
      /\ n \in Nat /\ n \notin DOMAIN heap
      /\ LruOK(cache, Keys, Nat) /\ Len(cache) <= MaxBuckets /\ now \in Nat
      /\ evicted \in Nat /\ Len(heap) = Len(cache) + evicted
      /\ MaxBuckets \in Nat \ {0} /\ Len(cache) \in Nat
  BY RateAssumption, LenProperties DEF Inv, Buckets, Cached, LruOK
<1>4. CASE k \in LruKeys(cache)
  <2>1. l = cache
    BY <1>4, LruHasKey DEF Install, LruPeekOrAdd
  <2>2. /\ LruValue(cache, k) \in DOMAIN heap /\ LruValue(cache, k) \in Nat
        /\ heap[LruValue(cache, k)].key = k
    BY <1>3, <1>4, LruFound DEF Inv, Cached
  <2>3. heap' = heap /\ cache' = cache
    BY <1>1, <1>3, <2>1, <2>2
  <2>4. gone = {}
    BY <2>1, LruHasKey DEF LruKeys
  <2>5. evicted' = evicted
    <3>1. Cardinality(gone) = 0
      BY <2>4, FS_EmptySet
    <3> HIDE DEF gone
    <3> QED
      BY <1>1, <1>3, <3>1
  <2>6. RequestOK(q, heap)
    BY <1>2, <2>1, <2>2 DEF LookingOK, Looking, RequestOK, TakingOK, Taking
  <2> HIDE DEF q
  <2> QED
    BY <1>1, <2>3, <2>5, <2>6, InvRequests
<1>5. CASE k \notin LruKeys(cache)
  <2>1. l = LruAdd(cache, k, n, MaxBuckets)
    BY <1>5, LruHasKey DEF Install, LruPeekOrAdd
  <2>2. LruOK(l, Keys, Nat) /\ Added(cache, l, k, n, MaxBuckets)
    <3> HIDE DEF k, n, l, q, gone
    <3> QED
      BY <1>2, <1>3, <2>1, LruAddOK
  <2>3. NewBucket(k) \in Bucket /\ BucketOK(NewBucket(k), now) /\ NewBucket(k).key = k
    BY <1>2, <1>3, NewBucketOK DEF BucketOK
  <2> HIDE DEF l
  <2>4. heap' = Append(heap, NewBucket(k))
    BY <1>1, <2>2 DEF Added
  <2>5. /\ heap' \in Seq(Bucket) /\ Len(heap') = n /\ DOMAIN heap' = 1..n
        /\ heap'[n] = NewBucket(k) /\ \A i \in 1..Len(heap) : heap'[i] = heap[i]
    BY <1>3, <2>3, <2>4, AppendProperties, LenProperties
  <2>6. Continues(heap, heap') /\ n \in DOMAIN heap' /\ heap'[n].key = k
    BY <1>3, <2>3, <2>5 DEF Continues
  <2>7. Buckets'
    <3>1. ASSUME NEW i \in 1..n PROVE BucketOK(heap'[i], now)
      <4>1. CASE i = n
        BY <2>3, <2>5, <4>1
      <4>2. CASE i # n
        <5>1. i \in DOMAIN heap
          BY <1>3, <4>2
        <5> QED
          BY <1>3, <2>5, <5>1 DEF Inv, Buckets
      <4> QED
        BY <4>1, <4>2
    <3> QED
      BY <1>1, <2>5, <3>1 DEF Buckets
  <2>8. RequestOK(q, heap')
    BY <1>2, <1>3, <2>2, <2>6 DEF Added, LookingOK, Looking, RequestOK, TakingOK, Taking
  <2>9. Requests'
    <3> HIDE DEF q
    <3> QED
      BY <1>1, <2>6, <2>8, OneRequest DEF Inv
  <2>10. \A x \in LruKeys(l) : LruValue(l, x) \in DOMAIN heap' /\ heap'[LruValue(l, x)].key = x
    <3> SUFFICES ASSUME NEW x \in LruKeys(l)
                 PROVE  LruValue(l, x) \in DOMAIN heap' /\ heap'[LruValue(l, x)].key = x
      OBVIOUS
    <3>1. CASE x = k
      BY <2>2, <2>6, <3>1 DEF Added
    <3>2. CASE x # k
      <4>1. x \in LruKeys(cache) /\ LruValue(l, x) = LruValue(cache, x)
        BY <2>2, <3>2 DEF Added
      <4>2. LruValue(cache, x) \in DOMAIN heap /\ heap[LruValue(cache, x)].key = x
        BY <4>1 DEF Inv, Cached
      <4> QED
        BY <2>6, <4>1, <4>2 DEF Continues
    <3> QED
      BY <3>1, <3>2
  <2>11. evicted' \in Nat /\ Len(heap') = Len(l) + evicted'
    <3>1. CASE LruEvicts(cache, k, MaxBuckets)
      <4>1. PICK x \in LruKeys(cache) : LruKeys(l) = (LruKeys(cache) \ {x}) \cup {k}
        BY <2>2, <3>1 DEF Added
      <4>2. LruKeys(l) \cap LruKeys(cache) = LruKeys(cache) \ {x}
        BY <1>5, <4>1
      <4>3. Cardinality(gone) = 1
        BY <1>3, <4>2, OnePushedOut
      <4>4. Len(l) = Len(cache)
        BY <2>2, <3>1 DEF Added
      <4> HIDE DEF gone
      <4> QED
        BY <1>1, <1>3, <2>5, <4>3, <4>4
    <3>2. CASE ~LruEvicts(cache, k, MaxBuckets)
      <4>1. gone = {}
        BY <2>2, <3>2, LruHasKey DEF Added, LruKeys
      <4>2. Cardinality(gone) = 0 /\ Len(l) = Len(cache) + 1
        BY <1>5, <2>2, <3>2, <4>1, FS_EmptySet DEF Added
      <4> HIDE DEF gone
      <4> QED
        BY <1>1, <1>3, <2>5, <4>2
    <3> QED
      BY <3>1, <3>2
  <2> QED
    BY <1>1, <2>2, <2>7, <2>9, <2>10, <2>11 DEF Inv, Cached, Added
<1> QED
  BY <1>4, <1>5

(* A bucket that has no token promises one by the time that is answered.    *)
LEMMA RefusalPromises ==
  ASSUME now \in Nat, NEW b \in Bucket, b.last = now, ~HasToken(b)
  PROVE  now + RetryAfter(b) \in Nat /\ Promised(b, now + RetryAfter(b), b.spent)
<1>1. /\ b.tokens \in Nat /\ Unit \in Nat /\ b.spent \in Nat /\ b.tokens < Unit
  BY RateAssumption, Capacity DEF Bucket, HasToken
<1>2. RetryAfter(b) \in Nat /\ b.tokens + RetryAfter(b) * Rate >= Unit
  BY <1>1, RetryAfterCovers
<1>3. (now + RetryAfter(b)) - b.last = RetryAfter(b)
  BY <1>2
<1> QED
  BY <1>1, <1>2, <1>3 DEF Promised

(* A take charges the bucket within its limit, and what it answers is what  *)
(* the request is billed.                                                   *)
LEMMA InvTake ==
  ASSUME Inv, NEW r \in Request, Take(r)
  PROVE  Inv'
<1> DEFINE c   == req[r].client
           why == req[r].why
           at  == req[r].at
           b   == Refill(heap[at])
           d   == IF HasToken(b) /\ why # "peek" THEN Spend(b) ELSE b
           q   == CASE why = "failed" ->
                         Done(c, "unauthorized", IF HasToken(b) THEN <<b.key>> ELSE << >>)
                    [] why # "failed" /\ ~HasToken(b) -> Limited(c, at, b)
                    [] why = "verified" /\ HasToken(b) -> Done(c, "served", <<b.key>>)
                    [] why = "gate" /\ HasToken(b) ->
                         [pc |-> "auth", client |-> c, bill |-> <<b.key>>]
                    [] why = "peek" /\ HasToken(b) ->
                         [pc |-> "auth", client |-> c, bill |-> << >>]
<1>1. /\ heap' = [heap EXCEPT ![at] = d] /\ req' = [req EXCEPT ![r] = q]
      /\ UNCHANGED <<now, cache, evicted>>
  BY DEF Take
<1>2. /\ c \in Client /\ why \in Reasons /\ at \in DOMAIN heap
      /\ Pays(c, heap[at].key, why)
  <2>1. TakingOK(req[r], heap)
    BY RequestAt DEF Take, Inv, Requests
  <2> QED
    BY <2>1 DEF TakingOK, Taking
<1>3. /\ heap \in Seq(Bucket) /\ DOMAIN heap = 1..Len(heap) /\ now \in Nat
      /\ BucketOK(heap[at], now)
  BY RateAssumption, <1>2, LenProperties DEF Inv, Buckets
<1> HIDE DEF c, why, at, q
<1>4. /\ BucketOK(b, now) /\ b.last = now /\ b \in Bucket /\ b.last # -1
      /\ b.key = heap[at].key /\ b.spent = heap[at].spent
      /\ \A ready, spent \in Nat :
           Promised(heap[at], ready, spent) => Promised(b, ready, spent)
  <2>1. /\ BucketOK(b, now) /\ b.last = now
        /\ b.key = heap[at].key /\ b.spent = heap[at].spent
        /\ \A ready, spent \in Nat :
             Promised(heap[at], ready, spent) => Promised(b, ready, spent)
    BY <1>3, RefillOK
  <2> HIDE DEF b
  <2> QED
    BY <1>3, <2>1 DEF BucketOK
<1> HIDE DEF b
<1>5. /\ BucketOK(d, now) /\ d.key = heap[at].key /\ d \in Bucket
      /\ \A ready, spent \in Nat :
           Promised(heap[at], ready, spent) => Promised(d, ready, spent)
  <2>1. CASE HasToken(b) /\ why # "peek"
    <3>1. /\ BucketOK(Spend(b), now) /\ Spend(b).key = b.key
          /\ \A ready, spent \in Nat : Promised(b, ready, spent) => Promised(Spend(b), ready, spent)
      BY <1>3, <1>4, <2>1, SpendOK
    <3> QED
      BY <1>4, <2>1, <3>1 DEF BucketOK
  <2>2. CASE ~(HasToken(b) /\ why # "peek")
    BY <1>4, <2>2
  <2> QED
    BY <2>1, <2>2
<1> HIDE DEF d
<1>6. /\ heap' \in Seq(Bucket) /\ Len(heap') = Len(heap) /\ DOMAIN heap' = DOMAIN heap
      /\ heap'[at] = d /\ \A i \in DOMAIN heap \ {at} : heap'[i] = heap[i]
  BY <1>1, <1>2, <1>3, <1>5, ExceptSeq, LenProperties
<1>7. Continues(heap, heap')
  BY <1>5, <1>6 DEF Continues
<1>8. Buckets'
  BY <1>1, <1>5, <1>6 DEF Inv, Buckets
<1>9. Cached'
  BY <1>1, <1>6, <1>7 DEF Inv, Cached, Continues
<1>10. RequestOK(q, heap')
  <2>1. b.key \in Keys /\ <<b.key>> \in Bills /\ << >> \in Bills
    BY <1>4 DEF Bucket, Bills
  <2>2. CASE why = "failed"
    <3>1. q = Done(c, "unauthorized", IF HasToken(b) THEN <<b.key>> ELSE << >>)
      BY <2>2 DEF q
    <3>2. heap[at].key = IpKey(c)
      BY <1>2, <2>2 DEF Pays
    <3> QED
      BY <1>2, <1>4, <2>1, <3>1, <3>2 DEF Done, RequestOK, SettledOK, Settled, FinalBill
  <2>3. CASE why # "failed" /\ ~HasToken(b)
    <3>1. q = Limited(c, at, b) /\ d = b
      BY <2>3 DEF q, d
    <3>2. now + RetryAfter(b) \in Nat /\ Promised(b, now + RetryAfter(b), b.spent)
      BY <1>3, <1>4, <2>3, RefusalPromises
    <3>3. at \in Nat /\ b.spent \in Nat
      BY <1>2, <1>3, <1>4 DEF Bucket
    <3> QED
      BY <1>2, <1>6, <3>1, <3>2, <3>3 DEF Limited, RequestOK, RefusedOK, Refused
  <2>4. CASE why = "verified" /\ HasToken(b)
    <3>1. q = Done(c, "served", <<b.key>>)
      BY <2>4 DEF q
    <3>2. c.id \notin Exempt /\ heap[at].key = IdKey(c.id)
      BY <1>2, <2>4, ClientKeys DEF Pays, Defers
    <3> QED
      BY <1>2, <1>4, <2>1, <3>1, <3>2 DEF Done, RequestOK, SettledOK, Settled, FinalBill
  <2>5. CASE why = "gate" /\ HasToken(b)
    <3>1. q = [pc |-> "auth", client |-> c, bill |-> <<b.key>>]
      BY <2>5 DEF q
    <3>2. ~Exempted(c) /\ ~Defers(c) /\ heap[at].key = CallerKey(c)
      BY <1>2, <2>5 DEF Pays
    <3> QED
      BY <1>2, <1>4, <2>1, <3>1, <3>2 DEF RequestOK, PassingOK, Passing, GateBill
  <2>6. CASE why = "peek" /\ HasToken(b)
    <3>1. q = [pc |-> "auth", client |-> c, bill |-> << >>]
      BY <2>6 DEF q
    <3>2. Defers(c)
      BY <1>2, <2>6 DEF Pays
    <3> QED
      BY <1>2, <2>1, <3>1, <3>2 DEF RequestOK, PassingOK, Passing, GateBill
  <2> QED
    BY <1>2, <2>2, <2>3, <2>4, <2>5, <2>6 DEF Reasons
<1>11. Requests'
  BY <1>1, <1>7, <1>10, OneRequest DEF Inv
<1> QED
  BY <1>1, <1>8, <1>9, <1>11 DEF Inv

(* A static token's request is served at the gate's price. *)
LEMMA InvAuthenticate ==
  ASSUME Inv, NEW r \in Request, Authenticate(r)
  PROVE  Inv'
<1> DEFINE c == req[r].client
           q == Done(c, "served", req[r].bill)
<1>1. PassingOK(req[r]) /\ c.cred = "static"
  BY RequestAt DEF Authenticate, Inv, Requests
<1>2. c \in Client /\ req[r].bill \in Bills /\ GateBill(c, req[r].bill) /\ ~Defers(c)
  BY <1>1 DEF PassingOK, Passing, Defers
<1>3. req[r].bill = IF c.id \in Exempt THEN << >> ELSE <<IdKey(c.id)>>
  BY <1>1, <1>2, ClientKeys DEF GateBill, Exempted
<1>4. RequestOK(q, heap)
  BY <1>2, <1>3 DEF Done, RequestOK, SettledOK, Settled, FinalBill
<1>5. req' = [req EXCEPT ![r] = q]
  BY DEF Authenticate
<1> HIDE DEF q
<1> QED
  BY <1>4, <1>5, InvRequests DEF Authenticate

(* A verified token's request pays from its identity's bucket. *)
LEMMA InvVerify ==
  ASSUME Inv, NEW r \in Request, Verify(r)
  PROVE  Inv'
<1> DEFINE c == req[r].client
           q == IF c.id \in Exempt THEN Done(c, "served", << >>)
                ELSE Charging(c, VerifiedKey(c), "verified")
<1>1. PassingOK(req[r]) /\ Defers(c)
  BY RequestAt DEF Verify, Inv, Requests, Defers
<1>2. c \in Client
  BY <1>1 DEF PassingOK, Passing
<1>3. RequestOK(q, heap)
  <2>1. CASE c.id \in Exempt
    BY <1>2, <2>1 DEF Done, RequestOK, SettledOK, Settled, FinalBill, Bills
  <2>2. CASE c.id \notin Exempt
    BY <1>1, <1>2, <2>2, ClientKeys
    DEF Charging, RequestOK, LookingOK, Looking, Reasons, Pays
  <2> QED
    BY <2>1, <2>2
<1>4. req' = [req EXCEPT ![r] = q]
  BY DEF Verify
<1> HIDE DEF q
<1> QED
  BY <1>3, <1>4, InvRequests DEF Verify

(* A refused credential pays from its address's bucket, once. *)
LEMMA InvRefuse ==
  ASSUME Inv, NEW r \in Request, Refuse(r)
  PROVE  Inv'
<1> DEFINE c == req[r].client
           q == IF Defers(c) THEN Charging(c, IpKey(c), "failed")
                ELSE Done(c, "unauthorized", req[r].bill)
<1>1. PassingOK(req[r]) /\ c.cred # "static"
  BY RequestAt DEF Refuse, Inv, Requests
<1>2. c \in Client /\ req[r].bill \in Bills /\ GateBill(c, req[r].bill)
  BY <1>1 DEF PassingOK, Passing
<1>3. RequestOK(q, heap)
  <2>1. CASE Defers(c)
    BY <1>2, <2>1, ClientKeys
    DEF Charging, RequestOK, LookingOK, Looking, Reasons, Pays
  <2>2. CASE ~Defers(c)
    <3>1. req[r].bill = <<IpKey(c)>>
      BY <1>1, <1>2, <2>2, ClientKeys DEF GateBill, Exempted
    <3> QED
      BY <1>2, <2>2, <3>1 DEF Done, RequestOK, SettledOK, Settled, FinalBill
  <2> QED
    BY <2>1, <2>2
<1>4. req' = [req EXCEPT ![r] = q]
  BY DEF Refuse
<1> HIDE DEF q
<1> QED
  BY <1>3, <1>4, InvRequests DEF Refuse

(* Every step preserves the invariant. *)
LEMMA InvNext == Inv /\ [Next]_vars => Inv'
<1> SUFFICES ASSUME Inv, [Next]_vars PROVE Inv'
  OBVIOUS
<1>1. CASE Tick
  BY <1>1, InvTick
<1>2. CASE \E r \in Request :
             \/ \E c \in Client : Arrive(r, c)
             \/ GetBucket(r) \/ AddBucket(r) \/ Take(r)
             \/ Authenticate(r) \/ Verify(r) \/ Refuse(r)
  BY <1>2, InvArrive, InvGetBucket, InvAddBucket, InvTake,
     InvAuthenticate, InvVerify, InvRefuse
<1>3. CASE Rest \/ UNCHANGED vars
  BY <1>3 DEF Rest, vars, Inv, Buckets, Cached, Requests
<1> QED
  BY <1>1, <1>2, <1>3 DEF Next

(* The invariant holds of every reachable limiter. *)
THEOREM RateInvariant == Spec => []Inv
BY InvInit, InvNext, PTL DEF Spec

-----------------------------------------------------------------------------
(* No bucket ever lets out more than its burst and what its rate regained,  *)
(* and first contacts that race converge on one bucket, for every burst,    *)
(* rate and cache size.                                                     *)
THEOREM LimiterRespectsRate == Spec => []RateRespected
<1>1. Inv => RateRespected
  <2> SUFFICES ASSUME Inv PROVE RateRespected
    OBVIOUS
  <2>1. \A i \in DOMAIN heap : BucketOK(heap[i], now)
    BY DEF Inv, Buckets
  <2>2. ASSUME NEW i \in DOMAIN cache
        PROVE  cache[i].val \in DOMAIN heap /\ heap[cache[i].val].key = cache[i].key
    <3>1. cache[i].key \in LruKeys(cache) /\ LruValue(cache, cache[i].key) = cache[i].val
      BY LruPlaced DEF Inv, Cached, LruKeys
    <3> QED
      BY <3>1 DEF Inv, Cached
  <2>3. \A r \in Request : req[r].pc \in {"idle", "get", "add", "take", "auth", "done"}
    BY RequestAt DEF Inv, Requests
  <2>4. TypeOK
    BY <2>1, <2>2, <2>3 DEF Inv, Cached, TypeOK, BucketOK, Bucket
  <2> QED
    BY <2>1, <2>4 DEF Inv, Cached, BucketOK, Within, RateRespected
<1> QED
  BY <1>1, RateInvariant, PTL

(* Every request is billed once, to the bucket of who it turned out to be,  *)
(* whichever layer answers it.                                              *)
THEOREM LimiterBillsOnce == Spec => []BilledOnce
<1>1. Inv => BilledOnce
  <2> SUFFICES ASSUME Inv, NEW r \in Request, req[r].pc = "done"
               PROVE  LET c == req[r].client
                      IN  CASE req[r].outcome = "served" ->
                                 req[r].bill = IF c.id \in Exempt THEN << >> ELSE <<IdKey(c.id)>>
                            [] req[r].outcome = "unauthorized" -> req[r].bill \in {<< >>, <<IpKey(c)>>}
                            [] OTHER -> req[r].bill = << >>
    BY DEF BilledOnce
  <2>1. SettledOK(req[r]) \/ RefusedOK(req[r], heap)
    BY RequestAt DEF Inv, Requests
  <2>2. CASE SettledOK(req[r])
    BY <2>2 DEF SettledOK, FinalBill
  <2>3. CASE RefusedOK(req[r], heap)
    BY <2>3 DEF RefusedOK, Refused
  <2> QED
    BY <2>1, <2>2, <2>3
<1> QED
  BY <1>1, RateInvariant, PTL

(* A client that waits out its Retry-After finds a token in the bucket that *)
(* refused it, unless somebody else has spent one since.                    *)
THEOREM LimiterRetryIsEnough == Spec => []RetryIsEnough
<1>1. Inv => RetryIsEnough
  <2> SUFFICES ASSUME Inv, NEW r \in Request, req[r].pc = "done", req[r].outcome = "limited",
                      now >= req[r].ready, heap[req[r].at].spent = req[r].spent
               PROVE  HasToken(Refill(heap[req[r].at]))
    BY DEF RetryIsEnough
  <2> DEFINE b == heap[req[r].at]
             a == Refill(b)
             ready == req[r].ready
  <2>1. RefusedOK(req[r], heap)
    <3>1. SettledOK(req[r]) \/ RefusedOK(req[r], heap)
      BY RequestAt DEF Inv, Requests
    <3> QED
      BY <3>1 DEF SettledOK, Settled
  <2>2. /\ BucketOK(b, now) /\ ready \in Nat /\ req[r].spent \in Nat
        /\ Promised(b, ready, req[r].spent) /\ now \in Nat
    BY <2>1 DEF RefusedOK, Refused, Inv, Buckets
  <2>3. a.last = now /\ a.spent = b.spent /\ Promised(a, ready, req[r].spent) /\ a \in Bucket
    <3> HIDE DEF b
    <3> QED
      BY <2>2, RefillOK DEF BucketOK
  <2> HIDE DEF a
  <2>4. a.tokens >= Unit \/ a.tokens + (ready - now) * Rate >= Unit
    BY <2>3 DEF Promised
  <2>5. a.tokens \in Nat /\ Unit \in Nat /\ Rate \in Nat
    BY RateAssumption, Capacity, <2>3 DEF Bucket
  <2>6. (ready - now) * Rate <= 0 * Rate /\ (ready - now) * Rate \in Int /\ 0 * Rate = 0
    <3>1. ready - now \in Int /\ ready - now <= 0
      BY <2>2
    <3> QED
      BY <2>5, <3>1, TimesMonotonic
  <2> QED
    BY <2>4, <2>5, <2>6 DEF a, HasToken
<1> QED
  BY <1>1, RateInvariant, PTL
=============================================================================
