------------------------ MODULE CallerLedgersProofs ------------------------
(***************************************************************************)
(* What the relay keeps for each caller: its ledger, and (from Token on)    *)
(* the token its searches carry.  Safety under any number of requests in    *)
(* flight, for every set of callers, whatever their identities and session  *)
(* IDs spell, every size of the two caches and of the ledgers, and every    *)
(* lifetime a provider states.                                              *)
(***************************************************************************)
EXTENDS CallerLedgers, Search, SourceTableProofs, DataProofs

(* The tables a ledger can be. *)
Tables ==
  [entries : Seq(Entry), index : UNION {[K -> Nat] : K \in SUBSET Url},
   total : Nat, evicted : Nat]

(* What a key is a sequence of: characters, bars, and the length in front. *)
KeyParts == Nat \cup Char \cup {"|"}

(* The key of each caller in this deployment. *)
Keys == [c \in Caller |-> HistoryKey(c)]

(* The ledgers, by address, that were created under the key of c. *)
Of(keys, owners, c) == {i \in DOMAIN owners : keys[owners[i]] = keys[c]}

(* The shapes a request can have. *)
RequestType ==
       {Idle}
  \cup [pc : {"append"}, caller : Caller, at : Nat, fetch : Calls]
  \cup [pc : {"list"}, caller : Caller, at : Nat, since : Nat]

(* A request holds a ledger of its caller's key, and lists since no more    *)
(* than what that caller has been given.                                    *)
RequestOK(q, keys, owners, given) ==
  q # Idle => /\ q.at \in Of(keys, owners, q.caller)
              /\ q.pc = "list" => q.since <= given[q.caller]

(* The sources dropped by each ledger so far. *)
Evictions(tables) == [i \in DOMAIN tables |-> tables[i].evicted]

(* The requests that are about to file a fetch. *)
Appending == {x \in Request : req[x].pc = "append"}

(* The row of a source filed and not listed since, if it is still held,     *)
(* is above the cursor, so a list from there includes it.                   *)
UnseenOK(u, keys, owners, tables, c, n) ==
  /\ u.at \in Of(keys, owners, c)
  /\ Holds(tables[u.at], u.source) => Row(tables[u.at], u.source).seq > n

(* Every ledger is in order and has an owner. *)
Owned ==
  /\ stateless \in BOOLEAN
  /\ heap \in Seq(Tables) /\ owner \in Seq(Caller)
  /\ Len(owner) = Len(heap) /\ Len(heap) <= MaxLedgers
  /\ \A i \in DOMAIN heap : TableOK(heap[i])

(* The cache leads from a key to a ledger created under it. *)
Cached ==
  /\ LruOK(cache, Seq(KeyParts), Nat) /\ Len(cache) <= MaxCallers
  /\ \A k \in LruKeys(cache) : /\ LruValue(cache, k) \in DOMAIN heap
                               /\ Keys[owner[LruValue(cache, k)]] = k
  /\ callersEvicted \in Nat /\ Len(heap) = Len(cache) + callersEvicted

(* While nothing has been pushed out every ledger is cached under the key   *)
(* of its owner: there is one to a key.                                     *)
AllCached ==
  callersEvicted = 0 =>
    \A i \in DOMAIN heap : /\ Keys[owner[i]] \in LruKeys(cache)
                           /\ LruValue(cache, Keys[owner[i]]) = i

(* The requests in flight, and the room for the fetches they will file. *)
Requests ==
  /\ req \in [Request -> RequestType]
  /\ \A r \in Request : RequestOK(req[r], Keys, owner, cursor)
  /\ filed \in Nat /\ filed + Cardinality(Appending) <= MaxFetches

(* No Seq and no cursor runs ahead of the fetches filed. *)
Bounded ==
  /\ cursor \in [Caller -> Nat] /\ \A c \in Caller : cursor[c] <= filed
  /\ \A i \in DOMAIN heap : heap[i].total <= filed
  /\ unseen \in [Caller -> SUBSET [source : Url, at : Nat]]

(* The metric counts what the ledgers dropped, at most one to a fetch. *)
Metered ==
  historyEvictions \in 0..filed /\ historyEvictions = SumFunction(Evictions(heap))

(* While nothing has been pushed out a cursor is within a ledger of its     *)
(* caller, and a list from it leaves out nothing filed since.               *)
Listing ==
  callersEvicted = 0 =>
    /\ \A c \in Caller :
         cursor[c] = 0 \/ \E i \in Of(Keys, owner, c) : cursor[c] <= heap[i].total
    /\ \A c \in Caller : \A u \in unseen[c] :
         UnseenOK(u, Keys, owner, heap, c, cursor[c])

(* The inductive invariant. *)
Inv ==
  /\ Owned /\ Cached /\ AllCached /\ Requests /\ Bounded /\ Metered
  /\ Listing /\ ~leaked /\ (callersEvicted = 0 => ~skipped)
-----------------------------------------------------------------------------
(* k is f, i, b and e one after the other. *)
Spells(k, f, i, b, e) ==
  /\ Len(k) = Len(f) + Len(i) + Len(b) + Len(e)
  /\ \A x \in 1..Len(f) : k[x] = f[x]
  /\ \A x \in 1..Len(i) : k[Len(f) + x] = i[x]
  /\ \A x \in 1..Len(e) : k[Len(f) + Len(i) + Len(b) + x] = e[x]

(* So is what joins the four. *)
LEMMA FourJoined ==
  ASSUME NEW S, NEW front \in Seq(S), NEW id \in Seq(S), NEW bar \in Seq(S), NEW ses \in Seq(S)
  PROVE  /\ front \o id \o bar \o ses \in Seq(S)
         /\ Spells(front \o id \o bar \o ses, front, id, bar, ses)
<1> DEFINE a == front \o id
           b == a \o bar
           k == b \o ses
           p == Len(front)
           n == Len(id)
           q == Len(bar)
           m == Len(ses)
<1>1. /\ a \in Seq(S) /\ Len(a) = p + n /\ n \in Nat /\ p \in Nat
      /\ \A i \in 1..p : a[i] = front[i]
      /\ \A i \in 1..n : a[p + i] = id[i]
  BY Joined
<1>2. /\ b \in Seq(S) /\ Len(b) = Len(a) + q /\ q \in Nat
      /\ \A i \in 1..Len(a) : b[i] = a[i]
  <2>1. a \in Seq(S)
    BY <1>1
  <2> HIDE DEF a
  <2> QED
    BY <2>1, Joined
<1>3. /\ k \in Seq(S) /\ Len(k) = Len(b) + m /\ m \in Nat
      /\ \A i \in 1..Len(b) : k[i] = b[i]
      /\ \A i \in 1..m : k[Len(b) + i] = ses[i]
  <2>1. b \in Seq(S)
    BY <1>2
  <2> HIDE DEF b
  <2> QED
    BY <2>1, Joined
<1> HIDE DEF a, b, k, p, n, q, m
<1>4. Len(b) = p + n + q /\ Len(k) = p + n + q + m
  BY <1>1, <1>2, <1>3
<1>5. ASSUME NEW i \in 1..p PROVE k[i] = front[i]
  <2>1. i \in 1..Len(a) /\ i \in 1..Len(b)
    BY <1>1, <1>2, <1>4
  <2> QED
    BY <1>1, <1>2, <1>3, <2>1
<1>6. ASSUME NEW i \in 1..n PROVE k[p + i] = id[i]
  <2>1. p + i \in 1..Len(a) /\ p + i \in 1..Len(b)
    BY <1>1, <1>2, <1>4
  <2> QED
    BY <1>1, <1>2, <1>3, <2>1
<1>7. ASSUME NEW i \in 1..m PROVE k[p + n + q + i] = ses[i]
  BY <1>3, <1>4
<1> QED
  BY <1>1, <1>2, <1>3, <1>4, <1>5, <1>6, <1>7 DEF k, b, a, p, n, q, m, Spells

(* A key, taken apart: the length, the identity, the session. *)
LEMMA KeyShape ==
  ASSUME NEW id \in Seq(KeyParts), NEW ses \in Seq(KeyParts)
  PROVE  LET k == <<Len(id), "|">> \o id \o <<"|">> \o ses
         IN  /\ k \in Seq(KeyParts) /\ Len(k) = Len(id) + Len(ses) + 3
             /\ k[1] = Len(id)
             /\ \A i \in 1..Len(id) : k[2 + i] = id[i]
             /\ \A i \in 1..Len(ses) : k[Len(id) + 3 + i] = ses[i]
<1> DEFINE n == Len(id)
           m == Len(ses)
           pipe == "|"
           front == <<n, pipe>>
           bar == <<pipe>>
           k == front \o id \o bar \o ses
<1>1. n \in Nat /\ m \in Nat /\ n \in KeyParts
  BY LenProperties DEF KeyParts
<1>2. pipe \in KeyParts
  BY DEF KeyParts
<1> HIDE DEF n, m, pipe
<1>3. front \in Seq(KeyParts) /\ Len(front) = 2 /\ front[1] = n
  BY <1>1, <1>2
<1>4. bar \in Seq(KeyParts) /\ Len(bar) = 1
  BY <1>2
<1>5. /\ k \in Seq(KeyParts) /\ Len(k) = Len(front) + n + Len(bar) + m
      /\ \A i \in 1..Len(front) : k[i] = front[i]
      /\ \A i \in 1..n : k[Len(front) + i] = id[i]
      /\ \A i \in 1..m : k[Len(front) + n + Len(bar) + i] = ses[i]
  <2>1. front \in Seq(KeyParts) /\ bar \in Seq(KeyParts)
    BY <1>3, <1>4
  <2> HIDE DEF front, bar
  <2>2. id \in Seq(KeyParts) /\ ses \in Seq(KeyParts)
    OBVIOUS
  <2>3. k \in Seq(KeyParts) /\ Spells(k, front, id, bar, ses)
    BY <2>1, <2>2, FourJoined
  <2> HIDE DEF k
  <2> QED
    BY <2>3 DEF Spells, n, m
<1> HIDE DEF k, front, bar
<1>6. k[1] = n /\ Len(k) = n + m + 3
  BY <1>1, <1>3, <1>4, <1>5
<1>7. /\ \A i \in 1..n : k[2 + i] = id[i]
      /\ \A i \in 1..m : k[n + 3 + i] = ses[i]
  <2>1. \A i \in 1..m : 2 + n + 1 + i = n + 3 + i
    BY <1>1
  <2> QED
    BY <1>3, <1>4, <1>5, <2>1
<1> QED
  BY <1>5, <1>6, <1>7 DEF k, n, m, front, bar, pipe

(* The session ID of a caller is a text, as its parts are. *)
LEMMA SessionText ==
  ASSUME NEW c \in Caller
  PROVE  SessionIDOf(c) \in Seq(KeyParts) /\ c.identity \in Seq(KeyParts)
<1> DEFINE Text == Seq(Char)
<1>1. c.identity \in Text /\ c.sdk \in Text /\ c.header \in Text
  BY CallersAssumption
<1>2. << >> \in Text
  BY EmptySeq
<1>3. Text \subseteq Seq(KeyParts)
  <2>1. Char \subseteq KeyParts
    BY DEF KeyParts
  <2> QED
    BY <2>1, SeqMonotonic
<1> HIDE DEF Text
<1>4. SdkSession(c) \in Text
  BY <1>1, <1>2 DEF SdkSession
<1>5. Sanitize(c.header) \in Text
  BY <1>1, <1>2 DEF Sanitize
<1>6. TrackClientSession(c) \in Text
  BY <1>2, <1>5 DEF TrackClientSession
<1>7. SessionIDOf(c) \in Text
  BY <1>4, <1>6 DEF SessionIDOf
<1> QED
  BY <1>1, <1>3, <1>7

(* Two callers share a key only with the same identity and session ID: the  *)
(* length in front says where the identity ends.                            *)
LEMMA KeyInjective ==
  ASSUME NEW o \in Caller, NEW c \in Caller, HistoryKey(o) = HistoryKey(c)
  PROVE  o.identity = c.identity /\ SessionIDOf(o) = SessionIDOf(c)
<1> DEFINE k == HistoryKey(c)
           n == Len(c.identity)
           so == SessionIDOf(o)
           sc == SessionIDOf(c)
<1>1. /\ so \in Seq(KeyParts) /\ sc \in Seq(KeyParts)
      /\ o.identity \in Seq(KeyParts) /\ c.identity \in Seq(KeyParts)
  BY SessionText
<1>2. /\ n \in Nat /\ Len(o.identity) \in Nat /\ Len(so) \in Nat /\ Len(sc) \in Nat
  BY <1>1, LenProperties
<1> HIDE DEF so, sc
<1>3. /\ Len(k) = n + Len(sc) + 3 /\ k[1] = n
      /\ \A i \in 1..n : k[2 + i] = c.identity[i]
      /\ \A i \in 1..Len(sc) : k[n + 3 + i] = sc[i]
  BY <1>1, KeyShape DEF HistoryKey, sc
<1>4. /\ Len(k) = Len(o.identity) + Len(so) + 3 /\ k[1] = Len(o.identity)
      /\ \A i \in 1..Len(o.identity) : k[2 + i] = o.identity[i]
      /\ \A i \in 1..Len(so) : k[Len(o.identity) + 3 + i] = so[i]
  <2>1. k = HistoryKey(o)
    OBVIOUS
  <2> HIDE DEF k
  <2>2. k = <<Len(o.identity), "|">> \o o.identity \o <<"|">> \o so
    BY <2>1 DEF HistoryKey, so
  <2> QED
    BY <1>1, <2>2, KeyShape
<1> HIDE DEF k
<1>5. Len(o.identity) = n /\ Len(so) = Len(sc)
  BY <1>2, <1>3, <1>4
<1>6. o.identity = c.identity
  <2>1. \A i \in 1..Len(o.identity) : o.identity[i] = c.identity[i]
    BY <1>3, <1>4, <1>5
  <2> QED
    BY <1>1, <1>5, <2>1, SeqEqual
<1>7. so = sc
  <2>1. \A i \in 1..Len(so) : so[i] = sc[i]
    BY <1>3, <1>4, <1>5
  <2> QED
    BY <1>1, <1>5, <2>1, SeqEqual
<1> QED
  BY <1>6, <1>7 DEF so, sc

(* So a ledger created under the caller's own key is not another's, nor     *)
(* another conversation's: an unusable session ID is dropped, not altered.  *)
LEMMA KeyIsOwn ==
  ASSUME stateless \in BOOLEAN, NEW o \in Caller, NEW c \in Caller,
         HistoryKey(o) = HistoryKey(c)
  PROVE  ~Foreign(o, c)
<1>1. o.identity = c.identity /\ SessionIDOf(o) = SessionIDOf(c)
  BY KeyInjective
<1>2. ASSUME SessionIDOf(c) # << >>
      PROVE  (IF stateless THEN o.header ELSE o.sdk) = (IF stateless THEN c.header ELSE c.sdk)
  <2>1. CASE stateless
    <3>1. SessionIDOf(o) = Sanitize(o.header) /\ SessionIDOf(c) = Sanitize(c.header)
      BY <2>1 DEF SessionIDOf, SdkSession, TrackClientSession
    <3>2. Sanitize(o.header) = o.header /\ Sanitize(c.header) = c.header
      BY <1>1, <1>2, <3>1 DEF Sanitize
    <3> QED
      BY <1>1, <2>1, <3>1, <3>2
  <2>2. CASE ~stateless
    <3>1. SessionIDOf(o) = o.sdk /\ SessionIDOf(c) = c.sdk
      BY <2>2 DEF SessionIDOf, SdkSession, TrackClientSession
    <3> QED
      BY <1>1, <2>2, <3>1
  <2> QED
    BY <2>1, <2>2
<1> QED
  BY <1>1, <1>2 DEF Foreign

(* The keys are sequences of parts, and do not change while the relay runs. *)
LEMMA KeysAreKeys ==
  ASSUME NEW c \in Caller
  PROVE  Keys[c] = HistoryKey(c) /\ Keys[c] \in Seq(KeyParts)
<1>1. HistoryKey(c) \in Seq(KeyParts)
  BY SessionText, KeyShape DEF HistoryKey
<1> QED
  BY <1>1 DEF Keys

(* The keys depend on the deployment mode only. *)
LEMMA KeysStay == stateless' = stateless => Keys' = Keys
BY DEF Keys, HistoryKey, SessionIDOf, SdkSession, TrackClientSession

-----------------------------------------------------------------------------
(* A table in order is one of Tables. *)
LEMMA TableIsTable ==
  ASSUME NEW g, TableOK(g)
  PROVE  g \in Tables
<1>1. /\ g = [entries |-> g.entries, index |-> g.index,
              total |-> g.total, evicted |-> g.evicted]
      /\ g.entries \in Seq(Entry) /\ g.total \in Nat /\ g.evicted \in Nat
  BY DEF TableOK, TableType
<1>2. g.index \in UNION {[K -> Nat] : K \in SUBSET Url}
  BY DEF TableOK, TableType
<1> QED
  BY <1>1, <1>2 DEF Tables

(* The addresses and owners of the ledgers. *)
LEMMA Addresses ==
  ASSUME Owned
  PROVE  /\ Len(heap) \in Nat /\ DOMAIN heap = 1..Len(heap) /\ DOMAIN owner = DOMAIN heap
         /\ \A i \in DOMAIN heap : owner[i] \in Caller /\ heap[i] \in Tables
         /\ IsFiniteSet(DOMAIN heap)
<1>1. /\ heap \in Seq(Tables) /\ owner \in Seq(Caller) /\ Len(owner) = Len(heap)
  BY DEF Owned
<1>2. /\ Len(heap) \in Nat /\ DOMAIN heap = 1..Len(heap) /\ DOMAIN owner = 1..Len(owner)
      /\ heap \in [1..Len(heap) -> Tables] /\ owner \in [1..Len(owner) -> Caller]
  BY <1>1, LenProperties
<1>3. IsFiniteSet(DOMAIN heap)
  BY <1>2, FS_Interval
<1> QED
  BY <1>1, <1>2, <1>3

(* Each ledger has dropped a number of sources. *)
LEMMA EvictionsNat ==
  ASSUME Owned
  PROVE  /\ DOMAIN Evictions(heap) = DOMAIN heap
         /\ \A i \in DOMAIN heap : Evictions(heap)[i] \in Nat /\ heap[i].total \in Nat
<1>1. \A i \in DOMAIN heap : heap[i].evicted \in Nat /\ heap[i].total \in Nat
  BY DEF Owned, TableOK, TableType
<1> QED
  BY <1>1 DEF Evictions

(* What historyFor does besides finding its caller's ledger: it may add an  *)
(* empty one, and it changes none.                                          *)
Found(c, at) ==
  /\ Keys' = Keys /\ Owned' /\ Cached' /\ AllCached'
  /\ at \in Of(Keys, owner', c)
  /\ DOMAIN heap \subseteq DOMAIN heap'
  /\ \A i \in DOMAIN heap : heap'[i] = heap[i] /\ owner'[i] = owner[i]
  /\ \A i \in DOMAIN heap' \ DOMAIN heap : heap'[i] = EmptyTable
  /\ callersEvicted' = 0 => callersEvicted = 0
  /\ SumFunction(Evictions(heap')) = SumFunction(Evictions(heap))

(* A ledger that is cached is found, and becomes the most recent. *)
LEMMA FindOK ==
  ASSUME Inv, stateless' = stateless, NEW c \in Caller, NEW at,
         FindLedger(HistoryKey(c), at)
  PROVE  Found(c, at)
<1> DEFINE k == HistoryKey(c)
<1>1. /\ k \in LruKeys(cache) /\ at = LruValue(cache, k) /\ cache' = LruGet(cache, k)
      /\ heap' = heap /\ owner' = owner /\ callersEvicted' = callersEvicted
  BY LruHasKey DEF FindLedger
<1>2. Keys' = Keys /\ Keys[c] = k
  BY KeysStay, KeysAreKeys
<1>3. Owned /\ Cached /\ AllCached /\ LruOK(cache, Seq(KeyParts), Nat)
  BY DEF Inv, Cached
<1> HIDE DEF k
<1>4. /\ LruOK(cache', Seq(KeyParts), Nat) /\ LruKeys(cache') = LruKeys(cache)
      /\ Len(cache') = Len(cache) /\ SameValues(cache, cache')
  BY <1>1, <1>3, LruGetOK
<1>5. Owned'
  BY <1>1, <1>3 DEF Owned
<1>6. Cached'
  BY <1>1, <1>2, <1>3, <1>4 DEF Cached, SameValues
<1>7. AllCached'
  BY <1>1, <1>2, <1>3, <1>4 DEF AllCached, SameValues
<1>8. at \in Of(Keys, owner', c)
  BY <1>1, <1>2, <1>3, Addresses DEF Cached, Of
<1> QED
  BY <1>1, <1>2, <1>5, <1>6, <1>7, <1>8 DEF Found

(* A caller without one gets an empty ledger of its own; a cached one may   *)
(* be pushed out for it, and then that is counted.                          *)
LEMMA CreateOK ==
  ASSUME Inv, stateless' = stateless, NEW c \in Caller, NEW at,
         ~LruHas(cache, HistoryKey(c)), CreateLedger(HistoryKey(c), c, at)
  PROVE  Found(c, at)
<1> DEFINE k == HistoryKey(c)
           n == Len(heap)
<1>1. /\ k \notin LruKeys(cache) /\ n < MaxLedgers /\ at = n + 1
      /\ heap' = Append(heap, EmptyTable) /\ owner' = Append(owner, c)
      /\ cache' = LruAdd(cache, k, at, MaxCallers)
      /\ callersEvicted' =
           callersEvicted + (IF LruEvicts(cache, k, MaxCallers) THEN 1 ELSE 0)
  BY LruHasKey DEF CreateLedger
<1>2. Keys' = Keys /\ Keys[c] = k /\ k \in Seq(KeyParts)
  BY KeysStay, KeysAreKeys
<1>3. /\ Owned /\ Cached /\ AllCached /\ LruOK(cache, Seq(KeyParts), Nat)
      /\ Len(cache) <= MaxCallers /\ MaxCallers \in Nat \ {0} /\ MaxLedgers \in Nat
      /\ callersEvicted \in Nat /\ n = Len(cache) + callersEvicted
  BY CallersAssumption DEF Inv, Cached
<1>4. /\ n \in Nat /\ DOMAIN heap = 1..n /\ DOMAIN owner = 1..n /\ Len(owner) = n
      /\ \A i \in 1..n : owner[i] \in Caller
  BY <1>3, Addresses DEF Owned
<1> HIDE DEF k
<1>5. /\ heap' \in Seq(Tables) /\ Len(heap') = n + 1 /\ DOMAIN heap' = 1..(n + 1)
      /\ \A i \in 1..n : heap'[i] = heap[i]
      /\ heap'[n + 1] = EmptyTable
  <2>1. heap \in Seq(Tables) /\ EmptyTable \in Tables
    BY <1>3, EmptyTableOK, TableIsTable DEF Owned
  <2>2. /\ heap' \in Seq(Tables) /\ Len(heap') = n + 1
        /\ \A i \in 1..n : heap'[i] = heap[i]
        /\ heap'[n + 1] = EmptyTable
    BY <1>1, <2>1, AppendProperties
  <2> QED
    BY <2>2, LenProperties
<1>6. /\ owner' \in Seq(Caller) /\ Len(owner') = n + 1 /\ DOMAIN owner' = 1..(n + 1)
      /\ \A i \in 1..n : owner'[i] = owner[i]
      /\ owner'[n + 1] = c
  <2>1. owner \in Seq(Caller)
    BY <1>3 DEF Owned
  <2>2. /\ owner' \in Seq(Caller) /\ Len(owner') = n + 1
        /\ \A i \in 1..n : owner'[i] = owner[i]
        /\ owner'[n + 1] = c
    BY <1>1, <1>4, <2>1, AppendProperties
  <2> QED
    BY <2>2, LenProperties
<1> HIDE DEF n
<1>7. /\ LruOK(cache', Seq(KeyParts), Nat) /\ Added(cache, cache', k, at, MaxCallers)
      /\ Len(cache) \in Nat
  <2>1. at \in Nat
    BY <1>1, <1>4
  <2>2. Len(cache) \in Nat
    BY <1>3, LenProperties DEF LruOK
  <2> QED
    BY <1>1, <1>2, <1>3, <2>1, <2>2, LruAddOK
<1>8. Owned'
  <2>1. ASSUME NEW i \in 1..(n + 1) PROVE TableOK(heap'[i])
    <3>1. CASE i = n + 1
      BY <1>5, <3>1, EmptyTableOK
    <3>2. CASE i # n + 1
      BY <1>3, <1>4, <1>5, <3>2 DEF Owned
    <3> QED
      BY <3>1, <3>2
  <2>2. n + 1 <= MaxLedgers
    BY <1>1, <1>3, <1>4
  <2>3. stateless' \in BOOLEAN
    BY <1>3 DEF Owned
  <2> QED
    BY <1>5, <1>6, <2>1, <2>2, <2>3 DEF Owned
<1>9. callersEvicted' \in Nat /\ Len(heap') = Len(cache') + callersEvicted'
      /\ callersEvicted <= callersEvicted'
  <2>1. CASE LruEvicts(cache, k, MaxCallers)
    <3>1. callersEvicted' = callersEvicted + 1 /\ Len(cache') = Len(cache)
      BY <1>1, <1>7, <2>1 DEF Added
    <3> QED
      BY <1>3, <1>4, <1>5, <1>7, <3>1
  <2>2. CASE ~LruEvicts(cache, k, MaxCallers)
    <3>1. callersEvicted' = callersEvicted + 0 /\ Len(cache') = Len(cache) + 1
      BY <1>1, <1>7, <2>2 DEF Added
    <3> QED
      BY <1>3, <1>4, <1>5, <1>7, <3>1
  <2> QED
    BY <2>1, <2>2
<1>10. Cached'
  <2>1. ASSUME NEW x \in LruKeys(cache')
        PROVE  LruValue(cache', x) \in 1..(n + 1) /\ Keys[owner'[LruValue(cache', x)]] = x
    <3>1. CASE x = k
      BY <1>1, <1>2, <1>4, <1>6, <1>7, <3>1 DEF Added
    <3>2. CASE x # k
      <4>1. x \in LruKeys(cache) /\ LruValue(cache', x) = LruValue(cache, x)
        BY <1>7, <3>2 DEF Added
      <4>2. LruValue(cache, x) \in 1..n /\ Keys[owner[LruValue(cache, x)]] = x
        BY <1>3, <1>4, <4>1 DEF Cached
      <4> QED
        BY <1>4, <1>6, <4>1, <4>2
    <3> QED
      BY <3>1, <3>2
  <2>2. Len(cache') <= MaxCallers
    BY <1>7 DEF Added
  <2> QED
    BY <1>2, <1>5, <1>7, <1>9, <2>1, <2>2 DEF Cached
<1>11. AllCached'
  <2> SUFFICES ASSUME callersEvicted' = 0, NEW i \in 1..(n + 1)
               PROVE  /\ Keys[owner'[i]] \in LruKeys(cache')
                      /\ LruValue(cache', Keys[owner'[i]]) = i
    BY <1>2, <1>5 DEF AllCached
  <2>1. callersEvicted = 0 /\ ~LruEvicts(cache, k, MaxCallers)
    BY <1>1, <1>3, <1>9
  <2>2. LruKeys(cache') = LruKeys(cache) \cup {k} /\ LruValue(cache', k) = at
        /\ \A x \in LruKeys(cache') \ {k} : LruValue(cache', x) = LruValue(cache, x)
    BY <1>7, <2>1 DEF Added
  <2>3. CASE i = n + 1
    BY <1>1, <1>2, <1>6, <2>2, <2>3
  <2>4. CASE i # n + 1
    <3>1. i \in 1..n /\ owner'[i] = owner[i]
      BY <1>4, <1>6, <2>4
    <3>2. Keys[owner[i]] \in LruKeys(cache) /\ LruValue(cache, Keys[owner[i]]) = i
      BY <1>3, <1>4, <2>1, <3>1 DEF AllCached
    <3> QED
      BY <1>1, <2>2, <3>1, <3>2
  <2> QED
    BY <2>3, <2>4
<1>12. at \in Of(Keys, owner', c)
  BY <1>1, <1>4, <1>6 DEF Of
<1>13. SumFunction(Evictions(heap')) = SumFunction(Evictions(heap))
  <2>1. /\ IsFiniteSet(DOMAIN heap) /\ DOMAIN Evictions(heap) = DOMAIN heap
        /\ \A i \in DOMAIN heap : Evictions(heap)[i] \in Nat
    BY <1>3, Addresses, EvictionsNat
  <2>2. /\ DOMAIN Evictions(heap') = DOMAIN heap \cup {n + 1}
        /\ \A i \in DOMAIN heap \ {n + 1} : Evictions(heap')[i] = Evictions(heap)[i]
        /\ Evictions(heap')[n + 1] = 0 /\ n + 1 \notin DOMAIN heap
    BY <1>4, <1>5 DEF Evictions, EmptyTable
  <2>3. /\ SumFunction(Evictions(heap)) \in Nat /\ SumFunction(Evictions(heap')) \in Nat
        /\ SumFunction(Evictions(heap')) + 0 = SumFunction(Evictions(heap)) + 0
    <3>1. 0 \in Nat
      OBVIOUS
    <3> QED
      BY <2>1, <2>2, <3>1, SumChanges
  <2> QED
    BY <2>3
<1>14. callersEvicted' = 0 => callersEvicted = 0
  BY <1>3, <1>9
<1>15. /\ DOMAIN heap \subseteq DOMAIN heap'
       /\ \A i \in DOMAIN heap : heap'[i] = heap[i] /\ owner'[i] = owner[i]
       /\ \A i \in DOMAIN heap' \ DOMAIN heap : heap'[i] = EmptyTable
  BY <1>4, <1>5, <1>6
<1> QED
  BY <1>2, <1>8, <1>10, <1>11, <1>12, <1>13, <1>14, <1>15 DEF Found

(* Whichever it is, historyFor finds. *)
LEMMA HistoryForOK ==
  ASSUME Inv, stateless' = stateless, NEW c \in Caller, NEW at, HistoryFor(c, at)
  PROVE  Found(c, at)
BY FindOK, CreateOK DEF HistoryFor

-----------------------------------------------------------------------------
(* The requests by what they are doing. *)
LEMMA RequestShape ==
  ASSUME NEW q \in RequestType
  PROVE  /\ q = Idle => q.pc = "idle"
         /\ q.pc \in {"idle", "append", "list"}
         /\ q.pc = "idle" => q = Idle
         /\ q.pc = "append" => q # Idle /\ q.caller \in Caller /\ q.at \in Nat /\ q.fetch \in Calls
         /\ q.pc = "list" => q # Idle /\ q.caller \in Caller /\ q.at \in Nat /\ q.since \in Nat
<1>1. CASE q = Idle
  <2>1. q.pc = "idle"
    BY <1>1 DEF Idle
  <2> QED
    BY <1>1, <2>1
<1>2. CASE q \in [pc : {"append"}, caller : Caller, at : Nat, fetch : Calls]
  <2>1. q.pc = "append" /\ q.caller \in Caller /\ q.at \in Nat /\ q.fetch \in Calls
    BY <1>2
  <2>2. q # Idle
    BY <2>1 DEF Idle
  <2> QED
    BY <2>1, <2>2
<1>3. CASE q \in [pc : {"list"}, caller : Caller, at : Nat, since : Nat]
  <2>1. q.pc = "list" /\ q.caller \in Caller /\ q.at \in Nat /\ q.since \in Nat
    BY <1>3
  <2>2. q # Idle
    BY <2>1 DEF Idle
  <2> QED
    BY <2>1, <2>2
<1> QED
  BY <1>1, <1>2, <1>3 DEF RequestType

(* The fetches still to be filed are finitely many. *)
LEMMA AppendingFinite == IsFiniteSet(Appending) /\ Cardinality(Appending) \in Nat
<1>1. Appending \in SUBSET Request
  BY DEF Appending
<1> QED
  BY <1>1, CallersAssumption, FS_Subset, FS_CardinalityType

(* A request that has found its caller's ledger. *)
LEMMA StartOK ==
  ASSUME Inv, stateless' = stateless, NEW r \in Request,
         NEW c \in Caller, NEW at, Found(c, at),
         NEW q \in RequestType, q.caller = c, q.at = at,
         q.pc = "list" => q.since <= cursor[c],
         req' = [req EXCEPT ![r] = q],
         filed + Cardinality(Appending') <= MaxFetches,
         UNCHANGED <<cursor, historyEvictions, unseen, leaked, skipped, filed>>
  PROVE  Inv'
<1>1. /\ Owned /\ Requests /\ Bounded /\ Metered /\ Listing
      /\ ~leaked /\ (callersEvicted = 0 => ~skipped)
  BY DEF Inv
<1>2. /\ Keys' = Keys /\ Owned' /\ Cached' /\ AllCached'
      /\ callersEvicted' = 0 => callersEvicted = 0
  BY DEF Found
<1>3. /\ DOMAIN heap \subseteq DOMAIN heap' /\ DOMAIN owner = DOMAIN heap
      /\ DOMAIN owner' = DOMAIN heap'
      /\ \A i \in DOMAIN heap : heap'[i] = heap[i] /\ owner'[i] = owner[i]
  <2>1. DOMAIN owner' = DOMAIN heap'
    BY <1>2 DEF Owned
  <2> QED
    BY <1>1, <2>1, Addresses DEF Found
<1>4. \A d : Of(Keys, owner, d) \subseteq Of(Keys, owner', d)
  BY <1>3 DEF Of
<1>5. Requests'
  <2>1. req \in [Request -> RequestType] /\ filed \in Nat
    BY <1>1 DEF Requests
  <2>2. req' \in [Request -> RequestType]
    BY <2>1
  <2>3. ASSUME NEW x \in Request PROVE RequestOK(req'[x], Keys, owner', cursor)
    <3>1. CASE x = r
      BY <2>1, <3>1 DEF RequestOK, Found
    <3>2. CASE x # r
      <4>1. req'[x] = req[x]
        BY <2>1, <3>2
      <4> QED
        BY <1>1, <1>4, <4>1 DEF Requests, RequestOK
    <3> QED
      BY <3>1, <3>2
  <2> QED
    BY <1>2, <2>1, <2>2, <2>3 DEF Requests
<1>6. Bounded'
  <2>1. ASSUME NEW i \in DOMAIN heap' PROVE heap'[i].total <= filed
    <3>1. CASE i \in DOMAIN heap
      BY <1>1, <1>3, <3>1 DEF Bounded
    <3>2. CASE i \notin DOMAIN heap
      BY <1>1, <3>2 DEF Found, EmptyTable, Requests
    <3> QED
      BY <3>1, <3>2
  <2> QED
    BY <1>1, <2>1 DEF Bounded
<1>7. Metered'
  BY <1>1 DEF Metered, Found
<1>8. Listing'
  <2> SUFFICES ASSUME callersEvicted' = 0, NEW d \in Caller
               PROVE  /\ cursor[d] = 0 \/ \E i \in Of(Keys, owner', d) : cursor[d] <= heap'[i].total
                      /\ \A u \in unseen[d] : UnseenOK(u, Keys, owner', heap', d, cursor[d])
    BY <1>2 DEF Listing
  <2>1. /\ cursor[d] = 0 \/ \E i \in Of(Keys, owner, d) : cursor[d] <= heap[i].total
        /\ \A u \in unseen[d] : UnseenOK(u, Keys, owner, heap, d, cursor[d])
    BY <1>1, <1>2 DEF Listing
  <2>2. \A i \in Of(Keys, owner, d) : heap'[i] = heap[i]
    BY <1>3 DEF Of
  <2> QED
    BY <1>4, <2>1, <2>2 DEF UnseenOK
<1>9. ~leaked' /\ (callersEvicted' = 0 => ~skipped')
  BY <1>1, <1>2
<1> QED
  BY <1>2, <1>5, <1>6, <1>7, <1>8, <1>9 DEF Inv

(* recordFetch finds its ledger, and there is room for what it will file. *)
LEMMA StartRecordOK ==
  ASSUME Inv, stateless' = stateless, NEW r \in Request, NEW c \in Caller, NEW f \in Calls,
         StartRecord(r, c, f)
  PROVE  Inv'
<1>1. PICK at \in 1..MaxLedgers :
        /\ HistoryFor(c, at)
        /\ req' = [req EXCEPT ![r] =
                     [pc |-> "append", caller |-> c, at |-> at, fetch |-> f]]
  BY DEF StartRecord
<1>2. /\ req[r] = Idle /\ filed + Cardinality(Appending) < MaxFetches
      /\ UNCHANGED <<cursor, historyEvictions, unseen, leaked, skipped, filed>>
  BY DEF StartRecord, Appending
<1> DEFINE q == [pc |-> "append", caller |-> c, at |-> at, fetch |-> f]
<1>3. q \in RequestType /\ q.caller = c /\ q.at = at /\ q.pc = "append"
  <2>1. at \in Nat
    OBVIOUS
  <2> QED
    BY <2>1 DEF RequestType
<1>4. req \in [Request -> RequestType] /\ filed \in Nat
  BY DEF Inv, Requests
<1>5. Appending' = Appending \cup {r} /\ r \notin Appending
  <2>1. req[r].pc = "idle"
    BY <1>2, <1>4, RequestShape
  <2>2. \A x \in Request : req'[x].pc = IF x = r THEN "append" ELSE req[x].pc
    BY <1>1, <1>4
  <2> QED
    BY <2>1, <2>2 DEF Appending
<1>6. Cardinality(Appending') = Cardinality(Appending) + 1
  BY <1>5, AppendingFinite, FS_AddElement
<1>7. filed + Cardinality(Appending') <= MaxFetches
  BY <1>2, <1>4, <1>6, AppendingFinite, CallersAssumption
<1>8. Found(c, at)
  BY <1>1, HistoryForOK
<1>9. req' = [req EXCEPT ![r] = q] /\ q.pc # "list"
  BY <1>1
<1> HIDE DEF q
<1> QED
  BY <1>2, <1>3, <1>7, <1>8, <1>9, StartOK

(* toolSessionSources finds its ledger. *)
LEMMA StartSourcesOK ==
  ASSUME Inv, stateless' = stateless, NEW r \in Request, NEW c \in Caller,
         StartSources(r, c)
  PROVE  Inv'
<1>1. PICK at \in 1..MaxLedgers :
        /\ HistoryFor(c, at)
        /\ req' = [req EXCEPT ![r] =
                     [pc |-> "list", caller |-> c, at |-> at, since |-> cursor[c]]]
  BY DEF StartSources
<1>2. /\ req[r] = Idle
      /\ UNCHANGED <<cursor, historyEvictions, unseen, leaked, skipped, filed>>
  BY DEF StartSources
<1> DEFINE q == [pc |-> "list", caller |-> c, at |-> at, since |-> cursor[c]]
<1>3. cursor[c] \in Nat
  BY DEF Inv, Bounded
<1>4. q \in RequestType /\ q.caller = c /\ q.at = at /\ q.since <= cursor[c]
  <2>1. at \in Nat
    OBVIOUS
  <2> QED
    BY <1>3, <2>1 DEF RequestType
<1>5. req \in [Request -> RequestType] /\ filed + Cardinality(Appending) <= MaxFetches
  BY DEF Inv, Requests
<1>6. Appending' = Appending
  <2>1. req[r].pc = "idle"
    BY <1>2, <1>5, RequestShape
  <2>2. \A x \in Request : req'[x].pc = IF x = r THEN "list" ELSE req[x].pc
    BY <1>1, <1>5
  <2> QED
    BY <2>1, <2>2 DEF Appending
<1>7. Found(c, at)
  BY <1>1, HistoryForOK
<1>8. req' = [req EXCEPT ![r] = q]
  BY <1>1
<1> HIDE DEF q
<1> QED
  BY <1>2, <1>4, <1>5, <1>6, <1>7, <1>8, StartOK

-----------------------------------------------------------------------------
(* While nothing has been pushed out a caller has one ledger, and its       *)
(* cursor is within it.                                                     *)
LEMMA OneLedger ==
  ASSUME Inv, callersEvicted = 0, NEW c \in Caller, NEW at \in Of(Keys, owner, c)
  PROVE  /\ \A i \in Of(Keys, owner, c) : i = at
         /\ cursor[c] <= heap[at].total
<1>1. Owned /\ AllCached /\ Bounded /\ Listing
  BY DEF Inv
<1>2. \A i \in Of(Keys, owner, c) :
         i \in DOMAIN heap /\ Keys[owner[i]] = Keys[c] /\ LruValue(cache, Keys[owner[i]]) = i
  BY <1>1, Addresses DEF Of, AllCached
<1>3. \A i \in Of(Keys, owner, c) : i = at
  BY <1>2
<1>4. heap[at].total \in Nat
  BY <1>1, <1>2, EvictionsNat
<1>5. cursor[c] = 0 \/ cursor[c] <= heap[at].total
  BY <1>1, <1>3 DEF Listing
<1> QED
  BY <1>3, <1>4, <1>5

(* The append of a request files its fetch in the ledger it holds. *)
LEMMA FinishRecordOK ==
  ASSUME Inv, stateless' = stateless, NEW r \in Request, FinishRecord(r)
  PROVE  Inv'
<1> DEFINE c == req[r].caller
           at == req[r].at
           f == req[r].fetch
           h == heap[at]
<1>1. /\ Owned /\ Cached /\ AllCached /\ Requests /\ Bounded /\ Metered /\ Listing
      /\ ~leaked /\ (callersEvicted = 0 => ~skipped)
  BY DEF Inv
<1>2. /\ req[r].pc = "append" /\ filed' = filed + 1 /\ req' = [req EXCEPT ![r] = Idle]
      /\ unseen' = [unseen EXCEPT ![c] = @ \cup {[source |-> Citable(f), at |-> at]}]
      /\ UNCHANGED <<cache, cursor, callersEvicted, owner, leaked, skipped>>
  BY DEF FinishRecord
<1>3. PICK g \in AppendRecord(h, f) :
        /\ heap' = [heap EXCEPT ![at] = g]
        /\ historyEvictions' = historyEvictions + EvictedBy(h, g)
  BY DEF FinishRecord
<1>4. req \in [Request -> RequestType] /\ filed \in Nat
      /\ filed + Cardinality(Appending) <= MaxFetches
  BY <1>1 DEF Requests
<1>5. c \in Caller /\ f \in Fetch /\ at \in Of(Keys, owner, c)
  <2>1. req[r] # Idle /\ c \in Caller /\ f \in Calls
    BY <1>2, <1>4, RequestShape
  <2> QED
    BY <1>1, <2>1, CallersAssumption DEF Requests, RequestOK
<1>6. /\ Len(heap) \in Nat /\ DOMAIN heap = 1..Len(heap) /\ DOMAIN owner = DOMAIN heap
      /\ at \in 1..Len(heap) /\ IsFiniteSet(DOMAIN heap)
  BY <1>1, <1>5, Addresses DEF Of
<1>7. TableOK(h) /\ h.total \in Nat /\ h.evicted \in Nat
  BY <1>1, <1>6 DEF Owned, TableOK, TableType
<1> HIDE DEF c, at, f, h
<1>8. TableOK(g) /\ Files(h, g, f) /\ (Keeps(h, g, f) \/ Drops(h, g, f))
  BY <1>3, <1>5, <1>7, AppendOK
<1>9. /\ heap' \in Seq(Tables) /\ Len(heap') = Len(heap) /\ DOMAIN heap' = DOMAIN heap
      /\ \A i \in DOMAIN heap : heap'[i] = IF i = at THEN g ELSE heap[i]
  <2>1. heap \in Seq(Tables) /\ g \in Tables
    BY <1>1, <1>8, TableIsTable DEF Owned
  <2> QED
    BY <1>3, <1>6, <2>1, ExceptSeq
<1>10. Keys' = Keys /\ Owned'
  <2>1. \A i \in DOMAIN heap' : TableOK(heap'[i])
    BY <1>1, <1>8, <1>9 DEF Owned
  <2> QED
    BY <1>1, <1>2, <1>9, <2>1, KeysStay DEF Owned
<1>11. Cached' /\ AllCached'
  BY <1>1, <1>2, <1>9, <1>10 DEF Cached, AllCached
<1>12. Requests'
  <2>1. req' \in [Request -> RequestType]
    BY <1>2, <1>4 DEF RequestType
  <2>2. ASSUME NEW x \in Request PROVE RequestOK(req'[x], Keys, owner, cursor)
    <3>1. CASE x = r
      BY <1>2, <1>4, <3>1 DEF RequestOK
    <3>2. CASE x # r
      BY <1>1, <1>2, <1>4, <3>2 DEF Requests
    <3> QED
      BY <3>1, <3>2
  <2>3. Appending' = Appending \ {r} /\ r \in Appending
    <3>1. \A x \in Request : req'[x].pc = IF x = r THEN "idle" ELSE req[x].pc
      BY <1>2, <1>4 DEF Idle
    <3> QED
      BY <1>2, <3>1 DEF Appending
  <2>4. Cardinality(Appending') = Cardinality(Appending) - 1
    BY <2>3, AppendingFinite, FS_RemoveElement
  <2>5. filed' \in Nat /\ filed' + Cardinality(Appending') <= MaxFetches
    BY <1>2, <1>4, <2>4, AppendingFinite, CallersAssumption
  <2> QED
    BY <1>2, <1>10, <2>1, <2>2, <2>5 DEF Requests
<1>13. g.total = h.total + 1 /\ Citable(f) \in Url /\ h = heap[at]
  BY <1>8 DEF Files, TableOK, TableType, h
<1>14. Bounded'
  <2>1. ASSUME NEW i \in DOMAIN heap PROVE heap'[i].total <= filed + 1
    <3>1. heap[i].total <= filed /\ heap[i].total \in Nat
      BY <1>1, EvictionsNat DEF Bounded
    <3>2. CASE i = at
      BY <1>4, <1>9, <1>13, <3>1, <3>2
    <3>3. CASE i # at
      BY <1>4, <1>9, <3>1, <3>3
    <3> QED
      BY <3>2, <3>3
  <2>2. \A d \in Caller : cursor[d] <= filed + 1
    BY <1>1, <1>4 DEF Bounded
  <2>3. unseen' \in [Caller -> SUBSET [source : Url, at : Nat]]
    <3>1. [source |-> Citable(f), at |-> at] \in [source : Url, at : Nat]
      BY <1>6, <1>13
    <3> QED
      BY <1>1, <1>2, <3>1 DEF Bounded
  <2> QED
    BY <1>1, <1>2, <1>9, <2>1, <2>2, <2>3 DEF Bounded
<1>15. Metered'
  <2>1. g.evicted \in Nat /\ g.evicted \in {h.evicted, h.evicted + 1}
    BY <1>7, <1>8 DEF Keeps, Drops
  <2>2. /\ DOMAIN Evictions(heap) = DOMAIN heap
        /\ \A i \in DOMAIN heap : Evictions(heap)[i] \in Nat
    BY <1>1, EvictionsNat
  <2>3. /\ DOMAIN Evictions(heap') = DOMAIN heap /\ at \in DOMAIN heap
        /\ \A i \in DOMAIN heap \ {at} : Evictions(heap')[i] = Evictions(heap)[i]
        /\ Evictions(heap')[at] = g.evicted /\ Evictions(heap)[at] = h.evicted
    BY <1>6, <1>9, <1>13 DEF Evictions
  <2>4. /\ SumFunction(Evictions(heap)) \in Nat /\ SumFunction(Evictions(heap')) \in Nat
        /\ SumFunction(Evictions(heap')) + Evictions(heap)[at]
             = SumFunction(Evictions(heap)) + Evictions(heap')[at]
    <3>1. IsFiniteSet(DOMAIN heap) /\ Evictions(heap')[at] \in Nat
      BY <1>6, <2>1, <2>3
    <3> QED
      BY <2>2, <2>3, <3>1, SumMoves
  <2>5. SumFunction(Evictions(heap')) + h.evicted = SumFunction(Evictions(heap)) + g.evicted
    BY <2>3, <2>4
  <2>6. /\ historyEvictions' = historyEvictions + (g.evicted - h.evicted)
        /\ historyEvictions = SumFunction(Evictions(heap)) /\ historyEvictions \in 0..filed
    BY <1>1, <1>3 DEF EvictedBy, Metered
  <2>7. historyEvictions' = SumFunction(Evictions(heap')) /\ historyEvictions' \in 0..(filed + 1)
    BY <1>4, <1>7, <2>1, <2>4, <2>5, <2>6
  <2> QED
    BY <1>2, <2>7 DEF Metered
<1>16. Listing'
  <2> SUFFICES ASSUME callersEvicted = 0, NEW d \in Caller
               PROVE  /\ cursor[d] = 0 \/ \E i \in Of(Keys, owner, d) : cursor[d] <= heap'[i].total
                      /\ \A u \in unseen'[d] : UnseenOK(u, Keys, owner, heap', d, cursor[d])
    BY <1>2, <1>10 DEF Listing
  <2>1. cursor[d] \in Nat
    BY <1>1 DEF Bounded
  <2>2. /\ cursor[d] = 0 \/ \E i \in Of(Keys, owner, d) : cursor[d] <= heap[i].total
        /\ \A u \in unseen[d] : UnseenOK(u, Keys, owner, heap, d, cursor[d])
    BY <1>1 DEF Listing
  <2>3. \A i \in Of(Keys, owner, d) :
           i \in DOMAIN heap /\ heap[i].total \in Nat /\ heap'[i].total >= heap[i].total
    <3>1. \A i \in DOMAIN heap : heap[i].total \in Nat
      BY <1>1, EvictionsNat
    <3>2. \A i \in DOMAIN heap : heap'[i].total >= heap[i].total
      BY <1>7, <1>9, <1>13, <3>1
    <3> QED
      BY <1>6, <3>1, <3>2 DEF Of
  <2>4. cursor[d] = 0 \/ \E i \in Of(Keys, owner, d) : cursor[d] <= heap'[i].total
    <3>1. CASE cursor[d] = 0
      BY <3>1
    <3>2. CASE cursor[d] # 0
      <4>1. PICK i \in Of(Keys, owner, d) : cursor[d] <= heap[i].total
        BY <2>2, <3>2
      <4>2. heap[i].total \in Nat /\ heap'[i].total >= heap[i].total /\ heap'[i].total \in Nat
        <5>1. heap'[i].total \in Nat
          BY <1>7, <1>9, <1>13, <2>3
        <5> QED
          BY <2>3, <5>1
      <4>3. cursor[d] <= heap'[i].total
        BY <2>1, <4>1, <4>2
      <4> QED
        BY <4>3
    <3> QED
      BY <3>1, <3>2
  <2>5. ASSUME NEW u, u.at = at, at \in Of(Keys, owner, d),
               u.source = Citable(f) \/ u \in unseen[d]
        PROVE  UnseenOK(u, Keys, owner, heap', d, cursor[d])
    <3>1. heap'[at] = g
      BY <1>6, <1>9
    <3>2. CASE u.source = Citable(f)
      <4>1. Row(g, u.source).seq = h.total + 1
        BY <1>8, <3>2 DEF Files
      <4>2. cursor[d] <= h.total
        BY <1>13, <2>5, OneLedger
      <4>3. h.total + 1 > cursor[d]
        BY <1>7, <2>1, <4>2
      <4> QED
        BY <2>5, <3>1, <4>1, <4>3 DEF UnseenOK
    <3>3. CASE u.source # Citable(f)
      <4>1. UnseenOK(u, Keys, owner, heap, d, cursor[d])
        BY <2>2, <2>5, <3>3
      <4>2. Holds(g, u.source) => Holds(h, u.source) /\ Row(g, u.source) = Row(h, u.source)
        BY <1>8, <3>3 DEF Files, Holds
      <4> QED
        BY <1>13, <2>5, <3>1, <4>1, <4>2 DEF UnseenOK
    <3> QED
      BY <3>2, <3>3
  <2>6. ASSUME NEW u \in unseen'[d] PROVE UnseenOK(u, Keys, owner, heap', d, cursor[d])
    <3>1. u \in unseen[d] \/ (d = c /\ u = [source |-> Citable(f), at |-> at])
      BY <1>1, <1>2, <1>5 DEF Bounded
    <3>2. CASE u \in unseen[d]
      <4>1. UnseenOK(u, Keys, owner, heap, d, cursor[d])
        BY <2>2, <3>2
      <4>2. CASE u.at = at
        BY <2>5, <3>2, <4>1, <4>2 DEF UnseenOK
      <4>3. CASE u.at # at
        <5>1. u.at \in Of(Keys, owner, d) /\ heap'[u.at] = heap[u.at]
          BY <1>9, <2>3, <4>1, <4>3 DEF UnseenOK
        <5> QED
          BY <4>1, <5>1 DEF UnseenOK
      <4> QED
        BY <4>2, <4>3
    <3>3. CASE d = c /\ u = [source |-> Citable(f), at |-> at]
      BY <1>5, <2>5, <3>3
    <3> QED
      BY <3>1, <3>2, <3>3
  <2> QED
    BY <2>4, <2>6
<1>17. ~leaked' /\ (callersEvicted' = 0 => ~skipped')
  BY <1>1, <1>2
<1> QED
  BY <1>10, <1>11, <1>12, <1>14, <1>15, <1>16, <1>17 DEF Inv

(* A list is of the caller's own ledger, leaves out nothing it owes, and    *)
(* takes the caller's cursor no further than what the ledger has given out. *)
LEMMA FinishSourcesOK ==
  ASSUME Inv, stateless' = stateless, NEW r \in Request, FinishSources(r)
  PROVE  Inv'
<1> DEFINE c == req[r].caller
           at == req[r].at
           since == req[r].since
           h == heap[at]
           rows == RowsSince(h, since)
           sent == {Citable(h.entries[i]) : i \in rows}
           due == {u.source : u \in {x \in unseen[c] : x.at = at}}
<1>1. /\ Owned /\ Cached /\ AllCached /\ Requests /\ Bounded /\ Metered /\ Listing
      /\ ~leaked /\ (callersEvicted = 0 => ~skipped)
  BY DEF Inv
<1>2. /\ req[r].pc = "list" /\ req' = [req EXCEPT ![r] = Idle]
      /\ unseen' = [unseen EXCEPT ![c] = {x \in @ : x.at # at}]
      /\ UNCHANGED <<cache, heap, historyEvictions, callersEvicted, owner, filed>>
  BY DEF FinishSources
<1>3. PICK n \in {0} \cup {h.entries[i].seq : i \in rows} :
        cursor' = [cursor EXCEPT ![c] = HighWater(@, n)]
  BY DEF FinishSources
<1>4. /\ leaked' = (leaked \/ Foreign(owner[at], c))
      /\ skipped' = (skipped \/ \E k \in due : Holds(h, k) /\ k \notin sent)
  BY DEF FinishSources
<1>5. req \in [Request -> RequestType] /\ filed \in Nat
  BY <1>1 DEF Requests
<1>6. /\ c \in Caller /\ at \in Of(Keys, owner, c) /\ since \in Nat /\ since <= cursor[c]
      /\ cursor[c] \in Nat
  <2>1. req[r] # Idle /\ c \in Caller /\ since \in Nat
    BY <1>2, <1>5, RequestShape
  <2>2. RequestOK(req[r], Keys, owner, cursor)
    BY <1>1 DEF Requests
  <2>3. cursor[c] \in Nat
    BY <1>1, <2>1 DEF Bounded
  <2> QED
    BY <1>2, <2>1, <2>2, <2>3 DEF RequestOK
<1>7. at \in DOMAIN heap /\ at \in DOMAIN owner /\ owner[at] \in Caller /\ Keys[owner[at]] = Keys[c]
  BY <1>1, <1>6, Addresses DEF Of
<1>8. TableOK(h) /\ h.total \in Nat /\ h.total <= filed
  BY <1>1, <1>7 DEF Owned, Bounded, TableOK, TableType
<1> HIDE DEF c, at, since, h
<1>9. n \in Nat /\ n <= h.total
  BY <1>3, <1>8 DEF RowsSince, TableOK, TableOrdered
<1> HIDE DEF rows, sent, due
<1>10. Keys' = Keys /\ Owned' /\ Cached' /\ AllCached'
  BY <1>1, <1>2, KeysStay DEF Owned, Cached, AllCached
<1>11. /\ cursor' \in [Caller -> Nat]
       /\ \A d \in Caller : cursor'[d] = IF d = c THEN HighWater(cursor[c], n) ELSE cursor[d]
       /\ HighWater(cursor[c], n) \in {cursor[c], n}
       /\ HighWater(cursor[c], n) >= cursor[c]
  <2>1. /\ HighWater(cursor[c], n) \in {cursor[c], n} /\ HighWater(cursor[c], n) >= cursor[c]
        /\ HighWater(cursor[c], n) \in Nat
    BY <1>6, <1>9 DEF HighWater
  <2>2. cursor \in [Caller -> Nat]
    BY <1>1 DEF Bounded
  <2> QED
    BY <1>3, <2>1, <2>2
<1>12. Requests'
  <2>1. req' \in [Request -> RequestType]
    BY <1>2, <1>5 DEF RequestType
  <2>2. ASSUME NEW x \in Request PROVE RequestOK(req'[x], Keys, owner, cursor')
    <3>1. CASE x = r
      BY <1>2, <1>5, <3>1 DEF RequestOK
    <3>2. CASE x # r
      <4>1. req'[x] = req[x] /\ RequestOK(req[x], Keys, owner, cursor)
        BY <1>1, <1>2, <1>5, <3>2 DEF Requests
      <4>2. ASSUME req[x].pc = "list" PROVE req[x].since <= cursor'[req[x].caller]
        <5>1. /\ req[x].caller \in Caller /\ req[x].since \in Nat
              /\ req[x].since <= cursor[req[x].caller]
          <6>1. req[x] # Idle /\ req[x].caller \in Caller /\ req[x].since \in Nat
            BY <1>5, <4>2, RequestShape
          <6> QED
            BY <4>1, <4>2, <6>1 DEF RequestOK
        <5>2. /\ cursor[req[x].caller] \in Nat /\ cursor'[req[x].caller] \in Nat
              /\ cursor[req[x].caller] <= cursor'[req[x].caller]
          BY <1>1, <1>11, <5>1 DEF Bounded
        <5> QED
          BY <5>1, <5>2
      <4> QED
        BY <4>1, <4>2 DEF RequestOK
    <3> QED
      BY <3>1, <3>2
  <2>3. Appending' = Appending
    <3>1. \A x \in Request : req'[x].pc = IF x = r THEN "idle" ELSE req[x].pc
      BY <1>2, <1>5 DEF Idle
    <3> QED
      BY <1>2, <3>1 DEF Appending
  <2> QED
    BY <1>1, <1>2, <1>10, <2>1, <2>2, <2>3 DEF Requests
<1>13. Bounded'
  <2>1. n <= filed
    BY <1>5, <1>8, <1>9
  <2>2. \A d \in Caller : cursor'[d] <= filed
    BY <1>1, <1>6, <1>11, <2>1 DEF Bounded
  <2>3. unseen' \in [Caller -> SUBSET [source : Url, at : Nat]]
    BY <1>1, <1>2 DEF Bounded
  <2> QED
    BY <1>1, <1>2, <1>11, <2>2, <2>3 DEF Bounded
<1>14. Metered'
  BY <1>1, <1>2 DEF Metered
<1>15. Listing'
  <2> SUFFICES ASSUME callersEvicted = 0, NEW d \in Caller
               PROVE  /\ cursor'[d] = 0 \/ \E i \in Of(Keys, owner, d) : cursor'[d] <= heap[i].total
                      /\ \A u \in unseen'[d] : UnseenOK(u, Keys, owner, heap, d, cursor'[d])
    BY <1>2, <1>10 DEF Listing
  <2>1. /\ cursor[d] = 0 \/ \E i \in Of(Keys, owner, d) : cursor[d] <= heap[i].total
        /\ \A u \in unseen[d] : UnseenOK(u, Keys, owner, heap, d, cursor[d])
    BY <1>1 DEF Listing
  <2>2. CASE d # c
    <3>1. cursor'[d] = cursor[d] /\ unseen'[d] = unseen[d]
      BY <1>1, <1>2, <1>11, <2>2 DEF Bounded
    <3> QED
      BY <2>1, <3>1
  <2>3. CASE d = c
    <3>1. cursor[c] <= heap[at].total /\ \A i \in Of(Keys, owner, c) : i = at
      BY <1>6, OneLedger
    <3>2. cursor'[c] <= heap[at].total
      BY <1>6, <1>9, <1>11, <3>1 DEF h
    <3>3. unseen'[c] = {}
      <4>1. \A u \in unseen[c] : u.at = at
        BY <2>1, <2>3, <3>1 DEF UnseenOK
      <4> QED
        BY <1>1, <1>2, <1>6, <4>1 DEF Bounded
    <3> QED
      BY <1>6, <2>3, <3>2, <3>3
  <2> QED
    BY <2>2, <2>3
<1>16. ~leaked'
  <2>1. HistoryKey(owner[at]) = HistoryKey(c) /\ stateless \in BOOLEAN
    BY <1>1, <1>6, <1>7, KeysAreKeys DEF Owned
  <2>2. ~Foreign(owner[at], c)
    BY <1>6, <1>7, <2>1, KeyIsOwn
  <2> QED
    BY <1>1, <1>4, <2>2
<1>17. ASSUME callersEvicted' = 0 PROVE ~skipped'
  <2>1. callersEvicted = 0 /\ ~skipped
    BY <1>1, <1>2, <1>17
  <2>2. ASSUME NEW k \in due, Holds(h, k) PROVE k \in sent
    <3>1. PICK u \in unseen[c] : u.at = at /\ u.source = k
      BY DEF due
    <3>2. UnseenOK(u, Keys, owner, heap, c, cursor[c])
      BY <1>1, <1>6, <2>1, <3>1 DEF Listing
    <3>3. Row(h, k).seq > cursor[c]
      BY <2>2, <3>1, <3>2 DEF UnseenOK, h
    <3>4. h.index[k] \in DOMAIN h.entries /\ Citable(h.entries[h.index[k]]) = k
      BY <1>8, <2>2 DEF TableOK, TableIndexed, Holds, Row
    <3>5. h.entries[h.index[k]].seq \in Nat
      BY <1>8, <3>4 DEF TableOK, TableOrdered
    <3>6. h.entries[h.index[k]].seq > since
      BY <1>6, <3>3, <3>5 DEF Row
    <3>7. h.index[k] \in rows
      BY <3>4, <3>6 DEF rows, RowsSince
    <3> QED
      BY <3>4, <3>7 DEF sent
  <2>3. ~ \E k \in due : Holds(h, k) /\ k \notin sent
    BY <2>2
  <2> QED
    BY <1>4, <2>1, <2>3
<1> QED
  BY <1>10, <1>12, <1>13, <1>14, <1>15, <1>16, <1>17 DEF Inv

-----------------------------------------------------------------------------
(* The relay starts without ledgers, requests or cursors. *)
LEMMA InvInit == Init => Inv
<1> SUFFICES ASSUME Init PROVE Inv
  OBVIOUS
<1>1. /\ stateless \in BOOLEAN /\ cache = LruEmpty /\ heap = << >> /\ owner = << >>
      /\ req = [r \in Request |-> Idle] /\ cursor = [c \in Caller |-> 0]
      /\ historyEvictions = 0 /\ callersEvicted = 0
      /\ unseen = [c \in Caller |-> {}] /\ filed = 0
  BY DEF Init
<1>2. ~leaked /\ ~skipped
  BY DEF Init
<1>3. /\ heap \in Seq(Tables) /\ owner \in Seq(Caller)
      /\ Len(heap) = 0 /\ Len(owner) = 0 /\ DOMAIN heap = {} /\ DOMAIN owner = {}
  BY <1>1, EmptySeq
<1>4. Owned
  BY <1>1, <1>3, CallersAssumption DEF Owned
<1>5. Cached
  <2>1. LruOK(cache, Seq(KeyParts), Nat) /\ LruKeys(cache) = {}
    BY <1>1, LruEmptyOK
  <2>2. Len(cache) = 0
    BY <1>1 DEF LruEmpty
  <2> QED
    BY <1>1, <1>3, <2>1, <2>2, CallersAssumption DEF Cached
<1>6. AllCached
  BY <1>3 DEF AllCached
<1>7. Requests
  <2>1. req \in [Request -> RequestType] /\ \A r \in Request : req[r] = Idle
    BY <1>1 DEF RequestType
  <2>2. \A r \in Request : RequestOK(req[r], Keys, owner, cursor)
    BY <2>1 DEF RequestOK
  <2>3. Appending = {}
    BY <2>1 DEF Appending, Idle
  <2>4. Cardinality(Appending) = 0
    BY <2>3, FS_EmptySet
  <2> QED
    BY <1>1, <2>1, <2>2, <2>4, CallersAssumption DEF Requests
<1>8. Bounded
  BY <1>1, <1>3 DEF Bounded
<1>9. Metered
  <2>1. IsFiniteSet({}) /\ DOMAIN Evictions(heap) = {} /\ \A i \in {} : Evictions(heap)[i] \in Nat
    BY <1>3, FS_EmptySet DEF Evictions
  <2>2. SumFunctionOnSet(Evictions(heap), {}) = 0
    BY <2>1, SumSplit
  <2> QED
    BY <1>1, <2>1, <2>2 DEF Metered, SumFunction
<1>10. Listing
  BY <1>1 DEF Listing
<1> QED
  BY <1>2, <1>4, <1>5, <1>6, <1>7, <1>8, <1>9, <1>10 DEF Inv

(* Every step keeps the invariant. *)
LEMMA InvNext == Inv /\ [Next]_vars => Inv'
<1> SUFFICES ASSUME Inv, [Next]_vars PROVE Inv'
  OBVIOUS
<1>1. CASE UNCHANGED vars
  <2>1. /\ UNCHANGED <<stateless, cache, heap, req, cursor, historyEvictions>>
        /\ UNCHANGED <<callersEvicted, owner, unseen, leaked, skipped, filed>>
    BY <1>1 DEF vars
  <2>2. Keys' = Keys /\ Appending' = Appending
    BY <2>1, KeysStay DEF Appending
  <2> QED
    BY <2>1, <2>2
    DEF Inv, Owned, Cached, AllCached, Requests, Bounded, Metered, Listing
<1>2. CASE Next
  <2>1. stateless' = stateless
    BY <1>2 DEF Next
  <2>2. PICK r \in Request : \/ \E c \in Caller, f \in Calls : StartRecord(r, c, f)
                             \/ FinishRecord(r)
                             \/ \E c \in Caller : StartSources(r, c)
                             \/ FinishSources(r)
    BY <1>2 DEF Next
  <2> QED
    BY <2>1, <2>2, StartRecordOK, FinishRecordOK, StartSourcesOK, FinishSourcesOK
<1> QED
  BY <1>1, <1>2

(* The invariant holds throughout. *)
THEOREM CallersInvariant == Spec => []Inv
BY InvInit, InvNext, PTL DEF Spec

(* No caller is handed another identity's ledger, nor another conversation's *)
(* of its own while its session ID is usable, for any set of callers and     *)
(* whatever their identities and session IDs spell: historyKey carries the   *)
(* length of the identity.                                                   *)
THEOREM CallersKeptApart == Spec => []CallersIsolated
<1>1. Inv => CallersIsolated
  BY DEF Inv, CallersIsolated
<1> QED
  BY <1>1, CallersInvariant, PTL

(* While no ledger has been pushed out, a sources call lists every row filed *)
(* since the highest seq it passes, however many requests are in flight      *)
(* (history.go:404).                                                         *)
THEOREM CallersListed == Spec => []ListedUnlessEvicted
<1>1. Inv => ListedUnlessEvicted
  BY DEF Inv, ListedUnlessEvicted
<1> QED
  BY <1>1, CallersInvariant, PTL

(* As many ledgers are in the cache as it has entries: no ledger is cached  *)
(* under two keys.                                                          *)
LEMMA CachedCardinality ==
  ASSUME Owned, Cached
  PROVE  Cardinality({cache[i].val : i \in DOMAIN cache}) = Len(cache)
<1> DEFINE n == Len(cache)
           V == {cache[i].val : i \in DOMAIN cache}
           f == [i \in 1..n |-> cache[i].val]
<1>1. LruOK(cache, Seq(KeyParts), Nat)
  BY DEF Cached
<1>2. n \in Nat /\ DOMAIN cache = 1..n
  BY <1>1, LenProperties DEF LruOK
<1>3. \A i \in 1..n : LruValue(cache, cache[i].key) = cache[i].val /\ cache[i].key \in LruKeys(cache)
  BY <1>1, <1>2, LruPlaced DEF LruKeys
<1>4. \A i \in 1..n : Keys[owner[cache[i].val]] = cache[i].key
  BY <1>3 DEF Cached
<1>5. \A i, j \in 1..n : cache[i].val = cache[j].val => i = j
  <2>1. \A i, j \in 1..n : cache[i].key = cache[j].key => i = j
    BY <1>1, <1>2 DEF LruOK
  <2> HIDE DEF n
  <2>2. ASSUME NEW i \in 1..n, NEW j \in 1..n, cache[i].val = cache[j].val
        PROVE  cache[i].key = cache[j].key
    BY <1>4, <2>2
  <2> QED
    BY <2>1, <2>2
<1>6. f \in Injection(1..n, V)
  BY <1>2, <1>5 DEF Injection, IsInjective
<1>7. f \in Surjection(1..n, V)
  BY <1>2 DEF Surjection
<1>8. ExistsBijection(1..n, V)
  BY <1>6, <1>7 DEF Bijection, ExistsBijection
<1> QED
  BY <1>2, <1>8, FS_CountingElements

(* No ledger is ever lost to a race of two first fetches, and the evictions  *)
(* metric is the sources dropped by all the ledgers, those still written to  *)
(* after they were pushed out included: for any number of requests.          *)
THEOREM CallersAccounted == Spec => []LedgersAccounted
<1>1. ASSUME Inv PROVE LedgersAccounted
  <2>1. /\ Owned /\ Cached /\ Requests /\ Bounded /\ Metered
        /\ MaxFetches \in Nat /\ MaxLedgers \in Nat
    BY <1>1, CallersAssumption DEF Inv
  <2>2. filed \in 0..MaxFetches
    BY <2>1, AppendingFinite DEF Requests
  <2>3. callersEvicted \in 0..MaxLedgers
    <3>1. /\ Len(heap) \in Nat /\ Len(heap) <= MaxLedgers
          /\ Len(heap) = Len(cache) + callersEvicted /\ callersEvicted \in Nat
      BY <2>1, Addresses DEF Owned, Cached
    <3>2. Len(cache) \in Nat
      BY <2>1, LenProperties DEF Cached, LruOK
    <3> QED
      BY <2>1, <3>1, <3>2
  <2>4. cursor \in [Caller -> 0..MaxFetches] /\ historyEvictions \in 0..MaxFetches
    BY <2>1, <2>2 DEF Bounded, Metered
  <2>5. \A i \in DOMAIN cache : cache[i].val \in DOMAIN heap
    <3>1. LruOK(cache, Seq(KeyParts), Nat)
      BY <2>1 DEF Cached
    <3>2. \A i \in DOMAIN cache :
             LruValue(cache, cache[i].key) = cache[i].val /\ cache[i].key \in LruKeys(cache)
      BY <3>1, LruPlaced DEF LruKeys
    <3> QED
      BY <2>1, <3>2 DEF Cached
  <2>6. \A r \in Request : req[r].pc \in {"idle", "append", "list"}
    BY <2>1, RequestShape DEF Requests
  <2>7. \A i \in DOMAIN heap : Len(heap[i].entries) <= Cap
    BY <2>1 DEF Owned, TableOK, TableType
  <2>8. TypeOK
    BY <2>1, <2>3, <2>4, <2>5, <2>6, <2>7, Addresses DEF TypeOK, Cached
  <2> QED
    BY <2>1, <2>8, CachedCardinality DEF LedgersAccounted, Cached, Metered, Evictions
<1>2. Inv => LedgersAccounted
  BY <1>1
<1> QED
  BY <1>2, CallersInvariant, PTL

-----------------------------------------------------------------------------
(* The tokens that searches carry.  They share no state with the ledgers.   *)

(* A token as its provider issued it, and a cached one with its expiry. *)
Token == [subject : Subject, at : Nat, expiresIn : ExpiresIn]
KeptToken == [token : Nat, expires : Int]

(* What ServedFresh asks of token t for a search that read the clock at at. *)
FreshAt(t, at) ==
  LET life == t.expiresIn * Second
      left == t.at + life - at
  IN  /\ t.expiresIn > 0 => left >= EarlyRenewal \/ 2 * left >= life
      /\ at < t.at + MaxLife

FreshUntil(t, end) == \A at \in Nat : at < end => FreshAt(t, at)

(* A token in the cache is its subject's, and fresh for whoever finds it    *)
(* unexpired.                                                               *)
KeptOK(s, e, states) ==
  /\ e.token \in DOMAIN states /\ states[e.token].subject = s
  /\ FreshUntil(states[e.token], e.expires)

(* The provider's tokens and the cache of them. *)
Exchanged ==
  /\ now \in 0..MaxTime
  /\ issued \in Seq(Token) /\ Len(issued) <= MaxTokens
  /\ LruOK(tokens, Subject, KeptToken) /\ Len(tokens) <= CacheEntries
  /\ \A s \in LruKeys(tokens) : KeptOK(s, LruValue(tokens, s), issued)

(* Until it expires, a stored token is in the cache unless it was evicted. *)
StillOwed ==
  /\ owed \in [Subject -> Int]
  /\ \A s \in Subject : now < owed[s] =>
       s \in LruKeys(tokens) /\ LruValue(tokens, s).expires = owed[s]

(* The shapes a search can have on its way. *)
Looking == [pc : {"look"}, subject : Subject, started : Nat]
Asking  == [pc : {"ask"}, subject : Subject, started : Nat, wasOwed : {FALSE}]
Storing == [pc : {"store"}, subject : Subject, started : Nat, token : Nat]
Sending == [pc : {"send"}, subject : Subject, token : Nat, reusedAt : SUBSET Nat]
Tallying == [pc : {"count"}, engines : SUBSET Engine]
Inserting == [pc : {"insert"}, engines : SUBSET Engine, engine : Engine]

Carries(c, states) ==
  c.token \in DOMAIN states /\ states[c.token].subject = c.subject

(* Where a search is, at time t with these tokens issued. *)
CallOK(c, states, t) ==
  \/ c = AtRest
  \/ c \in Looking \cup Asking /\ c.started <= t
  \/ c \in Storing /\ Carries(c, states) /\ c.started <= states[c.token].at
  \/ c = Send(NoUser, 0, {})
  \/ /\ c \in Sending /\ Carries(c, states)
     /\ \A at \in c.reusedAt : FreshAt(states[c.token], at)
  \/ c \in Tallying
  \/ c \in Inserting /\ c.engine \in c.engines

Searches == DOMAIN call = Call /\ \A x \in Call : CallOK(call[x], issued, now)

Uncounted == SumFunction([x \in Call |-> Pending(x)])

Counters ==
  /\ DOMAIN errors \subseteq Engine /\ errors \in [DOMAIN errors -> Nat]
  /\ Cardinality(DOMAIN errors) <= MaxEngines
  /\ overflow \in Nat /\ reported \in 0..MaxReported
  /\ SumFunction(errors) + overflow + Uncounted = reported

SearchInv == Exchanged /\ StillOwed /\ Searches /\ Counters

-----------------------------------------------------------------------------
(* A product of durations never comes out longer than it is. *)
LEMMA WrapShrinks ==
  ASSUME NEW n \in Nat
  PROVE  Wrap(n) \in Int /\ Wrap(n) <= n
<1> DEFINE w == Word
           k == Word \div 2
<1>1. w \in Nat \ {0} /\ k \in Nat
  BY ExchangeAssumption
<1> HIDE DEF w, k
<1>2. (n + k) % w \in Nat /\ (n + k) % w <= n + k
  BY <1>1
<1> QED
  BY <1>1, <1>2 DEF Wrap, w, k

(* No token is taken to live longer than the provider said, nor than        *)
(* MaxLife.                                                                 *)
LEMMA LifeBounded ==
  ASSUME NEW e \in Nat
  PROVE  /\ Life(e) \in Int /\ Life(e) <= MaxLife
         /\ e > 0 => Life(e) <= e * Second
<1>1. e * Second \in Nat
  BY ExchangeAssumption
<1>2. Wrap(e * Second) \in Int /\ Wrap(e * Second) <= e * Second
  BY <1>1, WrapShrinks
<1>3. DefaultLife \in Int /\ MaxLife \in Int
  BY ExchangeAssumption
<1> QED
  BY <1>1, <1>2, <1>3 DEF Life

(* So it is fresh until it expires, if its exchange began before it was     *)
(* issued.                                                                  *)
LEMMA ExpiresInTime ==
  ASSUME NEW t \in Token, NEW started \in Nat, started <= t.at
  PROVE  /\ Expires(started, Life(t.expiresIn)) \in Int
         /\ FreshUntil(t, Expires(started, Life(t.expiresIn)))
<1> DEFINE life == Life(t.expiresIn)
           half == life \div 2
           said == t.expiresIn * Second
           end == Expires(started, life)
<1>1. t.at \in Nat /\ t.expiresIn \in Nat /\ EarlyRenewal \in Nat /\ MaxLife \in Nat
  BY ExchangeAssumption DEF Token
<1>2. said \in Nat /\ MaxLife > 0
  BY <1>1, ExchangeAssumption
<1>3. life \in Int /\ life <= MaxLife /\ (t.expiresIn > 0 => life <= said)
  BY <1>1, LifeBounded
<1>4. half \in Int /\ 2 * half <= life
  <2> HIDE DEF life
  <2> QED
    BY <1>3
<1>5. end = IF life <= EarlyRenewal THEN started + half ELSE started + life - EarlyRenewal
  BY DEF Expires
<1>6. end \in Int
  <2> HIDE DEF life, half, end
  <2> QED
    BY <1>1, <1>3, <1>4, <1>5
<1>7. ASSUME NEW at \in Nat, at < end PROVE FreshAt(t, at)
  <2> DEFINE left == t.at + said - at
  <2>1. at < t.at + MaxLife
    <3> HIDE DEF life, half, end
    <3> QED
      BY <1>1, <1>2, <1>3, <1>4, <1>5, <1>7
  <2>2. t.expiresIn > 0 => left >= EarlyRenewal \/ 2 * left >= said
    <3> HIDE DEF life, half, end, said
    <3> QED
      BY <1>1, <1>2, <1>3, <1>4, <1>5, <1>7
  <2> QED
    BY <2>1, <2>2 DEF FreshAt
<1> QED
  BY <1>6, <1>7 DEF FreshUntil

-----------------------------------------------------------------------------
(* The kinds of call are told apart by where they are. *)
LEMMA CallKinds ==
  ASSUME NEW c, NEW states, NEW t, CallOK(c, states, t)
  PROVE  /\ c.pc \in {"idle", "look", "ask", "store", "send", "count", "insert"}
         /\ c.pc = "look" => c \in Looking /\ c.started <= t
         /\ c.pc = "ask" => c \in Asking /\ c.started <= t
         /\ c.pc = "store" => /\ c \in Storing /\ Carries(c, states)
                              /\ c.started <= states[c.token].at
         /\ c.pc = "send" =>
              \/ c = Send(NoUser, 0, {})
              \/ /\ c \in Sending /\ Carries(c, states)
                 /\ \A at \in c.reusedAt : FreshAt(states[c.token], at)
         /\ c.pc = "count" => c \in Tallying
         /\ c.pc = "insert" => c \in Inserting /\ c.engine \in c.engines
<1>1. CASE c = AtRest
  BY <1>1 DEF AtRest
<1>2. CASE c \in Looking \cup Asking /\ c.started <= t
  BY <1>2 DEF Looking, Asking
<1>3. CASE c \in Storing /\ Carries(c, states) /\ c.started <= states[c.token].at
  BY <1>3 DEF Storing
<1>4. CASE c = Send(NoUser, 0, {})
  BY <1>4 DEF Send
<1>5. CASE /\ c \in Sending /\ Carries(c, states)
           /\ \A at \in c.reusedAt : FreshAt(states[c.token], at)
  BY <1>5 DEF Sending
<1>6. CASE c \in Tallying
  BY <1>6 DEF Tallying
<1>7. CASE c \in Inserting /\ c.engine \in c.engines
  BY <1>7 DEF Inserting
<1> QED
  BY <1>1, <1>2, <1>3, <1>4, <1>5, <1>6, <1>7 DEF CallOK

(* The tokens issued stay as they were, and time does not run back. *)
Onwards ==
  /\ now \in Nat /\ now' \in Nat /\ now <= now'
  /\ DOMAIN issued \subseteq DOMAIN issued'
  /\ \A i \in DOMAIN issued : issued'[i] = issued[i]

(* A call that stays where it is stays in order. *)
LEMMA CallOnwards ==
  ASSUME Onwards, NEW c, CallOK(c, issued, now)
  PROVE  CallOK(c, issued', now')
<1>1. CASE c \in Looking \cup Asking /\ c.started <= now
  <2>1. c.started \in Nat
    BY <1>1 DEF Looking, Asking
  <2>2. c.started <= now'
    BY <1>1, <2>1 DEF Onwards
  <2> QED
    BY <1>1, <2>2 DEF CallOK
<1>2. CASE c \in Storing /\ Carries(c, issued) /\ c.started <= issued[c.token].at
  BY <1>2 DEF CallOK, Carries, Onwards
<1>3. CASE /\ c \in Sending /\ Carries(c, issued)
           /\ \A at \in c.reusedAt : FreshAt(issued[c.token], at)
  BY <1>3 DEF CallOK, Carries, Onwards
<1>4. CASE c = AtRest \/ c = Send(NoUser, 0, {}) \/ c \in Tallying
           \/ (c \in Inserting /\ c.engine \in c.engines)
  BY <1>4 DEF CallOK
<1> QED
  BY <1>1, <1>2, <1>3, <1>4 DEF CallOK

LEMMA CallsWait ==
  ASSUME Onwards, Searches, call' = call
  PROVE  Searches'
BY CallOnwards DEF Searches

LEMMA CallMoves ==
  ASSUME Onwards, Searches, NEW x \in Call, NEW q, CallOK(q, issued', now'),
         call' = [call EXCEPT ![x] = q]
  PROVE  Searches' /\ call'[x] = q
<1>1. DOMAIN call' = Call /\ call'[x] = q
  BY DEF Searches
<1>2. ASSUME NEW y \in Call PROVE CallOK(call'[y], issued', now')
  <2>1. CASE y = x
    BY <1>1, <2>1
  <2>2. CASE y # x
    <3>1. call'[y] = call[y] /\ CallOK(call[y], issued, now)
      BY <2>2 DEF Searches
    <3> QED
      BY <3>1, CallOnwards
  <2> QED
    BY <2>1, <2>2
<1> QED
  BY <1>1, <1>2 DEF Searches

(* The counts are as they were when no engine is reported or counted. *)
LEMMA CountersKept ==
  ASSUME Counters, UNCHANGED engineVars, \A x \in Call : Pending(x)' = Pending(x)
  PROVE  Counters'
<1>1. [x \in Call |-> Pending(x)]' = [x \in Call |-> Pending(x)]
  OBVIOUS
<1>2. Uncounted' = Uncounted
  BY <1>1 DEF Uncounted
<1> QED
  BY <1>2 DEF Counters, engineVars

(* A call that moves outside the counting has none to count. *)
LEMMA NoneToCount ==
  ASSUME Searches, Counters, UNCHANGED engineVars, NEW x \in Call, NEW q,
         call' = [call EXCEPT ![x] = q], call[x].pc \notin {"count", "insert"},
         q.pc \notin {"count", "insert"}
  PROVE  Counters'
<1>1. ASSUME NEW y \in Call PROVE Pending(y)' = Pending(y)
  <2>1. call'[x] = q /\ (y # x => call'[y] = call[y])
    BY DEF Searches
  <2> QED
    BY <2>1 DEF Pending
<1> QED
  BY <1>1, CountersKept

-----------------------------------------------------------------------------
(* Nothing issued, nothing stored: time may pass, and calls may move.       *)
LEMMA ExchangedWaits ==
  ASSUME Exchanged, UNCHANGED <<now, issued, tokens>>
  PROVE  Exchanged' /\ Onwards
<1>1. Exchanged'
  BY DEF Exchanged
<1>2. now \in Nat /\ now' = now
  BY ExchangeAssumption DEF Exchanged
<1> QED
  BY <1>1, <1>2 DEF Onwards

LEMMA TickKeeps ==
  ASSUME SearchInv, Tick, UNCHANGED engineVars
  PROVE  SearchInv'
<1>1. now \in Nat /\ now' \in 0..MaxTime /\ now' \in Nat /\ now <= now' /\ now' = now + 1
  BY ExchangeAssumption DEF SearchInv, Exchanged, Tick
<1>2. UNCHANGED <<issued, tokens, call, owed>>
  BY DEF Tick
<1>3. Exchanged'
  BY <1>1, <1>2 DEF SearchInv, Exchanged
<1>4. StillOwed'
  <2>1. ASSUME NEW s \in Subject, now' < owed[s] PROVE now < owed[s]
    BY <1>1, <2>1 DEF SearchInv, StillOwed
  <2> QED
    BY <1>2, <2>1 DEF SearchInv, StillOwed
<1>5. Onwards
  BY <1>1, <1>2 DEF Onwards
<1>6. Searches'
  BY <1>2, <1>5, CallsWait DEF SearchInv
<1>7. Counters'
  BY <1>2, CountersKept DEF SearchInv, Pending
<1> QED
  BY <1>3, <1>4, <1>6, <1>7 DEF SearchInv

(* A call begins, with an identity or without, or fails. *)
LEMMA CallerMoves ==
  ASSUME SearchInv, UNCHANGED <<now, issued, tokens, owed, engineVars>>,
         NEW x \in Call, NEW q, CallOK(q, issued, now), call' = [call EXCEPT ![x] = q],
         call[x].pc \notin {"count", "insert"}, q.pc \notin {"count", "insert"}
  PROVE  SearchInv'
<1>1. Exchanged' /\ Onwards
  BY ExchangedWaits DEF SearchInv
<1>2. StillOwed'
  BY DEF SearchInv, StillOwed
<1>3. Searches'
  BY <1>1, CallMoves DEF SearchInv
<1>4. Counters'
  BY NoneToCount DEF SearchInv
<1> QED
  BY <1>1, <1>2, <1>3, <1>4 DEF SearchInv

LEMMA BeginKeeps ==
  ASSUME SearchInv, NEW x \in Call, NEW s \in Subject, Begin(x, s), UNCHANGED engineVars
  PROVE  SearchInv'
<1> DEFINE q == [pc |-> "look", subject |-> s, started |-> now]
<1>1. now \in Nat
  BY ExchangeAssumption DEF SearchInv, Exchanged
<1>2. CallOK(q, issued, now)
  BY <1>1 DEF CallOK, Looking
<1>3. call[x].pc = "idle" /\ q.pc = "look"
  BY DEF Begin, AtRest
<1>4. call' = [call EXCEPT ![x] = q]
  BY DEF Begin
<1> HIDE DEF q
<1> QED
  BY <1>2, <1>3, <1>4, CallerMoves DEF Begin

LEMMA BeginAnonymousKeeps ==
  ASSUME SearchInv, NEW x \in Call, BeginAnonymous(x)
  PROVE  SearchInv'
<1>1. CallOK(Send(NoUser, 0, {}), issued, now)
  BY DEF CallOK
<1>2. call[x].pc = "idle" /\ Send(NoUser, 0, {}).pc = "send"
  BY DEF BeginAnonymous, AtRest, Send
<1> QED
  BY <1>1, <1>2, CallerMoves DEF BeginAnonymous

LEMMA FailureKeeps ==
  ASSUME SearchInv, NEW x \in Call, SearchFails(x) \/ (Fail(x) /\ UNCHANGED engineVars)
  PROVE  SearchInv'
<1>1. CallOK(AtRest, issued, now) /\ AtRest.pc = "idle"
  BY DEF CallOK, AtRest
<1>2. /\ call[x].pc \in {"send", "ask", "store"}
      /\ UNCHANGED <<now, issued, tokens, owed, engineVars>>
      /\ call' = [call EXCEPT ![x] = AtRest]
  BY DEF SearchFails, Fail, Refused
<1> QED
  BY <1>1, <1>2, CallerMoves

-----------------------------------------------------------------------------
(* The cache answers: the token is fresh for this search. *)
LEMMA ReuseKeeps ==
  ASSUME SearchInv, NEW x \in Call, Reuse(x), UNCHANGED engineVars
  PROVE  SearchInv'
<1> DEFINE s == call[x].subject
           at == call[x].started
           e == LruValue(tokens, s)
           q == Send(s, e.token, {at})
<1>1. call[x].pc = "look" /\ call[x] \in Looking
  BY CallKinds DEF SearchInv, Searches, Reuse
<1>2. s \in Subject /\ at \in Nat /\ s \in LruKeys(tokens) /\ at < e.expires
  BY <1>1, LruHasKey DEF Reuse, Usable, Looking
<1>3. e \in KeptToken /\ KeptOK(s, e, issued)
  BY <1>2, LruFound DEF SearchInv, Exchanged
<1>4. FreshAt(issued[e.token], at)
  <2> HIDE DEF e, at
  <2> QED
    BY <1>2, <1>3 DEF KeptOK, FreshUntil
<1>5. CallOK(q, issued, now)
  <2>1. q \in Sending
    BY <1>2, <1>3 DEF Send, Sending, KeptToken
  <2>2. Carries(q, issued) /\ q.reusedAt = {at} /\ q.token = e.token
    BY <1>3 DEF Send, Carries, KeptOK
  <2> HIDE DEF q, e, at
  <2> QED
    BY <2>1, <2>2, <1>4 DEF CallOK
<1>6. /\ tokens' = LruGet(tokens, s) /\ UNCHANGED <<now, issued, owed>>
      /\ call' = [call EXCEPT ![x] = q] /\ q.pc = "send"
  BY DEF Reuse, Send
<1>7. /\ LruOK(tokens', Subject, KeptToken) /\ LruKeys(tokens') = LruKeys(tokens)
      /\ Len(tokens') = Len(tokens) /\ SameValues(tokens, tokens')
  BY <1>6, LruGetOK DEF SearchInv, Exchanged
<1> HIDE DEF q, e, at, s
<1>8. Exchanged'
  BY <1>6, <1>7 DEF SearchInv, Exchanged, SameValues
<1>9. StillOwed'
  BY <1>6, <1>7 DEF SearchInv, StillOwed, SameValues
<1>10. Onwards
  BY <1>6, ExchangeAssumption DEF SearchInv, Exchanged, Onwards
<1>11. Searches'
  BY <1>5, <1>6, <1>10, CallMoves DEF SearchInv
<1>12. Counters'
  BY <1>1, <1>6, NoneToCount DEF SearchInv
<1> QED
  BY <1>8, <1>9, <1>11, <1>12 DEF SearchInv

(* It does not: what was there has expired for this search, hence expired,  *)
(* and nothing that is still owed goes.                                     *)
LEMMA AskKeeps ==
  ASSUME SearchInv, NEW x \in Call, Ask(x), UNCHANGED engineVars
  PROVE  SearchInv'
<1> DEFINE s == call[x].subject
           at == call[x].started
           due == now < owed[s]
           q == [pc |-> "ask", subject |-> s, started |-> at, wasOwed |-> due]
<1>1. call[x].pc = "look" /\ call[x] \in Looking /\ at <= now
  BY CallKinds DEF SearchInv, Searches, Ask
<1>2. s \in Subject /\ at \in Nat /\ now \in Nat /\ owed[s] \in Int
  BY <1>1, ExchangeAssumption DEF Looking, SearchInv, Exchanged, StillOwed
<1>3. ~due
  <2> SUFFICES ASSUME due PROVE FALSE
    OBVIOUS
  <2>1. LruHas(tokens, s) /\ LruValue(tokens, s).expires = owed[s]
    BY <1>2, LruHasKey DEF SearchInv, StillOwed
  <2>2. ~(at < owed[s])
    BY <2>1 DEF Ask, Usable
  <2> QED
    BY <1>1, <1>2, <2>2
<1>4. q \in Asking
  <2>1. due = FALSE
    BY <1>3
  <2> HIDE DEF due
  <2> QED
    BY <1>2, <2>1 DEF Asking
<1>5. /\ tokens' = LruRemove(tokens, s) /\ UNCHANGED <<now, issued, owed>>
      /\ call' = [call EXCEPT ![x] = q] /\ q.pc = "ask" /\ q.started = at
  BY DEF Ask
<1>6. /\ LruOK(tokens', Subject, KeptToken) /\ LruKeys(tokens') = LruKeys(tokens) \ {s}
      /\ Len(tokens') = (IF s \in LruKeys(tokens) THEN Len(tokens) - 1 ELSE Len(tokens))
      /\ SameValues(tokens, tokens')
  <2>1. LruOK(tokens, Subject, KeptToken)
    BY DEF SearchInv, Exchanged
  <2> HIDE DEF q, s
  <2> QED
    BY <1>5, <2>1, LruRemoveOK
<1> HIDE DEF q, s, at
<1>7. Len(tokens') <= CacheEntries
  BY <1>6, ExchangeAssumption, LenProperties DEF SearchInv, Exchanged, LruOK
<1>8. Exchanged'
  BY <1>5, <1>6, <1>7 DEF SearchInv, Exchanged, SameValues
<1>9. StillOwed'
  BY <1>2, <1>3, <1>5, <1>6 DEF SearchInv, StillOwed, SameValues
<1>10. Onwards
  BY <1>2, <1>5 DEF Onwards
<1>11. CallOK(q, issued, now)
  BY <1>1, <1>4, <1>5 DEF CallOK
<1>12. Searches'
  BY <1>5, <1>10, <1>11, CallMoves DEF SearchInv
<1>13. Counters'
  BY <1>1, <1>5, NoneToCount DEF SearchInv
<1> QED
  BY <1>8, <1>9, <1>12, <1>13 DEF SearchInv

(* The provider issues a token to the subject that asked. *)
LEMMA IssueKeeps ==
  ASSUME SearchInv, NEW x \in Call, Issue(x), UNCHANGED engineVars
  PROVE  SearchInv'
<1>1. PICK e \in ExpiresIn :
        issued' = Append(issued, [subject |-> call[x].subject, at |-> now, expiresIn |-> e])
  BY DEF Issue
<1> DEFINE t == [subject |-> call[x].subject, at |-> now, expiresIn |-> e]
           q == [pc |-> "store", subject |-> call[x].subject,
                 started |-> call[x].started, token |-> Len(issued')]
<1>2. call[x].pc = "ask" /\ call[x] \in Asking /\ call[x].started <= now
  BY CallKinds DEF SearchInv, Searches, Issue
<1>3. now \in Nat /\ issued \in Seq(Token) /\ Len(issued) \in Nat
  BY ExchangeAssumption, LenProperties DEF SearchInv, Exchanged
<1>4. t \in Token
  BY <1>2, <1>3 DEF Asking, Token
<1>5. /\ issued' = Append(issued, t) /\ UNCHANGED <<now, tokens, owed>>
      /\ call' = [call EXCEPT ![x] = q] /\ Len(issued) < MaxTokens
  BY <1>1 DEF Issue
<1>6. t.subject = call[x].subject /\ t.at = now
  OBVIOUS
<1> HIDE DEF t
<1>7. /\ issued' \in Seq(Token) /\ Len(issued') = Len(issued) + 1
      /\ \A i \in 1..Len(issued) : issued'[i] = issued[i]
      /\ issued'[Len(issued) + 1] = t
      /\ DOMAIN issued = 1..Len(issued) /\ DOMAIN issued' = 1..Len(issued')
  BY <1>3, <1>4, <1>5, AppendProperties, LenProperties
<1>8. Onwards
  BY <1>3, <1>5, <1>7 DEF Onwards
<1>9. Exchanged'
  <2>1. Len(issued') <= MaxTokens
    BY <1>3, <1>5, <1>7, ExchangeAssumption
  <2>2. ASSUME NEW s \in LruKeys(tokens) PROVE KeptOK(s, LruValue(tokens, s), issued')
    <3>1. KeptOK(s, LruValue(tokens, s), issued)
      BY DEF SearchInv, Exchanged
    <3> QED
      BY <1>8, <3>1 DEF KeptOK, Onwards
  <2> QED
    BY <1>5, <1>7, <2>1, <2>2 DEF SearchInv, Exchanged
<1>10. StillOwed'
  BY <1>5 DEF SearchInv, StillOwed
<1>11. CallOK(q, issued', now')
  <2>1. q \in Storing
    <3>1. Len(issued') \in Nat
      BY <1>3, <1>7
    <3> QED
      BY <1>2, <3>1 DEF Asking, Storing
  <2>2. Len(issued') \in DOMAIN issued' /\ issued'[Len(issued')] = t
    BY <1>3, <1>7
  <2>3. Carries(q, issued') /\ q.started <= issued'[q.token].at
    BY <1>2, <1>6, <2>2 DEF Carries
  <2> HIDE DEF q
  <2> QED
    BY <2>1, <2>3 DEF CallOK
<1>12. q.pc = "store"
  OBVIOUS
<1> HIDE DEF q
<1>13. Searches'
  BY <1>5, <1>8, <1>11, CallMoves DEF SearchInv
<1>14. Counters'
  BY <1>2, <1>5, <1>12, NoneToCount DEF SearchInv
<1> QED
  BY <1>9, <1>10, <1>13, <1>14 DEF SearchInv

(* Its answer is stored, and owed from then on; what it pushes out is owed  *)
(* no longer.                                                               *)
LEMMA StoreKeeps ==
  ASSUME SearchInv, NEW x \in Call, Store(x), UNCHANGED engineVars
  PROVE  SearchInv'
<1> DEFINE c == call[x]
           s == c.subject
           e == [token |-> c.token,
                 expires |-> Expires(c.started, Life(issued[c.token].expiresIn))]
           q == Send(s, c.token, {})
<1>1. /\ c.pc = "store" /\ c \in Storing /\ Carries(c, issued)
      /\ c.started <= issued[c.token].at
  BY CallKinds DEF SearchInv, Searches, Store
<1>2. /\ s \in Subject /\ c.token \in DOMAIN issued /\ issued[c.token].subject = s
      /\ issued[c.token] \in Token /\ c.started \in Nat /\ c.token \in Nat
  BY <1>1, ElementOfSeq, LenProperties DEF Storing, Carries, SearchInv, Exchanged
<1>3. e.expires \in Int /\ FreshUntil(issued[c.token], e.expires)
  BY <1>1, <1>2, ExpiresInTime
<1>4. e \in KeptToken /\ KeptOK(s, e, issued)
  BY <1>2, <1>3 DEF KeptToken, KeptOK
<1>5. /\ tokens' = LruAdd(tokens, s, e, CacheEntries) /\ UNCHANGED <<now, issued>>
      /\ call' = [call EXCEPT ![x] = q] /\ q.pc = "send"
      /\ owed' = [d \in Subject |-> IF d = s THEN e.expires
                                    ELSE IF LruHas(tokens, d) /\ ~LruHas(tokens', d) THEN 0
                                    ELSE owed[d]]
  BY DEF Store, Send
<1>6. CallOK(q, issued, now)
  BY <1>2 DEF CallOK, Send, Sending, Carries
<1> HIDE DEF q, e, s, c
<1>7. /\ LruOK(tokens', Subject, KeptToken)
      /\ Added(tokens, tokens', s, e, CacheEntries)
  <2>1. LruOK(tokens, Subject, KeptToken) /\ Len(tokens) <= CacheEntries
    BY DEF SearchInv, Exchanged
  <2> QED
    BY <1>2, <1>4, <1>5, <2>1, LruAddOK, ExchangeAssumption
<1>8. /\ s \in LruKeys(tokens') /\ LruValue(tokens', s) = e /\ Len(tokens') <= CacheEntries
      /\ \A d \in LruKeys(tokens') \ {s} :
           d \in LruKeys(tokens) /\ LruValue(tokens', d) = LruValue(tokens, d)
  BY <1>7 DEF Added
<1>9. Exchanged'
  <2>1. ASSUME NEW d \in LruKeys(tokens') PROVE KeptOK(d, LruValue(tokens', d), issued)
    BY <1>4, <1>8 DEF SearchInv, Exchanged
  <2> QED
    BY <1>5, <1>7, <1>8, <2>1 DEF SearchInv, Exchanged
<1>10. StillOwed'
  <2>1. owed' \in [Subject -> Int]
    BY <1>3, <1>5 DEF SearchInv, StillOwed
  <2>2. ASSUME NEW d \in Subject, now < owed'[d]
        PROVE  d \in LruKeys(tokens') /\ LruValue(tokens', d).expires = owed'[d]
    <3>1. CASE d = s
      BY <1>5, <1>8, <3>1
    <3>2. CASE d # s
      <4>1. now \in Nat
        BY ExchangeAssumption DEF SearchInv, Exchanged
      <4>2. ~(LruHas(tokens, d) /\ ~LruHas(tokens', d)) /\ owed'[d] = owed[d]
        <5>1. ~(now < 0)
          BY <4>1
        <5> QED
          BY <1>5, <2>2, <3>2, <5>1
      <4>3. d \in LruKeys(tokens) /\ LruValue(tokens, d).expires = owed[d]
        BY <2>2, <4>2 DEF SearchInv, StillOwed
      <4>4. d \in LruKeys(tokens')
        BY <4>2, <4>3, LruHasKey
      <4> QED
        BY <1>8, <3>2, <4>2, <4>3, <4>4
    <3> QED
      BY <3>1, <3>2
  <2> QED
    BY <1>5, <2>1, <2>2 DEF StillOwed
<1>11. Onwards
  BY <1>5, ExchangeAssumption DEF SearchInv, Exchanged, Onwards
<1>12. Searches'
  BY <1>5, <1>6, <1>11, CallMoves DEF SearchInv
<1>13. Counters'
  BY <1>1, <1>5, NoneToCount DEF SearchInv, c
<1> QED
  BY <1>9, <1>10, <1>12, <1>13 DEF SearchInv

-----------------------------------------------------------------------------
(* How many failures a search has still to count. *)
ToCount(q) == IF q.pc \in {"count", "insert"} THEN Cardinality(q.engines) ELSE 0

LEMMA ToCountNat ==
  ASSUME NEW q, NEW states, NEW t, CallOK(q, states, t)
  PROVE  /\ ToCount(q) \in Nat
         /\ q.pc \in {"count", "insert"} => q.engines \in SUBSET Engine /\ IsFiniteSet(q.engines)
<1>1. CASE q.pc \in {"count", "insert"}
  <2>1. q.engines \in SUBSET Engine
    BY <1>1, CallKinds DEF Tallying, Inserting
  <2>2. IsFiniteSet(q.engines)
    BY <2>1, SearchAssumption, FS_Subset
  <2> QED
    BY <1>1, <2>1, <2>2, FS_CardinalityType DEF ToCount
<1>2. CASE q.pc \notin {"count", "insert"}
  BY <1>2 DEF ToCount
<1> QED
  BY <1>1, <1>2

(* The failures still to count change by what they change for the search    *)
(* that moves.                                                              *)
LEMMA UncountedMoves ==
  ASSUME Searches, NEW x \in Call, NEW q, ToCount(q) \in Nat, call' = [call EXCEPT ![x] = q]
  PROVE  /\ Uncounted \in Nat /\ Uncounted' \in Nat /\ ToCount(call[x]) \in Nat
         /\ Uncounted' + ToCount(call[x]) = Uncounted + ToCount(q)
<1> DEFINE f == [y \in Call |-> Pending(y)]
           h == [y \in Call |-> Pending(y)']
<1>1. \A y \in Call : Pending(y) = ToCount(call[y]) /\ Pending(y)' = ToCount(call'[y])
  BY DEF Pending, ToCount
<1>2. \A y \in Call : f[y] \in Nat
  BY <1>1, ToCountNat DEF Searches
<1>3. call'[x] = q /\ \A y \in Call \ {x} : call'[y] = call[y]
  BY DEF Searches
<1>4. h[x] = ToCount(q) /\ h[x] \in Nat /\ f[x] = ToCount(call[x])
      /\ \A y \in Call \ {x} : h[y] = f[y]
  BY <1>1, <1>3
<1>5. DOMAIN f = Call /\ DOMAIN h = Call
  OBVIOUS
<1>6. Uncounted = SumFunction(f) /\ Uncounted' = SumFunction(h)
  BY DEF Uncounted
<1> HIDE DEF f, h
<1>7. /\ SumFunction(f) \in Nat /\ SumFunction(h) \in Nat
      /\ SumFunction(h) + f[x] = SumFunction(f) + h[x]
  BY <1>2, <1>4, <1>5, SumMoves, SearchAssumption
<1> QED
  BY <1>2, <1>4, <1>6, <1>7

(* One engine fewer to count. *)
LEMMA OneCounted ==
  ASSUME NEW q, NEW states, NEW t, CallOK(q, states, t), q.pc \in {"count", "insert"},
         NEW e \in q.engines
  PROVE  /\ CallOK(Counting(q.engines \ {e}), states, t)
         /\ ToCount(q) \in Nat \ {0}
         /\ ToCount(Counting(q.engines \ {e})) = ToCount(q) - 1
<1> DEFINE rest == q.engines \ {e}
<1>1. q.engines \in SUBSET Engine /\ IsFiniteSet(q.engines) /\ ToCount(q) = Cardinality(q.engines)
  BY ToCountNat DEF ToCount
<1>2. /\ rest \in SUBSET Engine /\ Cardinality(q.engines) \in Nat \ {0}
      /\ Cardinality(rest) = Cardinality(q.engines) - 1
  BY <1>1, OneLess
<1> HIDE DEF rest
<1>3. CallOK(Counting(rest), states, t)
  BY <1>2 DEF Counting, CallOK, Tallying
<1>4. ToCount(Counting(rest)) = Cardinality(rest)
  <2>1. CASE rest = {}
    BY <2>1, FS_EmptySet DEF Counting, ToCount, AtRest
  <2>2. CASE rest # {}
    BY <2>2 DEF Counting, ToCount
  <2> QED
    BY <2>1, <2>2
<1> QED
  BY <1>1, <1>2, <1>3, <1>4 DEF rest

(* The steps of a search leave the exchange alone. *)
LEMMA ExchangeWaits ==
  ASSUME SearchInv, UNCHANGED <<now, issued, tokens, owed>>
  PROVE  Exchanged' /\ Onwards /\ StillOwed'
<1>1. StillOwed'
  BY DEF SearchInv, StillOwed
<1> QED
  BY <1>1, ExchangedWaits DEF SearchInv

(* The engine table when its counts are naturals. *)
LEMMA EngineTable ==
  ASSUME Counters
  PROVE  /\ IsFiniteSet(DOMAIN errors) /\ \A e \in DOMAIN errors : errors[e] \in Nat
         /\ SumFunction(errors) \in Nat /\ Cardinality(DOMAIN errors) \in Nat
<1>1. IsFiniteSet(DOMAIN errors) /\ \A e \in DOMAIN errors : errors[e] \in Nat
  BY SearchAssumption, FS_Subset DEF Counters
<1>2. SumFunction(errors) \in Nat
  BY <1>1, SumSplit DEF SumFunction
<1> QED
  BY <1>1, <1>2, FS_CardinalityType

(* As many failures become due as SearXNG reports. *)
LEMMA AnsweredKeeps ==
  ASSUME SearchInv, NEW x \in Call, Answered(x)
  PROVE  SearchInv'
<1>1. PICK engines \in SUBSET Engine :
        /\ reported + Cardinality(engines) <= MaxReported
        /\ reported' = reported + Cardinality(engines)
        /\ call' = [call EXCEPT ![x] = Counting(engines)]
  BY DEF Answered
<1>2. UNCHANGED <<now, issued, tokens, owed, errors, overflow>> /\ call[x].pc = "send"
  BY DEF Answered
<1>3. Exchanged' /\ Onwards /\ StillOwed'
  BY <1>2, ExchangeWaits
<1>4. CallOK(Counting(engines), issued', now')
  BY DEF Counting, CallOK, Tallying
<1>5. Searches'
  BY <1>1, <1>3, <1>4, CallMoves DEF SearchInv
<1>6. Cardinality(engines) \in Nat /\ ToCount(Counting(engines)) = Cardinality(engines)
  <2>1. IsFiniteSet(engines)
    BY SearchAssumption, FS_Subset
  <2>2. CASE engines = {}
    BY <2>2, FS_EmptySet DEF Counting, ToCount, AtRest
  <2>3. CASE engines # {}
    BY <2>1, <2>3, FS_CardinalityType DEF Counting, ToCount
  <2> QED
    BY <2>1, <2>2, <2>3, FS_CardinalityType
<1>7. ToCount(call[x]) = 0
  BY <1>2 DEF ToCount
<1>8. Uncounted \in Nat /\ Uncounted' \in Nat /\ Uncounted' = Uncounted + Cardinality(engines)
  <2>1. /\ Uncounted \in Nat /\ Uncounted' \in Nat
        /\ Uncounted' + ToCount(call[x]) = Uncounted + ToCount(Counting(engines))
    BY <1>1, <1>6, UncountedMoves DEF SearchInv
  <2> QED
    BY <1>6, <1>7, <2>1
<1>9. Counters'
  <2>1. /\ SumFunction(errors) \in Nat /\ overflow \in Nat /\ reported \in Nat
        /\ SumFunction(errors) + overflow + Uncounted = reported
        /\ MaxReported \in Nat
    BY EngineTable, SearchAssumption DEF SearchInv, Counters
  <2>2. reported' \in 0..MaxReported
    BY <1>1, <1>6, <2>1
  <2>3. SumFunction(errors) + overflow + Uncounted' = reported'
    BY <1>1, <1>6, <1>8, <2>1
  <2> QED
    BY <1>2, <2>2, <2>3 DEF SearchInv, Counters
<1> QED
  BY <1>3, <1>5, <1>9 DEF SearchInv

(* A failure is counted, here or in the overflow; the search has one fewer  *)
(* to count.                                                                *)
LEMMA CountedKeeps ==
  ASSUME SearchInv, NEW x \in Call, call[x].pc \in {"count", "insert"},
         NEW e \in call[x].engines,
         call' = [call EXCEPT ![x] = Counting(@.engines \ {e})],
         UNCHANGED <<now, issued, tokens, owed, reported>>,
         DOMAIN errors' \subseteq Engine, errors' \in [DOMAIN errors' -> Nat],
         Cardinality(DOMAIN errors') <= MaxEngines, overflow' \in Nat,
         SumFunction(errors') + overflow' = SumFunction(errors) + overflow + 1,
         SumFunction(errors') \in Nat
  PROVE  SearchInv'
<1> DEFINE q == Counting(call[x].engines \ {e})
<1>1. CallOK(q, issued, now) /\ ToCount(call[x]) \in Nat /\ ToCount(q) = ToCount(call[x]) - 1
      /\ ToCount(q) \in Nat
  BY OneCounted DEF SearchInv, Searches
<1>2. call' = [call EXCEPT ![x] = q]
  OBVIOUS
<1> HIDE DEF q
<1>3. Exchanged' /\ Onwards /\ StillOwed'
  BY ExchangeWaits
<1>4. Searches'
  BY <1>1, <1>2, <1>3, CallMoves DEF SearchInv
<1>5. /\ Uncounted \in Nat /\ Uncounted' \in Nat
      /\ Uncounted' + ToCount(call[x]) = Uncounted + ToCount(q)
  BY <1>1, <1>2, UncountedMoves DEF SearchInv
<1>6. Uncounted' = Uncounted - 1
  BY <1>1, <1>5
<1>7. /\ SumFunction(errors) \in Nat /\ overflow \in Nat
      /\ SumFunction(errors) + overflow + Uncounted = reported
  BY EngineTable DEF SearchInv, Counters
<1>8. SumFunction(errors') + overflow' + Uncounted' = reported
  BY <1>5, <1>6, <1>7
<1>9. Counters'
  BY <1>8 DEF SearchInv, Counters
<1> QED
  BY <1>3, <1>4, <1>9 DEF SearchInv

(* A counter that is there. *)
LEMMA CounterRises ==
  ASSUME Counters, NEW e \in DOMAIN errors, errors' = [errors EXCEPT ![e] = @ + 1]
  PROVE  /\ DOMAIN errors' = DOMAIN errors /\ errors' \in [DOMAIN errors' -> Nat]
         /\ SumFunction(errors') \in Nat /\ SumFunction(errors') = SumFunction(errors) + 1
<1> DEFINE D == DOMAIN errors
           h == errors'
<1>1. IsFiniteSet(D) /\ (\A d \in D : errors[d] \in Nat) /\ DOMAIN errors = D /\ e \in D
  BY EngineTable
<1>2. /\ DOMAIN h = D /\ h[e] = errors[e] + 1 /\ h[e] \in Nat
      /\ \A d \in D \ {e} : h[d] = errors[d]
  BY <1>1
<1>3. h \in [D -> Nat]
  BY DEF Counters
<1> HIDE DEF D, h
<1>4. /\ SumFunction(errors) \in Nat /\ SumFunction(h) \in Nat
      /\ SumFunction(h) + errors[e] = SumFunction(errors) + h[e]
  BY <1>1, <1>2, SumMoves
<1>5. SumFunction(h) = SumFunction(errors) + 1
  BY <1>1, <1>2, <1>4
<1> QED
  BY <1>2, <1>3, <1>4, <1>5 DEF D, h

LEMMA CountKnownKeeps ==
  ASSUME SearchInv, NEW x \in Call, NEW e \in Engine, CountKnown(x, e)
  PROVE  SearchInv'
<1>1. /\ call[x].pc = "count" /\ e \in call[x].engines /\ e \in DOMAIN errors
      /\ errors' = [errors EXCEPT ![e] = @ + 1]
      /\ call' = [call EXCEPT ![x] = Counting(@.engines \ {e})]
      /\ UNCHANGED <<now, issued, tokens, owed, overflow, reported>>
  BY DEF CountKnown
<1>2. /\ DOMAIN errors' = DOMAIN errors /\ errors' \in [DOMAIN errors' -> Nat]
      /\ SumFunction(errors') \in Nat /\ SumFunction(errors') = SumFunction(errors) + 1
  BY <1>1, CounterRises DEF SearchInv
<1>3. /\ SumFunction(errors) \in Nat /\ overflow \in Nat /\ DOMAIN errors \subseteq Engine
      /\ Cardinality(DOMAIN errors) <= MaxEngines
  BY EngineTable DEF SearchInv, Counters
<1>4. SumFunction(errors') + overflow' = SumFunction(errors) + overflow + 1
  BY <1>1, <1>2, <1>3
<1> QED
  BY <1>1, <1>2, <1>3, <1>4, CountedKeeps

(* On its way to the write lock a search still has the engine to count. *)
LEMMA MissEngineKeeps ==
  ASSUME SearchInv, NEW x \in Call, NEW e \in Engine, MissEngine(x, e)
  PROVE  SearchInv'
<1> DEFINE q == [pc |-> "insert", engines |-> call[x].engines, engine |-> e]
<1>1. /\ call[x].pc = "count" /\ e \in call[x].engines
      /\ call' = [call EXCEPT ![x] = q]
      /\ UNCHANGED <<now, issued, tokens, owed, engineVars>>
  BY DEF MissEngine
<1>2. CallOK(q, issued, now)
  <2>1. call[x].engines \in SUBSET Engine
    BY <1>1, ToCountNat DEF SearchInv, Searches
  <2> QED
    BY <1>1, <2>1 DEF CallOK, Inserting
<1>3. ToCount(q) = ToCount(call[x]) /\ ToCount(q) \in Nat
  <2>1. ToCount(q) = ToCount(call[x])
    BY <1>1 DEF ToCount
  <2> QED
    BY <2>1, ToCountNat DEF SearchInv, Searches
<1> HIDE DEF q
<1>4. Exchanged' /\ Onwards /\ StillOwed'
  BY <1>1, ExchangeWaits
<1>5. Searches'
  BY <1>1, <1>2, <1>4, CallMoves DEF SearchInv
<1>6. Uncounted' = Uncounted
  <2>1. /\ Uncounted \in Nat /\ Uncounted' \in Nat
        /\ Uncounted' + ToCount(call[x]) = Uncounted + ToCount(q)
    BY <1>1, <1>3, UncountedMoves DEF SearchInv
  <2> QED
    BY <1>3, <2>1
<1>7. Counters'
  BY <1>1, <1>6 DEF SearchInv, Counters, engineVars
<1> QED
  BY <1>4, <1>5, <1>7 DEF SearchInv

LEMMA InsertEngineKeeps ==
  ASSUME SearchInv, NEW x \in Call, InsertEngine(x)
  PROVE  SearchInv'
<1> DEFINE e == call[x].engine
<1>1. /\ call[x].pc = "insert"
      /\ call' = [call EXCEPT ![x] = Counting(@.engines \ {e})]
      /\ UNCHANGED <<now, issued, tokens, owed, reported>>
  BY DEF InsertEngine
<1>2. e \in call[x].engines /\ e \in Engine
  BY <1>1, CallKinds DEF SearchInv, Searches, Inserting
<1>3. /\ SumFunction(errors) \in Nat /\ overflow \in Nat /\ DOMAIN errors \subseteq Engine
      /\ Cardinality(DOMAIN errors) \in Nat /\ IsFiniteSet(DOMAIN errors)
      /\ Cardinality(DOMAIN errors) <= MaxEngines /\ errors \in [DOMAIN errors -> Nat]
      /\ MaxEngines \in Nat
  BY EngineTable, SearchAssumption DEF SearchInv, Counters
<1>4. CASE Known(e) /\ errors' = [errors EXCEPT ![e] = @ + 1] /\ UNCHANGED overflow
  <2>1. /\ DOMAIN errors' = DOMAIN errors /\ errors' \in [DOMAIN errors' -> Nat]
        /\ SumFunction(errors') \in Nat /\ SumFunction(errors') = SumFunction(errors) + 1
    BY <1>4, CounterRises DEF SearchInv, Known
  <2>2. SumFunction(errors') + overflow' = SumFunction(errors) + overflow + 1
    BY <1>3, <1>4, <2>1
  <2> QED
    BY <1>1, <1>2, <1>3, <1>4, <2>1, <2>2, CountedKeeps
<1>5. CASE overflow' = overflow + 1 /\ UNCHANGED errors
  <2>1. SumFunction(errors') = SumFunction(errors) /\ DOMAIN errors' = DOMAIN errors
        /\ errors' = errors
    BY <1>5
  <2>2. SumFunction(errors') + overflow' = SumFunction(errors) + overflow + 1
        /\ overflow' \in Nat
    BY <1>3, <1>5, <2>1
  <2> QED
    BY <1>1, <1>2, <1>3, <2>1, <2>2, CountedKeeps
<1>6. CASE /\ ~Known(e) /\ Cardinality(DOMAIN errors) < MaxEngines
           /\ errors' = [d \in DOMAIN errors \cup {e} |-> IF d = e THEN 1 ELSE errors[d]]
           /\ UNCHANGED overflow
  <2>1. /\ DOMAIN errors' = DOMAIN errors \cup {e} /\ e \notin DOMAIN errors
        /\ errors'[e] = 1 /\ \A d \in DOMAIN errors \ {e} : errors'[d] = errors[d]
        /\ errors' \in [DOMAIN errors' -> Nat]
    BY <1>3, <1>6 DEF Known
  <2>2. Cardinality(DOMAIN errors') = Cardinality(DOMAIN errors) + 1
    BY <1>3, <2>1, FS_AddElement
  <2>3. /\ SumFunction(errors') \in Nat
        /\ SumFunction(errors') + (IF e \in DOMAIN errors THEN errors[e] ELSE 0)
             = SumFunction(errors) + errors'[e]
    <3>1. \A d \in DOMAIN errors : errors[d] \in Nat
      BY <1>3
    <3> QED
      BY <1>3, <2>1, <3>1, SumChanges
  <2>4. SumFunction(errors') + overflow' = SumFunction(errors) + overflow + 1
    BY <1>3, <1>6, <2>1, <2>3
  <2>5. Cardinality(DOMAIN errors') <= MaxEngines /\ DOMAIN errors' \subseteq Engine
    BY <1>2, <1>3, <1>6, <2>1, <2>2
  <2> QED
    BY <1>1, <1>2, <1>3, <1>6, <2>1, <2>3, <2>4, <2>5, CountedKeeps
<1> QED
  BY <1>4, <1>5, <1>6 DEF InsertEngine

-----------------------------------------------------------------------------
LEMMA SearchInvInit == SearchInit => SearchInv
<1> SUFFICES ASSUME SearchInit PROVE SearchInv
  OBVIOUS
<1>1. Exchanged
  <2>1. LruOK(tokens, Subject, KeptToken) /\ LruKeys(tokens) = {} /\ Len(tokens) = 0
    <3>1. tokens = LruEmpty /\ LruEmpty = << >>
      BY DEF SearchInit, ExchangeInit, LruEmpty
    <3> QED
      BY <3>1, LruEmptyOK, LenProperties
  <2>2. issued \in Seq(Token) /\ Len(issued) = 0 /\ now \in 0..MaxTime
    BY ExchangeAssumption DEF SearchInit, ExchangeInit
  <2> QED
    BY <2>1, <2>2, ExchangeAssumption DEF Exchanged
<1>2. StillOwed
  <2>1. now = 0 /\ owed = [s \in Subject |-> 0]
    BY DEF SearchInit, ExchangeInit
  <2> QED
    BY <2>1 DEF StillOwed
<1>3. call = [x \in Call |-> AtRest] /\ Searches
  BY DEF SearchInit, ExchangeInit, Searches, CallOK
<1>4. Counters
  <2>1. DOMAIN errors = {} /\ overflow = 0 /\ reported = 0
    BY DEF SearchInit
  <2>2. SumFunction(errors) = 0 /\ Cardinality(DOMAIN errors) = 0
    BY <2>1, FS_EmptySet, SumSplit DEF SumFunction
  <2>3. Uncounted = 0
    <3> DEFINE f == [x \in Call |-> Pending(x)]
    <3>1. DOMAIN f = Call /\ \A x \in Call : f[x] = 0
      BY <1>3 DEF Pending, AtRest
    <3> HIDE DEF f
    <3>2. SumFunctionOnSet(f, Call) = 0
      BY <3>1, SumZero, SearchAssumption
    <3> QED
      BY <3>1, <3>2 DEF Uncounted, SumFunction, f
  <2>4. errors \in [DOMAIN errors -> Nat]
    BY DEF SearchInit
  <2> QED
    BY <2>1, <2>2, <2>3, <2>4, SearchAssumption DEF Counters
<1> QED
  BY <1>1, <1>2, <1>3, <1>4 DEF SearchInv

LEMMA SearchInvNext == SearchInv /\ [SearchNext]_searchVars => SearchInv'
<1> SUFFICES ASSUME SearchInv, [SearchNext]_searchVars PROVE SearchInv'
  OBVIOUS
<1>1. CASE UNCHANGED searchVars
  <2>1. UNCHANGED <<now, issued, tokens, owed>> /\ call' = call /\ UNCHANGED engineVars
    BY <1>1 DEF searchVars, exchangeVars
  <2>2. Exchanged' /\ Onwards /\ StillOwed'
    BY <2>1, ExchangeWaits
  <2>3. Counters'
    BY <2>1, CountersKept DEF SearchInv, Pending
  <2> QED
    BY <2>1, <2>2, <2>3, CallsWait DEF SearchInv
<1>2. CASE Tick /\ UNCHANGED engineVars
  BY <1>2, TickKeeps
<1>3. ASSUME NEW x \in Call, UNCHANGED engineVars, \E s \in Subject : Begin(x, s)
      PROVE  SearchInv'
  BY <1>3, BeginKeeps
<1>4. ASSUME NEW x \in Call, UNCHANGED engineVars,
             Reuse(x) \/ Ask(x) \/ Issue(x) \/ Store(x) \/ Fail(x)
      PROVE  SearchInv'
  BY <1>4, ReuseKeeps, AskKeeps, IssueKeeps, StoreKeeps, FailureKeeps
<1>5. ASSUME NEW x \in Call,
             BeginAnonymous(x) \/ SearchFails(x) \/ Answered(x) \/ InsertEngine(x)
      PROVE  SearchInv'
  BY <1>5, BeginAnonymousKeeps, FailureKeeps, AnsweredKeeps, InsertEngineKeeps
<1>6. ASSUME NEW x \in Call, NEW e \in Engine, CountKnown(x, e) \/ MissEngine(x, e)
      PROVE  SearchInv'
  BY <1>6, CountKnownKeeps, MissEngineKeeps
<1> QED
  BY <1>1, <1>2, <1>3, <1>4, <1>5, <1>6 DEF SearchNext, ExchangeStep, Exchange

(* A search satisfies its inductive invariant in every reachable state. *)
THEOREM SearchInvariant == SearchSpec => []SearchInv
BY SearchInvInit, SearchInvNext, PTL DEF SearchSpec

-----------------------------------------------------------------------------
(* A search carries its own caller's token, or none if its caller has none, *)
(* whatever exchanges and evictions run beside it.                          *)
THEOREM SearchKeepsIdentity == SearchSpec => []IdentityKept
<1>1. SearchInv => IdentityKept
  <2> SUFFICES ASSUME SearchInv, NEW x \in Call, call[x].pc = "send"
               PROVE  IF call[x].subject = NoUser THEN call[x].token = 0
                      ELSE /\ call[x].token \in DOMAIN issued
                           /\ issued[call[x].token].subject = call[x].subject
    BY DEF IdentityKept
  <2>1. CASE call[x] = Send(NoUser, 0, {})
    BY <2>1 DEF Send
  <2>2. CASE call[x] \in Sending /\ Carries(call[x], issued)
    BY <2>2, SearchAssumption DEF Sending, Carries
  <2> QED
    BY <2>1, <2>2, CallKinds DEF SearchInv, Searches
<1> QED
  BY <1>1, SearchInvariant, PTL

(* A token from the cache is within its renewal margin and its maximum      *)
(* life, for every lifetime a provider states and every word size.          *)
THEOREM SearchServedFresh == SearchSpec => []ServedFresh
<1>1. SearchInv => ServedFresh
  <2> SUFFICES ASSUME SearchInv, NEW x \in Call, call[x].pc = "send",
                      NEW at \in call[x].reusedAt
               PROVE  FreshAt(issued[call[x].token], at)
    BY DEF ServedFresh, FreshAt
  <2>1. CASE call[x] = Send(NoUser, 0, {})
    BY <2>1 DEF Send
  <2>2. CASE \A d \in call[x].reusedAt : FreshAt(issued[call[x].token], d)
    BY <2>2
  <2> QED
    BY <2>1, <2>2, CallKinds DEF SearchInv, Searches
<1> QED
  BY <1>1, SearchInvariant, PTL

(* No exchange is made while a stored token of the same user is owed.       *)
THEOREM SearchReusesStored == SearchSpec => []StoredIsReused
<1>1. SearchInv => StoredIsReused
  <2> SUFFICES ASSUME SearchInv, NEW x \in Call, call[x].pc = "ask" PROVE ~call[x].wasOwed
    BY DEF StoredIsReused
  <2>1. call[x] \in Asking
    BY CallKinds DEF SearchInv, Searches
  <2> QED
    BY <2>1 DEF Asking
<1> QED
  BY <1>1, SearchInvariant, PTL

(* Each failure SearXNG reports is counted once, however many searches find *)
(* an engine missing together and however full the table is.                *)
THEOREM SearchCountsFailures == SearchSpec => []EngineFailuresCounted
<1>1. SearchInv => EngineFailuresCounted
  <2> SUFFICES ASSUME SearchInv PROVE EngineFailuresCounted
    OBVIOUS
  <2>1. /\ now \in 0..MaxTime /\ Len(issued) <= MaxTokens /\ Len(tokens) <= CacheEntries
        /\ \A i, j \in DOMAIN tokens : tokens[i].key = tokens[j].key => i = j
    BY DEF SearchInv, Exchanged, LruOK
  <2>2. ASSUME NEW i \in DOMAIN tokens PROVE tokens[i].val.token \in DOMAIN issued
    <3>1. LruHas(tokens, tokens[i].key) /\ LruValue(tokens, tokens[i].key) = tokens[i].val
      BY LruPlaced DEF SearchInv, Exchanged
    <3>2. KeptOK(tokens[i].key, LruValue(tokens, tokens[i].key), issued)
      BY <3>1, LruHasKey DEF SearchInv, Exchanged
    <3> QED
      BY <3>1, <3>2 DEF KeptOK
  <2>3. \A x \in Call :
          call[x].pc \in {"idle", "look", "ask", "store", "send", "count", "insert"}
    BY CallKinds DEF SearchInv, Searches
  <2>4. /\ IsFiniteSet(DOMAIN errors) /\ SumFunction(errors) \in Nat
        /\ DOMAIN errors \subseteq Engine /\ Cardinality(DOMAIN errors) <= MaxEngines
        /\ overflow \in Nat /\ reported \in 0..MaxReported
        /\ SumFunction(errors) + overflow + Uncounted = reported
    BY EngineTable DEF SearchInv, Counters
  <2>5. Uncounted \in Nat
    <3> DEFINE f == [x \in Call |-> Pending(x)]
    <3>1. \A x \in Call : Pending(x) = ToCount(call[x])
      BY DEF Pending, ToCount
    <3>2. DOMAIN f = Call /\ \A x \in Call : f[x] \in Nat
      BY <3>1, ToCountNat DEF SearchInv, Searches
    <3> HIDE DEF f
    <3>3. SumFunctionOnSet(f, Call) \in Nat
      BY <3>2, SumSplit, SearchAssumption
    <3> QED
      BY <3>2, <3>3 DEF Uncounted, SumFunction, f
  <2>6. overflow \in 0..MaxReported
    BY <2>4, <2>5, SearchAssumption
  <2> QED
    BY <2>1, <2>2, <2>3, <2>4, <2>6 DEF EngineFailuresCounted, SearchTypeOK, Uncounted
<1> QED
  BY <1>1, SearchInvariant, PTL
=============================================================================
