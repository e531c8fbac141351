-------------------------- MODULE FetchToolsProofs --------------------------
(***************************************************************************)
(* The two URL tools over readURL and its shared cache, for any number of   *)
(* concurrent calls, addresses and domains, any TTL and any size of the     *)
(* cache and of the domain table: what an answer's fetch time says, how old *)
(* a cached answer can be, what the counters add up to, and, whatever the   *)
(* documents hold, that an answer is what a reader sees of its document,    *)
(* that its preamble says what was removed, and that a gateway reads back   *)
(* its text.                                                                *)
(***************************************************************************)
EXTENDS FetchTools, DataProofs

Outcomes == {"ok", "error"}

(* x's copy is that of the document its version says. *)
Extracted(x) ==
  x.version \in DOMAIN site.docs /\ x.copy = ReadDocument(site.docs[x.version])

(* What a cache entry can be. *)
Copies == {ReadDocument(site.docs[v]) : v \in DOMAIN site.docs}
Stored ==
  {e \in [copy : Copies, version : Nat, fetchedAt : Nat, expiresAt : Nat] : Extracted(e)}

(* x is what u's origin served at x's fetch time, and that is past. *)
Truthful(served, clock, u, x) ==
  x.fetchedAt \in 0..clock /\ x.version \in served[u][x.fetchedAt]

(* So is an entry, and its life ends in time. *)
EntryOK(served, clock, u, e) ==
  /\ Truthful(served, clock, u, e)
  /\ e.expiresAt \in Nat /\ e.expiresAt <= e.fetchedAt + MaxLoad + TTL

(* What a reader holds is true of its address; a download is within its     *)
(* time, and a cached answer within its age.                                *)
ReaderOK(q, served, clock) ==
  /\ q = Idle \/ (q.pc \in {"judge", "fetch", "load", "done"} /\ q.url \in Url)
  /\ q.pc = "judge" => EntryOK(served, clock, q.url, q.entry) /\ Extracted(q.entry)
  /\ q.pc = "load" => /\ Truthful(served, clock, q.url, q)
                      /\ clock <= q.fetchedAt + MaxLoad
                      /\ q.version \in DOMAIN site.docs /\ q.kind \in {"text", "image"}
  /\ q.pc = "done" =>
       /\ q.kind \in {"text", "image", "error"} /\ q.cached \in BOOLEAN
       /\ q.kind = "text" =>
            /\ Truthful(served, clock, q.url, q.found) /\ Extracted(q.found)
            /\ q.cached => q.at < q.found.fetchedAt + TTL + MaxLoad

(* The clock, the pages and what their origins have served. *)
Origins ==
  /\ site \in Sites /\ now \in 0..MaxTime
  /\ page \in [Url -> DOMAIN site.docs]
  /\ shown \in [Url -> [0..MaxTime -> SUBSET Nat]]
  /\ \A u \in Url : page[u] \in shown[u][now]

(* The cache and its readers hold only the truth. *)
CacheTrue ==
  /\ LruOK(cache, Url, Stored) /\ Len(cache) <= CacheMaxEntries
  /\ \A k \in LruKeys(cache) : EntryOK(shown, now, k, LruValue(cache, k))

Copied ==
  /\ CacheTrue
  /\ \A r \in Reader : ReaderOK(rd[r], shown, now)
  /\ DOMAIN rd = Reader

(* So does the last answer. *)
Answered ==
  answer # NoAnswer =>
    /\ Truthful(shown, now, answer.url, answer.found) /\ Extracted(answer.found)
    /\ answer.cached => answer.at < answer.found.fetchedAt + TTL + MaxLoad

(* The readers of rs that are in one of these places. *)
At(readers, places, rs) == {r \in rs : readers[r].pc \in places}

Busy == {"judge", "fetch", "load", "done"}

(* The readers that call a tool. *)
Using(t) == {r \in Reader : ToolOf[r] = t}

Count(readers, places, rs) == Cardinality(At(readers, places, rs))

Judging == Count(rd, {"judge"}, Reader)
Loading == Count(rd, {"fetch", "load"}, Reader)
InFlight == Count(rd, Busy, Reader)

(* readURL's counters. *)
Reads ==
  /\ hits \in Nat /\ misses \in Nat /\ declined \in Nat
  /\ timed \in [{"hit", "miss"} -> Nat]
  /\ Started = declined + hits + misses + Judging
  /\ timed.hit = hits
  /\ misses = timed.miss + Loading

(* The tools' counters, and the records filed. *)
Called ==
  /\ total \in [Tools -> Nat] /\ errors \in [Tools -> Nat]
  /\ \A t \in Tools : errors[t] + Count(rd, Busy, Using(t)) <= total[t]
  /\ filed \in [Outcomes -> Nat] /\ unfiled \in Nat
  /\ Started <= Calls
  /\ Started = filed.ok + filed.error + unfiled + InFlight
  /\ missed \subseteq At(rd, {"done"}, Reader)

(* The domain table: while it has room every domain with an ended fetch is  *)
(* in it.                                                                   *)
Table ==
  /\ ended \in [Url -> [Outcomes -> Nat]]
  /\ domains \in [DOMAIN domains -> [Outcomes -> Nat]] /\ overflow \in [Outcomes -> Nat]
  /\ IsFiniteSet(DOMAIN domains) /\ DOMAIN domains \subseteq {DomainOf[u] : u \in Url}
  /\ Cardinality(DOMAIN domains) <= MaxTrackedDomains
  /\ Cardinality(DOMAIN domains) < MaxTrackedDomains =>
       \A u \in Url : DomainOf[u] \notin DOMAIN domains => \A o \in Outcomes : ended[u][o] = 0

(* The addresses of a domain, and those of the domains that have no entry. *)
AddressesOf(d) == {u \in Url : DomainOf[u] = d}
Untracked(tracked) == {u \in Url : DomainOf[u] \notin tracked}

(* The fetches of these addresses. *)
Fetches(over, us, o) == SumFunctionOnSet([u \in Url |-> over[u][o]], us)

(* The table and the error counters hold the sums of the fetches. *)
Entered ==
  /\ \A d \in DOMAIN domains :
       \A o \in Outcomes : domains[d][o] = Fetches(ended, AddressesOf(d), o)
  /\ \A o \in Outcomes : overflow[o] = Fetches(ended, Untracked(DOMAIN domains), o)

Summed ==
  /\ Entered
  /\ errors["read_url"] + errors["url_metadata"] = Fetches(ended, Url, "error")

(* The inductive invariant. *)
Inv == Origins /\ Copied /\ Answered /\ Reads /\ Called /\ Table /\ Summed

-----------------------------------------------------------------------------
(* Where every step leads: the clock and the origins' past only grow. *)
Onward ==
  /\ site' = site /\ now \in Nat /\ now' \in Nat /\ now <= now'
  /\ \A u \in Url : \A t \in 0..now : shown[u][t] \subseteq shown'[u][t]

(* The clock, the pages and the origins' past move as they may. *)
LEMMA OriginsMove ==
  ASSUME Origins, [Next]_vars
  PROVE  Origins' /\ Onward
<1>1. now \in Nat /\ MaxTime \in Nat /\ now <= MaxTime
  BY CacheAssumption DEF Origins
<1>2. CASE UNCHANGED <<site, now, page, shown>>
  BY <1>1, <1>2 DEF Origins, Onward
<1>3. CASE Tick
  <2>1. now' = now + 1 /\ now' \in 0..MaxTime /\ site' = site /\ page' = page
    BY <1>1, <1>3 DEF Tick
  <2>2. shown' = [u \in Url |-> [shown[u] EXCEPT ![now + 1] = {page[u]}]]
    BY <1>3 DEF Tick
  <2>3. DOMAIN site.docs = 1..Len(site.docs) /\ \A u \in Url : page[u] \in Nat
    BY CacheAssumption DEF Origins
  <2>4. ASSUME NEW u \in Url
        PROVE  /\ shown'[u] \in [0..MaxTime -> SUBSET Nat]
               /\ page[u] \in shown'[u][now + 1]
               /\ \A t \in 0..now : shown'[u][t] = shown[u][t]
    <3>1. shown[u] \in [0..MaxTime -> SUBSET Nat]
      BY DEF Origins
    <3>2. shown'[u] = [shown[u] EXCEPT ![now + 1] = {page[u]}]
      BY <2>2
    <3> QED
      BY <1>1, <2>1, <2>3, <3>1, <3>2
  <2> QED
    BY <1>1, <2>1, <2>2, <2>4 DEF Origins, Onward
<1>4. ASSUME NEW u \in Url, Publish(u) PROVE Origins' /\ Onward
  <2>1. site' = site /\ now' = now
    BY <1>4 DEF Publish
  <2>2. page[u] + 1 \in DOMAIN site.docs /\ page[u] + 1 \in Nat
    BY <1>4, CacheAssumption DEF Origins, Publish
  <2>3. page' = [page EXCEPT ![u] = page[u] + 1]
    BY <1>4 DEF Publish
  <2>4. shown' = [shown EXCEPT ![u] =
                    [shown[u] EXCEPT ![now] = shown[u][now] \cup {page[u] + 1}]]
    BY <1>4 DEF Publish
  <2>5. /\ page' \in [Url -> DOMAIN site.docs]
        /\ shown' \in [Url -> [0..MaxTime -> SUBSET Nat]]
    BY <2>2, <2>3, <2>4 DEF Origins
  <2>6. \A v \in Url : \A t \in 0..now : shown[v][t] \subseteq shown'[v][t]
    BY <1>1, <2>4 DEF Origins
  <2>7. \A v \in Url : page'[v] \in shown'[v][now]
    BY <1>1, <2>3, <2>4 DEF Origins
  <2> QED
    BY <1>1, <2>1, <2>5, <2>6, <2>7 DEF Origins, Onward
<1> QED
  BY <1>2, <1>3, <1>4
  DEF Next, CacheStep, Hit, DropExpired, Respond, Fail, ReturnImage, Store, Return,
      Start, Lookup, ForceRefresh, Refuse, AskUser, CountKnown, MissDomain, InsertDomain,
      Finish, Rest, vars, cacheVars

(* What is true of a copy stays true. *)
LEMMA TrueOnward ==
  ASSUME Onward, NEW u \in Url, NEW x, Truthful(shown, now, u, x)
  PROVE  Truthful(shown', now', u, x)
BY DEF Onward, Truthful

(* A document gives the same copy whenever it is read. *)
LEMMA CopiesSame ==
  ASSUME site' = site
  PROVE  Copies' = Copies /\ Stored' = Stored /\ \A x : Extracted(x)' <=> Extracted(x)
<1>1. ASSUME NEW doc PROVE ReadDocument(doc)' = ReadDocument(doc)
  BY DEF ReadDocument, Extract, ExtractHtml, Sanitise
<1>2. Copies' = Copies
  BY <1>1 DEF Copies
<1>3. ASSUME NEW x PROVE Extracted(x)' <=> Extracted(x)
  BY <1>1 DEF Extracted
<1>4. Stored' = Stored
  BY <1>2, <1>3 DEF Stored
<1> QED
  BY <1>2, <1>3, <1>4

(* A reader that does not move holds the truth later too, if its download   *)
(* is still within its time.                                                *)
LEMMA ReaderOnward ==
  ASSUME Onward, NEW q, ReaderOK(q, shown, now),
         q.pc = "load" => now' <= q.fetchedAt + MaxLoad
  PROVE  ReaderOK(q, shown, now)'
<1>1. CASE q = Idle
  BY <1>1 DEF ReaderOK, Idle
<1>2. CASE q # Idle
  <2>1. q.url \in Url /\ q.pc \in {"judge", "fetch", "load", "done"} /\ site' = site
    BY <1>2 DEF ReaderOK, Onward
  <2>2. ASSUME NEW x, Truthful(shown, now, q.url, x) PROVE Truthful(shown', now', q.url, x)
    BY <2>1, <2>2, TrueOnward
  <2>3. q.pc = "judge" => EntryOK(shown', now', q.url, q.entry) /\ Extracted(q.entry)
    BY <2>2 DEF ReaderOK, EntryOK
  <2>4. q.pc = "load" => /\ Truthful(shown', now', q.url, q) /\ now' <= q.fetchedAt + MaxLoad
                         /\ q.version \in DOMAIN site.docs /\ q.kind \in {"text", "image"}
    BY <2>2 DEF ReaderOK
  <2>5. q.pc = "done" =>
          /\ q.kind \in {"text", "image", "error"} /\ q.cached \in BOOLEAN
          /\ q.kind = "text" =>
               /\ Truthful(shown', now', q.url, q.found) /\ Extracted(q.found)
               /\ q.cached => q.at < q.found.fetchedAt + TTL + MaxLoad
    BY <2>2 DEF ReaderOK
  <2> QED
    BY <2>1, <2>3, <2>4, <2>5, CopiesSame DEF ReaderOK
<1> QED
  BY <1>1, <1>2

(* The cache loses entries, or its order changes. *)
CacheKept ==
  /\ LruOK(cache', Url, Stored) /\ Len(cache') <= CacheMaxEntries
  /\ LruKeys(cache') \subseteq LruKeys(cache)
  /\ \A k \in LruKeys(cache') : LruValue(cache', k) = LruValue(cache, k)

(* A cache that only loses entries still holds the truth. *)
LEMMA KeptTrue ==
  ASSUME Onward, Copied, CacheKept
  PROVE  CacheTrue'
<1>1. Stored' = Stored
  BY CopiesSame DEF Onward
<1>2. ASSUME NEW k \in LruKeys(cache')
      PROVE  EntryOK(shown', now', k, LruValue(cache', k))
  <2>1. k \in LruKeys(cache) /\ LruValue(cache', k) = LruValue(cache, k)
    BY DEF CacheKept
  <2>2. k \in Url /\ EntryOK(shown, now, k, LruValue(cache, k))
    BY <2>1, LruFound DEF Copied, CacheTrue
  <2> QED
    BY <2>1, <2>2, TrueOnward DEF EntryOK
<1> QED
  BY <1>1, <1>2 DEF CacheKept, CacheTrue

(* What the cache's calls leave of it. *)
LEMMA CacheKeeps ==
  ASSUME Copied
  PROVE  /\ UNCHANGED cache => CacheKept
         /\ \A u : cache' = LruGet(cache, u) => CacheKept
         /\ \A u : cache' = LruRemove(cache, u) => CacheKept
<1>1. LruOK(cache, Url, Stored) /\ Len(cache) <= CacheMaxEntries /\ CacheMaxEntries \in Nat
  BY CacheAssumption DEF Copied, CacheTrue
<1>2. UNCHANGED cache => CacheKept
  BY <1>1 DEF CacheKept
<1>3. ASSUME NEW u, cache' = LruGet(cache, u) PROVE CacheKept
  <2>1. /\ LruOK(cache', Url, Stored) /\ LruKeys(cache') = LruKeys(cache)
        /\ Len(cache') = Len(cache) /\ SameValues(cache, cache')
    BY <1>1, <1>3, LruGetOK
  <2> QED
    BY <1>1, <2>1 DEF CacheKept, SameValues
<1>4. ASSUME NEW u, cache' = LruRemove(cache, u) PROVE CacheKept
  <2>1. /\ LruOK(cache', Url, Stored) /\ LruKeys(cache') = LruKeys(cache) \ {u}
        /\ SameValues(cache, cache')
        /\ Len(cache') = IF u \in LruKeys(cache) THEN Len(cache) - 1 ELSE Len(cache)
    BY <1>1, <1>4, LruRemoveOK
  <2>2. Len(cache) \in Nat
    BY <1>1, LenProperties DEF LruOK
  <2>3. Len(cache') <= CacheMaxEntries
    BY <1>1, <2>1, <2>2
  <2> QED
    BY <1>1, <2>1, <2>3 DEF CacheKept, SameValues
<1> QED
  BY <1>2, <1>3, <1>4

(* A step of one reader, to a place that is in order. *)
LEMMA ReaderMoves ==
  ASSUME Onward, Copied, CacheTrue', now' = now, shown' = shown, NEW r \in Reader, NEW q,
         rd' = [rd EXCEPT ![r] = q], ReaderOK(q, shown, now)
  PROVE  Copied'
<1>2. ASSUME NEW s \in Reader PROVE ReaderOK(rd'[s], shown, now)
  <2>1. rd'[s] = IF s = r THEN q ELSE rd[s]
    BY DEF Copied
  <2> QED
    BY <2>1 DEF Copied
<1>3. DOMAIN rd' = Reader
  BY DEF Copied
<1>4. \A s \in Reader : ReaderOK(rd[s], shown, now)'
  BY <1>2, CopiesSame DEF Onward, ReaderOK
<1> QED
  BY <1>3, <1>4 DEF Copied

(* Steps that leave the cache and its readers alone. *)
LEMMA CopiedWaits ==
  ASSUME Onward, Copied, UNCHANGED <<cache, rd>>,
         \A r \in Reader : rd[r].pc = "load" => now' <= rd[r].fetchedAt + MaxLoad
  PROVE  Copied'
<1>1. CacheKept
  BY CacheKeeps
<1>2. CacheTrue'
  BY <1>1, KeptTrue
<1>3. ASSUME NEW r \in Reader PROVE ReaderOK(rd[r], shown, now)'
  <2>1. PICK q : q = rd[r]
    OBVIOUS
  <2>2. ReaderOK(q, shown, now) /\ (q.pc = "load" => now' <= q.fetchedAt + MaxLoad)
    BY <2>1 DEF Copied
  <2>3. ReaderOK(q, shown, now)' /\ rd'[r] = q
    BY <2>1, <2>2, ReaderOnward
  <2> QED
    BY <2>3 DEF ReaderOK
<1>4. DOMAIN rd' = Reader
  BY DEF Copied
<1> QED
  BY <1>2, <1>3, <1>4 DEF Copied

(* A tool call begins: its reader takes the entry it found, or fetches. *)
LEMMA CopiedStart ==
  ASSUME Onward, Copied, NEW r \in Reader, NEW u \in Url, Lookup(r, u) \/ ForceRefresh(r, u)
  PROVE  Copied'
<1>1. CacheKept /\ now' = now /\ shown' = shown
  BY CacheKeeps DEF Lookup, ForceRefresh
<1>2. CacheTrue'
  BY <1>1, KeptTrue
<1>3. CASE rd' = [rd EXCEPT ![r] = [pc |-> "fetch", url |-> u]]
  <2>1. ReaderOK([pc |-> "fetch", url |-> u], shown, now)
    BY DEF ReaderOK
  <2> QED
    BY <1>1, <1>2, <1>3, <2>1, ReaderMoves
<1>4. CASE /\ LruHas(cache, u)
           /\ rd' = [rd EXCEPT ![r] =
                       [pc |-> "judge", url |-> u, entry |-> LruValue(cache, u)]]
  <2> DEFINE e == LruValue(cache, u)
  <2>1. u \in LruKeys(cache)
    BY <1>4, LruHasKey
  <2>2. e \in Stored /\ EntryOK(shown, now, u, e)
    BY <2>1, LruFound DEF Copied, CacheTrue
  <2>3. Extracted(e)
    BY <2>2 DEF Stored
  <2> HIDE DEF e
  <2>4. ReaderOK([pc |-> "judge", url |-> u, entry |-> e], shown, now)
    BY <2>2, <2>3 DEF ReaderOK
  <2>5. rd' = [rd EXCEPT ![r] = [pc |-> "judge", url |-> u, entry |-> e]]
    BY <1>4 DEF e
  <2> QED
    BY <1>1, <1>2, <2>4, <2>5, ReaderMoves
<1> QED
  BY <1>3, <1>4 DEF Lookup, ForceRefresh

(* readURL returns: the address is still the call's. *)
LEMMA CopiedReturn ==
  ASSUME Onward, Copied, CacheTrue', now' = now, shown' = shown, NEW r \in Reader,
         NEW kind \in {"text", "image", "error"}, NEW cached \in BOOLEAN, NEW found,
         rd[r].url \in Url, Return(r, kind, cached, found),
         kind = "text" => /\ Truthful(shown, now, rd[r].url, found) /\ Extracted(found)
                          /\ cached => now < found.fetchedAt + TTL + MaxLoad
  PROVE  Copied'
<1> DEFINE q == [pc |-> "done", url |-> rd[r].url, kind |-> kind,
                 cached |-> cached, found |-> found, at |-> now]
<1>1. ReaderOK(q, shown, now)
  BY DEF ReaderOK
<1>2. rd' = [rd EXCEPT ![r] = q]
  BY DEF Return
<1> HIDE DEF q
<1> QED
  BY <1>1, <1>2, ReaderMoves

(* The entry is the answer while it has not expired, or it goes. *)
LEMMA CopiedJudge ==
  ASSUME Onward, Copied, NEW r \in Reader, Hit(r) \/ DropExpired(r)
  PROVE  Copied'
<1>1. CacheKept /\ now' = now /\ shown' = shown
  BY CacheKeeps DEF Hit, DropExpired
<1>2. CacheTrue'
  BY <1>1, KeptTrue
<1>3. rd[r].pc = "judge" /\ ReaderOK(rd[r], shown, now)
  BY DEF Hit, DropExpired, Copied
<1>4. /\ rd[r].url \in Url /\ EntryOK(shown, now, rd[r].url, rd[r].entry)
      /\ Extracted(rd[r].entry)
  BY <1>3 DEF ReaderOK, Idle
<1>5. CASE Hit(r)
  <2> DEFINE e == rd[r].entry
             x == [copy |-> e.copy, version |-> e.version, fetchedAt |-> e.fetchedAt]
  <2>1. Truthful(shown, now, rd[r].url, x) /\ Extracted(x)
    BY <1>4 DEF EntryOK, Truthful, Extracted
  <2>2. now < e.expiresAt /\ Return(r, "text", TRUE, x)
    BY <1>5 DEF Hit, Fresh, Recalled
  <2>3. e.expiresAt \in Nat /\ e.expiresAt <= e.fetchedAt + MaxLoad + TTL
    BY <1>4 DEF EntryOK
  <2>4. e.fetchedAt \in Nat /\ x.fetchedAt = e.fetchedAt
    BY <1>4 DEF EntryOK, Truthful
  <2>5. now < x.fetchedAt + TTL + MaxLoad
    BY <2>2, <2>3, <2>4, CacheAssumption DEF Onward
  <2> HIDE DEF e, x
  <2> QED
    BY <1>1, <1>2, <1>4, <2>1, <2>2, <2>5, CopiedReturn
<1>6. CASE DropExpired(r)
  <2>1. ReaderOK([pc |-> "fetch", url |-> rd[r].url], shown, now)
    BY <1>4 DEF ReaderOK
  <2>2. rd' = [rd EXCEPT ![r] = [pc |-> "fetch", url |-> rd[r].url]]
    BY <1>6 DEF DropExpired
  <2> QED
    BY <1>1, <1>2, <2>1, <2>2, ReaderMoves
<1> QED
  BY <1>5, <1>6

(* The origin answers with what it serves. *)
LEMMA CopiedRespond ==
  ASSUME Onward, Origins, Copied, NEW r \in Reader, Respond(r)
  PROVE  Copied'
<1>1. CacheKept /\ now' = now /\ shown' = shown
  BY CacheKeeps DEF Respond
<1>2. CacheTrue'
  BY <1>1, KeptTrue
<1>3. rd[r].pc = "fetch" /\ ReaderOK(rd[r], shown, now)
  BY DEF Respond, Copied
<1>4. rd[r].url \in Url
  BY <1>3 DEF ReaderOK, Idle
<1>5. PICK kind \in {"text", "image"} :
        rd' = [rd EXCEPT ![r] =
                 [pc |-> "load", url |-> rd[r].url, kind |-> kind,
                  version |-> page[rd[r].url], fetchedAt |-> now]]
  BY DEF Respond
<1> DEFINE q == [pc |-> "load", url |-> rd[r].url, kind |-> kind,
                 version |-> page[rd[r].url], fetchedAt |-> now]
<1>6. page[rd[r].url] \in shown[rd[r].url][now] /\ page[rd[r].url] \in DOMAIN site.docs
  BY <1>4 DEF Origins
<1>7. now \in 0..now /\ now <= now + MaxLoad
  BY CacheAssumption DEF Onward
<1>8. ReaderOK(q, shown, now)
  BY <1>4, <1>6, <1>7 DEF ReaderOK, Truthful
<1>9. rd' = [rd EXCEPT ![r] = q]
  BY <1>5
<1> HIDE DEF q
<1> QED
  BY <1>1, <1>2, <1>8, <1>9, ReaderMoves

(* An error or an image: nothing is cached. *)
LEMMA CopiedNothing ==
  ASSUME Onward, Copied, NEW r \in Reader, Fail(r) \/ ReturnImage(r)
  PROVE  Copied'
<1>1. CacheKept /\ now' = now /\ shown' = shown
  BY CacheKeeps DEF Fail, ReturnImage
<1>2. CacheTrue'
  BY <1>1, KeptTrue
<1>3. rd[r].pc \in {"fetch", "load"} /\ ReaderOK(rd[r], shown, now)
  BY DEF Fail, ReturnImage, Copied
<1>4. rd[r].url \in Url
  BY <1>3 DEF ReaderOK, Idle
<1>5. Return(r, "error", FALSE, Nothing) \/ Return(r, "image", FALSE, Nothing)
  BY DEF Fail, ReturnImage
<1> QED
  BY <1>1, <1>2, <1>4, <1>5, CopiedReturn

(* The copy is cached and returned: its life runs from now, and the         *)
(* download began no longer ago than MaxLoad.                               *)
LEMMA CopiedStore ==
  ASSUME Onward, Origins, Copied, NEW r \in Reader, Store(r)
  PROVE  Copied'
<1> DEFINE u == rd[r].url
           e == [copy |-> ReadDocument(site.docs[rd[r].version]),
                 version |-> rd[r].version, fetchedAt |-> rd[r].fetchedAt,
                 expiresAt |-> now + TTL]
           x == [copy |-> e.copy, version |-> e.version, fetchedAt |-> e.fetchedAt]
<1>1. now' = now /\ shown' = shown /\ site' = site /\ now \in Nat
  BY DEF Store, Onward
<1>2. rd[r].pc = "load" /\ ReaderOK(rd[r], shown, now)
  BY DEF Store, Copied
<1>3. u \in Url /\ Truthful(shown, now, u, rd[r])
  BY <1>2 DEF ReaderOK, Idle
<1>4. now <= rd[r].fetchedAt + MaxLoad /\ rd[r].version \in DOMAIN site.docs
  BY <1>2 DEF ReaderOK
<1>5. cache' = LruAdd(cache, u, e, CacheMaxEntries) /\ Return(r, "text", FALSE, x)
  BY DEF Store, FetchedAt, ExpiresAt
<1>6. rd[r].fetchedAt \in Nat /\ rd[r].version \in Nat
  BY <1>3, <1>4, CacheAssumption DEF Truthful, Origins
<1>7. now + TTL \in Nat /\ now + TTL <= rd[r].fetchedAt + MaxLoad + TTL
  BY <1>1, <1>4, <1>6, CacheAssumption
<1>8. e \in Stored /\ Extracted(x)
  BY <1>4, <1>6, <1>7 DEF Stored, Copies, Extracted
<1>9. EntryOK(shown, now, u, e) /\ Truthful(shown, now, u, x)
  BY <1>3, <1>7 DEF EntryOK, Truthful
<1> HIDE DEF u, e, x
<1>10. LruOK(cache, Url, Stored) /\ Len(cache) <= CacheMaxEntries
  BY DEF Copied, CacheTrue
<1>11. LruOK(cache', Url, Stored) /\ Added(cache, cache', u, e, CacheMaxEntries)
  BY <1>3, <1>5, <1>8, <1>10, LruAddOK, CacheAssumption
<1>12. ASSUME NEW k \in LruKeys(cache') PROVE EntryOK(shown, now, k, LruValue(cache', k))
  <2>1. CASE k = u
    BY <1>9, <1>11, <2>1 DEF Added
  <2>2. CASE k # u
    <3>1. k \in LruKeys(cache) /\ LruValue(cache', k) = LruValue(cache, k)
      BY <1>11, <2>2 DEF Added
    <3> QED
      BY <3>1 DEF Copied, CacheTrue
  <2> QED
    BY <2>1, <2>2
<1>13. CacheTrue'
  <2>1. Stored' = Stored
    BY <1>1, CopiesSame
  <2>2. \A k \in LruKeys(cache') : EntryOK(shown', now', k, LruValue(cache', k))
    BY <1>1, <1>12
  <2> QED
    BY <1>11, <2>1, <2>2 DEF CacheTrue, Added
<1>14. rd[r].url \in Url /\ Truthful(shown, now, rd[r].url, x)
  BY <1>3, <1>9 DEF u
<1> QED
  BY <1>1, <1>5, <1>8, <1>13, <1>14, CopiedReturn

(* A call ends: its reader is idle again, and answers with what it held. *)
LEMMA CopiedFinish ==
  ASSUME Onward, Copied, NEW r \in Reader, rd[r].pc = "done", Finish(r)
  PROVE  Copied' /\ Answered'
<1>1. /\ UNCHANGED <<cache, now, shown>>
      /\ rd' = [rd EXCEPT ![r] = Idle]
  BY DEF Finish
<1>2. CacheTrue'
  BY <1>1, CacheKeeps, KeptTrue
<1>3. ReaderOK(Idle, shown, now)
  BY DEF ReaderOK, Idle
<1>4. Copied'
  BY <1>1, <1>2, <1>3, ReaderMoves
<1>5. ReaderOK(rd[r], shown, now)
  BY DEF Copied
<1>6. CASE /\ rd[r].kind = "text"
           /\ answer' = [tool |-> ToolOf[r], url |-> rd[r].url, at |-> rd[r].at,
                         cached |-> rd[r].cached, found |-> rd[r].found]
  <2>1. /\ Truthful(shown, now, rd[r].url, rd[r].found) /\ Extracted(rd[r].found)
        /\ rd[r].cached => rd[r].at < rd[r].found.fetchedAt + TTL + MaxLoad
    BY <1>5, <1>6 DEF ReaderOK
  <2>2. /\ answer'.url = rd[r].url /\ answer'.found = rd[r].found
        /\ answer'.at = rd[r].at /\ answer'.cached = rd[r].cached
    BY <1>6
  <2>3. Truthful(shown', now', answer'.url, answer'.found)
    BY <1>1, <2>1, <2>2
  <2>4. Extracted(answer.found)'
    <3>1. PICK x : x = rd[r].found
      OBVIOUS
    <3>2. Extracted(x)' /\ answer'.found = x
      BY <2>1, <2>2, <3>1, CopiesSame DEF Onward
    <3> QED
      BY <3>2 DEF Extracted
  <2> QED
    BY <1>4, <2>1, <2>2, <2>3, <2>4 DEF Answered
<1>7. CASE answer' = NoAnswer
  BY <1>4, <1>7 DEF Answered
<1> QED
  BY <1>4, <1>6, <1>7 DEF Finish

(* Every step leaves only the truth in the cache, its readers and the       *)
(* answer.                                                                  *)
LEMMA CopiedMoves ==
  ASSUME Onward, Origins, Copied, Answered, missed \subseteq At(rd, {"done"}, Reader), [Next]_vars
  PROVE  Copied' /\ Answered'
<1>1. ASSUME UNCHANGED <<now, cache, rd>> PROVE Copied'
  <2>1. ASSUME NEW r \in Reader, rd[r].pc = "load" PROVE now' <= rd[r].fetchedAt + MaxLoad
    BY <1>1, <2>1 DEF Copied, ReaderOK
  <2> QED
    BY <1>1, <2>1, CopiedWaits
<1>2. CASE UNCHANGED vars
  <2>1. UNCHANGED <<now, cache, rd, shown, site, answer>>
    BY <1>2 DEF vars, cacheVars
  <2>2. Extracted(answer.found) => Extracted(answer.found)'
    <3>1. PICK x : x = answer.found
      OBVIOUS
    <3>2. Extracted(x)' <=> Extracted(x)
      BY <2>1, CopiesSame
    <3> QED
      BY <2>1, <3>1, <3>2 DEF Extracted
  <2>3. Answered'
    BY <2>1, <2>2 DEF Answered
  <2> QED
    BY <1>1, <2>1, <2>3
<1>3. CASE CacheStep /\ answer' = NoAnswer
  <2>1. Answered'
    BY <1>3 DEF Answered
  <2>2. CASE Tick
    <3>1. ASSUME NEW r \in Reader, rd[r].pc = "load" PROVE now' <= rd[r].fetchedAt + MaxLoad
      <4>1. now < rd[r].fetchedAt + MaxLoad /\ now' = now + 1 /\ now \in Nat
        BY <2>2, <3>1 DEF Tick, Onward
      <4>2. rd[r].fetchedAt \in Nat
        BY <3>1 DEF Copied, ReaderOK, Truthful
      <4> QED
        BY <4>1, <4>2, CacheAssumption
    <3> QED
      BY <2>1, <2>2, <3>1, CopiedWaits DEF Tick
  <2>3. CASE \E u \in Url : Publish(u)
    BY <1>1, <2>1, <2>3 DEF Publish
  <2>4. CASE \E r \in Reader : \/ Hit(r) \/ DropExpired(r) \/ Respond(r)
                               \/ Fail(r) \/ ReturnImage(r) \/ Store(r)
    BY <2>1, <2>4, CopiedJudge, CopiedRespond, CopiedNothing, CopiedStore
  <2> QED
    BY <1>3, <2>2, <2>3, <2>4 DEF CacheStep
<1>4. ASSUME NEW r \in Reader, NEW u \in Url, Start(r, u) PROVE Copied' /\ Answered'
  BY <1>4, CopiedStart DEF Start, Counted, Answered
<1>5. ASSUME NEW r \in Reader, Refuse(r) \/ AskUser(r) \/ MissDomain(r)
      PROVE  Copied' /\ Answered'
  BY <1>1, <1>5 DEF Refuse, AskUser, MissDomain, Counted, cacheVars, Answered
<1>6. ASSUME NEW r \in Reader, CountKnown(r) PROVE Copied' /\ Answered'
  BY <1>6, CopiedFinish DEF CountKnown
<1>7. ASSUME NEW r \in Reader, InsertDomain(r)
      PROVE  Copied' /\ Answered'
  BY <1>7, CopiedFinish DEF InsertDomain, At
<1> QED
  BY <1>2, <1>3, <1>4, <1>5, <1>6, <1>7 DEF Next, Rest

-----------------------------------------------------------------------------
(* The number of readers in P when one of them moves from here to there. *)
Recounted(old, new, P, here, there) ==
  /\ old \in Nat /\ new \in Nat
  /\ here \in P /\ there \notin P => new + 1 = old
  /\ here \notin P /\ there \in P => new = old + 1
  /\ here \in P /\ there \in P => new = old
  /\ here \notin P /\ there \notin P => new = old

(* There are finitely many readers. *)
LEMMA CountNat == \A P : \A R \in SUBSET Reader : Count(rd, P, R) \in Nat
<1>1. ASSUME NEW P, NEW R \in SUBSET Reader PROVE IsFiniteSet(At(rd, P, R))
  BY CacheAssumption, FS_Subset DEF At
<1> QED
  BY <1>1, FS_CardinalityType DEF Count

(* One reader moves: every count of readers that includes it follows. *)
LEMMA CountMoves ==
  ASSUME DOMAIN rd = Reader, NEW r \in Reader, NEW q, rd' = [rd EXCEPT ![r] = q],
         NEW P, NEW R \in SUBSET Reader
  PROVE  /\ r \in R => Recounted(Count(rd, P, R), Count(rd', P, R), P, rd[r].pc, q.pc)
         /\ r \notin R => Count(rd', P, R) = Count(rd, P, R)
<1> DEFINE X == At(rd, P, R \ {r})
<1>1. IsFiniteSet(X)
  BY CacheAssumption, FS_Subset DEF At
<1>2. r \notin X /\ Cardinality(X) \in Nat /\ Cardinality(X \cup {r}) = Cardinality(X) + 1
  BY <1>1, FS_CardinalityType, FS_AddElement DEF At
<1>3. At(rd, P, R) = IF r \in R /\ rd[r].pc \in P THEN X \cup {r} ELSE X
  BY DEF At
<1>4. At(rd', P, R) = IF r \in R /\ q.pc \in P THEN X \cup {r} ELSE X
  BY DEF At
<1> HIDE DEF X
<1>5. CASE r \in R
  BY <1>2, <1>3, <1>4, <1>5 DEF Count, Recounted
<1>6. CASE r \notin R
  BY <1>2, <1>3, <1>4, <1>6 DEF Count
<1> QED
  BY <1>5, <1>6

(* A call is counted when it begins. *)
LEMMA CountedStarts ==
  ASSUME total \in [Tools -> Nat], NEW r \in Reader, Counted(r)
  PROVE  /\ total' \in [Tools -> Nat] /\ total'[ToolOf[r]] = total[ToolOf[r]] + 1
         /\ \A t \in Tools : t # ToolOf[r] => total'[t] = total[t]
         /\ Started \in Nat /\ Started' = Started + 1 /\ Started < Calls
<1>1. ToolOf[r] \in {"read_url", "url_metadata"} /\ Tools = {"read_url", "url_metadata"}
  BY ToolsAssumption DEF Tools
<1>2. total' = [total EXCEPT ![ToolOf[r]] = total[ToolOf[r]] + 1] /\ Started < Calls
  BY DEF Counted
<1>3. CASE ToolOf[r] = "read_url"
  BY <1>1, <1>2, <1>3 DEF Started
<1>4. CASE ToolOf[r] = "url_metadata"
  BY <1>1, <1>2, <1>4 DEF Started
<1> QED
  BY <1>1, <1>3, <1>4

(* One reader moves from here to there, within readURL. *)
Places(here, there) ==
  /\ Recounted(Judging, Judging', {"judge"}, here, there)
  /\ Recounted(Loading, Loading', {"fetch", "load"}, here, there)

(* Where one reader's move leaves readURL's counts of readers. *)
LEMMA PlacesMove ==
  ASSUME DOMAIN rd = Reader, NEW r \in Reader, NEW q, rd' = [rd EXCEPT ![r] = q],
         NEW here, NEW there, rd[r].pc = here, q.pc = there
  PROVE  Places(here, there)
<1>1. Reader \in SUBSET Reader
  OBVIOUS
<1>2. Recounted(Judging, Judging', {"judge"}, here, there)
  BY <1>1, CountMoves DEF Judging
<1>3. Recounted(Loading, Loading', {"fetch", "load"}, here, there)
  BY <1>1, CountMoves DEF Loading
<1> QED
  BY <1>2, <1>3 DEF Places

(* readURL returns: its reader is done. *)
LEMMA ReturnMoves ==
  ASSUME DOMAIN rd = Reader, NEW r \in Reader, NEW kind, NEW cached, NEW found,
         Return(r, kind, cached, found)
  PROVE  Places(rd[r].pc, "done")
<1> DEFINE q == [pc |-> "done", url |-> rd[r].url, kind |-> kind,
                 cached |-> cached, found |-> found, at |-> now]
<1>1. rd' = [rd EXCEPT ![r] = q] /\ q.pc = "done"
  BY DEF Return
<1> HIDE DEF q
<1> QED
  BY <1>1, PlacesMove

(* readURL's counters once a call has started. *)
LEMMA ReadsStart ==
  ASSUME DOMAIN rd = Reader, Reads, total \in [Tools -> Nat],
         NEW r \in Reader, NEW u \in Url, Start(r, u)
  PROVE  Reads'
<1>1. Started \in Nat /\ Started' = Started + 1 /\ rd[r].pc = "idle"
  <2>1. Counted(r)
    BY DEF Start
  <2>2. rd[r].pc = "idle"
    BY <2>1 DEF Counted, Idle
  <2> QED
    BY <2>1, <2>2, CountedStarts
<1>2. UNCHANGED <<hits, timed, declined>>
  BY DEF Start, Lookup, ForceRefresh
<1>3. CASE rd' = [rd EXCEPT ![r] = [pc |-> "fetch", url |-> u]] /\ misses' = misses + 1
  <2>1. /\ Judging \in Nat /\ Loading \in Nat
        /\ Judging' = Judging /\ Loading' = Loading + 1
    <3> DEFINE q == [pc |-> "fetch", url |-> u]
    <3>0. rd' = [rd EXCEPT ![r] = q] /\ q.pc = "fetch"
      BY <1>3
    <3> HIDE DEF q
    <3>1. Places("idle", "fetch")
      BY <1>1, <3>0, PlacesMove
    <3> QED
      BY <3>1 DEF Places, Recounted
  <2> QED
    BY <1>1, <1>2, <1>3, <2>1 DEF Reads
<1>4. CASE /\ rd' = [rd EXCEPT ![r] =
                       [pc |-> "judge", url |-> u, entry |-> LruValue(cache, u)]]
           /\ misses' = misses
  <2>1. /\ Judging \in Nat /\ Loading \in Nat
        /\ Judging' = Judging + 1 /\ Loading' = Loading
    <3> DEFINE q == [pc |-> "judge", url |-> u, entry |-> LruValue(cache, u)]
    <3>0. rd' = [rd EXCEPT ![r] = q] /\ q.pc = "judge"
      BY <1>4
    <3> HIDE DEF q
    <3>1. Places("idle", "judge")
      BY <1>1, <3>0, PlacesMove
    <3> QED
      BY <3>1 DEF Places, Recounted
  <2> QED
    BY <1>1, <1>2, <1>4, <2>1 DEF Reads
<1> QED
  BY <1>3, <1>4 DEF Start, Lookup, ForceRefresh

(* And at every step of readURL. *)
LEMMA ReadsCache ==
  ASSUME DOMAIN rd = Reader, Reads, Started \in Nat, CacheStep, UNCHANGED toolVars
  PROVE  Reads'
<1>1. Started' = Started /\ declined' = declined
  BY DEF toolVars, Started
<1>2. CASE UNCHANGED <<rd, hits, misses, timed>>
  BY <1>1, <1>2 DEF Reads, Judging, Loading
<1>3. ASSUME NEW r \in Reader, Hit(r) PROVE Reads'
  <2>1. /\ Judging \in Nat /\ Loading \in Nat /\ Judging' \in Nat
        /\ Judging' + 1 = Judging /\ Loading' = Loading
    <3>1. Places("judge", "done")
      BY <1>3, ReturnMoves DEF Hit
    <3> QED
      BY <3>1 DEF Places, Recounted
  <2>2. /\ hits' = hits + 1 /\ misses' = misses
        /\ timed' = [timed EXCEPT !.hit = timed.hit + 1]
    BY <1>3 DEF Hit
  <2>3. timed' \in [{"hit", "miss"} -> Nat] /\ timed'.hit = timed.hit + 1 /\ timed'.miss = timed.miss
    BY <2>2 DEF Reads
  <2> QED
    BY <1>1, <2>1, <2>2, <2>3 DEF Reads
<1>4. ASSUME NEW r \in Reader, DropExpired(r) PROVE Reads'
  <2>1. /\ Judging \in Nat /\ Loading \in Nat /\ Judging' \in Nat
        /\ Judging' + 1 = Judging /\ Loading' = Loading + 1
    <3>1. Places("judge", "fetch")
      <4> DEFINE q == [pc |-> "fetch", url |-> rd[r].url]
      <4>1. rd' = [rd EXCEPT ![r] = q] /\ q.pc = "fetch" /\ rd[r].pc = "judge"
        BY <1>4 DEF DropExpired
      <4> HIDE DEF q
      <4> QED
        BY <4>1, PlacesMove
    <3> QED
      BY <3>1 DEF Places, Recounted
  <2>2. hits' = hits /\ misses' = misses + 1 /\ timed' = timed
    BY <1>4 DEF DropExpired
  <2>3. timed.miss \in Nat /\ misses \in Nat /\ misses = timed.miss + Loading
    BY DEF Reads
  <2>4. misses' = timed'.miss + Loading'
    BY <2>1, <2>2, <2>3
  <2>5. Started = declined + hits + misses + Judging /\ hits \in Nat /\ declined \in Nat
    BY DEF Reads
  <2>6. Started' = declined' + hits' + misses' + Judging'
    <3>1. Judging' \in Nat /\ Judging = Judging' + 1
      BY <2>1
    <3>2. hits' = hits /\ misses' = misses + 1 /\ misses \in Nat
      BY <2>2, <2>3
    <3> QED
      BY <1>1, <2>5, <3>1, <3>2
  <2> QED
    BY <1>1, <2>2, <2>3, <2>4, <2>6 DEF Reads
<1>5. ASSUME NEW r \in Reader, Respond(r) PROVE Reads'
  <2>1. PICK kind \in {"text", "image"} :
          rd' = [rd EXCEPT ![r] =
                   [pc |-> "load", url |-> rd[r].url, kind |-> kind,
                    version |-> page[rd[r].url], fetchedAt |-> now]]
    BY <1>5 DEF Respond
  <2> DEFINE q == [pc |-> "load", url |-> rd[r].url, kind |-> kind,
                   version |-> page[rd[r].url], fetchedAt |-> now]
  <2>2. /\ Judging \in Nat /\ Loading \in Nat /\ Judging' = Judging /\ Loading' = Loading
    <3>1. rd' = [rd EXCEPT ![r] = q] /\ q.pc = "load" /\ rd[r].pc = "fetch"
      BY <1>5, <2>1 DEF Respond
    <3> HIDE DEF q
    <3>2. Places("fetch", "load")
      BY <3>1, PlacesMove
    <3> QED
      BY <3>2 DEF Places, Recounted
  <2>3. UNCHANGED <<hits, misses, timed>>
    BY <1>5 DEF Respond
  <2> QED
    BY <1>1, <2>2, <2>3 DEF Reads
<1>6. ASSUME NEW r \in Reader, Fail(r) \/ ReturnImage(r) \/ Store(r) PROVE Reads'
  <2>1. rd[r].pc \in {"fetch", "load"} /\ \E kind, found : Return(r, kind, FALSE, found)
    BY <1>6 DEF Fail, ReturnImage, Store
  <2>2. /\ Judging \in Nat /\ Loading \in Nat /\ Loading' \in Nat
        /\ Judging' = Judging /\ Loading' + 1 = Loading
    <3>1. Places("fetch", "done") \/ Places("load", "done")
      BY <2>1, ReturnMoves
    <3> QED
      BY <3>1 DEF Places, Recounted
  <2>3. /\ hits' = hits /\ misses' = misses
        /\ timed' = [timed EXCEPT !.miss = timed.miss + 1]
    BY <1>6 DEF Fail, ReturnImage, TimeImage, Store
  <2>4. timed' \in [{"hit", "miss"} -> Nat] /\ timed'.miss = timed.miss + 1 /\ timed'.hit = timed.hit
    BY <2>3 DEF Reads
  <2> QED
    BY <1>1, <2>2, <2>3, <2>4 DEF Reads
<1> QED
  BY <1>2, <1>3, <1>4, <1>5, <1>6 DEF CacheStep, Tick, Publish

(* readURL's counters at every step. *)
LEMMA ReadsMove ==
  ASSUME DOMAIN rd = Reader, Reads, Called, [Next]_vars
  PROVE  Reads'
<1>1. total \in [Tools -> Nat] /\ Started \in Nat
  <2>1. total \in [Tools -> Nat] /\ Tools = {"read_url", "url_metadata"}
    BY DEF Called, Tools
  <2> QED
    BY <2>1 DEF Started
<1>2. CASE UNCHANGED <<rd, hits, misses, timed, declined, total>>
  BY <1>2 DEF Reads, Judging, Loading, Started
<1>3. ASSUME NEW r \in Reader, Refuse(r) \/ AskUser(r) PROVE Reads'
  <2>1. Started' = Started + 1
    BY <1>1, <1>3, CountedStarts DEF Refuse, AskUser
  <2>2. declined' = declined + 1 /\ UNCHANGED <<rd, hits, misses, timed>>
    BY <1>3 DEF Refuse, AskUser, cacheVars
  <2>3. Judging' = Judging /\ Loading' = Loading
    BY <2>2 DEF Judging, Loading
  <2>4. Judging \in Nat
    BY CountNat DEF Judging
  <2>5. Started' = declined' + hits' + misses' + Judging'
    <3>1. /\ Started = declined + hits + misses + Judging
          /\ declined \in Nat /\ hits \in Nat /\ misses \in Nat
      BY DEF Reads
    <3>2. hits' = hits /\ misses' = misses
      BY <2>2
    <3> QED
      BY <2>1, <2>2, <2>3, <2>4, <3>1, <3>2
  <2> QED
    BY <1>1, <2>2, <2>3, <2>5 DEF Reads
<1>4. ASSUME NEW r \in Reader, rd[r].pc = "done", Finish(r) PROVE Reads'
  <2>1. rd' = [rd EXCEPT ![r] = Idle] /\ Idle.pc = "idle"
    BY <1>4 DEF Finish, Idle
  <2>2. Places("done", "idle")
    BY <1>4, <2>1, PlacesMove
  <2>3. Judging' = Judging /\ Loading' = Loading
    BY <2>2 DEF Places, Recounted
  <2>4. UNCHANGED <<hits, misses, timed, declined, total>>
    BY <1>4 DEF Finish
  <2> QED
    BY <2>3, <2>4 DEF Reads, Started
<1>5. ASSUME NEW r \in Reader, CountKnown(r) \/ InsertDomain(r)
      PROVE  rd[r].pc = "done" /\ Finish(r)
  BY <1>5 DEF CountKnown, InsertDomain, Called, At
<1>6. ASSUME NEW r \in Reader, MissDomain(r) PROVE Reads'
  BY <1>2, <1>6 DEF MissDomain, cacheVars
<1> QED
  BY <1>1, <1>2, <1>3, <1>4, <1>5, <1>6, ReadsStart, ReadsCache
  DEF Next, Rest, vars, cacheVars, toolVars

(* Every step of readURL leaves a call in flight, and moves none that is    *)
(* done.                                                                    *)
LEMMA CallsStay ==
  ASSUME CacheStep
  PROVE  \/ rd' = rd
         \/ \E r \in Reader : \E q : /\ rd' = [rd EXCEPT ![r] = q]
                                     /\ rd[r].pc \in {"judge", "fetch", "load"}
                                     /\ q.pc \in Busy
<1>1. ASSUME NEW r \in Reader, NEW kind, NEW cached, NEW found,
             rd[r].pc \in {"judge", "fetch", "load"}, Return(r, kind, cached, found)
      PROVE  \E q : rd' = [rd EXCEPT ![r] = q] /\ q.pc \in Busy
  <2> DEFINE q == [pc |-> "done", url |-> rd[r].url, kind |-> kind,
                   cached |-> cached, found |-> found, at |-> now]
  <2>1. rd' = [rd EXCEPT ![r] = q] /\ q.pc \in Busy
    BY <1>1 DEF Return, Busy
  <2> HIDE DEF q
  <2> QED
    BY <2>1
<1>2. ASSUME NEW r \in Reader, Hit(r) \/ Fail(r) \/ ReturnImage(r) \/ Store(r)
      PROVE  \E q : /\ rd' = [rd EXCEPT ![r] = q] /\ q.pc \in Busy
                    /\ rd[r].pc \in {"judge", "fetch", "load"}
  <2>1. /\ rd[r].pc \in {"judge", "fetch", "load"}
        /\ \E kind, cached, found : Return(r, kind, cached, found)
    BY <1>2 DEF Hit, Fail, ReturnImage, Store
  <2> QED
    BY <1>1, <2>1
<1>3. ASSUME NEW r \in Reader, DropExpired(r) \/ Respond(r)
      PROVE  \E q : /\ rd' = [rd EXCEPT ![r] = q] /\ q.pc \in Busy
                    /\ rd[r].pc \in {"judge", "fetch", "load"}
  BY <1>3 DEF DropExpired, Respond, Busy
<1> QED
  BY <1>2, <1>3 DEF CacheStep, Tick, Publish

(* The counts of calls when one reader moves. *)
LEMMA CallsMove ==
  ASSUME DOMAIN rd = Reader, NEW r \in Reader, NEW q, rd' = [rd EXCEPT ![r] = q],
         NEW here, NEW there, rd[r].pc = here, q.pc = there
  PROVE  /\ Recounted(InFlight, InFlight', Busy, here, there)
         /\ Recounted(Count(rd, Busy, Using(ToolOf[r])), Count(rd', Busy, Using(ToolOf[r])),
                      Busy, here, there)
         /\ \A t \in Tools : t # ToolOf[r] =>
              Count(rd', Busy, Using(t)) = Count(rd, Busy, Using(t))
<1>1. Reader \in SUBSET Reader /\ \A t : Using(t) \in SUBSET Reader
  BY DEF Using
<1>2. r \in Using(ToolOf[r]) /\ \A t \in Tools : t # ToolOf[r] => r \notin Using(t)
  BY DEF Using
<1>3. Recounted(InFlight, InFlight', Busy, here, there)
  BY <1>1, CountMoves DEF InFlight
<1>4. Recounted(Count(rd, Busy, Using(ToolOf[r])), Count(rd', Busy, Using(ToolOf[r])),
                Busy, here, there)
  BY <1>1, <1>2, CountMoves
<1>5. ASSUME NEW R \in SUBSET Reader, r \notin R
      PROVE  Count(rd', Busy, R) = Count(rd, Busy, R)
  BY <1>5, CountMoves
<1>6. \A t \in Tools : t # ToolOf[r] => Count(rd', Busy, Using(t)) = Count(rd, Busy, Using(t))
  BY <1>1, <1>2, <1>5
<1> QED
  BY <1>3, <1>4, <1>6

(* The tools' counters when a call starts. *)
LEMMA CalledStart ==
  ASSUME DOMAIN rd = Reader, Called, site' = site, NEW r \in Reader, NEW u \in Url, Start(r, u)
  PROVE  Called'
<1>1. Counted(r) /\ UNCHANGED <<errors, missed, filed, unfiled>>
  BY DEF Start
<1>2. rd[r].pc = "idle" /\ ToolOf[r] \in Tools
  BY <1>1, ToolsAssumption DEF Counted, Idle
<1>3. PICK q : rd' = [rd EXCEPT ![r] = q] /\ q.pc \in Busy
  <2>1. \/ rd' = [rd EXCEPT ![r] = [pc |-> "fetch", url |-> u]]
        \/ rd' = [rd EXCEPT ![r] = [pc |-> "judge", url |-> u, entry |-> LruValue(cache, u)]]
    BY DEF Start, Lookup, ForceRefresh
  <2>2. CASE rd' = [rd EXCEPT ![r] = [pc |-> "fetch", url |-> u]]
    <3> DEFINE q == [pc |-> "fetch", url |-> u]
    <3>1. rd' = [rd EXCEPT ![r] = q] /\ q.pc \in Busy
      BY <2>2 DEF Busy
    <3> HIDE DEF q
    <3> QED
      BY <3>1
  <2>3. CASE rd' = [rd EXCEPT ![r] = [pc |-> "judge", url |-> u, entry |-> LruValue(cache, u)]]
    <3> DEFINE q == [pc |-> "judge", url |-> u, entry |-> LruValue(cache, u)]
    <3>1. rd' = [rd EXCEPT ![r] = q] /\ q.pc \in Busy
      BY <2>3 DEF Busy
    <3> HIDE DEF q
    <3> QED
      BY <3>1
  <2> QED
    BY <2>1, <2>2, <2>3
<1>4. /\ Recounted(InFlight, InFlight', Busy, "idle", q.pc)
      /\ Recounted(Count(rd, Busy, Using(ToolOf[r])), Count(rd', Busy, Using(ToolOf[r])),
                   Busy, "idle", q.pc)
      /\ \A t \in Tools : t # ToolOf[r] =>
           Count(rd', Busy, Using(t)) = Count(rd, Busy, Using(t))
  BY <1>2, <1>3, CallsMove
<1>5. "idle" \notin Busy
  BY DEF Busy
<1>6. /\ InFlight \in Nat /\ InFlight' = InFlight + 1
      /\ Count(rd, Busy, Using(ToolOf[r])) \in Nat
      /\ Count(rd', Busy, Using(ToolOf[r])) = Count(rd, Busy, Using(ToolOf[r])) + 1
  BY <1>3, <1>4, <1>5 DEF Recounted
<1>7. /\ total' \in [Tools -> Nat] /\ total'[ToolOf[r]] = total[ToolOf[r]] + 1
      /\ \A t \in Tools : t # ToolOf[r] => total'[t] = total[t]
      /\ Started \in Nat /\ Started' = Started + 1 /\ Started < Calls
  BY <1>1, CountedStarts DEF Called
<1>8. ASSUME NEW t \in Tools
      PROVE  errors'[t] + Count(rd', Busy, Using(t)) <= total'[t]
  <2>1. errors[t] + Count(rd, Busy, Using(t)) <= total[t] /\ errors[t] \in Nat /\ total[t] \in Nat
    BY DEF Called
  <2>2. errors'[t] = errors[t]
    BY <1>1
  <2>3. CASE t = ToolOf[r]
    BY <1>6, <1>7, <2>1, <2>2, <2>3
  <2>4. CASE t # ToolOf[r]
    BY <1>4, <1>7, <2>1, <2>2, <2>4
  <2> QED
    BY <2>3, <2>4
<1>9. Started' <= Calls'
  <2>1. Calls \in Nat /\ Calls' = Calls
    BY ToolsAssumption DEF Calls, Scope
  <2> QED
    BY <1>7, <2>1
<1>10. Started' = filed'.ok + filed'.error + unfiled' + InFlight'
  <2>1. /\ Started = filed.ok + filed.error + unfiled + InFlight
        /\ filed.ok \in Nat /\ filed.error \in Nat /\ unfiled \in Nat
    BY DEF Called, Outcomes
  <2> QED
    BY <1>1, <1>6, <1>7, <2>1
<1>11. missed' \subseteq At(rd', {"done"}, Reader)
  <2>1. r \notin missed
    BY <1>2 DEF Called, At
  <2> QED
    BY <1>1, <1>3, <2>1 DEF Called, At
<1> QED
  BY <1>1, <1>7, <1>8, <1>9, <1>10, <1>11 DEF Called

(* The tools' counters at a step of readURL. *)
LEMMA CalledCache ==
  ASSUME DOMAIN rd = Reader, Called, site' = site, CacheStep, UNCHANGED toolVars
  PROVE  Called'
<1>1. UNCHANGED <<total, errors, missed, filed, unfiled>> /\ Calls' = Calls
  BY DEF toolVars, Calls, Scope
<1>2. CASE rd' = rd
  BY <1>1, <1>2 DEF Called, Count, At, Started, InFlight
<1>3. ASSUME NEW r \in Reader, NEW q, rd' = [rd EXCEPT ![r] = q],
             rd[r].pc \in {"judge", "fetch", "load"}, q.pc \in Busy
      PROVE  Called'
  <2>1. /\ Recounted(InFlight, InFlight', Busy, rd[r].pc, q.pc)
        /\ Recounted(Count(rd, Busy, Using(ToolOf[r])), Count(rd', Busy, Using(ToolOf[r])),
                     Busy, rd[r].pc, q.pc)
        /\ \A t \in Tools : t # ToolOf[r] =>
             Count(rd', Busy, Using(t)) = Count(rd, Busy, Using(t))
    BY <1>3, CallsMove
  <2>2. rd[r].pc \in Busy /\ rd[r].pc # "done"
    BY <1>3 DEF Busy
  <2>3. /\ InFlight' = InFlight
        /\ \A t \in Tools : Count(rd', Busy, Using(t)) = Count(rd, Busy, Using(t))
    BY <1>3, <2>1, <2>2 DEF Recounted
  <2>4. missed' \subseteq At(rd', {"done"}, Reader)
    BY <1>1, <1>3, <2>2 DEF Called, At
  <2>5. Started' = Started
    BY <1>1 DEF Started
  <2> QED
    BY <1>1, <2>3, <2>4, <2>5 DEF Called
<1> QED
  BY <1>2, <1>3, CallsStay

(* The tools' counters when a call ends. *)
LEMMA CalledFinish ==
  ASSUME DOMAIN rd = Reader, Called, site' = site, NEW r \in Reader, rd[r].pc = "done",
         Finish(r), missed' \subseteq missed \ {r}
  PROVE  Called'
<1>1. /\ total' = total /\ Started' = Started /\ Calls' = Calls
      /\ rd' = [rd EXCEPT ![r] = Idle] /\ Idle.pc = "idle"
  BY DEF Finish, Started, Calls, Scope, Idle
<1>2. /\ Recounted(InFlight, InFlight', Busy, "done", "idle")
      /\ Recounted(Count(rd, Busy, Using(ToolOf[r])), Count(rd', Busy, Using(ToolOf[r])),
                   Busy, "done", "idle")
      /\ \A t \in Tools : t # ToolOf[r] =>
           Count(rd', Busy, Using(t)) = Count(rd, Busy, Using(t))
  BY <1>1, CallsMove
<1>3. "done" \in Busy /\ "idle" \notin Busy
  BY DEF Busy
<1>4. /\ InFlight' \in Nat /\ InFlight = InFlight' + 1
      /\ Count(rd', Busy, Using(ToolOf[r])) \in Nat
      /\ Count(rd, Busy, Using(ToolOf[r])) = Count(rd', Busy, Using(ToolOf[r])) + 1
  BY <1>2, <1>3 DEF Recounted
<1>5. Outcome(r) \in Outcomes /\ ToolOf[r] \in Tools
  BY ToolsAssumption DEF Outcome, Outcomes
<1>6. errors' \in [Tools -> Nat] /\ \A t \in Tools : errors'[t] <= errors[t] + 1
  <2>1. errors \in [Tools -> Nat]
    BY DEF Called
  <2>2. \/ errors' = [errors EXCEPT ![ToolOf[r]] = errors[ToolOf[r]] + 1]
        \/ errors' = [errors EXCEPT ![ToolOf[r]] = errors[ToolOf[r]]]
    BY DEF Finish
  <2> QED
    BY <1>5, <2>1, <2>2
<1>7. \A t \in Tools : t # ToolOf[r] => errors'[t] = errors[t]
  BY <1>5 DEF Finish, Called
<1>8. ASSUME NEW t \in Tools
      PROVE  errors'[t] + Count(rd', Busy, Using(t)) <= total'[t]
  <2>1. errors[t] + Count(rd, Busy, Using(t)) <= total[t] /\ errors[t] \in Nat /\ total[t] \in Nat
    BY DEF Called
  <2>2. errors'[t] \in Nat /\ total'[t] = total[t]
    BY <1>1, <1>6
  <2>3. CASE t = ToolOf[r]
    <3>1. errors'[t] <= errors[t] + 1
      BY <1>6
    <3>2. /\ Count(rd', Busy, Using(t)) \in Nat
          /\ Count(rd, Busy, Using(t)) = Count(rd', Busy, Using(t)) + 1
      BY <1>4, <2>3
    <3> QED
      BY <2>1, <2>2, <3>1, <3>2
  <2>4. CASE t # ToolOf[r]
    BY <1>2, <1>7, <2>1, <2>2, <2>4
  <2> QED
    BY <2>3, <2>4
<1>9. /\ filed' \in [Outcomes -> Nat] /\ unfiled' \in Nat
      /\ Started' = filed'.ok + filed'.error + unfiled' + InFlight'
  <2>1. /\ Started = filed.ok + filed.error + unfiled + InFlight
        /\ filed \in [Outcomes -> Nat] /\ unfiled \in Nat
    BY DEF Called
  <2>2. CASE filed' = [filed EXCEPT ![Outcome(r)] = filed[Outcome(r)] + 1] /\ unfiled' = unfiled
    <3>1. /\ filed' \in [Outcomes -> Nat] /\ filed.ok \in Nat /\ filed.error \in Nat
          /\ filed'.ok + filed'.error = filed.ok + filed.error + 1
      BY <1>5, <2>1, <2>2 DEF Outcomes
    <3>2. filed'.ok \in Nat /\ filed'.error \in Nat
      BY <3>1 DEF Outcomes
    <3> QED
      BY <1>1, <1>4, <2>1, <2>2, <3>1, <3>2
  <2>3. CASE filed' = filed /\ unfiled' = unfiled + 1
    <3>1. filed.ok \in Nat /\ filed.error \in Nat
      BY <2>1 DEF Outcomes
    <3>2. filed'.ok = filed.ok /\ filed'.error = filed.error
      BY <2>3
    <3>3. Started' = Started /\ InFlight' \in Nat /\ InFlight = InFlight' + 1
      BY <1>1, <1>4
    <3>4. Started' = filed'.ok + filed'.error + unfiled' + InFlight'
      <4>1. Started = filed.ok + filed.error + unfiled + InFlight /\ unfiled \in Nat
        BY <2>1
      <4>2. unfiled' = unfiled + 1
        BY <2>3
      <4> QED
        BY <3>1, <3>2, <3>3, <4>1, <4>2
    <3> QED
      BY <2>1, <2>3, <3>4
  <2> QED
    BY <2>2, <2>3 DEF Finish, PlusOne
<1>10. missed' \subseteq At(rd', {"done"}, Reader)
  BY <1>1 DEF Called, At
<1> QED
  BY <1>1, <1>6, <1>8, <1>9, <1>10 DEF Called

(* The tools' counters at every step. *)
LEMMA CalledMove ==
  ASSUME DOMAIN rd = Reader, Called, site' = site, [Next]_vars
  PROVE  Called'
<1>1. Calls' = Calls
  BY DEF Calls, Scope
<1>2. CASE UNCHANGED <<total, errors, filed, unfiled, rd, missed>>
  BY <1>1, <1>2 DEF Called, Count, At, Started, InFlight
<1>3. ASSUME NEW r \in Reader, Refuse(r) \/ AskUser(r) PROVE Called'
  <2>1. /\ total' \in [Tools -> Nat] /\ \A t \in Tools : total[t] <= total'[t]
        /\ Started' = Started + 1 /\ Started \in Nat /\ Started < Calls
    <3>1. Counted(r) /\ total \in [Tools -> Nat] /\ ToolOf[r] \in Tools
      BY <1>3, ToolsAssumption DEF Refuse, AskUser, Called
    <3>2. /\ total' \in [Tools -> Nat] /\ total'[ToolOf[r]] = total[ToolOf[r]] + 1
          /\ \A t \in Tools : t # ToolOf[r] => total'[t] = total[t]
          /\ Started \in Nat /\ Started' = Started + 1 /\ Started < Calls
      BY <3>1, CountedStarts
    <3>3. ASSUME NEW t \in Tools PROVE total[t] <= total'[t]
      BY <3>1, <3>2
    <3> QED
      BY <3>2, <3>3
  <2>2. UNCHANGED <<errors, rd, missed>>
    BY <1>3 DEF Refuse, AskUser, cacheVars
  <2>3. /\ InFlight' = InFlight
        /\ \A t \in Tools : Count(rd', Busy, Using(t)) = Count(rd, Busy, Using(t))
        /\ missed' \subseteq At(rd', {"done"}, Reader)
    BY <2>2 DEF InFlight, Called
  <2>4. ASSUME NEW t \in Tools PROVE errors'[t] + Count(rd', Busy, Using(t)) <= total'[t]
    <3>1. errors[t] + Count(rd, Busy, Using(t)) <= total[t] /\ errors[t] \in Nat
      BY DEF Called
    <3>2. Count(rd, Busy, Using(t)) \in Nat
      BY CountNat DEF Using
    <3>3. total[t] \in Nat /\ total'[t] \in Nat /\ total[t] <= total'[t]
      BY <2>1 DEF Called
    <3>4. errors'[t] = errors[t] /\ Count(rd', Busy, Using(t)) = Count(rd, Busy, Using(t))
      BY <2>2, <2>3
    <3> QED
      BY <3>1, <3>2, <3>3, <3>4
  <2>5. Started' <= Calls'
    <3>1. Calls \in Nat
      BY ToolsAssumption DEF Calls
    <3> QED
      BY <1>1, <2>1, <3>1
  <2>6. /\ filed' \in [Outcomes -> Nat] /\ unfiled' \in Nat
        /\ Started' = filed'.ok + filed'.error + unfiled' + InFlight'
    <3>1. /\ Started = filed.ok + filed.error + unfiled + InFlight
          /\ filed \in [Outcomes -> Nat] /\ unfiled \in Nat
      BY DEF Called
    <3>2. filed.ok \in Nat /\ filed.error \in Nat
      BY <3>1 DEF Outcomes
    <3>3. InFlight \in Nat
      BY CountNat DEF InFlight
    <3>4. CASE filed' = [filed EXCEPT !.error = filed.error + 1] /\ unfiled' = unfiled
      <4>1. filed' \in [Outcomes -> Nat] /\ filed'.ok = filed.ok /\ filed'.error = filed.error + 1
        BY <3>1, <3>4 DEF Outcomes
      <4> QED
        BY <2>1, <2>3, <3>1, <3>2, <3>3, <3>4, <4>1
    <3>5. CASE filed' = filed /\ unfiled' = unfiled + 1
      BY <2>1, <2>3, <3>1, <3>2, <3>3, <3>5
    <3> QED
      BY <1>3, <3>4, <3>5 DEF Refuse, AskUser
  <2> QED
    BY <2>1, <2>2, <2>3, <2>4, <2>5, <2>6 DEF Called
<1>4. ASSUME NEW r \in Reader, CountKnown(r) \/ InsertDomain(r) PROVE Called'
  <2>1. rd[r].pc = "done" /\ Finish(r) /\ missed' \subseteq missed \ {r}
    BY <1>4 DEF CountKnown, InsertDomain, Called, At
  <2> QED
    BY <2>1, CalledFinish
<1>5. ASSUME NEW r \in Reader, MissDomain(r) PROVE Called'
  <2>1. UNCHANGED <<total, errors, filed, unfiled, rd>> /\ missed' = missed \cup {r}
    BY <1>5 DEF MissDomain, cacheVars
  <2>2. missed' \subseteq At(rd', {"done"}, Reader)
    BY <1>5, <2>1 DEF MissDomain, Called, At
  <2> QED
    BY <1>1, <2>1, <2>2 DEF Called, Count, At, Started, InFlight
<1> QED
  BY <1>2, <1>3, <1>4, <1>5, CalledStart, CalledCache
  DEF Next, Rest, vars, cacheVars, toolVars

-----------------------------------------------------------------------------
(* g counts what f counts and one o more. *)
OneMore(f, g, o) ==
  /\ g \in [Outcomes -> Nat] /\ g[o] = f[o] + 1
  /\ \A p \in Outcomes : p # o => g[p] = f[p]

(* A counter of outcomes, one outcome later. *)
LEMMA PlusOneMore ==
  ASSUME NEW f \in [Outcomes -> Nat], NEW r
  PROVE  OneMore(f, PlusOne(f, r), Outcome(r)) /\ Outcome(r) \in Outcomes
BY DEF OneMore, PlusOne, Outcome, Outcomes

(* The fetches of a set of addresses, when one more of u has ended. *)
LEMMA FetchesMove ==
  ASSUME ended \in [Url -> [Outcomes -> Nat]], NEW u \in Url, NEW oc \in Outcomes,
         OneMore(ended[u], ended'[u], oc), \A v \in Url : v # u => ended'[v] = ended[v],
         NEW us \in SUBSET Url, NEW o \in Outcomes
  PROVE  /\ Fetches(ended, us, o) \in Nat
         /\ u \in us /\ o = oc => Fetches(ended', us, o) = Fetches(ended, us, o) + 1
         /\ u \notin us \/ o # oc => Fetches(ended', us, o) = Fetches(ended, us, o)
<1> DEFINE f == [v \in Url |-> ended[v][o]]
           h == [v \in Url |-> ended'[v][o]]
<1>1. IsFiniteSet(us)
  BY CacheAssumption, FS_Subset
<1>2. \A x \in us : f[x] \in Nat
  OBVIOUS
<1>3. h[u] \in Nat /\ f[u] \in Nat /\ \A x \in us \ {u} : h[x] = f[x]
  BY DEF OneMore
<1>4. h[u] = IF o = oc THEN f[u] + 1 ELSE f[u]
  BY DEF OneMore
<1>5. Fetches(ended, us, o) = SumFunctionOnSet(f, us) /\ Fetches(ended', us, o) = SumFunctionOnSet(h, us)
  BY DEF Fetches
<1> HIDE DEF f, h
<1>6. /\ SumFunctionOnSet(f, us) \in Nat /\ SumFunctionOnSet(h, us) \in Nat
      /\ u \notin us => SumFunctionOnSet(h, us) = SumFunctionOnSet(f, us)
      /\ u \in us => SumFunctionOnSet(h, us) + f[u] = SumFunctionOnSet(f, us) + h[u]
  BY <1>1, <1>2, <1>3, SumAt
<1>7. u \in us /\ o = oc => SumFunctionOnSet(h, us) = SumFunctionOnSet(f, us) + 1
  BY <1>3, <1>4, <1>6
<1>8. u \notin us \/ o # oc => SumFunctionOnSet(h, us) = SumFunctionOnSet(f, us)
  BY <1>3, <1>4, <1>6
<1> QED
  BY <1>5, <1>6, <1>7, <1>8

(* Where nothing has ended there is nothing to add up. *)
LEMMA NoFetches ==
  ASSUME NEW us \in SUBSET Url, NEW o, \A u \in us : ended[u][o] = 0
  PROVE  Fetches(ended, us, o) = 0
<1>1. IsFiniteSet(us) /\ \A u \in us : [v \in Url |-> ended[v][o]][u] = 0
  BY CacheAssumption, FS_Subset
<1> QED
  BY <1>1, SumZero DEF Fetches

(* The error counters are the fetches that ended in error. *)
LEMMA ErrorsMove ==
  ASSUME errors \in [Tools -> Nat], NEW r \in Reader, rd[r].url \in Url, Finish(r),
         ended \in [Url -> [Outcomes -> Nat]],
         errors["read_url"] + errors["url_metadata"] = Fetches(ended, Url, "error")
  PROVE  errors'["read_url"] + errors'["url_metadata"] = Fetches(ended', Url, "error")
<1> DEFINE u == rd[r].url
           oc == Outcome(r)
<1>1. ended' = [ended EXCEPT ![u] = PlusOne(ended[u], r)]
  BY DEF Finish
<1>2. OneMore(ended[u], ended'[u], oc) /\ oc \in Outcomes
  BY <1>1, PlusOneMore
<1>3. \A v \in Url : v # u => ended'[v] = ended[v]
  BY <1>1
<1>4. u \in Url /\ Url \in SUBSET Url /\ "error" \in Outcomes
  BY DEF Outcomes
<1>5. ToolOf[r] \in {"read_url", "url_metadata"} /\ Tools = {"read_url", "url_metadata"}
  BY ToolsAssumption DEF Tools
<1>6. errors' = [errors EXCEPT ![ToolOf[r]] =
                   IF oc = "error" THEN errors[ToolOf[r]] + 1 ELSE errors[ToolOf[r]]]
  BY DEF Finish
<1> HIDE DEF u, oc
<1>7. /\ Fetches(ended, Url, "error") \in Nat
      /\ oc = "error" => Fetches(ended', Url, "error") = Fetches(ended, Url, "error") + 1
      /\ oc # "error" => Fetches(ended', Url, "error") = Fetches(ended, Url, "error")
  BY <1>2, <1>3, <1>4, FetchesMove
<1>8. CASE oc = "error"
  <2>1. errors' = [errors EXCEPT ![ToolOf[r]] = errors[ToolOf[r]] + 1]
    BY <1>6, <1>8
  <2>2. errors'["read_url"] + errors'["url_metadata"] = errors["read_url"] + errors["url_metadata"] + 1
    BY <1>5, <2>1
  <2> QED
    BY <1>7, <1>8, <2>2
<1>9. CASE oc # "error"
  <2>1. errors' = errors
    BY <1>5, <1>6, <1>9
  <2> QED
    BY <1>7, <1>9, <2>1
<1> QED
  BY <1>8, <1>9

(* A fetch of u has ended, with this outcome. *)
EndedAt(u, oc) ==
  /\ u \in Url /\ oc \in Outcomes /\ ended' \in [Url -> [Outcomes -> Nat]]
  /\ OneMore(ended[u], ended'[u], oc) /\ \A v \in Url : v # u => ended'[v] = ended[v]

(* It is what every call that finishes leaves. *)
LEMMA FinishEnds ==
  ASSUME Table, NEW r \in Reader, rd[r].url \in Url, Finish(r)
  PROVE  EndedAt(rd[r].url, Outcome(r))
<1> DEFINE u == rd[r].url
<1>1. ended' = [ended EXCEPT ![u] = PlusOne(ended[u], r)] /\ ended \in [Url -> [Outcomes -> Nat]]
  BY DEF Finish, Table
<1>2. OneMore(ended[u], PlusOne(ended[u], r), Outcome(r)) /\ Outcome(r) \in Outcomes
  BY <1>1, PlusOneMore
<1>3. ended'[u] = PlusOne(ended[u], r) /\ PlusOne(ended[u], r) \in [Outcomes -> Nat]
  BY <1>1, <1>2 DEF OneMore
<1>4. ended' \in [Url -> [Outcomes -> Nat]]
  BY <1>1, <1>3
<1>5. \A v \in Url : v # u => ended'[v] = ended[v]
  BY <1>1
<1> QED
  BY <1>2, <1>3, <1>4, <1>5 DEF EndedAt

(* The fetches of a set of addresses then. *)
LEMMA FetchesEnd ==
  ASSUME Table, NEW u, NEW oc, EndedAt(u, oc), NEW us \in SUBSET Url, NEW o \in Outcomes
  PROVE  /\ u \in us /\ o = oc => Fetches(ended', us, o) = Fetches(ended, us, o) + 1
         /\ u \notin us \/ o # oc => Fetches(ended', us, o) = Fetches(ended, us, o)
BY FetchesMove DEF Table, EndedAt

(* The domain has its entry, and it takes the fetch. *)
LEMMA TableKnown ==
  ASSUME Table, Entered, NEW u, NEW oc, EndedAt(u, oc),
         DomainOf[u] \in DOMAIN domains, DOMAIN domains' = DOMAIN domains,
         OneMore(domains[DomainOf[u]], domains'[DomainOf[u]], oc),
         \A d \in DOMAIN domains : d # DomainOf[u] => domains'[d] = domains[d],
         domains' = [d \in DOMAIN domains |-> domains'[d]], overflow' = overflow
  PROVE  Table' /\ Entered'
<1> DEFINE D == DOMAIN domains
           d0 == DomainOf[u]
<1>1. ended \in [Url -> [Outcomes -> Nat]] /\ domains \in [D -> [Outcomes -> Nat]]
  BY DEF Table
<1>2. /\ u \in Url /\ oc \in Outcomes /\ OneMore(ended[u], ended'[u], oc)
      /\ \A v \in Url : v # u => ended'[v] = ended[v]
  BY DEF EndedAt
<1>3. \A d \in D : domains'[d] \in [Outcomes -> Nat]
  BY <1>1 DEF OneMore
<1>4. ASSUME NEW d \in D, NEW o \in Outcomes
      PROVE  domains'[d][o] = Fetches(ended', AddressesOf(d), o)
  <2>1. AddressesOf(d) \in SUBSET Url /\ (u \in AddressesOf(d) <=> d = d0)
    BY <1>2 DEF AddressesOf
  <2>2. /\ u \in AddressesOf(d) /\ o = oc =>
             Fetches(ended', AddressesOf(d), o) = Fetches(ended, AddressesOf(d), o) + 1
        /\ u \notin AddressesOf(d) \/ o # oc =>
             Fetches(ended', AddressesOf(d), o) = Fetches(ended, AddressesOf(d), o)
    BY <2>1, FetchesEnd
  <2>3. domains[d][o] = Fetches(ended, AddressesOf(d), o)
    BY DEF Entered
  <2>4. CASE d = d0 /\ o = oc
    BY <2>1, <2>2, <2>3, <2>4 DEF OneMore
  <2>5. CASE d = d0 /\ o # oc
    BY <2>1, <2>2, <2>3, <2>5 DEF OneMore
  <2>6. CASE d # d0
    BY <2>1, <2>2, <2>3, <2>6
  <2> QED
    BY <2>4, <2>5, <2>6
<1>5. ASSUME NEW o \in Outcomes
      PROVE  overflow'[o] = Fetches(ended', Untracked(DOMAIN domains'), o)
  <2>1. Untracked(D) \in SUBSET Url /\ u \notin Untracked(D)
    BY DEF Untracked
  <2>2. Fetches(ended', Untracked(D), o) = Fetches(ended, Untracked(D), o)
    BY <2>1, FetchesEnd
  <2> QED
    BY <2>2 DEF Entered
<1>6. ASSUME Cardinality(D) < MaxTrackedDomains,
             NEW v \in Url, DomainOf[v] \notin D, NEW o \in Outcomes
      PROVE  ended'[v][o] = 0
  <2>1. v # u /\ ended[v][o] = 0
    BY <1>6 DEF Table
  <2> QED
    BY <1>2, <2>1
<1> QED
  <2>1. Entered'
    BY <1>4, <1>5 DEF Entered
  <2>2. domains' \in [DOMAIN domains' -> [Outcomes -> Nat]]
    BY <1>3
  <2>3. Table'
    BY <1>6, <2>2 DEF Table, EndedAt
  <2> QED
    BY <2>1, <2>3

(* The domain gets its entry: no fetch of its addresses was ever counted    *)
(* elsewhere.                                                               *)
LEMMA TableInserts ==
  ASSUME Table, Entered, NEW u, NEW oc, EndedAt(u, oc),
         DomainOf[u] \notin DOMAIN domains, Cardinality(DOMAIN domains) < MaxTrackedDomains,
         NEW e, OneMore(None, e, oc), overflow' = overflow,
         domains' = [d \in DOMAIN domains \cup {DomainOf[u]} |->
                       IF d = DomainOf[u] THEN e ELSE domains[d]]
  PROVE  Table' /\ Entered'
<1> DEFINE D == DOMAIN domains
           d0 == DomainOf[u]
<1>1. ended \in [Url -> [Outcomes -> Nat]] /\ domains \in [D -> [Outcomes -> Nat]]
  BY DEF Table
<1>2. /\ u \in Url /\ oc \in Outcomes /\ OneMore(ended[u], ended'[u], oc)
      /\ \A v \in Url : v # u => ended'[v] = ended[v]
  BY DEF EndedAt
<1>3. DOMAIN domains' = D \cup {d0} /\ domains'[d0] = e /\ \A d \in D : domains'[d] = domains[d]
  OBVIOUS
<1>4. \A v \in Url : DomainOf[v] \notin D => \A o \in Outcomes : ended[v][o] = 0
  BY DEF Table
<1>5. ASSUME NEW d \in D \cup {d0}, NEW o \in Outcomes
      PROVE  domains'[d][o] = Fetches(ended', AddressesOf(d), o)
  <2>1. AddressesOf(d) \in SUBSET Url /\ (u \in AddressesOf(d) <=> d = d0)
    BY <1>2 DEF AddressesOf
  <2>2. /\ u \in AddressesOf(d) /\ o = oc =>
             Fetches(ended', AddressesOf(d), o) = Fetches(ended, AddressesOf(d), o) + 1
        /\ u \notin AddressesOf(d) \/ o # oc =>
             Fetches(ended', AddressesOf(d), o) = Fetches(ended, AddressesOf(d), o)
    BY <2>1, FetchesEnd
  <2>3. CASE d # d0
    <3>1. d \in D /\ domains'[d] = domains[d]
      BY <1>3, <2>3
    <3>2. domains[d][o] = Fetches(ended, AddressesOf(d), o)
      BY <3>1 DEF Entered
    <3> QED
      BY <2>1, <2>2, <2>3, <3>1, <3>2
  <2>4. CASE d = d0
    <3>1. \A v \in AddressesOf(d) : ended[v][o] = 0
      BY <1>4, <2>4 DEF AddressesOf
    <3>2. Fetches(ended, AddressesOf(d), o) = 0
      BY <2>1, <3>1, NoFetches
    <3>3. None[o] = 0
      BY DEF None, Outcomes
    <3>4. e[o] = IF o = oc THEN 1 ELSE 0
      BY <3>3 DEF OneMore
    <3>5. CASE o = oc
      BY <1>3, <2>1, <2>2, <2>4, <3>2, <3>4, <3>5
    <3>6. CASE o # oc
      BY <1>3, <2>1, <2>2, <2>4, <3>2, <3>4, <3>6
    <3> QED
      BY <3>5, <3>6
  <2> QED
    BY <2>3, <2>4
<1>6. ASSUME NEW v \in Url, DomainOf[v] \notin D \cup {d0}, NEW o \in Outcomes
      PROVE  ended'[v][o] = 0
  BY <1>2, <1>4, <1>6
<1>7. ASSUME NEW o \in Outcomes
      PROVE  overflow'[o] = Fetches(ended', Untracked(DOMAIN domains'), o)
  <2>1. Untracked(D) \in SUBSET Url /\ Untracked(D \cup {d0}) \in SUBSET Url
    BY DEF Untracked
  <2>2. Fetches(ended, Untracked(D), o) = 0
    BY <1>4, <2>1, NoFetches DEF Untracked
  <2>3. Fetches(ended, Untracked(D \cup {d0}), o) = 0
    BY <1>4, <2>1, NoFetches DEF Untracked
  <2>4. u \notin Untracked(D \cup {d0})
    BY DEF Untracked
  <2>5. Fetches(ended', Untracked(D \cup {d0}), o) = Fetches(ended, Untracked(D \cup {d0}), o)
    BY <2>1, <2>4, FetchesEnd
  <2>6. overflow[o] = 0
    BY <2>2 DEF Entered
  <2> QED
    BY <1>3, <2>3, <2>5, <2>6
<1>8. /\ IsFiniteSet(D \cup {d0}) /\ Cardinality(D \cup {d0}) = Cardinality(D) + 1
      /\ Cardinality(D) \in Nat
  BY FS_AddElement, FS_CardinalityType DEF Table
<1>9. Cardinality(DOMAIN domains') <= MaxTrackedDomains
  BY <1>3, <1>8, ToolsAssumption
<1>10. domains' \in [DOMAIN domains' -> [Outcomes -> Nat]]
  BY <1>1, <1>3 DEF OneMore
<1>11. DOMAIN domains' \subseteq {DomainOf[v] : v \in Url}
  BY <1>2, <1>3 DEF Table
<1> QED
  <2>1. Entered'
    BY <1>3, <1>5, <1>7 DEF Entered
  <2>2. /\ ended' \in [Url -> [Outcomes -> Nat]] /\ overflow' \in [Outcomes -> Nat]
        /\ IsFiniteSet(DOMAIN domains')
    BY <1>3, <1>8 DEF Table, EndedAt
  <2>3. Table'
    <3>1. \A v \in Url : DomainOf[v] \notin DOMAIN domains' =>
             \A o \in Outcomes : ended'[v][o] = 0
      BY <1>3, <1>6
    <3> QED
      BY <1>9, <1>10, <1>11, <2>2, <3>1 DEF Table
  <2> QED
    BY <2>1, <2>3

(* The table is full: the overflow takes the fetch. *)
LEMMA TableOverflows ==
  ASSUME Table, Entered, NEW u, NEW oc, EndedAt(u, oc),
         DomainOf[u] \notin DOMAIN domains, ~(Cardinality(DOMAIN domains) < MaxTrackedDomains),
         domains' = domains, OneMore(overflow, overflow', oc)
  PROVE  Table' /\ Entered'
<1> DEFINE D == DOMAIN domains
<1>2. /\ u \in Url /\ oc \in Outcomes /\ OneMore(ended[u], ended'[u], oc)
      /\ \A v \in Url : v # u => ended'[v] = ended[v]
  BY DEF EndedAt
<1>3. ASSUME NEW d \in D, NEW o \in Outcomes
      PROVE  domains'[d][o] = Fetches(ended', AddressesOf(d), o)
  <2>1. AddressesOf(d) \in SUBSET Url /\ u \notin AddressesOf(d)
    BY DEF AddressesOf
  <2>2. Fetches(ended', AddressesOf(d), o) = Fetches(ended, AddressesOf(d), o)
    BY <2>1, FetchesEnd
  <2> QED
    BY <2>2 DEF Entered
<1>4. ASSUME NEW o \in Outcomes
      PROVE  overflow'[o] = Fetches(ended', Untracked(D), o)
  <2>1. Untracked(D) \in SUBSET Url /\ u \in Untracked(D)
    BY <1>2 DEF Untracked
  <2>2. /\ o = oc => Fetches(ended', Untracked(D), o) = Fetches(ended, Untracked(D), o) + 1
        /\ o # oc => Fetches(ended', Untracked(D), o) = Fetches(ended, Untracked(D), o)
    BY <2>1, FetchesEnd
  <2>3. overflow[o] = Fetches(ended, Untracked(D), o)
    BY DEF Entered
  <2>4. CASE o = oc
    BY <2>2, <2>3, <2>4 DEF OneMore
  <2>5. CASE o # oc
    BY <2>2, <2>3, <2>5 DEF OneMore
  <2> QED
    BY <2>4, <2>5
<1> QED
  <2>1. Entered'
    BY <1>3, <1>4 DEF Entered
  <2>2. Table'
    BY DEF Table, EndedAt, OneMore
  <2> QED
    BY <2>1, <2>2

(* The domain table at every step. *)
LEMMA TableMove ==
  ASSUME Copied, Called, Table, Summed, [Next]_vars
  PROVE  Table' /\ Summed'
<1>1. CASE UNCHANGED <<ended, domains, overflow, errors>>
  BY <1>1 DEF Table, Summed, Entered
<1>2. ASSUME NEW r \in Reader, rd[r].pc = "done", Finish(r)
      PROVE  /\ EndedAt(rd[r].url, Outcome(r))
             /\ errors'["read_url"] + errors'["url_metadata"] = Fetches(ended', Url, "error")
  <2>1. rd[r].url \in Url
    BY <1>2 DEF Copied, ReaderOK, Idle
  <2>2. EndedAt(rd[r].url, Outcome(r))
    BY <1>2, <2>1, FinishEnds
  <2> QED
    BY <1>2, <2>1, <2>2, ErrorsMove DEF Called, Table, Summed
<1>3. Entered /\ domains \in [DOMAIN domains -> [Outcomes -> Nat]] /\ overflow \in [Outcomes -> Nat]
  BY DEF Table, Summed
<1>4. ASSUME NEW r \in Reader, CountKnown(r) PROVE Table' /\ Summed'
  <2> DEFINE d == DomainOf[rd[r].url]
  <2>1. /\ EndedAt(rd[r].url, Outcome(r))
        /\ errors'["read_url"] + errors'["url_metadata"] = Fetches(ended', Url, "error")
    BY <1>2, <1>4 DEF CountKnown
  <2>2. /\ d \in DOMAIN domains /\ overflow' = overflow
        /\ domains' = [domains EXCEPT ![d] = PlusOne(domains[d], r)]
    BY <1>4 DEF CountKnown
  <2>3. /\ DOMAIN domains' = DOMAIN domains /\ domains'[d] = PlusOne(domains[d], r)
        /\ \A e \in DOMAIN domains : e # d => domains'[e] = domains[e]
        /\ domains' = [e \in DOMAIN domains |-> domains'[e]]
    BY <1>3, <2>2
  <2>4. OneMore(domains[d], domains'[d], Outcome(r))
    BY <1>3, <2>2, <2>3, PlusOneMore
  <2>5. Table' /\ Entered'
    BY <1>3, <2>1, <2>2, <2>3, <2>4, TableKnown
  <2> QED
    BY <2>1, <2>5 DEF Summed
<1>5. ASSUME NEW r \in Reader, InsertDomain(r) PROVE Table' /\ Summed'
  <2> DEFINE d == DomainOf[rd[r].url]
             entry == IF d \in DOMAIN domains THEN domains[d] ELSE None
             full == d \notin DOMAIN domains /\ Cardinality(DOMAIN domains) >= MaxTrackedDomains
  <2>1. rd[r].pc = "done" /\ Finish(r)
    BY <1>5 DEF InsertDomain, Called, At
  <2>2. /\ EndedAt(rd[r].url, Outcome(r))
        /\ errors'["read_url"] + errors'["url_metadata"] = Fetches(ended', Url, "error")
    BY <1>2, <2>1
  <2>3. /\ domains' = IF full THEN domains
                      ELSE [e \in DOMAIN domains \cup {d} |->
                              IF e = d THEN PlusOne(entry, r) ELSE domains[e]]
        /\ overflow' = IF full THEN PlusOne(overflow, r) ELSE overflow
    BY <1>5 DEF InsertDomain, Tracked
  <2>4. Cardinality(DOMAIN domains) \in Nat /\ MaxTrackedDomains \in Nat
    BY FS_CardinalityType, ToolsAssumption DEF Table
  <2>5. CASE d \in DOMAIN domains
    <3>1. /\ DOMAIN domains' = DOMAIN domains /\ overflow' = overflow
          /\ domains'[d] = PlusOne(domains[d], r)
          /\ \A e \in DOMAIN domains : e # d => domains'[e] = domains[e]
          /\ domains' = [e \in DOMAIN domains |-> domains'[e]]
      BY <2>3, <2>5
    <3>2. OneMore(domains[d], domains'[d], Outcome(r))
      BY <1>3, <2>5, <3>1, PlusOneMore
    <3>3. Table' /\ Entered'
      BY <1>3, <2>2, <2>5, <3>1, <3>2, TableKnown
    <3> QED
      BY <2>2, <3>3 DEF Summed
  <2>6. CASE d \notin DOMAIN domains /\ Cardinality(DOMAIN domains) < MaxTrackedDomains
    <3>1. /\ overflow' = overflow
          /\ domains' = [e \in DOMAIN domains \cup {d} |->
                           IF e = d THEN PlusOne(None, r) ELSE domains[e]]
      BY <2>3, <2>4, <2>6
    <3>2. None \in [Outcomes -> Nat]
      BY DEF None, Outcomes
    <3>3. OneMore(None, PlusOne(None, r), Outcome(r))
      BY <3>2, PlusOneMore
    <3>4. Table' /\ Entered'
      BY <1>3, <2>2, <2>6, <3>1, <3>3, TableInserts
    <3> QED
      BY <2>2, <3>4 DEF Summed
  <2>7. CASE d \notin DOMAIN domains /\ ~(Cardinality(DOMAIN domains) < MaxTrackedDomains)
    <3>1. domains' = domains /\ overflow' = PlusOne(overflow, r)
      BY <2>3, <2>4, <2>7
    <3>2. OneMore(overflow, overflow', Outcome(r))
      BY <1>3, <3>1, PlusOneMore
    <3>3. Table' /\ Entered'
      BY <1>3, <2>2, <2>7, <3>1, <3>2, TableOverflows
    <3> QED
      BY <2>2, <3>3 DEF Summed
  <2> QED
    BY <2>5, <2>6, <2>7
<1>6. ASSUME NEW r \in Reader, NEW u \in Url,
             Start(r, u) \/ Refuse(r) \/ AskUser(r) \/ MissDomain(r)
      PROVE  UNCHANGED <<ended, domains, overflow, errors>>
  BY <1>6 DEF Start, Refuse, AskUser, MissDomain
<1>7. ASSUME NEW r \in Reader, Refuse(r) \/ AskUser(r) \/ MissDomain(r)
      PROVE  UNCHANGED <<ended, domains, overflow, errors>>
  BY <1>7 DEF Refuse, AskUser, MissDomain
<1> QED
  BY <1>1, <1>4, <1>5, <1>6, <1>7 DEF Next, Rest, vars, toolVars

-----------------------------------------------------------------------------
(* It holds at first. *)
LEMMA InvInit == Init => Inv
<1> SUFFICES ASSUME Init PROVE Inv
  OBVIOUS
<1>1. Origins
  <2>1. site \in Sites /\ now = 0 /\ page = [u \in Url |-> 1]
    BY DEF Init, CacheInit
  <2>2. shown = [u \in Url |-> [t \in 0..MaxTime |-> IF t = 0 THEN {1} ELSE {}]]
    BY DEF Init, CacheInit
  <2>3. MaxTime \in Nat /\ 1 \in DOMAIN site.docs /\ 0 \in 0..MaxTime
    BY <2>1, CacheAssumption
  <2> QED
    BY <2>1, <2>2, <2>3 DEF Origins
<1>2. rd = [r \in Reader |-> Idle] /\ cache = LruEmpty /\ Idle.pc = "idle"
  BY DEF Init, CacheInit, Idle
<1>3. Copied
  <2>1. LruOK(cache, Url, Stored) /\ LruKeys(cache) = {} /\ Len(cache) = 0
    BY <1>2, LruEmptyOK DEF LruEmpty
  <2>2. CacheTrue
    BY <2>1, CacheAssumption DEF CacheTrue
  <2>3. ReaderOK(Idle, shown, now)
    BY <1>2 DEF ReaderOK
  <2> QED
    BY <1>2, <2>2, <2>3 DEF Copied
<1>4. \A P, rs : "idle" \notin P /\ rs \in SUBSET Reader => Count(rd, P, rs) = 0
  <2>1. \A P, rs : "idle" \notin P /\ rs \in SUBSET Reader => At(rd, P, rs) = {}
    BY <1>2 DEF At
  <2> QED
    BY <2>1, FS_EmptySet DEF Count
<1>5. total = [t \in Tools |-> 0] /\ Started = 0
  BY DEF Init, Started, Tools
<1>6. Reads
  <2>1. Judging = 0 /\ Loading = 0
    BY <1>4 DEF Judging, Loading
  <2>2. timed \in [{"hit", "miss"} -> Nat] /\ timed.hit = 0 /\ timed.miss = 0
    BY DEF Init, CacheInit
  <2> QED
    BY <1>5, <2>1, <2>2 DEF Init, CacheInit, Reads
<1>7. None \in [Outcomes -> Nat] /\ \A o \in Outcomes : None[o] = 0
  BY DEF None, Outcomes
<1>8. Called
  <2>1. InFlight = 0 /\ \A t : Count(rd, Busy, Using(t)) = 0
    BY <1>4 DEF InFlight, Busy, Using
  <2>2. Calls \in Nat
    BY ToolsAssumption DEF Calls
  <2>3. errors = [t \in Tools |-> 0] /\ filed = None /\ unfiled = 0 /\ missed = {}
    BY DEF Init
  <2>4. filed.ok = 0 /\ filed.error = 0
    BY <2>3 DEF None
  <2>5. \A t \in Tools : errors[t] + Count(rd, Busy, Using(t)) <= total[t]
    BY <1>5, <2>1, <2>3
  <2>6. Started = filed.ok + filed.error + unfiled + InFlight /\ Started <= Calls
    BY <1>5, <2>1, <2>2, <2>3, <2>4
  <2> QED
    BY <1>5, <1>7, <2>3, <2>5, <2>6 DEF Called
<1>9. /\ ended = [u \in Url |-> None] /\ overflow = None /\ domains = [d \in {} |-> None]
      /\ errors = [t \in Tools |-> 0]
  BY DEF Init
<1>10. \A us \in SUBSET Url : \A o \in Outcomes : Fetches(ended, us, o) = 0
  BY <1>7, <1>9, NoFetches
<1>11. Table
  <2>1. DOMAIN domains = {} /\ IsFiniteSet({}) /\ Cardinality({}) = 0
    BY <1>9, FS_EmptySet
  <2>2. domains \in [DOMAIN domains -> [Outcomes -> Nat]]
    BY <1>9, <2>1
  <2> QED
    BY <1>7, <1>9, <2>1, <2>2, ToolsAssumption DEF Table
<1>12. Summed
  <2>1. "error" \in Outcomes /\ "read_url" \in Tools /\ "url_metadata" \in Tools
    BY DEF Outcomes, Tools
  <2>2. Fetches(ended, Url, "error") = 0
    BY <1>10, <2>1
  <2>3. errors["read_url"] = 0 /\ errors["url_metadata"] = 0
    BY <1>9, <2>1
  <2>4. Entered
    BY <1>7, <1>9, <1>10 DEF Entered, Untracked
  <2> QED
    BY <2>2, <2>3, <2>4 DEF Summed
<1>13. Answered
  BY DEF Init, Answered
<1> QED
  BY <1>1, <1>3, <1>6, <1>8, <1>11, <1>12, <1>13 DEF Inv

(* The inductive invariant of the two tools. *)
THEOREM FetchInvariant == Spec => []Inv
<1>1. Inv /\ [Next]_vars => Inv'
  <2> SUFFICES ASSUME Inv, [Next]_vars PROVE Inv'
    OBVIOUS
  <2>1. DOMAIN rd = Reader /\ missed \subseteq At(rd, {"done"}, Reader)
    BY DEF Inv, Copied, Called
  <2>2. Origins' /\ Onward
    BY OriginsMove DEF Inv
  <2>3. Copied' /\ Answered'
    BY <2>1, <2>2, CopiedMoves DEF Inv
  <2>4. Reads'
    BY <2>1, ReadsMove DEF Inv
  <2>5. Called'
    BY <2>1, <2>2, CalledMove DEF Inv, Onward
  <2>6. Table' /\ Summed'
    BY TableMove DEF Inv
  <2> QED
    BY <2>2, <2>3, <2>4, <2>5, <2>6 DEF Inv
<1> QED
  BY <1>1, InvInit, PTL DEF Spec

(* FetchTruth: an answer's fetch time is one at which the origin did serve  *)
(* those bytes, whatever readers and pages did meanwhile (fetch.go).        *)
THEOREM AnswersAreTrue == Spec => []FetchTruth
<1>1. Inv => FetchTruth
  BY DEF Inv, Answered, Truthful, FetchTruth
<1> QED
  BY <1>1, FetchInvariant, PTL

(* CachedAgeBounded: no cached answer is older than the TTL and the longest *)
(* download together, for every TTL and every race to add the entry.        *)
THEOREM AnswersAreRecent == Spec => []CachedAgeBounded
<1>1. Inv => CachedAgeBounded
  <2> SUFFICES ASSUME Inv, answer.cached
               PROVE  answer.at < answer.found.fetchedAt + TTL + MaxLoad
    BY DEF CachedAgeBounded
  <2>1. answer # NoAnswer
    BY DEF NoAnswer
  <2> QED
    BY <2>1 DEF Inv, Answered
<1> QED
  BY <1>1, FetchInvariant, PTL

(* CallsAccounted: every call is counted once by each of the counters, the  *)
(* records, the latency histogram and the domain table, whatever calls race *)
(* for the table's last entry.                                              *)
THEOREM CallsAreAccounted == Spec => []CallsAccounted
<1>1. ASSUME Inv PROVE CallsAccounted
  <2>1. \A r \in Reader : rd[r] # Idle <=> rd[r].pc \in Busy
    BY <1>1 DEF Inv, Copied, ReaderOK, Idle, Busy
  <2>2. {r \in Reader : rd[r] # Idle} = At(rd, Busy, Reader)
    BY <2>1 DEF At
  <2>3. /\ {r \in Reader : rd[r].pc = "judge"} = At(rd, {"judge"}, Reader)
        /\ {r \in Reader : rd[r].pc \in {"fetch", "load"}} = At(rd, {"fetch", "load"}, Reader)
    BY DEF At
  <2>4. Started = filed.ok + filed.error + unfiled + Cardinality({r \in Reader : rd[r] # Idle})
    BY <1>1, <2>2 DEF Inv, Called, InFlight, Count
  <2>5. ReadsAccounted(Started - declined)
    <3>1. /\ Started = declined + hits + misses + Judging /\ declined \in Nat
          /\ hits \in Nat /\ misses \in Nat /\ Judging \in Nat
      BY <1>1, CountNat DEF Inv, Reads, Judging
    <3>2. Started - declined = hits + misses + Judging
      BY <3>1
    <3> QED
      BY <1>1, <2>3, <3>2 DEF Inv, Reads, Judging, Loading, Count, ReadsAccounted
  <2>6. /\ \A d \in DOMAIN domains :
             \A o \in {"ok", "error"} :
               domains[d][o] = SumOver({u \in Url : DomainOf[u] = d}, o)
        /\ \A o \in {"ok", "error"} :
             overflow[o] = SumOver({u \in Url : DomainOf[u] \notin DOMAIN domains}, o)
        /\ errors["read_url"] + errors["url_metadata"] = SumOver(Url, "error")
    BY <1>1 DEF Inv, Summed, Entered, SumOver, Fetches, AddressesOf, Untracked, Outcomes
  <2>7. /\ total \in [Tools -> 0..MaxCalls] /\ errors \in [Tools -> 0..MaxCalls]
    <3>1. /\ total \in [Tools -> Nat] /\ errors \in [Tools -> Nat] /\ Started <= Calls
          /\ \A t \in Tools : errors[t] + Count(rd, Busy, Using(t)) <= total[t]
      BY <1>1 DEF Inv, Called
    <3>2. Calls \in Nat /\ MaxCalls \in Nat /\ Calls <= MaxCalls
      BY ToolsAssumption DEF Calls
    <3>3. "read_url" \in Tools /\ "url_metadata" \in Tools /\ Tools = {"read_url", "url_metadata"}
      BY DEF Tools
    <3>4. total["read_url"] <= MaxCalls /\ total["url_metadata"] <= MaxCalls
      BY <3>1, <3>2, <3>3 DEF Started
    <3>5. ASSUME NEW t \in Tools PROVE total[t] \in 0..MaxCalls /\ errors[t] \in 0..MaxCalls
      <4>1. total[t] \in Nat /\ total[t] <= MaxCalls /\ errors[t] \in Nat
        BY <3>1, <3>3, <3>4
      <4>2. errors[t] + Count(rd, Busy, Using(t)) <= total[t] /\ Count(rd, Busy, Using(t)) \in Nat
        BY <3>1, CountNat DEF Using
      <4>3. errors[t] <= MaxCalls
        BY <3>2, <4>1, <4>2
      <4> QED
        BY <3>2, <4>1, <4>3
    <3> QED
      BY <3>1, <3>5
  <2>8. CacheTypeOK
    <3>1. now \in 0..MaxTime /\ page \in [Url -> DOMAIN site.docs]
      BY <1>1 DEF Inv, Origins
    <3>2. /\ Len(cache) <= CacheMaxEntries
          /\ \A i, j \in DOMAIN cache : cache[i].key = cache[j].key => i = j
      BY <1>1 DEF Inv, Copied, CacheTrue, LruOK
    <3>3. \A r \in Reader : rd[r].pc \in {"idle", "judge", "fetch", "load", "done"}
      BY <2>1 DEF Idle, Busy
    <3> QED
      BY <3>1, <3>2, <3>3 DEF CacheTypeOK
  <2>9. /\ DOMAIN domains \subseteq {DomainOf[u] : u \in Url}
        /\ Cardinality(DOMAIN domains) <= MaxTrackedDomains
        /\ missed \subseteq {r \in Reader : rd[r].pc = "done"}
    BY <1>1 DEF Inv, Table, Called, At
  <2> QED
    BY <2>4, <2>5, <2>6, <2>7, <2>8, <2>9 DEF CallsAccounted, TypeOK
<1> QED
  BY <1>1, FetchInvariant, PTL

-----------------------------------------------------------------------------
(* What is read of a document, and how it travels.                          *)

(* Where the walk over the elements begins, and g is it, turn by turn. *)
Doorway == [stack |-> <<0>>, detached |-> {}]
Walk(doc, g, n) ==
  g = [turn \in 0..n |-> IF turn = 0 THEN Doorway ELSE VisitNode(doc, g[turn - 1])]

(* There is such a walk. *)
LEMMA WalkExists ==
  ASSUME NEW doc, NEW n \in Nat
  PROVE  \E g : Walk(doc, g, n)
<1> DEFINE X == {k \in 0..n : \E g : Walk(doc, g, k)}
<1>1. 0 \in X
  <2> DEFINE g == [turn \in 0..0 |-> Doorway]
  <2>1. Walk(doc, g, 0)
    BY DEF Walk
  <2> QED
    BY <2>1
<1>2. ASSUME NEW k \in 1..n, k - 1 \in X PROVE k \in X
  <2>1. PICK h : Walk(doc, h, k - 1)
    BY <1>2
  <2> DEFINE last == VisitNode(doc, h[k - 1])
             g == [turn \in 0..k |-> IF turn = k THEN last ELSE h[turn]]
  <2> HIDE DEF last
  <2>2. ASSUME NEW turn \in 0..k
        PROVE  g[turn] = IF turn = 0 THEN Doorway ELSE VisitNode(doc, g[turn - 1])
    <3>1. CASE turn = 0
      <4>1. h[0] = Doorway
        <5>1. 0 \in 0..(k - 1)
          OBVIOUS
        <5> QED
          BY <2>1, <5>1 DEF Walk
      <4>2. g[turn] = h[0]
        BY <3>1
      <4> QED
        BY <3>1, <4>1, <4>2
    <3>2. CASE turn # 0 /\ turn # k
      <4>1. turn \in 0..(k - 1) /\ turn - 1 \in 0..k /\ turn - 1 # k
        BY <3>2
      <4>2. h[turn] = VisitNode(doc, h[turn - 1])
        BY <2>1, <3>2, <4>1 DEF Walk
      <4>3. g[turn] = h[turn] /\ g[turn - 1] = h[turn - 1]
        BY <3>2, <4>1
      <4> QED
        BY <3>2, <4>2, <4>3
    <3>3. CASE turn = k
      <4>1. k - 1 \in 0..k /\ k - 1 # k /\ k # 0
        OBVIOUS
      <4>2. g[k] = last /\ g[k - 1] = h[k - 1]
        BY <4>1
      <4> QED
        BY <3>3, <4>1, <4>2 DEF last
    <3> QED
      BY <3>1, <3>2, <3>3
  <2>3. Walk(doc, g, k)
    <3>1. g = [turn \in 0..k |-> g[turn]]
      OBVIOUS
    <3> HIDE DEF g
    <3> QED
      BY <2>2, <3>1 DEF Walk
  <2> QED
    BY <2>3
<1>3. Upward(X, n)
  <2> HIDE DEF X
  <2> QED
    BY <1>2 DEF Upward
<1> HIDE DEF X
<1>4. 0..n \subseteq X
  BY <1>1, <1>3, Climbs
<1> QED
  BY <1>4 DEF X

(* A style of declarations, some of them important. *)
Declares(style, S) == style \in Seq(S) /\ \A i \in DOMAIN style : style[i].important \in BOOLEAN

(* The declarations of prop among the first n that the cascade chooses from. *)
Of(style, prop, n, imp) == {j \in 1..n : style[j].prop = prop /\ style[j].important = imp}
From(style, prop, n) ==
  IF Of(style, prop, n, TRUE) # {} THEN Of(style, prop, n, TRUE) ELSE Of(style, prop, n, FALSE)

(* d is the last of them, or none. *)
Chosen(style, prop, n, d) ==
  \/ From(style, prop, n) = {} /\ d = NoDecl
  \/ \E m \in From(style, prop, n) : (\A j \in From(style, prop, n) : j <= m) /\ d = style[m]

(* What one declaration more does to the choice. *)
LEMMA ChosenNext ==
  ASSUME NEW S, NEW style, Declares(style, S), NEW prop, NEW n \in 1..Len(style),
         NEW d, Chosen(style, prop, n - 1, d)
  PROVE  Chosen(style, prop, n, IF style[n].prop # prop \/ (d.important /\ ~style[n].important)
                                  THEN d ELSE style[n])
<1> DEFINE imp(k, b) == Of(style, prop, k, b)
           x == style[n]
<1>1. /\ n \in Nat /\ n - 1 \in Nat /\ n \in 1..n /\ x.important \in BOOLEAN
      /\ \A j \in 1..n : j <= n /\ (j = n \/ j \in 1..(n - 1))
      /\ \A j \in 1..(n - 1) : j \in 1..n /\ j # n /\ j <= n
  BY LenProperties DEF Declares
<1>2. \A b : imp(n, b) = imp(n - 1, b) \cup (IF x.prop = prop /\ x.important = b THEN {n} ELSE {})
  BY <1>1 DEF Of
<1>3. \A b : imp(n - 1, b) \subseteq 1..(n - 1) /\ imp(n, b) \subseteq 1..n
  BY <1>1 DEF Of
<1>4. CASE x.prop # prop
  <2>1. imp(n, TRUE) = imp(n - 1, TRUE) /\ imp(n, FALSE) = imp(n - 1, FALSE)
    BY <1>2, <1>4
  <2>2. From(style, prop, n) = From(style, prop, n - 1)
    BY <2>1 DEF From
  <2> QED
    BY <1>4, <2>2 DEF Chosen
<1>5. CASE x.prop = prop /\ x.important = TRUE
  <2>1. n \in imp(n, TRUE)
    BY <1>2, <1>5
  <2>2. From(style, prop, n) = imp(n, TRUE)
    BY <2>1 DEF From
  <2>3. n \in From(style, prop, n) /\ From(style, prop, n) \subseteq 1..n
    BY <1>3, <2>1, <2>2, Zenon
  <2>4. \A j \in From(style, prop, n) : j <= n
    BY <1>1, <2>3
  <2> QED
    BY <1>5, <2>3, <2>4 DEF Chosen
<1>6. CASE x.prop = prop /\ x.important = FALSE /\ imp(n - 1, TRUE) # {}
  <2>5. ~(x.important = TRUE)
    BY <1>6
  <2>1. imp(n, TRUE) = imp(n - 1, TRUE)
    BY <1>2, <2>5
  <2>2. From(style, prop, n) = imp(n - 1, TRUE) /\ From(style, prop, n - 1) = imp(n - 1, TRUE)
    BY <1>6, <2>1 DEF From
  <2>3. PICK m \in imp(n - 1, TRUE) : d = style[m]
    BY <1>6, <2>2 DEF Chosen
  <2>4. d.important
    BY <2>3 DEF Of
  <2> QED
    BY <1>6, <2>2, <2>4 DEF Chosen
<1>7. CASE x.prop = prop /\ x.important = FALSE /\ imp(n - 1, TRUE) = {}
  <2>1. imp(n, TRUE) = {} /\ n \in imp(n, FALSE)
    BY <1>2, <1>7
  <2>2. From(style, prop, n) = imp(n, FALSE) /\ From(style, prop, n - 1) = imp(n - 1, FALSE)
    BY <1>7, <2>1 DEF From
  <2>3. n \in From(style, prop, n) /\ From(style, prop, n) \subseteq 1..n
    BY <1>3, <2>1, <2>2, Zenon
  <2>4. \A j \in From(style, prop, n) : j <= n
    BY <1>1, <2>3
  <2>5. d.important = FALSE
    <3>1. CASE d = NoDecl
      BY <3>1 DEF NoDecl
    <3>2. CASE \E m \in imp(n - 1, FALSE) : d = style[m]
      BY <3>2 DEF Of
    <3> QED
      BY <2>2, <3>1, <3>2 DEF Chosen
  <2> QED
    BY <1>7, <2>3, <2>4, <2>5 DEF Chosen
<1> HIDE DEF x
<1> QED
  BY <1>1, <1>4, <1>5, <1>6, <1>7 DEF x

(* The declaration that wins is the one the cascade applies. *)
LEMMA FinalIsApplied ==
  ASSUME NEW S, NEW style, Declares(style, S), NEW prop
  PROVE  Final(style, prop) = Applied(style, prop)
<1> DEFINE n == Len(style)
           D == S \cup {NoDecl}
           next(d, x) == IF x.prop # prop \/ (d.important /\ ~x.important) THEN d ELSE x
           step == [p \in D \X S |-> next(p[1], p[2])]
           Is(f) == f = [i \in 0..n |-> IF i = 0 THEN NoDecl ELSE next(f[i - 1], style[i])]
           won == CHOOSE f : Is(f)
<1>1. /\ style \in Seq(S) /\ n \in Nat /\ NoDecl \in D /\ DOMAIN style = 1..n
      /\ \A i \in 1..n : style[i] \in S
  BY LenProperties, ElementOfSeq DEF Declares
<1>2. step \in [D \X S -> D]
  OBVIOUS
<1>3. Final(style, prop) = won[n]
  BY DEF Final
<1> HIDE DEF n
<1>4. PICK g : Reaches(g, D, S, step, NoDecl, style)
  <2> HIDE DEF D, step
  <2> QED
    BY <1>1, <1>2, StepsExist
<1>5. /\ g \in [0..n -> D] /\ g[0] = NoDecl
      /\ \A k \in 1..n : g[k] = next(g[k - 1], style[k])
  <2>1. /\ g \in [0..n -> D] /\ g[0] = NoDecl
        /\ \A k \in 1..n : g[k] = step[<<g[k - 1], style[k]>>]
    BY <1>4 DEF Reaches, n
  <2>2. ASSUME NEW k \in 1..n PROVE g[k] = next(g[k - 1], style[k])
    <3>1. k - 1 \in 0..n /\ style[k] \in S
      BY <1>1
    <3>2. <<g[k - 1], style[k]>> \in D \X S
      BY <2>1, <3>1
    <3> QED
      BY <2>1, <3>2
  <2> QED
    BY <2>1, <2>2
<1> HIDE DEF D, step, next
<1>6. Is(g)
  <2>1. g = [k \in 0..n |-> g[k]]
    BY <1>5
  <2>2. ASSUME NEW k \in 0..n
        PROVE  g[k] = IF k = 0 THEN NoDecl ELSE next(g[k - 1], style[k])
    <3>1. k # 0 => k \in 1..n
      BY <1>1
    <3> QED
      BY <1>5, <3>1
  <2> QED
    BY <2>1, <2>2
<1>7. Is(won)
  BY <1>6
<1> HIDE DEF won
<1> DEFINE X == {k \in 0..n : Chosen(style, prop, k, won[k])}
<1>8. 0 \in X
  <2>1. 0 \in 0..n /\ won[0] = NoDecl
    BY <1>1, <1>7
  <2>2. From(style, prop, 0) = {}
    BY DEF From, Of
  <2> QED
    BY <2>1, <2>2 DEF Chosen
<1>9. ASSUME NEW k \in 1..n, k - 1 \in X PROVE k \in X
  <2>1. k \in 0..n /\ won[k] = next(won[k - 1], style[k])
    BY <1>1, <1>7
  <2>2. Chosen(style, prop, k - 1, won[k - 1])
    BY <1>9
  <2>3. Chosen(style, prop, k, next(won[k - 1], style[k]))
    BY <2>2, ChosenNext DEF next, n
  <2> QED
    BY <2>1, <2>3
<1>10. Chosen(style, prop, n, won[n])
  <2> HIDE DEF X
  <2>1. Upward(X, n)
    BY <1>9 DEF Upward
  <2>2. 0..n \subseteq X /\ n \in 0..n
    BY <1>1, <1>8, <2>1, Climbs
  <2> QED
    BY <2>2 DEF X
<1> DEFINE from == From(style, prop, n)
<1>11. Applied(style, prop) = IF from = {} THEN NoDecl
                              ELSE style[CHOOSE i \in from : \A j \in from : j <= i]
  BY <1>1 DEF Applied, From, Of
<1>12. from \subseteq Nat
  BY <1>1 DEF From, Of
<1> HIDE DEF from
<1>13. CASE from = {}
  BY <1>3, <1>10, <1>11, <1>13 DEF Chosen, from
<1>14. CASE from # {}
  <2>1. PICK m \in from : (\A j \in from : j <= m) /\ won[n] = style[m]
    BY <1>10, <1>14 DEF Chosen, from
  <2>2. \A i \in from : (\A j \in from : j <= i) => i = m
    BY <1>12, <2>1
  <2>3. (CHOOSE i \in from : \A j \in from : j <= i) = m
    BY <2>1, <2>2
  <2> QED
    BY <1>3, <1>11, <1>14, <2>1, <2>3
<1> QED
  BY <1>13, <1>14

(* An element whose styles are styles. *)
Styled(e) == \A i \in DOMAIN e.attrs :
               e.attrs[i].key = "style" => \E S : Declares(e.attrs[i].val, S)

(* What is removed as hidden is what a reader does not see. *)
LEMMA HiddenIsUnseen ==
  ASSUME NEW e, Styled(e)
  PROVE  IsHiddenElement(e) <=> Unseen(e)
<1>1. ASSUME NEW i \in DOMAIN e.attrs
      PROVE  HidingAttr(e.tag, e.attrs[i]) <=> UnseenBy(e.tag, e.attrs[i].key, e.attrs[i].val)
  <2> DEFINE a == e.attrs[i]
             key == a.key
             val == a.val
  <2>1. CASE key = "style"
    <3>1. PICK S : Declares(val, S)
      BY <2>1 DEF Styled
    <3>2. \A prop : Final(val, prop) = Applied(val, prop)
      BY <3>1, FinalIsApplied
    <3> HIDE DEF val
    <3>3. InlineStyleHides(val) <=> \/ Final(val, "display").val = "none"
                                    \/ Final(val, "visibility").val \in {"hidden", "collapse"}
                                    \/ Final(val, "opacity").val = "zero"
                                    \/ Final(val, "font-size").val = "zero"
      BY DEF InlineStyleHides, Collapsing
    <3>4. HidingAttr(e.tag, a) <=> InlineStyleHides(val)
      BY <2>1 DEF HidingAttr, val
    <3>5. UnseenBy(e.tag, key, val) <=> \/ Applied(val, "display").val = "none"
                                        \/ Applied(val, "visibility").val \in {"hidden", "collapse"}
                                        \/ Applied(val, "opacity").val = "zero"
                                        \/ Applied(val, "font-size").val = "zero"
      BY <2>1 DEF UnseenBy
    <3> QED
      BY <3>2, <3>3, <3>4, <3>5 DEF val
  <2>2. CASE key # "style"
    BY <2>2 DEF HidingAttr, UnseenBy
  <2> QED
    BY <2>1, <2>2
<1> QED
  BY <1>1 DEF IsHiddenElement, Unseen

(* A document in which every element's parent comes before it. *)
Tree(doc) == \A k \in DOMAIN doc : doc[k].parent \in 0..(k - 1)

(* g is the line of ancestors of the elements up to n. *)
Lines(doc, g, n) == g = [k \in 0..n |-> IF k = 0 THEN {} ELSE {k} \cup g[doc[k].parent]]

(* There is such a line. *)
LEMMA LinesExist ==
  ASSUME NEW S, NEW doc \in Seq(S), Tree(doc), NEW n \in 0..Len(doc)
  PROVE  \E g : Lines(doc, g, n)
<1> DEFINE X == {k \in 0..n : \E g : Lines(doc, g, k)}
<1>1. n \in Nat /\ Len(doc) \in Nat /\ DOMAIN doc = 1..Len(doc)
  BY LenProperties
<1>2. 0 \in X
  <2> DEFINE g == [k \in 0..0 |-> {}]
  <2>1. Lines(doc, g, 0)
    BY DEF Lines
  <2> QED
    BY <1>1, <2>1
<1>3. ASSUME NEW k \in 1..n, k - 1 \in X PROVE k \in X
  <2>1. PICK h : Lines(doc, h, k - 1)
    BY <1>3
  <2> DEFINE own == {k} \cup h[doc[k].parent]
             g == [m \in 0..k |-> IF m = k THEN own ELSE h[m]]
  <2> HIDE DEF own
  <2>2. ASSUME NEW m \in 0..k
        PROVE  g[m] = IF m = 0 THEN {} ELSE {m} \cup g[doc[m].parent]
    <3>1. /\ k \in 0..k /\ k # 0
          /\ m # k => m \in 0..(k - 1)
          /\ m # 0 => m \in DOMAIN doc
      BY <1>1
    <3>2. ASSUME m # 0 PROVE doc[m].parent \in 0..k /\ doc[m].parent # k
      <4>1. doc[m].parent \in 0..(m - 1)
        BY <3>1, <3>2 DEF Tree
      <4> QED
        BY <4>1
    <3>3. CASE m = k
      BY <3>1, <3>2, <3>3 DEF own
    <3>4. CASE m # k
      <4>1. h[m] = IF m = 0 THEN {} ELSE {m} \cup h[doc[m].parent]
        BY <2>1, <3>1, <3>4 DEF Lines
      <4> QED
        BY <3>2, <3>4, <4>1
    <3> QED
      BY <3>3, <3>4
  <2>3. Lines(doc, g, k)
    <3>1. g = [m \in 0..k |-> g[m]]
      OBVIOUS
    <3> HIDE DEF g
    <3> QED
      BY <2>2, <3>1 DEF Lines
  <2> QED
    BY <1>1, <2>3
<1>4. n \in X
  <2>1. Upward(X, n)
    <3> HIDE DEF X
    <3> QED
      BY <1>3 DEF Upward
  <2> HIDE DEF X
  <2>2. 0..n \subseteq X
    BY <1>1, <1>2, <2>1, Climbs
  <2> QED
    BY <1>1, <2>2
<1> QED
  BY <1>4

(* Whatever element it is read for, a line gives the same. *)
LEMMA LinesAgree ==
  ASSUME NEW S, NEW doc \in Seq(S), Tree(doc), NEW m \in 0..Len(doc), NEW n \in m..Len(doc),
         NEW g, Lines(doc, g, m), NEW h, Lines(doc, h, n)
  PROVE  g[m] = h[m]
<1> DEFINE T == {k \in 0..m : g[k] # h[k]}
<1>1. m \in Nat /\ n \in Nat /\ Len(doc) \in Nat /\ DOMAIN doc = 1..Len(doc)
  BY LenProperties
<1>2. T = {}
  <2> SUFFICES ASSUME T # {} PROVE FALSE
    OBVIOUS
  <2>1. T \in SUBSET Nat
    BY <1>1
  <2>2. PICK k \in T : \A j \in T : k <= j
    <3> HIDE DEF T
    <3> QED
      BY <2>1, LeastElement
  <2>3. k \in 0..m /\ k \in 0..n /\ g[k] # h[k]
    BY <1>1, <2>2
  <2>4. /\ g[k] = IF k = 0 THEN {} ELSE {k} \cup g[doc[k].parent]
        /\ h[k] = IF k = 0 THEN {} ELSE {k} \cup h[doc[k].parent]
    BY <2>3 DEF Lines
  <2>5. k # 0
    BY <2>3, <2>4
  <2>6. k \in DOMAIN doc
    BY <1>1, <2>3, <2>5
  <2> DEFINE p == doc[k].parent
  <2>7. p \in 0..(k - 1)
    BY <2>6 DEF Tree
  <2> HIDE DEF p
  <2>8. p \in 0..m /\ ~(k <= p)
    BY <1>1, <2>3, <2>7
  <2>9. p \notin T
    <3> HIDE DEF T
    <3> QED
      BY <2>2, <2>8
  <2>10. g[p] = h[p]
    BY <2>8, <2>9
  <2> QED
    BY <2>3, <2>4, <2>5, <2>10 DEF p
<1>3. m \in 0..m
  BY <1>1
<1> QED
  BY <1>2, <1>3

(* An element's line is the element and its parent's line. *)
LEMMA AncestorsAre ==
  ASSUME NEW S, NEW doc \in Seq(S), Tree(doc)
  PROVE  /\ WithAncestors(doc, 0) = {}
         /\ \A n \in DOMAIN doc :
              WithAncestors(doc, n) = {n} \cup WithAncestors(doc, doc[n].parent)
<1> DEFINE line(n) == CHOOSE g : Lines(doc, g, n)
<1>1. Len(doc) \in Nat /\ DOMAIN doc = 1..Len(doc)
  BY LenProperties
<1>2. \A n : WithAncestors(doc, n) = line(n)[n]
  BY DEF WithAncestors, Lines
<1>3. \A n \in 0..Len(doc) : Lines(doc, line(n), n)
  BY LinesExist
<1> HIDE DEF line
<1>4. WithAncestors(doc, 0) = {}
  <2>1. Lines(doc, line(0), 0) /\ 0 \in 0..0
    BY <1>1, <1>3
  <2>2. line(0)[0] = {}
    BY <2>1 DEF Lines
  <2> QED
    BY <1>2, <2>2
<1>5. ASSUME NEW n \in DOMAIN doc
      PROVE  WithAncestors(doc, n) = {n} \cup WithAncestors(doc, doc[n].parent)
  <2> DEFINE p == doc[n].parent
  <2>1. p \in 0..(n - 1)
    BY DEF Tree
  <2>2. n \in 1..Len(doc) /\ n \in 0..n /\ n # 0 /\ n \in 0..Len(doc)
    BY <1>1
  <2> HIDE DEF p
  <2>3. p \in 0..Len(doc) /\ n \in p..Len(doc)
    BY <1>1, <2>1, <2>2
  <2>4. Lines(doc, line(n), n) /\ Lines(doc, line(p), p)
    BY <1>3, <2>2, <2>3
  <2>5. line(n)[n] = {n} \cup line(n)[p]
    BY <2>2, <2>4 DEF Lines, p
  <2>6. line(p)[p] = line(n)[p]
    BY <2>3, <2>4, LinesAgree
  <2> QED
    BY <1>2, <2>5, <2>6 DEF p
<1> QED
  BY <1>4, <1>5

(* Shown is passed on from parents. *)
LEMMA ShownIs ==
  ASSUME NEW S, NEW doc \in Seq(S), Tree(doc)
  PROVE  /\ Shown(doc, 0)
         /\ \A n \in DOMAIN doc :
              Shown(doc, n) <=> ~Unseen(doc[n]) /\ Shown(doc, doc[n].parent)
<1>1. /\ WithAncestors(doc, 0) = {}
      /\ \A n \in DOMAIN doc :
           WithAncestors(doc, n) = {n} \cup WithAncestors(doc, doc[n].parent)
  BY AncestorsAre
<1> QED
  BY <1>1 DEF Shown

(* Hiding acts hide exactly what is not shown. *)
LEMMA ActsHide ==
  ASSUME NEW S, NEW doc \in Seq(S), Tree(doc), NEW n \in 0..Len(doc)
  PROVE  WithAncestors(doc, n) \cap HidingActs(doc) = {} <=> Shown(doc, n)
<1> DEFINE H == HidingActs(doc)
           clear(k) == WithAncestors(doc, k) \cap H = {}
           T == {k \in 0..Len(doc) : ~(clear(k) <=> Shown(doc, k))}
<1>1. Len(doc) \in Nat /\ DOMAIN doc = 1..Len(doc)
  BY LenProperties
<1>2. T = {}
  <2> SUFFICES ASSUME T # {} PROVE FALSE
    OBVIOUS
  <2>1. T \in SUBSET Nat
    BY <1>1
  <2>2. PICK k \in T : \A j \in T : k <= j
    <3> HIDE DEF T
    <3> QED
      BY <2>1, LeastElement
  <2>3. k \in 0..Len(doc) /\ ~(clear(k) <=> Shown(doc, k))
    BY <2>2
  <2>4. k # 0
    BY <2>3, AncestorsAre, ShownIs
  <2>5. k \in DOMAIN doc
    BY <1>1, <2>3, <2>4
  <2> DEFINE p == doc[k].parent
  <2>6. p \in 0..(k - 1)
    BY <2>5 DEF Tree
  <2>7. WithAncestors(doc, k) = {k} \cup WithAncestors(doc, p)
    BY <2>5, AncestorsAre
  <2>8. Shown(doc, k) <=> ~Unseen(doc[k]) /\ Shown(doc, p)
    BY <2>5, ShownIs
  <2>9. k \in H <=> Unseen(doc[k]) /\ Shown(doc, p)
    BY <2>5, ShownIs DEF HidingActs
  <2> HIDE DEF p, H
  <2>10. p \in 0..Len(doc) /\ ~(k <= p)
    BY <1>1, <2>3, <2>6
  <2>11. p \notin T
    <3> HIDE DEF T
    <3> QED
      BY <2>2, <2>10
  <2>12. clear(p) <=> Shown(doc, p)
    BY <2>10, <2>11
  <2>13. clear(k) <=> k \notin H /\ clear(p)
    BY <2>7
  <2> QED
    BY <2>3, <2>8, <2>9, <2>12, <2>13
<1> QED
  BY <1>2

(* Without what a person does not see, the text is what a person sees. *)
LEMMA SeenIsLeft ==
  ASSUME NEW S, NEW doc \in Seq(S), Tree(doc)
  PROVE  TextWithout(doc, HidingActs(doc)) = SeenText(doc)
<1>1. DOMAIN doc = 1..Len(doc) /\ Len(doc) \in Nat
  BY LenProperties
<1>2. \A n \in DOMAIN doc : WithAncestors(doc, n) \cap HidingActs(doc) = {} <=> Shown(doc, n)
  <2>1. \A n \in DOMAIN doc : n \in 0..Len(doc)
    BY <1>1
  <2> QED
    BY <2>1, ActsHide
<1>3. [n \in DOMAIN doc |->
         IF WithAncestors(doc, n) \cap HidingActs(doc) = {} THEN doc[n].text ELSE <<>>]
      = [n \in DOMAIN doc |-> IF Shown(doc, n) THEN doc[n].text ELSE <<>>]
  BY <1>2
<1> QED
  BY <1>3 DEF TextWithout, SeenText

(* k is in the sequence s, and nothing is in it twice. *)
In(k, s) == \E i \in 1..Len(s) : s[i] = k
Once(s) == \A i, j \in 1..Len(s) : s[i] = s[j] => i = j

(* Two such sequences with nothing in common, one after the other. *)
LEMMA OnceJoined ==
  ASSUME NEW U, NEW s \in Seq(U), NEW t \in Seq(U), Once(s), Once(t),
         \A k : ~(In(k, s) /\ In(k, t))
  PROVE  Once(s \o t) /\ s \o t \in Seq(U) /\ \A k : In(k, s \o t) <=> In(k, s) \/ In(k, t)
<1> DEFINE m == Len(s)
           n == Len(t)
           j == s \o t
<1>1. /\ j \in Seq(U) /\ m \in Nat /\ n \in Nat /\ Len(j) = m + n
      /\ \A i \in 1..m : j[i] = s[i]
      /\ \A i \in 1..n : j[m + i] = t[i]
  BY Joined
<1> HIDE DEF m, n, j
<1>2. ASSUME NEW i \in 1..(m + n)
      PROVE  \/ i \in 1..m /\ j[i] = s[i] /\ In(j[i], s)
             \/ \E k \in 1..n : i = m + k /\ j[i] = t[k] /\ In(j[i], t)
  <2>1. CASE i <= m
    <3>1. i \in 1..m
      BY <1>1, <2>1
    <3> QED
      BY <1>1, <3>1 DEF In, m
  <2>2. CASE i > m
    <3>1. i - m \in 1..n /\ m + (i - m) = i
      BY <1>1, <2>2
    <3>2. j[m + (i - m)] = t[i - m]
      BY <1>1, <3>1
    <3>3. j[i] = t[i - m] /\ In(j[i], t)
      BY <3>1, <3>2 DEF In, n
    <3> QED
      BY <3>1, <3>3
  <2> QED
    BY <1>1, <2>1, <2>2
<1>3. ASSUME NEW a \in 1..(m + n), NEW b \in 1..(m + n), j[a] = j[b]
      PROVE  a = b
  <2>1. CASE a \in 1..m /\ j[a] = s[a] /\ In(j[a], s)
    <3>1. ~In(j[b], t)
      BY <1>3, <2>1
    <3>2. b \in 1..m /\ j[b] = s[b]
      BY <1>2, <3>1
    <3> QED
      BY <1>3, <2>1, <3>2 DEF Once, m
  <2>2. CASE \E k \in 1..n : a = m + k /\ j[a] = t[k] /\ In(j[a], t)
    <3>1. PICK k \in 1..n : a = m + k /\ j[a] = t[k] /\ In(j[a], t)
      BY <2>2
    <3>2. ~In(j[b], s)
      BY <1>3, <3>1
    <3>3. PICK l \in 1..n : b = m + l /\ j[b] = t[l]
      BY <1>2, <3>2
    <3>4. k = l
      BY <1>3, <3>1, <3>3 DEF Once, n
    <3> QED
      BY <3>1, <3>3, <3>4
  <2> QED
    BY <1>2, <2>1, <2>2
<1>4. ASSUME NEW k PROVE In(k, j) <=> In(k, s) \/ In(k, t)
  <2>1. ASSUME In(k, j) PROVE In(k, s) \/ In(k, t)
    <3>1. PICK i \in 1..Len(j) : j[i] = k
      BY <2>1 DEF In
    <3>2. i \in 1..(m + n)
      BY <1>1
    <3>3. In(j[i], s) \/ In(j[i], t)
      BY <1>2, <3>2
    <3> QED
      BY <3>1, <3>3
  <2>2. ASSUME In(k, s) PROVE In(k, j)
    <3>1. PICK i \in 1..m : s[i] = k
      BY <2>2 DEF In, m
    <3>2. i \in 1..(m + n) /\ j[i] = k
      BY <1>1, <3>1
    <3> QED
      BY <1>1, <3>2 DEF In
  <2>3. ASSUME In(k, t) PROVE In(k, j)
    <3>1. PICK i \in 1..n : t[i] = k
      BY <2>3 DEF In, n
    <3>2. m + i \in 1..(m + n) /\ j[m + i] = k
      BY <1>1, <3>1
    <3> QED
      BY <1>1, <3>2 DEF In
  <2> QED
    BY <2>1, <2>2, <2>3
<1>5. Once(j)
  BY <1>1, <1>3 DEF Once
<1> QED
  BY <1>1, <1>4, <1>5 DEF j

(* Elements put in order are those elements, each once. *)
LEMMA InOrderIs ==
  ASSUME NEW S, NEW doc \in Seq(S), NEW els \in SUBSET DOMAIN doc
  PROVE  /\ InOrder(doc, els) \in Seq(0..Len(doc)) /\ Once(InOrder(doc, els))
         /\ \A k : In(k, InOrder(doc, els)) <=> k \in els
<1> DEFINE N == Len(doc)
           U == 0..N
           one(i) == IF i \in els THEN <<i>> ELSE <<>>
           p(n) == [i \in 1..n |-> one(i)]
           Lists(q, n) == /\ q \in Seq(U) /\ Once(q)
                          /\ \A k : In(k, q) <=> k \in els /\ k \in 1..n
           X == {n \in 0..N : Lists(FlattenSeq(p(n)), n)}
<1>1. N \in Nat /\ DOMAIN doc = 1..N /\ els \subseteq 1..N
  BY LenProperties
<1> HIDE DEF N
<1>2. ASSUME NEW i \in 1..N
      PROVE  /\ one(i) \in Seq(U) /\ Once(one(i))
             /\ \A k : In(k, one(i)) <=> k \in els /\ k = i
  <2>1. i \in U
    BY <1>1
  <2> HIDE DEF U
  <2>2. /\ <<i>> \in Seq(U) /\ Len(<<i>>) = 1 /\ <<i>>[1] = i /\ <<>> \in Seq(U) /\ Len(<<>>) = 0
    BY <2>1, ShortSeqs, EmptySeq
  <2>3. CASE i \in els
    <3> DEFINE q == <<i>>
    <3>1. q \in Seq(U) /\ Len(q) = 1 /\ q[1] = i /\ one(i) = q
      BY <2>2, <2>3
    <3> HIDE DEF q, one
    <3>2. Once(q) /\ \A k : In(k, q) <=> k = i
      BY <3>1 DEF Once, In
    <3> QED
      BY <2>3, <3>1, <3>2
  <2>4. CASE i \notin els
    <3> DEFINE q == <<>>
    <3>1. q \in Seq(U) /\ Len(q) = 0 /\ one(i) = q
      BY <2>2, <2>4
    <3> HIDE DEF q, one
    <3>2. Once(q) /\ \A k : ~In(k, q)
      BY <3>1 DEF Once, In
    <3> QED
      BY <2>4, <3>1, <3>2
  <2> QED
    BY <2>3, <2>4
<1>3. ASSUME NEW n \in 0..N PROVE p(n) \in Seq(Seq(U)) /\ Len(p(n)) = n
  <2>1. \A i \in 1..n : i \in 1..N
    BY <1>1
  <2> HIDE DEF U, one
  <2>2. p(n) \in [1..n -> Seq(U)] /\ n \in Nat
    BY <1>1, <1>2, <2>1
  <2> HIDE DEF p
  <2> QED
    BY <2>2, ListIsSeq
<1> HIDE DEF one
<1>4. 0 \in X
  <2>1. p(0) = <<>>
    OBVIOUS
  <2> HIDE DEF p
  <2> DEFINE q == FlattenSeq(p(0))
  <2>2. q = <<>>
    BY <2>1, FlattenEmpty
  <2>3. q \in Seq(U) /\ Len(q) = 0
    BY <2>2, EmptySeq
  <2> HIDE DEF q, U
  <2>4. Lists(q, 0)
    BY <2>3 DEF Once, In
  <2> QED
    BY <1>1, <2>4 DEF q
<1>5. ASSUME NEW n \in 1..N, n - 1 \in X PROVE n \in X
  <2> DEFINE q == FlattenSeq(p(n - 1))
  <2>1. /\ n \in 0..N /\ n - 1 \in 0..N /\ (n - 1) + 1 = n /\ n \in 1..n
        /\ \A i \in 1..(n - 1) : i \in 1..n
        /\ \A i \in 1..n : i = n \/ i \in 1..(n - 1)
        /\ n \notin 1..(n - 1)
    BY <1>1
  <2>2. p(n)[n] = one(n) /\ \A i \in 1..(n - 1) : p(n)[i] = p(n - 1)[i]
    BY <2>1
  <2> HIDE DEF p, U
  <2>3. Lists(q, n - 1)
    BY <1>5
  <2>4. p(n) = Append(p(n - 1), one(n))
    <3> DEFINE W == Seq(U)
               a == p(n - 1)
               b == p(n)
               x == one(n)
    <3>1. a \in Seq(W) /\ b \in Seq(W) /\ x \in W /\ Len(b) = Len(a) + 1
      BY <1>2, <1>3, <2>1
    <3>2. (\A i \in 1..Len(a) : b[i] = a[i]) /\ b[Len(a) + 1] = x
      BY <1>3, <2>1, <2>2
    <3> HIDE DEF W, a, b, x
    <3>3. b = Append(a, x)
      BY <3>1, <3>2, AppendIs
    <3> QED
      BY <3>3 DEF a, b, x
  <2>5. FlattenSeq(p(n)) = q \o one(n)
    <3> DEFINE a == p(n - 1)
               x == one(n)
    <3>1. a \in Seq(Seq(U)) /\ x \in Seq(U)
      BY <1>2, <1>3, <2>1
    <3> HIDE DEF a, x
    <3>2. FlattenSeq(Append(a, x)) = FlattenSeq(a) \o x
      BY <3>1, FlattenAppend
    <3> QED
      BY <2>4, <3>2 DEF a, x
  <2>6. /\ q \in Seq(U) /\ Once(q) /\ one(n) \in Seq(U) /\ Once(one(n))
        /\ \A k : In(k, q) <=> k \in els /\ k \in 1..(n - 1)
        /\ \A k : In(k, one(n)) <=> k \in els /\ k = n
    BY <1>2, <2>3
  <2> HIDE DEF q
  <2>7. \A k : ~(In(k, q) /\ In(k, one(n)))
    BY <2>1, <2>6
  <2>8. /\ Once(q \o one(n)) /\ q \o one(n) \in Seq(U)
        /\ \A k : In(k, q \o one(n)) <=> In(k, q) \/ In(k, one(n))
    BY <2>6, <2>7, OnceJoined
  <2>9. \A k : k \in 1..n <=> k \in 1..(n - 1) \/ k = n
    BY <2>1
  <2>10. \A k : In(k, q \o one(n)) <=> k \in els /\ k \in 1..n
    BY <2>6, <2>8, <2>9
  <2>11. Lists(q \o one(n), n)
    BY <2>8, <2>10
  <2> QED
    BY <2>1, <2>5, <2>11
<1>6. N \in X
  <2> HIDE DEF X
  <2>1. Upward(X, N)
    BY <1>5 DEF Upward
  <2>2. 0..N \subseteq X
    BY <1>1, <1>4, <2>1, Climbs
  <2> QED
    BY <1>1, <2>2
<1>7. FlattenSeq(p(N)) = InOrder(doc, els)
  BY <1>1 DEF InOrder, one
<1> HIDE DEF p
<1>8. Lists(InOrder(doc, els), N)
  BY <1>6, <1>7
<1> QED
  BY <1>1, <1>8 DEF N

(* V are the nodes visited so far: the others that are known wait on the    *)
(* stack, and what is detached are the hidden children of the former.       *)
Visited(doc, st, V) ==
  /\ st.stack \in Seq(0..Len(doc)) /\ Once(st.stack)
  /\ V \subseteq 0..Len(doc) /\ \A k \in V : ~In(k, st.stack)
  /\ st.detached = {k \in DOMAIN doc : doc[k].parent \in V /\ IsHiddenElement(doc[k])}
  /\ \A k : (k \in V \/ In(k, st.stack)) <=>
              \/ k = 0
              \/ k \in DOMAIN doc /\ doc[k].parent \in V /\ ~IsHiddenElement(doc[k])

(* What leaves the stack has been visited. *)
LEMMA VisitOne ==
  ASSUME NEW S, NEW doc \in Seq(S), Tree(doc), NEW st, NEW V, Visited(doc, st, V),
         st.stack # <<>>
  PROVE  Last(st.stack) \in (0..Len(doc)) \ V
         /\ Visited(doc, VisitNode(doc, st), V \cup {Last(st.stack)})
<1> DEFINE N == Len(doc)
           U == 0..N
           x == Last(st.stack)
           f == Front(st.stack)
           W == V \cup {x}
           here == Children(doc, x)
           bad == {i \in here : IsHiddenElement(doc[i])}
           good == here \ bad
           c == InOrder(doc, good)
           t == VisitNode(doc, st)
           known(k, T) == \/ k = 0
                          \/ k \in DOMAIN doc /\ doc[k].parent \in T /\ ~IsHiddenElement(doc[k])
<1>1. N \in Nat /\ DOMAIN doc = 1..N
  BY LenProperties
<1>2. t.stack = f \o c /\ t.detached = st.detached \cup bad
  BY DEF VisitNode
<1>3. /\ st.stack \in Seq(U) /\ Once(st.stack) /\ V \subseteq U
      /\ \A k \in V : ~In(k, st.stack)
      /\ \A k : (k \in V \/ In(k, st.stack)) <=> known(k, V)
  BY DEF Visited
<1>4. here = {i \in DOMAIN doc : doc[i].parent = x} /\ good \in SUBSET DOMAIN doc
  BY DEF Children
<1> HIDE DEF N
<1>5. /\ f \in Seq(U) /\ Once(f) /\ x \in U /\ ~In(x, f)
      /\ \A k : In(k, st.stack) <=> In(k, f) \/ k = x
  <2> DEFINE s == st.stack
             n == Len(s)
  <2>1. s \in Seq(U) /\ s # <<>> /\ Once(s)
    BY <1>3
  <2>2. x = s[n] /\ f = SubSeq(s, 1, n - 1)
    BY DEF Last, Front
  <2> HIDE DEF s, U
  <2>3. n \in Nat /\ n # 0
    BY <2>1, LenProperties, EmptySeq
  <2> HIDE DEF x, f
  <2>4. /\ f \in Seq(U) /\ Len(f) = n - 1 /\ \A i \in 1..(n - 1) : f[i] = s[i]
    <3> DEFINE m == n - 1
    <3>1. m \in Nat /\ m <= Len(s)
      BY <2>3
    <3> HIDE DEF m
    <3>2. /\ SubSeq(s, 1, m) \in Seq(U) /\ Len(SubSeq(s, 1, m)) = m
          /\ \A i \in 1..m : SubSeq(s, 1, m)[i] = s[i]
      BY <2>1, <3>1, Prefix
    <3> QED
      BY <2>2, <3>2 DEF m
  <2>5. x \in U
    BY <2>1, <2>2, <2>3, ElementOfSeq
  <2>6. /\ \A i \in 1..(n - 1) : i \in 1..n /\ i # n
        /\ \A i \in 1..n : i = n \/ i \in 1..(n - 1)
        /\ n \in 1..n
    BY <2>3
  <2>7. \A i, j \in 1..n : s[i] = s[j] => i = j
    BY <2>1 DEF Once
  <2> HIDE DEF n
  <2>8. Once(f)
    BY <2>4, <2>6, <2>7 DEF Once
  <2>9. ~In(x, f)
    BY <2>2, <2>4, <2>6, <2>7 DEF In
  <2>10. \A k : In(k, s) <=> \E i \in 1..n : s[i] = k
    BY DEF In, n
  <2>11. \A k : In(k, f) <=> \E i \in 1..(n - 1) : s[i] = k
    BY <2>4 DEF In
  <2>12. ASSUME NEW k PROVE In(k, s) <=> In(k, f) \/ k = x
    BY <2>2, <2>6, <2>10, <2>11
  <2> QED
    BY <2>4, <2>5, <2>8, <2>9, <2>12 DEF s
<1>6. c \in Seq(U) /\ Once(c) /\ \A k : In(k, c) <=> k \in good
  BY <1>4, InOrderIs DEF N
<1> HIDE DEF x, f, c, U
<1>7. x \notin V
  BY <1>3, <1>5
<1>8. ASSUME NEW k \in here PROVE ~(k \in V \/ In(k, st.stack)) /\ k # 0
  <2>1. k \in DOMAIN doc /\ doc[k].parent = x /\ k # 0
    BY <1>1, <1>4
  <2> QED
    BY <1>3, <1>7, <2>1
<1> HIDE DEF here
<1>9. /\ Once(f \o c) /\ f \o c \in Seq(U)
      /\ \A k : In(k, f \o c) <=> In(k, f) \/ In(k, c)
  <2>1. \A k : ~(In(k, f) /\ In(k, c))
    BY <1>5, <1>6, <1>8
  <2> QED
    BY <1>5, <1>6, <2>1, OnceJoined
<1>10. W \subseteq U /\ \A k \in W : ~In(k, f \o c)
  <2>1. W \subseteq U
    BY <1>3, <1>5
  <2>2. ASSUME NEW k \in W PROVE ~In(k, f) /\ ~In(k, c)
    BY <1>3, <1>5, <1>6, <1>8
  <2> QED
    BY <1>9, <2>1, <2>2
<1>11. t.detached = {k \in DOMAIN doc : doc[k].parent \in W /\ IsHiddenElement(doc[k])}
  <2>1. st.detached = {k \in DOMAIN doc : doc[k].parent \in V /\ IsHiddenElement(doc[k])}
    BY DEF Visited
  <2> HIDE DEF t
  <2> QED
    BY <1>2, <1>4, <2>1
<1>12. ASSUME NEW k PROVE (k \in W \/ In(k, f \o c)) <=> known(k, W)
  <2>1. (k \in W \/ In(k, f \o c)) <=> (k \in V \/ In(k, st.stack)) \/ k \in good
    BY <1>5, <1>6, <1>9
  <2>2. known(k, W) <=> known(k, V) \/ k \in good
    BY <1>4
  <2> QED
    BY <1>3, <2>1, <2>2
<1> HIDE DEF t, W
<1>13. Visited(doc, t, W)
  BY <1>2, <1>9, <1>10, <1>11, <1>12 DEF Visited, U, N
<1> QED
  BY <1>5, <1>7, <1>13 DEF t, W, x, U, N

(* When everything has been visited, what is detached are the hiding acts. *)
LEMMA VisitedAll ==
  ASSUME NEW S, NEW doc \in Seq(S), Tree(doc), \A k \in DOMAIN doc : Styled(doc[k]),
         NEW st, NEW V, Visited(doc, st, V), st.stack = <<>>
  PROVE  st.detached = HidingActs(doc)
<1> DEFINE N == Len(doc)
           T == {k \in 0..N : ~(k \in V <=> Shown(doc, k))}
<1>1. N \in Nat /\ DOMAIN doc = 1..N
  BY LenProperties
<1>2. \A k : ~In(k, st.stack)
  BY EmptySeq DEF In
<1>3. \A k : k \in V <=> \/ k = 0
                         \/ k \in DOMAIN doc /\ doc[k].parent \in V /\ ~IsHiddenElement(doc[k])
  BY <1>2 DEF Visited
<1>4. \A k \in DOMAIN doc : IsHiddenElement(doc[k]) <=> Unseen(doc[k])
  BY HiddenIsUnseen
<1> HIDE DEF N
<1>5. T = {}
  <2> SUFFICES ASSUME T # {} PROVE FALSE
    OBVIOUS
  <2>1. T \in SUBSET Nat
    BY <1>1
  <2>2. PICK k \in T : \A j \in T : k <= j
    <3> HIDE DEF T
    <3> QED
      BY <2>1, LeastElement
  <2>3. k \in 0..N /\ ~(k \in V <=> Shown(doc, k))
    BY <2>2
  <2>4. k # 0
    BY <1>3, <2>3, ShownIs
  <2>5. k \in DOMAIN doc
    BY <1>1, <2>3, <2>4
  <2> DEFINE p == doc[k].parent
  <2>6. p \in 0..(k - 1)
    BY <2>5 DEF Tree
  <2>7. Shown(doc, k) <=> ~Unseen(doc[k]) /\ Shown(doc, p)
    BY <2>5, ShownIs
  <2>8. k \in V <=> p \in V /\ ~IsHiddenElement(doc[k])
    BY <1>3, <2>4, <2>5
  <2> HIDE DEF p
  <2>9. p \in 0..N /\ ~(k <= p)
    BY <1>1, <2>3, <2>6
  <2>10. p \notin T
    <3> HIDE DEF T
    <3> QED
      BY <2>2, <2>9
  <2>11. p \in V <=> Shown(doc, p)
    BY <2>9, <2>10
  <2> QED
    BY <1>4, <2>3, <2>5, <2>7, <2>8, <2>11
<1>6. ASSUME NEW k \in DOMAIN doc
      PROVE  doc[k].parent \in V <=> doc[k].parent = 0 \/ Shown(doc, doc[k].parent)
  <2> DEFINE p == doc[k].parent
  <2>1. p \in 0..(k - 1) /\ k \in 1..N
    BY <1>1 DEF Tree
  <2> HIDE DEF p
  <2>2. p \in 0..N
    BY <1>1, <2>1
  <2>3. p \in V <=> Shown(doc, p)
    BY <1>5, <2>2
  <2>4. p = 0 => Shown(doc, p)
    BY ShownIs
  <2>5. p \in V <=> p = 0 \/ Shown(doc, p)
    BY <2>3, <2>4
  <2> QED
    BY <2>5 DEF p
<1>7. st.detached = {k \in DOMAIN doc : doc[k].parent \in V /\ IsHiddenElement(doc[k])}
  BY DEF Visited
<1> QED
  BY <1>4, <1>6, <1>7 DEF HidingActs

(* removeHiddenNodes detaches exactly the hiding acts, and comes to an end. *)
LEMMA RemovesExactly ==
  ASSUME NEW S, NEW doc \in Seq(S), Tree(doc), \A k \in DOMAIN doc : Styled(doc[k])
  PROVE  /\ RemoveHiddenNodes(doc) = HidingActs(doc)
         /\ IsFiniteSet(HidingActs(doc)) /\ Cardinality(HidingActs(doc)) \in Nat
<1> DEFINE N == Len(doc)
           n == N + 1
           st == CHOOSE g : Walk(doc, g, n)
           Known(V) == IsFiniteSet(V) /\ Cardinality(V) \in Nat
           Far(s, V, k) == Known(V) /\ (s.stack = <<>> \/ Cardinality(V) = k)
           X == {k \in 0..n : \E V : Visited(doc, st[k], V) /\ Far(st[k], V, k)}
<1>1. N \in Nat /\ n \in Nat /\ DOMAIN doc = 1..N
  BY LenProperties
<1>2. RemoveHiddenNodes(doc) = st[n].detached
  BY DEF RemoveHiddenNodes, Walk, Doorway
<1> HIDE DEF N, n
<1>3. Walk(doc, st, n)
  BY <1>1, WalkExists
<1> HIDE DEF st
<1>4. 0 \in X
  <2> DEFINE s == <<0>>
  <2>1. st[0] = Doorway /\ 0 \in 0..n
    BY <1>1, <1>3 DEF Walk
  <2>2. s \in Seq(0..N) /\ Len(s) = 1 /\ s[1] = 0
    <3> DEFINE U == 0..N
    <3>1. 0 \in U
      BY <1>1
    <3> HIDE DEF U
    <3> QED
      BY <3>1, ShortSeqs DEF U
  <2>3. Doorway.stack = s /\ Doorway.detached = {}
    BY DEF Doorway
  <2> HIDE DEF s
  <2>4. Once(s) /\ \A k : In(k, s) <=> k = 0
    BY <2>2 DEF Once, In
  <2>5. Visited(doc, Doorway, {})
    BY <2>2, <2>3, <2>4 DEF Visited, N
  <2>6. Far(Doorway, {}, 0)
    BY FS_EmptySet
  <2> HIDE DEF Far
  <2> QED
    BY <2>1, <2>5, <2>6
<1>5. ASSUME NEW k \in 1..n, k - 1 \in X PROVE k \in X
  <2> DEFINE s == st[k - 1]
  <2>1. st[k] = VisitNode(doc, s) /\ k \in 0..n /\ k \in Nat
    BY <1>1, <1>3 DEF Walk
  <2>2. PICK V : Visited(doc, s, V) /\ Far(s, V, k - 1)
    BY <1>5
  <2> HIDE DEF s
  <2>3. CASE s.stack = <<>>
    <3>1. st[k] = s
      BY <2>1, <2>3 DEF VisitNode
    <3>2. Far(s, V, k)
      BY <2>2, <2>3
    <3> HIDE DEF Far
    <3> QED
      BY <2>1, <2>2, <3>1, <3>2
  <2>4. CASE s.stack # <<>>
    <3> DEFINE x == Last(s.stack)
               W == V \cup {x}
    <3>1. x \notin V /\ Visited(doc, st[k], W)
      BY <2>1, <2>2, <2>4, VisitOne
    <3> HIDE DEF x
    <3>2. IsFiniteSet(V) /\ Cardinality(V) = k - 1
      BY <2>2, <2>4
    <3>3. IsFiniteSet(W) /\ Cardinality(W) = Cardinality(V) + 1
      BY <3>1, <3>2, FS_AddElement
    <3>4. Cardinality(W) = k
      BY <2>1, <3>2, <3>3
    <3>5. Far(st[k], W, k)
      BY <2>1, <3>3, <3>4
    <3> HIDE DEF Far, W
    <3> QED
      BY <2>1, <3>1, <3>5
  <2> QED
    BY <2>3, <2>4
<1>6. n \in X
  <2> HIDE DEF X
  <2>1. Upward(X, n)
    BY <1>5 DEF Upward
  <2>2. 0..n \subseteq X
    BY <1>1, <1>4, <2>1, Climbs
  <2> QED
    BY <1>1, <2>2
<1>7. PICK V : Visited(doc, st[n], V) /\ Far(st[n], V, n)
  BY <1>6
<1>8. st[n].stack = <<>>
  <2> SUFFICES ASSUME st[n].stack # <<>> PROVE FALSE
    OBVIOUS
  <2> DEFINE U == 0..N
             x == Last(st[n].stack)
  <2>1. x \in U \ V /\ V \subseteq U
    BY <1>7, VisitOne DEF N, Visited
  <2>2. IsFiniteSet(U) /\ Cardinality(U) = n
    BY <1>1, FS_Interval DEF n
  <2>3. Cardinality(V) = n
    BY <1>7
  <2> HIDE DEF U
  <2>4. V = U
    BY <2>1, <2>2, <2>3, FS_Subset
  <2> QED
    BY <2>1, <2>4
<1>9. st[n].detached = HidingActs(doc)
  BY <1>7, <1>8, VisitedAll
<1>10. HidingActs(doc) \subseteq DOMAIN doc /\ IsFiniteSet(DOMAIN doc)
  BY <1>1, FS_Interval DEF HidingActs
<1> QED
  BY <1>2, <1>9, <1>10, FS_Subset, FS_CardinalityType

(* The run of tags that begins at i ends in the text or with it. *)
LEMMA RunEnds ==
  ASSUME NEW U, NEW s \in Seq(U), NEW i \in 1..(Len(s) + 1)
  PROVE  /\ RunEnd(s, i) \in i..(Len(s) + 1)
         /\ \A k \in i..(RunEnd(s, i) - 1) : s[k] \in TagBlock
         /\ RunEnd(s, i) = Len(s) + 1 \/ s[RunEnd(s, i)] \notin TagBlock
<1> DEFINE m == Len(s) + 1
           T == {e \in i..m : e = m \/ s[e] \notin TagBlock}
<1>1. Len(s) \in Nat /\ m \in Nat /\ m \in T /\ i \in Nat /\ i..m \subseteq Nat
  BY LenProperties
<1>2. PICK e \in T : \A k \in T : e <= k
  <2>1. T \in SUBSET Nat /\ T # {}
    BY <1>1
  <2> HIDE DEF T
  <2> QED
    BY <2>1, LeastElement
<1>3. e \in i..m /\ (e = m \/ s[e] \notin TagBlock)
  BY <1>2
<1>4. ASSUME NEW k \in i..(e - 1) PROVE s[k] \in TagBlock
  <2>1. k \in i..m /\ ~(e <= k)
    BY <1>1, <1>3
  <2>2. k \notin T
    <3> HIDE DEF T
    <3> QED
      BY <1>2, <2>1
  <2> QED
    BY <2>1, <2>2
<1> HIDE DEF T
<1> QED
  BY <1>3, <1>4 DEF RunEnd

(* Where the loop over a text can be. *)
Loops(U, n) == [i : 1..(n + 1), out : Seq(U), removed : Nat, prev : U \cup {"none"}]

(* One turn of the loop leads to such a place. *)
LEMMA TurnType ==
  ASSUME NEW U, NEW s \in Seq(U), NEW st \in Loops(U, Len(s))
  PROVE  StripTurn(s, st) \in Loops(U, Len(s))
<1> DEFINE n == Len(s)
           r == s[st.i]
<1>1. n \in Nat /\ \A k \in 1..n : s[k] \in U
  BY LenProperties, ElementOfSeq
<1>2. /\ st.i \in 1..(n + 1) /\ st.out \in Seq(U) /\ st.removed \in Nat
      /\ st.prev \in U \cup {"none"}
      /\ st = [i |-> st.i, out |-> st.out, removed |-> st.removed, prev |-> st.prev]
  BY DEF Loops
<1> HIDE DEF n
<1>3. CASE st.i > n
  BY <1>3 DEF StripTurn, n
<1>4. CASE st.i <= n
  <2>1. st.i \in 1..n /\ st.i + 1 \in 1..(n + 1) /\ r \in U
    BY <1>1, <1>2, <1>4
  <2> HIDE DEF r
  <2>2. Append(st.out, r) \in Seq(U)
    BY <1>2, <2>1, AppendProperties
  <2> DEFINE out == Append(st.out, r)
             prev == IF r = "vs" THEN st.prev ELSE r
  <2>3. Written(st, r) = [i |-> st.i + 1, out |-> out, removed |-> st.removed, prev |-> prev]
    BY DEF Written, out, prev
  <2>4. prev \in U \cup {"none"}
    BY <1>2, <2>1
  <2> HIDE DEF out, prev
  <2>5. Written(st, r) \in Loops(U, n)
    BY <1>2, <2>1, <2>2, <2>3, <2>4 DEF Loops, out
  <2>6. Dropped(st) \in Loops(U, n)
    <3>1. st.removed + 1 \in Nat
      BY <1>2
    <3>2. Dropped(st) = [i |-> st.i + 1, out |-> st.out, removed |-> st.removed + 1,
                         prev |-> st.prev]
      BY DEF Dropped
    <3> QED
      BY <1>2, <2>1, <3>1, <3>2 DEF Loops
  <2>7. CASE r = "flag"
    <3> DEFINE e == RunEnd(s, st.i + 1)
               run == SubSeq(s, st.i + 1, e - 1)
               kept == run = <<>> \/ IsFlagTail(run)
               text == IF kept THEN out \o run ELSE out
               lost == IF kept THEN st.removed ELSE st.removed + Len(run)
    <3>1. e \in (st.i + 1)..(n + 1) /\ e \in 1..(n + 1)
      <4>1. e \in (st.i + 1)..(n + 1)
        BY <2>1, RunEnds DEF n
      <4> QED
        BY <1>1, <2>1, <4>1
    <3> HIDE DEF e
    <3>2. run \in Seq(U) /\ Len(run) \in Nat
      <4>1. st.i + 1 \in Nat \ {0} /\ e - 1 \in Nat /\ e - 1 <= Len(s) /\ st.i + 1 <= (e - 1) + 1
        BY <1>1, <2>1, <3>1 DEF n
      <4>2. run \in Seq(U)
        BY <4>1, PartOf
      <4> QED
        BY <4>2, LenProperties
    <3> HIDE DEF run
    <3>3. AfterFlag(s, st) = [i |-> e, out |-> text, removed |-> lost, prev |-> prev]
      <4> HIDE DEF kept
      <4>1. AfterFlag(s, st) =
              [i |-> e, out |-> IF kept THEN Written(st, r).out \o run ELSE Written(st, r).out,
               removed |-> lost, prev |-> Written(st, r).prev]
        BY <2>7 DEF AfterFlag, e, run, kept
      <4> QED
        BY <2>3, <4>1
    <3>4. text \in Seq(U) /\ lost \in Nat
      <4>1. out \o run \in Seq(U) /\ out \in Seq(U)
        BY <2>2, <3>2, ConcatProperties DEF out
      <4>2. st.removed + Len(run) \in Nat /\ st.removed \in Nat
        BY <1>2, <3>2
      <4> QED
        BY <4>1, <4>2
    <3> HIDE DEF text, lost
    <3>5. AfterFlag(s, st) \in Loops(U, n)
      BY <2>4, <3>1, <3>3, <3>4 DEF Loops
    <3>6. StripTurn(s, st) = AfterFlag(s, st)
      BY <1>1, <1>4, <2>1, <2>7 DEF StripTurn, r, n
    <3> QED
      BY <3>5, <3>6 DEF n
  <2>8. CASE r # "flag"
    <3>1. StripTurn(s, st) \in {Dropped(st), Written(st, r)}
      BY <1>1, <1>4, <2>1, <2>8 DEF StripTurn, r, n
    <3> QED
      BY <2>5, <2>6, <3>1 DEF n
  <2> QED
    BY <2>7, <2>8
<1> QED
  BY <1>1, <1>2, <1>3, <1>4

-----------------------------------------------------------------------------
(* stripInvisible, and the same by positions.                               *)

Piece(s, k) == IF MayStay(s, k) THEN <<s[k]>> ELSE <<>>

(* What is left of the first n runes. *)
Left(s, n) == FlattenSeq([k \in 1..n |-> Piece(s, k)])

(* One rune more is left, or is not. *)
LEMMA LeftGrows ==
  ASSUME NEW U, NEW s \in Seq(U), NEW n \in 1..Len(s)
  PROVE  /\ Left(s, n) = Left(s, n - 1) \o Piece(s, n)
         /\ Left(s, n) \in Seq(U) /\ Left(s, n - 1) \in Seq(U)
<1> DEFINE p == [k \in 1..(n - 1) |-> Piece(s, k)]
           q == [k \in 1..n |-> Piece(s, k)]
<1>1. Len(s) \in Nat /\ n - 1 \in Nat /\ n \in Nat /\ (n - 1) + 1 = n
  BY LenProperties
<1>2. ASSUME NEW k \in 1..n PROVE Piece(s, k) \in Seq(U)
  <2>1. s[k] \in U /\ <<>> \in Seq(U)
    BY <1>1, ElementOfSeq, EmptySeq
  <2>2. <<s[k]>> \in Seq(U)
    BY <2>1, ShortSeqs
  <2> QED
    BY <2>1, <2>2 DEF Piece
<1>3. p \in Seq(Seq(U)) /\ Len(p) = n - 1
  <2>1. p \in [1..(n - 1) -> Seq(U)]
    BY <1>1, <1>2
  <2> HIDE DEF p
  <2> QED
    BY <1>1, <2>1, ListIsSeq
<1>4. q \in Seq(Seq(U)) /\ Len(q) = n
  <2>1. q \in [1..n -> Seq(U)]
    BY <1>1, <1>2
  <2> HIDE DEF q
  <2> QED
    BY <1>1, <2>1, ListIsSeq
<1>5. Piece(s, n) \in Seq(U) /\ q[n] = Piece(s, n) /\ \A k \in 1..(n - 1) : q[k] = p[k]
  BY <1>1, <1>2
<1>6. Left(s, n) = FlattenSeq(q) /\ Left(s, n - 1) = FlattenSeq(p)
  BY DEF Left
<1> HIDE DEF p, q
<1> DEFINE S == Seq(U)
           x == Piece(s, n)
<1>7. q = Append(p, x)
  <2>1. p \in Seq(S) /\ q \in Seq(S) /\ x \in S /\ Len(q) = Len(p) + 1
    BY <1>1, <1>3, <1>4, <1>5
  <2>2. (\A k \in 1..Len(p) : q[k] = p[k]) /\ q[Len(p) + 1] = x
    BY <1>1, <1>3, <1>5
  <2> HIDE DEF S, x
  <2> QED
    BY <2>1, <2>2, AppendIs
<1> HIDE DEF S, x
<1>8. /\ FlattenSeq(Append(p, x)) = FlattenSeq(p) \o x
      /\ FlattenSeq(p) \in Seq(U) /\ FlattenSeq(Append(p, x)) \in Seq(U)
  BY <1>3, <1>5, FlattenAppend DEF x
<1> QED
  BY <1>6, <1>7, <1>8 DEF x

(* A stretch of which nothing is left. *)
LEMMA NoneLeft ==
  ASSUME NEW U, NEW s \in Seq(U), NEW m \in 0..Len(s), NEW n \in m..Len(s),
         \A k \in (m + 1)..n : ~MayStay(s, k)
  PROVE  Left(s, n) = Left(s, m)
<1> DEFINE X == {d \in 0..(n - m) : Left(s, m + d) = Left(s, m)}
<1>1. Len(s) \in Nat /\ m \in Nat /\ n \in Nat /\ n - m \in Nat /\ m + 0 = m
  BY LenProperties
<1>2. 0 \in X
  BY <1>1
<1>3. ASSUME NEW d \in 1..(n - m), d - 1 \in X PROVE d \in X
  <2>1. /\ m + d \in 1..Len(s) /\ m + d \in (m + 1)..n /\ (m + d) - 1 = m + (d - 1)
        /\ d \in 0..(n - m)
    BY <1>1
  <2>2. Left(s, m + d) = Left(s, m + (d - 1)) \o <<>> /\ Left(s, m + (d - 1)) \in Seq(U)
    BY <2>1, LeftGrows DEF Piece
  <2>3. Left(s, m + d) = Left(s, m + (d - 1))
    BY <2>2, ConcatEmptySeq
  <2> QED
    BY <1>3, <2>1, <2>3
<1>4. Upward(X, n - m)
  <2> HIDE DEF X
  <2> QED
    BY <1>3 DEF Upward
<1>5. n - m \in X
  <2> HIDE DEF X
  <2>1. 0..(n - m) \subseteq X
    BY <1>1, <1>2, <1>4, Climbs
  <2> QED
    BY <1>1, <2>1
<1>6. m + (n - m) = n
  BY <1>1
<1> QED
  BY <1>5, <1>6

(* A stretch of which all is left. *)
LEMMA AllLeft ==
  ASSUME NEW U, NEW s \in Seq(U), NEW m \in 1..Len(s), NEW n \in m..Len(s),
         \A k \in (m + 1)..n : MayStay(s, k)
  PROVE  Left(s, n) = Left(s, m) \o SubSeq(s, m + 1, n)
<1> DEFINE part(d) == SubSeq(s, m + 1, m + d)
           X == {d \in 0..(n - m) : Left(s, m + d) = Left(s, m) \o part(d)}
<1>1. Len(s) \in Nat /\ m \in Nat /\ n \in Nat /\ n - m \in Nat /\ m + 0 = m
  BY LenProperties
<1>2. Left(s, m) \in Seq(U)
  BY <1>1, LeftGrows
<1>3. ASSUME NEW d \in 0..(n - m)
      PROVE  /\ part(d) \in Seq(U) /\ Len(part(d)) = d
             /\ \A i \in 1..d : part(d)[i] = s[m + i]
  <2>1. /\ m + 1 \in Nat \ {0} /\ m + d \in Nat /\ m + d <= Len(s) /\ m + 1 <= (m + d) + 1
        /\ (m + d) - (m + 1) + 1 = d
    BY <1>1
  <2>2. /\ part(d) \in Seq(U) /\ Len(part(d)) = (m + d) - (m + 1) + 1
        /\ \A i \in 1..((m + d) - (m + 1) + 1) : part(d)[i] = s[(m + 1) + i - 1]
    <3> DEFINE a == m + 1
               b == m + d
    <3>1. a \in Nat \ {0} /\ b \in Nat /\ b <= Len(s) /\ a <= b + 1
      BY <2>1
    <3> HIDE DEF a, b
    <3>2. /\ SubSeq(s, a, b) \in Seq(U) /\ Len(SubSeq(s, a, b)) = b - a + 1
          /\ \A i \in 1..(b - a + 1) : SubSeq(s, a, b)[i] = s[a + i - 1]
      BY <3>1, PartOf
    <3> QED
      BY <3>2 DEF a, b
  <2>3. \A i \in 1..d : (m + 1) + i - 1 = m + i
    BY <1>1
  <2> HIDE DEF part
  <2> QED
    BY <2>1, <2>2, <2>3
<1>4. 0 \in X
  <2>1. 0 \in 0..(n - m)
    BY <1>1
  <2>2. part(0) \in Seq(U) /\ Len(part(0)) = 0
    BY <1>3, <2>1
  <2> HIDE DEF part
  <2>3. part(0) = <<>>
    BY <2>2, EmptySeq
  <2>4. Left(s, m) \o part(0) = Left(s, m)
    BY <1>2, <2>3, ConcatEmptySeq
  <2> QED
    BY <1>1, <2>1, <2>4
<1>5. ASSUME NEW d \in 1..(n - m), d - 1 \in X PROVE d \in X
  <2> DEFINE c == s[m + d]
             one == <<c>>
             before == Left(s, m)
             old == part(d - 1)
             new == part(d)
  <2>1. /\ m + d \in 1..Len(s) /\ m + d \in (m + 1)..n /\ (m + d) - 1 = m + (d - 1)
        /\ d \in 0..(n - m) /\ d - 1 \in 0..(n - m) /\ d \in 1..d /\ d \in Nat
        /\ (d - 1) + 1 = d /\ \A i \in 1..(d - 1) : i \in 1..d
    BY <1>1
  <2>2. c \in U
    BY <2>1, ElementOfSeq
  <2>3. Left(s, m + d) = Left(s, m + (d - 1)) \o one
    BY <2>1, LeftGrows DEF Piece
  <2>4. Left(s, m + (d - 1)) = before \o old
    BY <1>5
  <2>5. /\ old \in Seq(U) /\ Len(old) = d - 1 /\ \A i \in 1..(d - 1) : old[i] = s[m + i]
        /\ new \in Seq(U) /\ Len(new) = d /\ \A i \in 1..d : new[i] = s[m + i]
    BY <1>3, <2>1
  <2> HIDE DEF part, old, new, one, before
  <2>6. new = Append(old, c)
    <3>1. Len(new) = Len(old) + 1 /\ new[Len(old) + 1] = c
      BY <2>1, <2>5
    <3>2. \A i \in 1..Len(old) : new[i] = old[i]
      BY <2>1, <2>5
    <3> HIDE DEF c
    <3> QED
      BY <2>2, <2>5, <3>1, <3>2, AppendIs
  <2> HIDE DEF c
  <2>7. one \in Seq(U) /\ before \in Seq(U)
    BY <1>2, <2>2, ShortSeqs DEF one, before
  <2>8. new = old \o one
    BY <2>2, <2>5, <2>6, AppendIsConcat DEF one
  <2>9. (before \o old) \o one = before \o (old \o one)
    <3>1. OfTokens(U, before) /\ OfTokens(U, old) /\ OfTokens(U, one)
      BY <2>5, <2>7 DEF OfTokens
    <3>2. Cat(Cat(before, old), one) = Cat(before, Cat(old, one))
      BY <3>1, CatAssociative
    <3> QED
      BY <3>2 DEF Cat
  <2>10. Left(s, m + d) = before \o new
    BY <2>3, <2>4, <2>8, <2>9
  <2> QED
    BY <2>1, <2>10 DEF before, new
<1>6. Upward(X, n - m)
  <2> HIDE DEF X
  <2> QED
    BY <1>5 DEF Upward
<1>7. n - m \in X
  <2> HIDE DEF X
  <2>1. 0..(n - m) \subseteq X
    BY <1>1, <1>4, <1>6, Climbs
  <2> QED
    BY <1>1, <2>1
<1>8. m + (n - m) = n
  BY <1>1
<1> QED
  BY <1>7, <1>8

(* An emoji lies before place i, and only what is dropped or a selector     *)
(* between them.                                                            *)
Bridged(s, i) ==
  \E j \in 1..(i - 1) :
    IsEmojiRune(s[j]) /\ \A n \in (j + 1)..(i - 1) : IsInvisibleRune(s[n]) \/ s[n] = "vs"

(* No flag's run of tags goes on at place i. *)
NoRunAt(s, i) ==
  \A j \in 1..(i - 1) : s[j] = "flag" => \E n \in (j + 1)..i : s[n] \notin TagBlock

(* One rune further nothing much changes. *)
LEMMA Further ==
  ASSUME NEW U, NEW s \in Seq(U), NEW i \in 1..Len(s), i + 1 \in 1..Len(s)
  PROVE  /\ NoRunAt(s, i) /\ s[i] # "flag" => NoRunAt(s, i + 1)
         /\ IsEmojiRune(s[i]) => Bridged(s, i + 1)
         /\ ~IsEmojiRune(s[i]) /\ (IsInvisibleRune(s[i]) \/ s[i] = "vs")
              => (Bridged(s, i + 1) <=> Bridged(s, i))
         /\ ~IsEmojiRune(s[i]) /\ ~IsInvisibleRune(s[i]) /\ s[i] # "vs" => ~Bridged(s, i + 1)
<1> DEFINE loose(n) == IsInvisibleRune(s[n]) \/ s[n] = "vs"
<1>1. i \in Nat /\ (i + 1) - 1 = i /\ Len(s) \in Nat
  BY LenProperties
<1>2. ASSUME NoRunAt(s, i), s[i] # "flag" PROVE NoRunAt(s, i + 1)
  <2> SUFFICES ASSUME NEW j \in 1..i, s[j] = "flag"
               PROVE  \E n \in (j + 1)..(i + 1) : s[n] \notin TagBlock
    BY <1>1 DEF NoRunAt
  <2>1. j \in 1..(i - 1)
    BY <1>1, <1>2
  <2>2. PICK n \in (j + 1)..i : s[n] \notin TagBlock
    BY <1>2, <2>1 DEF NoRunAt
  <2>3. n \in (j + 1)..(i + 1)
    BY <1>1, <2>1
  <2> QED
    BY <2>2, <2>3
<1> HIDE DEF loose
<1>3. /\ Bridged(s, i) <=> \E j \in 1..(i - 1) : IsEmojiRune(s[j]) /\ \A n \in (j + 1)..(i - 1) : loose(n)
      /\ Bridged(s, i + 1) <=> \E j \in 1..i : IsEmojiRune(s[j]) /\ \A n \in (j + 1)..i : loose(n)
  BY <1>1 DEF Bridged, loose
<1>4. ASSUME IsEmojiRune(s[i]) PROVE Bridged(s, i + 1)
  <2>1. i \in 1..i /\ \A n \in (i + 1)..i : loose(n)
    BY <1>1
  <2> QED
    BY <1>3, <1>4, <2>1
<1>5. ASSUME ~IsEmojiRune(s[i]), loose(i) PROVE Bridged(s, i + 1) <=> Bridged(s, i)
  <2>1. ASSUME Bridged(s, i) PROVE Bridged(s, i + 1)
    <3>1. PICK j \in 1..(i - 1) : IsEmojiRune(s[j]) /\ \A n \in (j + 1)..(i - 1) : loose(n)
      BY <1>3, <2>1
    <3>2. j \in 1..i /\ \A n \in (j + 1)..i : n = i \/ n \in (j + 1)..(i - 1)
      BY <1>1
    <3>3. \A n \in (j + 1)..i : loose(n)
      BY <1>5, <3>1, <3>2
    <3> QED
      BY <1>3, <3>1, <3>2, <3>3
  <2>2. ASSUME Bridged(s, i + 1) PROVE Bridged(s, i)
    <3>1. PICK j \in 1..i : IsEmojiRune(s[j]) /\ \A n \in (j + 1)..i : loose(n)
      BY <1>3, <2>2
    <3>2. j # i
      BY <1>5, <3>1
    <3>3. j \in 1..(i - 1) /\ \A n \in (j + 1)..(i - 1) : n \in (j + 1)..i
      BY <1>1, <3>2
    <3>4. \A n \in (j + 1)..(i - 1) : loose(n)
      BY <3>1, <3>3
    <3> QED
      BY <1>3, <3>1, <3>3, <3>4
  <2> QED
    BY <2>1, <2>2
<1>6. ASSUME ~IsEmojiRune(s[i]), ~loose(i) PROVE ~Bridged(s, i + 1)
  <2> SUFFICES ASSUME Bridged(s, i + 1) PROVE FALSE
    OBVIOUS
  <2>1. PICK j \in 1..i : IsEmojiRune(s[j]) /\ \A n \in (j + 1)..i : loose(n)
    BY <1>3
  <2>2. j # i
    BY <1>6, <2>1
  <2>3. i \in (j + 1)..i
    BY <1>1, <2>2
  <2> QED
    BY <1>6, <2>1, <2>3
<1> QED
  BY <1>2, <1>4, <1>5, <1>6 DEF loose

(* At the end of a flag's run of tags. *)
LEMMA PastRun ==
  ASSUME NEW U, NEW s \in Seq(U), NEW i \in 1..Len(s), s[i] = "flag",
         NEW e \in (i + 1)..Len(s), \A k \in (i + 1)..(e - 1) : s[k] \in TagBlock,
         s[e] \notin TagBlock
  PROVE  NoRunAt(s, e) /\ Bridged(s, e)
<1>1. i \in Nat /\ e \in Nat /\ i < e /\ Len(s) \in Nat
  BY LenProperties
<1>2. \A j \in 1..(e - 1) : e \in (j + 1)..e
  BY <1>1
<1>3. NoRunAt(s, e)
  BY <1>2 DEF NoRunAt
<1>4. i \in 1..(e - 1) /\ IsEmojiRune(s[i])
  BY <1>1 DEF IsEmojiRune
<1>5. \A k \in (i + 1)..(e - 1) : IsInvisibleRune(s[k])
  BY DEF IsInvisibleRune
<1> QED
  BY <1>3, <1>4, <1>5 DEF Bridged

(* Where no flag's run goes on, nothing is part of a flag. *)
LEMMA OutOfFlags ==
  ASSUME NEW U, NEW s \in Seq(U), NEW i \in 1..Len(s), NoRunAt(s, i)
  PROVE  ~InFlag(s, i)
<1> SUFFICES ASSUME InFlag(s, i) PROVE FALSE
  OBVIOUS
<1>1. PICK j \in 1..(i - 1), k \in i..Len(s) :
        /\ s[j] = "flag" /\ s[k] = "cancel"
        /\ \A n \in (j + 1)..(k - 1) : s[n] = "spec"
  BY DEF InFlag
<1>2. PICK n \in (j + 1)..i : s[n] \notin TagBlock
  BY <1>1 DEF NoRunAt
<1>3. n = k \/ n \in (j + 1)..(k - 1)
  BY LenProperties
<1> QED
  BY <1>1, <1>2, <1>3 DEF TagBlock

(* A joiner between emoji is kept, and no other. *)
LEMMA JoinerKept ==
  ASSUME NEW U, NEW s \in Seq(U), NEW i \in 1..Len(s), s[i] = "zwj", NEW prev,
         IsEmojiRune(prev) <=> Bridged(s, i)
  PROVE  JoinsEmoji(s, i, prev) <=> Joiner(s, i)
BY DEF JoinsEmoji, Joiner, Bridged, IsEmojiRune

(* The tags behind a flag are a subdivision's, or none of them stays. *)
LEMMA TailKept ==
  ASSUME NEW U, NEW s \in Seq(U), NEW i \in 1..Len(s), s[i] = "flag",
         NEW e \in (i + 2)..(Len(s) + 1), \A k \in (i + 1)..(e - 1) : s[k] \in TagBlock,
         e = Len(s) + 1 \/ s[e] \notin TagBlock,
         NEW k \in (i + 1)..(e - 1)
  PROVE  MayStay(s, k) <=> IsFlagTail(SubSeq(s, i + 1, e - 1))
<1> DEFINE run == SubSeq(s, i + 1, e - 1)
           d == e - 1 - i
<1>1. /\ Len(s) \in Nat /\ i \in Nat /\ e \in Nat /\ k \in Nat /\ d \in Nat \ {0}
      /\ k \in 1..Len(s) /\ i + d = e - 1 /\ e - 1 \in 1..Len(s)
  BY LenProperties
<1>2. Len(run) = d /\ \A n \in 1..d : run[n] = s[i + n]
  <2> DEFINE a == i + 1
             b == e - 1
  <2>1. a \in Nat \ {0} /\ b \in Nat /\ b <= Len(s) /\ a <= b + 1 /\ b - a + 1 = d
    BY <1>1
  <2>2. \A n \in 1..d : a + n - 1 = i + n
    BY <1>1
  <2> HIDE DEF a, b, d
  <2>3. /\ Len(SubSeq(s, a, b)) = b - a + 1
        /\ \A n \in 1..(b - a + 1) : SubSeq(s, a, b)[n] = s[a + n - 1]
    BY <2>1, PartOf
  <2>4. Len(SubSeq(s, a, b)) = d /\ \A n \in 1..d : SubSeq(s, a, b)[n] = s[i + n]
    BY <2>1, <2>2, <2>3
  <2> QED
    BY <2>4 DEF a, b
<1>3. IsFlagTail(run) <=> /\ d - 1 \in 1..MaxSubdivisionTags /\ s[e - 1] = "cancel"
                          /\ \A n \in 1..(d - 1) : s[i + n] = "spec"
  <2>1. d \in 1..d /\ \A n \in 1..(d - 1) : n \in 1..d
    BY <1>1
  <2> HIDE DEF run
  <2>2. run[d] = s[e - 1] /\ \A n \in 1..(d - 1) : run[n] = s[i + n]
    BY <1>1, <1>2, <2>1
  <2> HIDE DEF d
  <2> QED
    BY <1>2, <2>2 DEF IsFlagTail
<1>4. \A n \in (i + 1)..(e - 2) : n - i \in 1..(d - 1) /\ i + (n - i) = n
  BY <1>1
<1>5. \A n \in 1..(d - 1) : i + n \in (i + 1)..(e - 2)
  BY <1>1
<1> HIDE DEF run
<1>6. IsFlagTail(run) <=> /\ d - 1 \in 1..MaxSubdivisionTags /\ s[e - 1] = "cancel"
                          /\ \A n \in (i + 1)..(e - 2) : s[n] = "spec"
  <2> HIDE DEF d
  <2>1. ASSUME \A n \in 1..(d - 1) : s[i + n] = "spec", NEW n \in (i + 1)..(e - 2)
        PROVE  s[n] = "spec"
    <3>1. n - i \in 1..(d - 1) /\ i + (n - i) = n
      BY <1>4
    <3>2. s[i + (n - i)] = "spec"
      BY <2>1, <3>1
    <3> QED
      BY <3>1, <3>2
  <2>2. ASSUME \A n \in (i + 1)..(e - 2) : s[n] = "spec", NEW n \in 1..(d - 1)
        PROVE  s[i + n] = "spec"
    BY <1>5, <2>2
  <2> QED
    BY <1>3, <2>1, <2>2
<1>7. MayStay(s, k) <=> InFlag(s, k)
  <2>1. s[k] \in TagBlock
    OBVIOUS
  <2>2. s[k] # "zwj" /\ IsInvisibleRune(s[k])
    BY <2>1 DEF TagBlock, IsInvisibleRune
  <2> QED
    BY <2>2 DEF MayStay, Joiner
<1>8. ASSUME IsFlagTail(run) PROVE InFlag(s, k)
  <2>1. i \in 1..(k - 1) /\ e - 1 \in k..Len(s) /\ (e - 1) - i - 1 = d - 1 /\ (e - 1) - 1 = e - 2
        /\ (e - 1) + 1 = e
    BY <1>1
  <2>2. e - 1 < Len(s) => s[e] \notin TagBlock
    BY <1>1
  <2> HIDE DEF d
  <2>3. /\ s[i] = "flag" /\ s[e - 1] = "cancel" /\ (e - 1) - i - 1 \in 1..MaxSubdivisionTags
        /\ \A n \in (i + 1)..((e - 1) - 1) : s[n] = "spec"
        /\ e - 1 < Len(s) => s[(e - 1) + 1] \notin TagBlock
    BY <1>6, <1>8, <2>1, <2>2
  <2> QED
    BY <2>1, <2>3 DEF InFlag
<1>9. ASSUME InFlag(s, k) PROVE IsFlagTail(run)
  <2>1. PICK f \in 1..(k - 1), c \in k..Len(s) :
          /\ s[f] = "flag" /\ s[c] = "cancel" /\ c - f - 1 \in 1..MaxSubdivisionTags
          /\ \A n \in (f + 1)..(c - 1) : s[n] = "spec"
          /\ c < Len(s) => s[c + 1] \notin TagBlock
    BY <1>9 DEF InFlag
  <2>2. f = i
    <3>1. CASE f < i
      <4>1. i \in (f + 1)..(c - 1)
        BY <1>1, <3>1
      <4> QED
        BY <2>1, <4>1
    <3>2. CASE f > i
      <4>1. f \in (i + 1)..(e - 1)
        BY <1>1, <3>2
      <4>2. s[f] \in TagBlock
        BY <4>1
      <4> QED
        BY <2>1, <4>2 DEF TagBlock
    <3>3. f \in Nat
      BY <1>1
    <3> QED
      BY <1>1, <3>1, <3>2, <3>3
  <2>3. c = e - 1
    <3>1. c \in Nat /\ k <= c /\ c <= Len(s)
      BY <1>1
    <3>2. CASE c > e - 1
      <4>1. e = c \/ e \in (f + 1)..(c - 1)
        BY <1>1, <2>2, <3>1, <3>2
      <4>2. s[e] \in TagBlock
        BY <2>1, <4>1 DEF TagBlock
      <4> QED
        BY <1>1, <3>1, <3>2, <4>2
    <3>3. CASE c < e - 1
      <4>1. c < Len(s) /\ c + 1 \in (i + 1)..(e - 1)
        BY <1>1, <3>1, <3>3
      <4> QED
        BY <2>1, <4>1
    <3> QED
      BY <1>1, <3>1, <3>2, <3>3
  <2>4. c - f - 1 = d - 1 /\ c - 1 = e - 2
    BY <1>1, <2>2, <2>3
  <2> HIDE DEF d
  <2> QED
    BY <1>6, <2>1, <2>2, <2>3, <2>4
<1> QED
  BY <1>7, <1>8, <1>9 DEF run

(* One element more. *)
LEMMA Appended ==
  ASSUME NEW U, NEW s \in Seq(U), NEW x \in U
  PROVE  /\ Append(s, x) = s \o <<x>> /\ Append(s, x) \in Seq(U)
         /\ Len(Append(s, x)) = Len(s) + 1 /\ Len(s) \in Nat
BY AppendIsConcat, AppendProperties, LenProperties

(* The loop has come to place st.i: what is left of the runes before it is  *)
(* written, the others are counted.                                         *)
AtPlace(s, U, st) ==
  /\ st \in Loops(U, Len(s))
  /\ st.out = Left(s, st.i - 1) /\ Len(st.out) + st.removed = st.i - 1
  /\ st.i <= Len(s) =>
       /\ NoRunAt(s, st.i)
       /\ ~IsEmojiRune(s[st.i]) => (IsEmojiRune(st.prev) <=> Bridged(s, st.i))

(* A turn that takes one rune. *)
LEMMA TurnTakesOne ==
  ASSUME NEW U, NEW s \in Seq(U), NEW st, AtPlace(s, U, st), st.i <= Len(s),
         s[st.i] # "flag"
  PROVE  AtPlace(s, U, StripTurn(s, st)) /\ StripTurn(s, st).i = st.i + 1
<1> DEFINE i == st.i
           r == s[i]
           t == StripTurn(s, st)
           kept == ~IsInvisibleRune(r) \/ (r = "zwj" /\ JoinsEmoji(s, i, st.prev))
<1>1. st \in Loops(U, Len(s)) /\ t \in Loops(U, Len(s))
  BY TurnType DEF AtPlace
<1>2. /\ i \in 1..Len(s) /\ i \in Nat /\ i + 1 \in Nat /\ Len(s) \in Nat /\ (i + 1) - 1 = i
      /\ st.out \in Seq(U) /\ st.removed \in Nat /\ r \in U
  <2>1. i \in 1..(Len(s) + 1) /\ st.out \in Seq(U) /\ st.removed \in Nat /\ Len(s) \in Nat
    BY <1>1, LenProperties DEF Loops
  <2>2. i \in 1..Len(s)
    BY <2>1
  <2> QED
    BY <2>1, <2>2, ElementOfSeq
<1>3. t = IF kept THEN Written(st, r) ELSE Dropped(st)
  <2>1. ~(st.i > Len(s))
    BY <1>2
  <2> QED
    BY <2>1 DEF StripTurn, JoinsEmoji, IsInvisibleRune, IsEmojiRune, TagBlock
<1>4. NoRunAt(s, i) /\ (~IsEmojiRune(r) => (IsEmojiRune(st.prev) <=> Bridged(s, i)))
  BY <1>2 DEF AtPlace
<1>5. kept <=> MayStay(s, i)
  <2>1. ~InFlag(s, i)
    BY <1>2, <1>4, OutOfFlags
  <2>2. CASE r = "zwj"
    <3>1. IsEmojiRune(st.prev) <=> Bridged(s, i)
      BY <1>4, <2>2 DEF IsEmojiRune
    <3>2. JoinsEmoji(s, i, st.prev) <=> Joiner(s, i)
      BY <1>2, <2>2, <3>1, JoinerKept
    <3> QED
      BY <2>1, <2>2, <3>2 DEF MayStay, IsInvisibleRune
  <2>3. CASE r # "zwj"
    BY <2>1, <2>3 DEF MayStay, Joiner
  <2> QED
    BY <2>2, <2>3
<1>6. t.i = i + 1
  BY <1>3 DEF Written, Dropped
<1>7. t.out = Left(s, i) /\ Len(t.out) + t.removed = i
  <2>1. /\ Left(s, i) = Left(s, i - 1) \o Piece(s, i) /\ st.out = Left(s, i - 1)
        /\ Len(st.out) + st.removed = i - 1 /\ Len(st.out) \in Nat
    BY <1>2, LeftGrows, LenProperties DEF AtPlace
  <2>2. CASE kept
    <3>1. t.out = Append(st.out, r) /\ t.removed = st.removed
      BY <1>3, <2>2 DEF Written
    <3>3. Piece(s, i) = <<r>>
      BY <1>5, <2>2 DEF Piece
    <3> HIDE DEF t, r, i
    <3>2. Append(st.out, r) = st.out \o <<r>> /\ Len(Append(st.out, r)) = Len(st.out) + 1
      BY <1>2, Appended
    <3>4. t.out = Left(s, i)
      BY <2>1, <3>1, <3>2, <3>3, Zenon
    <3>5. Len(t.out) = Len(st.out) + 1
      BY <3>1, <3>2, Zenon
    <3>6. Len(t.out) + t.removed = i
      BY <1>2, <2>1, <3>1, <3>5
    <3> QED
      BY <3>4, <3>6
  <2>3. CASE ~kept
    <3>1. t.out = st.out /\ t.removed = st.removed + 1
      BY <1>3, <2>3 DEF Dropped
    <3>2. Piece(s, i) = <<>> /\ st.out \o <<>> = st.out
      BY <1>2, <1>5, <2>3, ConcatEmptySeq DEF Piece
    <3> HIDE DEF t, r, i
    <3> QED
      BY <1>2, <2>1, <3>1, <3>2
  <2> QED
    BY <2>2, <2>3
<1>8. ASSUME i + 1 <= Len(s)
      PROVE  /\ NoRunAt(s, i + 1)
             /\ ~IsEmojiRune(s[i + 1]) => (IsEmojiRune(t.prev) <=> Bridged(s, i + 1))
  <2>1. i + 1 \in 1..Len(s)
    BY <1>2, <1>8
  <2>2. /\ NoRunAt(s, i) /\ r # "flag" => NoRunAt(s, i + 1)
        /\ IsEmojiRune(r) => Bridged(s, i + 1)
        /\ ~IsEmojiRune(r) /\ (IsInvisibleRune(r) \/ r = "vs")
             => (Bridged(s, i + 1) <=> Bridged(s, i))
        /\ ~IsEmojiRune(r) /\ ~IsInvisibleRune(r) /\ r # "vs" => ~Bridged(s, i + 1)
    BY <1>2, <2>1, Further
  <2>3. NoRunAt(s, i + 1)
    BY <1>4, <2>2
  <2>4. CASE ~kept
    <3>1. t.prev = st.prev /\ IsInvisibleRune(r)
      BY <1>3, <2>4 DEF Dropped
    <3>2. ~IsEmojiRune(r)
      BY <3>1 DEF IsInvisibleRune, IsEmojiRune, TagBlock
    <3> QED
      BY <1>4, <2>2, <2>3, <3>1, <3>2
  <2>5. CASE kept
    <3>1. t.prev = IF r = "vs" THEN st.prev ELSE r
      BY <1>3, <2>5 DEF Written
    <3>2. CASE r = "vs"
      <4>1. ~IsEmojiRune(r)
        BY <3>2 DEF IsEmojiRune
      <4> QED
        BY <1>4, <2>2, <2>3, <3>1, <3>2, <4>1
    <3>3. CASE IsEmojiRune(r)
      <4>1. r # "vs"
        BY <3>3 DEF IsEmojiRune
      <4> QED
        BY <2>2, <2>3, <3>1, <3>3, <4>1
    <3>4. CASE IsInvisibleRune(r)
      <4>1. r = "zwj" /\ JoinsEmoji(s, i, st.prev)
        BY <2>5, <3>4
      <4>2. IsEmojiRune(s[i + 1])
        BY <4>1 DEF JoinsEmoji
      <4> QED
        BY <2>3, <4>2
    <3>5. CASE ~IsEmojiRune(r) /\ ~IsInvisibleRune(r) /\ r # "vs"
      BY <2>2, <2>3, <3>1, <3>5
    <3> QED
      BY <3>2, <3>3, <3>4, <3>5
  <2> QED
    BY <2>4, <2>5
<1> HIDE DEF t, kept, r
<1> QED
  BY <1>1, <1>2, <1>6, <1>7, <1>8 DEF AtPlace, t

(* A turn that takes a flag and the tags behind it. *)
LEMMA TurnTakesFlag ==
  ASSUME NEW U, NEW s \in Seq(U), NEW st, AtPlace(s, U, st), st.i <= Len(s),
         s[st.i] = "flag"
  PROVE  AtPlace(s, U, StripTurn(s, st)) /\ StripTurn(s, st).i > st.i
<1> DEFINE i == st.i
           t == StripTurn(s, st)
           e == RunEnd(s, i + 1)
           run == SubSeq(s, i + 1, e - 1)
           kept == run = <<>> \/ IsFlagTail(run)
           wrote == Append(st.out, "flag")
<1>1. st \in Loops(U, Len(s)) /\ t \in Loops(U, Len(s))
  BY TurnType DEF AtPlace
<1>2. /\ i \in 1..Len(s) /\ i \in Nat /\ i + 1 \in 1..(Len(s) + 1) /\ Len(s) \in Nat
      /\ st.out \in Seq(U) /\ st.removed \in Nat /\ "flag" \in U
  <2>1. i \in 1..(Len(s) + 1) /\ st.out \in Seq(U) /\ st.removed \in Nat /\ Len(s) \in Nat
    BY <1>1, LenProperties DEF Loops
  <2>2. i \in 1..Len(s)
    BY <2>1
  <2> QED
    BY <2>1, <2>2, ElementOfSeq
<1>3. t = [i |-> e,
           out |-> IF kept THEN wrote \o run ELSE wrote,
           removed |-> IF kept THEN st.removed ELSE st.removed + Len(run),
           prev |-> "flag"]
  <2>1. ~(st.i > Len(s))
    BY <1>2
  <2>2. t = AfterFlag(s, st)
    BY <2>1 DEF StripTurn
  <2>3. Written(st, "flag").out = wrote /\ Written(st, "flag").prev = "flag"
    BY DEF Written
  <2> HIDE DEF wrote, t
  <2>4. AfterFlag(s, st) =
          [i |-> e,
           out |-> IF kept THEN Written(st, "flag").out \o run ELSE Written(st, "flag").out,
           removed |-> IF kept THEN st.removed ELSE st.removed + Len(run),
           prev |-> Written(st, "flag").prev]
    BY DEF AfterFlag
  <2> HIDE DEF e, run, kept
  <2> QED
    BY <2>2, <2>3, <2>4
<1> HIDE DEF t, kept
<1>4. /\ e \in (i + 1)..(Len(s) + 1)
      /\ \A k \in (i + 1)..(e - 1) : s[k] \in TagBlock
      /\ e = Len(s) + 1 \/ s[e] \notin TagBlock
  BY <1>2, RunEnds
<1> HIDE DEF e
<1>5. e \in Nat /\ e - 1 \in i..Len(s) /\ e > i
  BY <1>2, <1>4
<1>6. run \in Seq(U) /\ Len(run) = e - 1 - i /\ Len(run) \in Nat
  <2> DEFINE a == i + 1
             b == e - 1
  <2>1. a \in Nat \ {0} /\ b \in Nat /\ b <= Len(s) /\ a <= b + 1 /\ b - a + 1 = e - 1 - i
    BY <1>2, <1>5
  <2> HIDE DEF a, b
  <2>2. SubSeq(s, a, b) \in Seq(U) /\ Len(SubSeq(s, a, b)) = b - a + 1
    BY <2>1, PartOf
  <2>3. SubSeq(s, a, b) = run
    BY DEF a, b
  <2> HIDE DEF run
  <2> QED
    BY <1>2, <1>5, <2>1, <2>2, <2>3
<1>7. wrote = Left(s, i) /\ wrote \in Seq(U) /\ Len(wrote) + st.removed = i /\ Len(wrote) \in Nat
  <2>1. /\ Left(s, i) = Left(s, i - 1) \o Piece(s, i) /\ st.out = Left(s, i - 1)
        /\ Len(st.out) + st.removed = i - 1 /\ Len(st.out) \in Nat
    BY <1>2, LeftGrows, LenProperties DEF AtPlace
  <2>2. Piece(s, i) = <<"flag">>
    BY DEF Piece, MayStay, IsInvisibleRune, TagBlock
  <2>3. /\ wrote = st.out \o <<"flag">> /\ Len(wrote) = Len(st.out) + 1 /\ wrote \in Seq(U)
    BY <1>2, Appended
  <2> HIDE DEF wrote, i
  <2>4. wrote = Left(s, i)
    BY <2>1, <2>2, <2>3, Zenon
  <2>5. Len(wrote) + st.removed = i /\ Len(wrote) \in Nat
    <3> DEFINE a == Len(st.out)
               b == Len(wrote)
               c == st.removed
    <3>1. a + c = i - 1 /\ b = a + 1 /\ a \in Nat /\ c \in Nat /\ i \in Nat
      BY <1>2, <2>1, <2>3
    <3> HIDE DEF a, b, c
    <3>2. b + c = i /\ b \in Nat
      BY <3>1
    <3> QED
      BY <3>2 DEF b, c
  <2> QED
    BY <2>3, <2>4, <2>5
<1> HIDE DEF wrote
<1>8. ASSUME NEW k \in (i + 1)..(e - 1) PROVE MayStay(s, k) <=> kept
  <2>1. e \in (i + 2)..(Len(s) + 1)
    BY <1>2, <1>4, <1>5
  <2>2. MayStay(s, k) <=> IsFlagTail(run)
    BY <1>2, <1>4, <2>1, TailKept
  <2>3. run # <<>>
    <3>1. Len(run) # 0
      BY <1>2, <1>5, <1>6
    <3> HIDE DEF run
    <3> QED
      BY <1>6, <3>1, EmptySeq
  <2> QED
    BY <2>2, <2>3 DEF kept
<1>9. t.out = Left(s, e - 1) /\ Len(t.out) + t.removed = e - 1
  <2>1. CASE kept
    <3>1. t.out = wrote \o run /\ t.removed = st.removed
      BY <1>3, <2>1
    <3>2. Left(s, e - 1) = Left(s, i) \o run
      BY <1>2, <1>5, <1>8, <2>1, AllLeft
    <3>3. Len(wrote \o run) = Len(wrote) + Len(run)
      BY <1>6, <1>7, ConcatProperties
    <3> HIDE DEF run, i
    <3>4. t.out = Left(s, e - 1)
      BY <1>7, <3>1, <3>2, Zenon
    <3>5. Len(t.out) = Len(wrote) + Len(run)
      BY <3>1, <3>3, Zenon
    <3>6. Len(t.out) + t.removed = e - 1
      <4> DEFINE a == Len(wrote)
                 b == Len(run)
                 c == st.removed
      <4>1. /\ a + c = i /\ b = e - 1 - i /\ a \in Nat /\ b \in Nat /\ c \in Nat /\ i \in Nat
            /\ e \in Nat
        BY <1>2, <1>5, <1>6, <1>7
      <4>2. Len(t.out) = a + b /\ t.removed = c
        BY <3>1, <3>5
      <4> HIDE DEF a, b, c
      <4>3. (a + b) + c = e - 1
        BY <4>1
      <4> QED
        BY <4>2, <4>3
    <3> QED
      BY <3>4, <3>6
  <2>2. CASE ~kept
    <3>1. t.out = wrote /\ t.removed = st.removed + Len(run)
      BY <1>3, <2>2
    <3>2. Left(s, e - 1) = Left(s, i)
      <4>1. i \in 0..Len(s) /\ e - 1 \in i..Len(s)
        BY <1>2, <1>5
      <4>2. \A k \in (i + 1)..(e - 1) : ~MayStay(s, k)
        BY <1>8, <2>2
      <4> HIDE DEF i
      <4> QED
        BY <4>1, <4>2, NoneLeft
    <3> HIDE DEF run, i
    <3> QED
      BY <1>2, <1>5, <1>6, <1>7, <3>1, <3>2
  <2> QED
    BY <2>1, <2>2
<1>10. t.i = e /\ t.prev = "flag"
  BY <1>3
<1>11. ASSUME e <= Len(s) PROVE NoRunAt(s, e) /\ Bridged(s, e)
  <2>1. e \in (i + 1)..Len(s) /\ s[e] \notin TagBlock
    BY <1>2, <1>4, <1>5, <1>11
  <2> QED
    BY <1>2, <1>4, <2>1, PastRun
<1> QED
  BY <1>1, <1>5, <1>9, <1>10, <1>11 DEF AtPlace, IsEmojiRune, t

(* stripInvisible gives exactly the runes that may stay, and the number of  *)
(* the others.                                                              *)
LEMMA StripsExactly ==
  ASSUME NEW U, NEW s \in Seq(U)
  PROVE  /\ StripInvisible(s).text = Cleaned(s) /\ Cleaned(s) \in Seq(U)
         /\ StripInvisible(s).removed = Len(s) - Len(Cleaned(s))
         /\ StripInvisible(s).removed \in Nat
<1> DEFINE n == Len(s)
           A == Loops(U, n)
           outset == [i |-> 1, out |-> <<>>, removed |-> 0, prev |-> "none"]
           step == [x \in A \X U |-> StripTurn(s, x[1])]
           Is(f) == f = [turn \in 0..n |-> IF turn = 0 THEN outset
                                           ELSE StripTurn(s, f[turn - 1])]
           st == CHOOSE f : Is(f)
<1>1. n \in Nat /\ outset \in A
  <2>1. n \in Nat /\ 1 \in 1..(n + 1) /\ <<>> \in Seq(U)
    BY LenProperties, EmptySeq
  <2> QED
    BY <2>1 DEF Loops
<1>2. step \in [A \X U -> A]
  BY TurnType
<1>3. StripInvisible(s) = [text |-> st[n].out, removed |-> st[n].removed]
  BY DEF StripInvisible
<1> HIDE DEF n, outset
<1>4. PICK g : Reaches(g, A, U, step, outset, s)
  <2> HIDE DEF A, step
  <2> QED
    BY <1>1, <1>2, StepsExist
<1>5. /\ g \in [0..n -> A] /\ g[0] = outset
      /\ \A k \in 1..n : g[k] = StripTurn(s, g[k - 1])
  <2>1. /\ g \in [0..n -> A] /\ g[0] = outset
        /\ \A k \in 1..n : g[k] = step[<<g[k - 1], s[k]>>]
    BY <1>4 DEF Reaches, n
  <2>2. ASSUME NEW k \in 1..n PROVE g[k] = StripTurn(s, g[k - 1])
    <3>1. k - 1 \in 0..n /\ s[k] \in U
      BY <1>1, ElementOfSeq DEF n
    <3>2. <<g[k - 1], s[k]>> \in A \X U
      BY <2>1, <3>1
    <3> QED
      BY <2>1, <3>2
  <2> QED
    BY <2>1, <2>2
<1> HIDE DEF A, step
<1>6. Is(g)
  <2>1. g = [k \in 0..n |-> g[k]]
    BY <1>5
  <2>2. ASSUME NEW k \in 0..n
        PROVE  g[k] = IF k = 0 THEN outset ELSE StripTurn(s, g[k - 1])
    <3>1. k # 0 => k \in 1..n
      BY <1>1
    <3> QED
      BY <1>5, <3>1
  <2> QED
    BY <2>1, <2>2
<1>7. Is(st)
  BY <1>6
<1> HIDE DEF st
<1> DEFINE X == {k \in 0..n : AtPlace(s, U, st[k]) /\ st[k].i > k}
<1>8. 0 \in X
  <2>1. 0 \in 0..n /\ st[0] = outset
    BY <1>1, <1>7
  <2>2. /\ outset.i = 1 /\ outset.out = <<>> /\ outset.removed = 0 /\ outset.prev = "none"
        /\ outset \in Loops(U, Len(s)) /\ Len(outset.out) = 0
    <3>1. Len(<<>>) = 0
      BY EmptySeq
    <3> QED
      BY <1>1, <3>1 DEF outset, A, n
  <2>3. Left(s, 0) = <<>>
    <3>1. [k \in 1..0 |-> Piece(s, k)] = <<>>
      OBVIOUS
    <3> QED
      BY <3>1, FlattenEmpty DEF Left
  <2>4. NoRunAt(s, 1) /\ ~Bridged(s, 1) /\ ~IsEmojiRune("none")
    BY DEF NoRunAt, Bridged, IsEmojiRune
  <2> HIDE DEF outset
  <2>5. AtPlace(s, U, outset)
    BY <2>2, <2>3, <2>4 DEF AtPlace
  <2> QED
    BY <2>1, <2>2, <2>5
<1>9. ASSUME NEW k \in 1..n, k - 1 \in X PROVE k \in X
  <2> DEFINE x == st[k - 1]
  <2>1. k \in 0..n /\ st[k] = StripTurn(s, x) /\ k \in Nat
    BY <1>1, <1>7
  <2>2. AtPlace(s, U, x) /\ x.i > k - 1
    BY <1>9
  <2> HIDE DEF x
  <2>3. x.i \in 1..(n + 1) /\ x.i \in Nat /\ n = Len(s)
    <3>1. x \in Loops(U, Len(s))
      BY <2>2 DEF AtPlace
    <3> QED
      BY <1>1, <3>1 DEF Loops, n
  <2>4. CASE x.i > n
    <3>1. StripTurn(s, x) = x
      BY <2>3, <2>4 DEF StripTurn
    <3>2. x.i > k
      BY <1>1, <2>3, <2>4
    <3> QED
      BY <2>1, <2>2, <3>1, <3>2
  <2>5. CASE x.i <= n
    <3>1. AtPlace(s, U, StripTurn(s, x)) /\ StripTurn(s, x).i > x.i
      <4>1. CASE s[x.i] = "flag"
        BY <2>2, <2>3, <2>5, <4>1, TurnTakesFlag
      <4>2. CASE s[x.i] # "flag"
        <5>1. AtPlace(s, U, StripTurn(s, x)) /\ StripTurn(s, x).i = x.i + 1
          BY <2>2, <2>3, <2>5, <4>2, TurnTakesOne
        <5> QED
          BY <2>3, <5>1
      <4> QED
        BY <4>1, <4>2
    <3>2. StripTurn(s, x).i > k
      <4>1. StripTurn(s, x).i \in Nat
        <5>1. StripTurn(s, x) \in Loops(U, Len(s))
          BY <3>1 DEF AtPlace
        <5> QED
          BY <1>1, <2>3, <5>1 DEF Loops
      <4> QED
        BY <2>1, <2>2, <2>3, <3>1, <4>1
    <3> QED
      BY <2>1, <3>1, <3>2
  <2> QED
    BY <1>1, <2>3, <2>4, <2>5
<1>10. AtPlace(s, U, st[n]) /\ st[n].i > n
  <2> HIDE DEF X
  <2>1. Upward(X, n)
    BY <1>9 DEF Upward
  <2>2. 0..n \subseteq X /\ n \in 0..n
    BY <1>1, <1>8, <2>1, Climbs
  <2> QED
    BY <2>2 DEF X
<1>11. /\ st[n].i = n + 1 /\ st[n].out \in Seq(U) /\ st[n].removed \in Nat
       /\ st[n].out = Left(s, n) /\ Len(st[n].out) + st[n].removed = n
  <2>1. st[n] \in Loops(U, n)
    BY <1>10 DEF AtPlace, n
  <2>2. st[n].i \in 1..(n + 1) /\ st[n].out \in Seq(U) /\ st[n].removed \in Nat
    BY <2>1 DEF Loops
  <2>3. st[n].i = n + 1 /\ (n + 1) - 1 = n
    BY <1>1, <1>10, <2>2
  <2> QED
    BY <1>10, <2>2, <2>3 DEF AtPlace
<1>12. Left(s, n) = Cleaned(s)
  <2>1. DOMAIN s = 1..n
    BY LenProperties DEF n
  <2> QED
    BY <2>1 DEF Left, Cleaned, Piece
<1>13. Len(Cleaned(s)) \in Nat /\ Cleaned(s) \in Seq(U)
  BY <1>11, <1>12, LenProperties
<1>14. st[n].removed = n - Len(Cleaned(s))
  BY <1>1, <1>11, <1>12, <1>13
<1> QED
  BY <1>3, <1>11, <1>12, <1>13, <1>14 DEF n

(* A copy is text, whose tokens are in U, and counts. *)
Readable(copy, U) ==
  /\ copy.content \in Seq(U) /\ copy.title \in Seq(U)
  /\ copy.removedContent.hiddenElements \in Nat /\ copy.removedContent.invisibleChars \in Nat
  /\ copy.removedMetadata.hiddenElements \in Nat /\ copy.removedMetadata.invisibleChars \in Nat

(* What is left of a document without these elements is text of it. *)
LEMMA RestIsText ==
  ASSUME NEW U, NEW S, NEW doc \in Seq(S), \A i \in DOMAIN doc : doc[i].text \in Seq(U),
         NEW detached
  PROVE  TextWithout(doc, detached) \in Seq(U)
<1> DEFINE p == [n \in DOMAIN doc |->
                   IF WithAncestors(doc, n) \cap detached = {} THEN doc[n].text ELSE <<>>]
<1>1. DOMAIN doc = 1..Len(doc) /\ Len(doc) \in Nat /\ <<>> \in Seq(U)
  BY LenProperties, EmptySeq
<1>2. p \in [1..Len(doc) -> Seq(U)]
  BY <1>1
<1>3. TextWithout(doc, detached) = FlattenSeq(p)
  BY DEF TextWithout
<1> HIDE DEF p
<1>4. p \in Seq(Seq(U))
  BY <1>1, <1>2, ListIsSeq
<1> QED
  BY <1>3, <1>4, FlattenIs

(* Of the elements of a document, those a reader does not see are removed,  *)
(* and each removal is counted once.                                        *)
LEMMA HiddenAreStripped ==
  ASSUME NEW doc, IsDocument(doc)
  PROVE  /\ StripHiddenElements(doc.elements) =
              [text |-> SeenText(doc.elements), removed |-> Cardinality(HidingActs(doc.elements))]
         /\ Cardinality(HidingActs(doc.elements)) \in Nat
<1> DEFINE els == doc.elements
<1>1. els \in Seq(ToSet(els)) /\ \A i \in DOMAIN els : IsElement(els[i], i)
  BY DEF IsDocument, IsText
<1>2. Tree(els)
  BY <1>1 DEF IsElement, Tree
<1>3. \A i \in DOMAIN els : Styled(els[i])
  BY <1>1 DEF IsElement, IsStyle, IsText, Styled, Declares
<1> HIDE DEF els
<1>4. RemoveHiddenNodes(els) = HidingActs(els) /\ Cardinality(HidingActs(els)) \in Nat
  BY <1>1, <1>2, <1>3, RemovesExactly
<1>5. TextWithout(els, HidingActs(els)) = SeenText(els)
  BY <1>1, <1>2, SeenIsLeft
<1> QED
  BY <1>4, <1>5 DEF StripHiddenElements, els

(* What is taken from a document for the cache is text. *)
LEMMA CopyIsText ==
  ASSUME NEW doc, IsDocument(doc)
  PROVE  \E U : Readable(ReadDocument(doc), U)
<1> DEFINE els == doc.elements
           U == ToSet(doc.title) \cup UNION {ToSet(els[i].text) : i \in DOMAIN els}
           found == Extract(doc)
           copy == ReadDocument(doc)
<1>1. els \in Seq(ToSet(els))
  BY DEF IsDocument, IsText
<1>2. doc.title \in Seq(U)
  <2>1. doc.title \in Seq(ToSet(doc.title)) /\ ToSet(doc.title) \subseteq U
    BY DEF IsDocument, IsText
  <2> HIDE DEF U
  <2> QED
    BY <2>1, SeqMonotonic
<1>3. ASSUME NEW i \in DOMAIN els PROVE els[i].text \in Seq(U)
  <2>1. els[i].text \in Seq(ToSet(els[i].text)) /\ ToSet(els[i].text) \subseteq U
    BY DEF IsDocument, IsElement, IsText
  <2> HIDE DEF U
  <2> QED
    BY <2>1, SeqMonotonic
<1> HIDE DEF U
<1>4. \A detached : TextWithout(els, detached) \in Seq(U)
  <2> HIDE DEF els
  <2> QED
    BY <1>1, <1>3, RestIsText
<1>5. /\ StripHiddenElements(els).text \in Seq(U)
      /\ StripHiddenElements(els).removed \in Nat
  <2>1. StripHiddenElements(els).text = TextWithout(els, RemoveHiddenNodes(els))
    BY DEF StripHiddenElements
  <2> DEFINE acts == Cardinality(HidingActs(els))
             seen == SeenText(els)
  <2>2. StripHiddenElements(els) = [text |-> seen, removed |-> acts] /\ acts \in Nat
    BY HiddenAreStripped
  <2> HIDE DEF acts, seen
  <2> QED
    BY <1>4, <2>1, <2>2
<1>6. found.text \in Seq(U) /\ found.title \in Seq(U) /\ found.removed \in Nat
  <2>1. doc.kind \in {"html", "plain", "no article", "unparsable"} /\ <<>> \in Seq(U)
    BY EmptySeq DEF IsDocument
  <2> DEFINE stripped == IF site.keepHiddenText
                           THEN [text |-> TextWithout(els, {}), removed |-> 0]
                           ELSE StripHiddenElements(els)
  <2>2. stripped.text \in Seq(U) /\ stripped.removed \in Nat
    BY <1>4, <1>5
  <2>3. found = IF doc.kind = "plain"
                  THEN [text |-> TextWithout(els, {}), title |-> <<>>, removed |-> 0]
                  ELSE CASE doc.kind = "html" -> [text |-> stripped.text, title |-> doc.title,
                                                  removed |-> stripped.removed]
                         [] doc.kind = "no article" -> [text |-> <<>>, title |-> <<>>,
                                                        removed |-> stripped.removed]
                         [] doc.kind = "unparsable" -> [text |-> <<>>, title |-> <<>>,
                                                        removed |-> 0]
    BY DEF Extract, ExtractHtml
  <2> HIDE DEF stripped, found, els
  <2>4. CASE doc.kind = "plain"
    BY <1>4, <2>1, <2>3, <2>4
  <2>5. CASE doc.kind = "html"
    BY <1>2, <2>2, <2>3, <2>5
  <2>6. CASE doc.kind = "no article"
    BY <2>1, <2>2, <2>3, <2>6
  <2>7. CASE doc.kind = "unparsable"
    BY <2>1, <2>3, <2>7
  <2> QED
    BY <2>1, <2>4, <2>5, <2>6, <2>7
<1> HIDE DEF found
<1>7. ASSUME NEW t \in Seq(U)
      PROVE  Sanitise(t).text \in Seq(U) /\ Sanitise(t).removed \in Nat
  BY StripsExactly DEF Sanitise
<1>8. copy = [content |-> Sanitise(found.text).text, title |-> Sanitise(found.title).text,
              removedContent |-> [invisibleChars |-> Sanitise(found.text).removed,
                                  hiddenElements |-> found.removed],
              removedMetadata |-> [invisibleChars |-> Sanitise(found.title).removed,
                                   hiddenElements |-> 0]]
  BY DEF ReadDocument, found
<1> HIDE DEF copy
<1>9. Readable(copy, U)
  BY <1>6, <1>7, <1>8 DEF Readable
<1> QED
  BY <1>9 DEF copy

(* The title that is read, and what it is to lose invisible characters or   *)
(* hidden elements.                                                         *)
TitleOf(doc) == IF doc.kind = "html" THEN doc.title ELSE <<>>
Lost(text) == Len(text) - Len(Legible(text))
ActsOf(doc) ==
  IF doc.kind = "plain" \/ site.keepHiddenText THEN 0 ELSE Cardinality(HidingActs(doc.elements))

(* One text is sanitised: what is left of it is legible, and the count is   *)
(* that of the runes it lost.                                               *)
LEMMA SanitisedExactly ==
  ASSUME NEW U, NEW t \in Seq(U)
  PROVE  Sanitise(t) = [text |-> Legible(t), removed |-> Lost(t)] /\ Lost(t) \in Nat
<1>1. CASE site.keepInvisibleChars
  <2>1. Len(t) \in Nat /\ Legible(t) = t
    BY <1>1, LenProperties DEF Legible
  <2>2. Lost(t) = 0
    BY <2>1 DEF Lost
  <2> QED
    BY <1>1, <2>1, <2>2 DEF Sanitise
<1>2. CASE ~site.keepInvisibleChars
  <2>1. /\ StripInvisible(t).text = Legible(t) /\ StripInvisible(t).removed = Lost(t)
        /\ Lost(t) \in Nat
    BY <1>2, StripsExactly DEF Legible, Lost
  <2>2. StripInvisible(t) = [text |-> StripInvisible(t).text, removed |-> StripInvisible(t).removed]
    BY DEF StripInvisible
  <2> QED
    BY <1>2, <2>1, <2>2 DEF Sanitise
<1> QED
  BY <1>1, <1>2

(* The copy of a document is what a reader sees of it, and the counts are   *)
(* those of what was lost.                                                  *)
LEMMA CopyIsClean ==
  ASSUME NEW doc, IsDocument(doc), doc.kind \in {"plain", "html"}
  PROVE  /\ ReadDocument(doc) =
              [content |-> Legible(Visible(doc)), title |-> Legible(TitleOf(doc)),
               removedContent  |-> [invisibleChars |-> Lost(Visible(doc)),
                                    hiddenElements |-> ActsOf(doc)],
               removedMetadata |-> [invisibleChars |-> Lost(TitleOf(doc)), hiddenElements |-> 0]]
         /\ Lost(Visible(doc)) \in Nat /\ Lost(TitleOf(doc)) \in Nat /\ ActsOf(doc) \in Nat
         /\ doc.kind = "plain" => Lost(TitleOf(doc)) = 0
<1> DEFINE els == doc.elements
           U == ToSet(doc.title) \cup UNION {ToSet(els[i].text) : i \in DOMAIN els}
           found == Extract(doc)
           title == TitleOf(doc)
           seen == Visible(doc)
           acts == ActsOf(doc)
<1>1. els \in Seq(ToSet(els))
  BY DEF IsDocument, IsText
<1>2. title \in Seq(U)
  <2>1. doc.title \in Seq(ToSet(doc.title)) /\ ToSet(doc.title) \subseteq U
    BY DEF IsDocument, IsText
  <2> HIDE DEF U
  <2>2. doc.title \in Seq(U) /\ <<>> \in Seq(U)
    BY <2>1, SeqMonotonic, EmptySeq
  <2> QED
    BY <2>2 DEF TitleOf
<1>3. ASSUME NEW i \in DOMAIN els PROVE els[i].text \in Seq(U)
  <2>1. els[i].text \in Seq(ToSet(els[i].text)) /\ ToSet(els[i].text) \subseteq U
    BY DEF IsDocument, IsElement, IsText
  <2> HIDE DEF U
  <2> QED
    BY <2>1, SeqMonotonic
<1> HIDE DEF U
<1>4. \A detached : TextWithout(els, detached) \in Seq(U)
  <2> HIDE DEF els
  <2> QED
    BY <1>1, <1>3, RestIsText
<1>5. /\ StripHiddenElements(els) =
           [text |-> SeenText(els), removed |-> Cardinality(HidingActs(els))]
      /\ SeenText(els) \in Seq(U) /\ Cardinality(HidingActs(els)) \in Nat
  <2>1. StripHiddenElements(els).text = TextWithout(els, RemoveHiddenNodes(els))
    BY DEF StripHiddenElements
  <2> QED
    BY <1>4, <2>1, HiddenAreStripped
<1>6. /\ found = [text |-> seen, title |-> title, removed |-> acts]
      /\ seen \in Seq(U) /\ acts \in Nat
  <2>1. CASE doc.kind = "plain"
    <3>1. found = [text |-> TextWithout(els, {}), title |-> <<>>, removed |-> 0]
      BY <2>1 DEF Extract
    <3>2. seen = TextWithout(els, {}) /\ title = <<>> /\ acts = 0
      BY <2>1 DEF Visible, TitleOf, ActsOf
    <3> HIDE DEF found, seen, title, acts
    <3> QED
      BY <1>4, <3>1, <3>2
  <2>2. CASE doc.kind = "html" /\ site.keepHiddenText
    <3>1. found = [text |-> TextWithout(els, {}), title |-> doc.title, removed |-> 0]
      BY <2>2 DEF Extract, ExtractHtml
    <3>2. seen = TextWithout(els, {}) /\ title = doc.title /\ acts = 0
      BY <2>2 DEF Visible, TitleOf, ActsOf
    <3> HIDE DEF found, seen, title, acts
    <3> QED
      BY <1>4, <3>1, <3>2
  <2>3. CASE doc.kind = "html" /\ ~site.keepHiddenText
    <3>1. found = [text |-> StripHiddenElements(els).text, title |-> doc.title,
                   removed |-> StripHiddenElements(els).removed]
      BY <2>3 DEF Extract, ExtractHtml
    <3>2. /\ seen = SeenText(els) /\ title = doc.title
          /\ acts = Cardinality(HidingActs(els))
      BY <2>3 DEF Visible, TitleOf, ActsOf
    <3> HIDE DEF found, seen, title, acts
    <3> QED
      BY <1>5, <3>1, <3>2
  <2> QED
    BY <2>1, <2>2, <2>3
<1> HIDE DEF found, seen, title, acts
<1>7. /\ Sanitise(seen) = [text |-> Legible(seen), removed |-> Lost(seen)]
      /\ Sanitise(title) = [text |-> Legible(title), removed |-> Lost(title)]
      /\ Lost(seen) \in Nat /\ Lost(title) \in Nat
  BY <1>2, <1>6, SanitisedExactly
<1>8. ReadDocument(doc) =
        [content |-> Sanitise(found.text).text, title |-> Sanitise(found.title).text,
         removedContent |-> [invisibleChars |-> Sanitise(found.text).removed,
                             hiddenElements |-> found.removed],
         removedMetadata |-> [invisibleChars |-> Sanitise(found.title).removed,
                              hiddenElements |-> 0]]
  BY DEF ReadDocument, found
<1>9. ReadDocument(doc) =
        [content |-> Legible(seen), title |-> Legible(title),
         removedContent  |-> [invisibleChars |-> Lost(seen), hiddenElements |-> acts],
         removedMetadata |-> [invisibleChars |-> Lost(title), hiddenElements |-> 0]]
  BY <1>6, <1>7, <1>8
<1>10. ASSUME doc.kind = "plain" PROVE Lost(title) = 0
  <2> DEFINE rest == Legible(title)
  <2>1. title = <<>>
    BY <1>10 DEF title, TitleOf
  <2>2. rest \in Seq(U)
    BY <1>2, StripsExactly DEF Legible
  <2>3. Len(rest) \in Nat /\ Len(title) = 0
    BY <2>1, <2>2, LenProperties
  <2>4. Lost(title) = Len(title) - Len(rest)
    BY DEF Lost
  <2> HIDE DEF rest
  <2> QED
    BY <1>7, <2>3, <2>4
<1> QED
  BY <1>6, <1>7, <1>9, <1>10 DEF seen, title, acts

(* A JSON string is text. *)
LEMMA JsonIsText ==
  ASSUME NEW U, NEW s \in Seq(U)
  PROVE  \E T : JsonText(s) \in Seq(T)
<1> DEFINE S == U \cup {"&"}
           T == S \cup {"\\u0026", "\\u003c", "\\u003e"}
           table == [c \in DOMAIN EntityOf |->
                       <<CASE c = "&" -> "\\u0026" [] c = "<" -> "\\u003c" [] c = ">" -> "\\u003e">>]
<1>1. s \in Seq(S) /\ "&" \in S
  <2>1. U \subseteq S
    OBVIOUS
  <2> QED
    BY <2>1, SeqMonotonic
<1>2. Replaces(table, S, T)
  <2>1. ASSUME NEW x \in S PROVE Escape(table, x) \in Seq(T)
    <3>1. CASE x \in DOMAIN table
      <4> DEFINE y == CASE x = "&" -> "\\u0026" [] x = "<" -> "\\u003c" [] x = ">" -> "\\u003e"
      <4>1. x \in {"&", "<", ">"}
        BY <3>1, EntityIs
      <4>2. y \in T
        BY <4>1
      <4>3. Escape(table, x) = <<y>>
        BY <3>1 DEF Escape
      <4> HIDE DEF y, T
      <4> QED
        BY <4>2, <4>3, ShortSeqs
    <3>2. CASE x \notin DOMAIN table
      <4>1. x \in T /\ Escape(table, x) = <<x>>
        BY <3>2 DEF Escape
      <4> HIDE DEF T
      <4> QED
        BY <4>1, ShortSeqs
    <3> QED
      BY <3>1, <3>2
  <2> QED
    BY <2>1 DEF Replaces
<1>3. JsonText(s) = Escaped(s, table)
  BY DEF JsonText
<1> HIDE DEF table, S, T
<1>4. Escaped(s, table) \in Seq(T)
  BY <1>1, <1>2, EscapedAppend
<1> QED
  BY <1>3, <1>4

(* An answer's copy is that of a document. *)
LEMMA DocumentIsRead ==
  ASSUME Inv, answer # NoAnswer
  PROVE  IsDocument(Doc) /\ answer.found.copy = ReadDocument(Doc)
<1>1. answer.found.version \in DOMAIN site.docs /\ answer.found.copy = ReadDocument(Doc)
  BY DEF Inv, Answered, Extracted, Doc
<1>2. site \in Sites
  BY DEF Inv, Origins
<1> QED
  BY <1>1, <1>2, DocumentAssumption DEF Doc

(* The preamble speaks of removals exactly when there were any, and says    *)
(* how many: what follows its last line break is the note.                  *)
Tells(told, truth) ==
  LET note == {i \in DOMAIN told : told[i] = "This content contained"}
  IN  IF truth = NothingRemoved THEN note = {}
      ELSE \E i \in note : SubSeq(told, i - 1, Len(told)) = SanitisationNote(truth)

(* What a fence or the prose tells is the preamble. *)
LEMMA PreambleIsTold ==
  ASSUME NEW relay, relay.nonce # "nonce=", relay.mode \in {"fenced", "prose"},
         NEW type, NEW source, NEW content, NEW encoding, NEW removed,
         removed.hiddenElements \in Nat, removed.invisibleChars \in Nat
  PROVE  Told(WrapFence(relay, type, source, content, encoding, removed)) =
           Awareness(encoding, relay.nonce, removed)
<1> DEFINE preamble == Awareness(encoding, relay.nonce, removed)
           U == PreambleTokens \cup {relay.nonce}
           meta == CanonicalAttributes(relay, type, "untrusted", source, relay.nonce, encoding)
           trust == CanonicalAttributes(relay, "instructions", "trusted", "awareness",
                                        relay.preambleNonce, "none")
           fence == BuildFence(relay.key, content, meta)
           trusted == BuildFence(relay.key, preamble, trust)
           response == WrapFence(relay, type, source, content, encoding, removed)
           break == <<"nl", "nl">>
<1>1. preamble \in Seq(U) /\ Len(preamble) \in Nat
  BY AwarenessNames DEF Names
<1>2. response = IF relay.mode = "prose" THEN [prose |-> preamble \o break, fences |-> <<fence>>]
                 ELSE [prose |-> <<>>, fences |-> <<trusted, fence>>]
  BY DEF WrapFence
<1>3. trust.encoding # "cdata"
  BY DEF CanonicalAttributes
<1> HIDE DEF preamble, trust
<1>4. Recover(trusted).text = preamble
  BY <1>1, <1>3, XmlRecovered
<1> HIDE DEF trusted, fence
<1>5. CASE relay.mode = "prose"
  <2> DEFINE V == U \cup {"nl"}
             all == preamble \o break
             n == Len(preamble)
             m == Len(all)
  <2>1. response.prose = all
    BY <1>2, <1>5
  <2>2. preamble \in Seq(V) /\ break \in Seq(V) /\ Len(break) = 2
    <3>1. "nl" \in V /\ U \subseteq V
      OBVIOUS
    <3> HIDE DEF V, U
    <3> QED
      BY <1>1, <3>1, SeqMonotonic, ShortSeqs
  <2> HIDE DEF V, U, break
  <2>3. /\ all \in Seq(V) /\ m = n + Len(break) /\ \A i \in 1..n : all[i] = preamble[i]
    BY <2>2, Joined
  <2>8. n \in Nat /\ m = n + 2 /\ m = Len(all)
    BY <1>1, <2>2, <2>3
  <2> HIDE DEF all, m, n
  <2>4. all # <<>>
    <3>1. m # 0
      BY <2>8
    <3> QED
      BY <2>8, <3>1, EmptySeq
  <2>5. SubSeq(all, 1, n) = preamble
    <3>1. n \in Nat /\ n <= m
      BY <2>8
    <3>2. /\ SubSeq(all, 1, n) \in Seq(V) /\ Len(SubSeq(all, 1, n)) = n
          /\ \A i \in 1..n : SubSeq(all, 1, n)[i] = all[i]
      BY <2>3, <2>8, <3>1, Prefix
    <3> QED
      BY <2>2, <2>3, <3>2, SeqEqual DEF n
  <2>6. m - 2 = n
    BY <2>8
  <2>7. Told(response) = SubSeq(all, 1, Len(all) - 2)
    BY <2>1, <2>4 DEF Told
  <2> QED
    BY <2>5, <2>6, <2>7, <2>8 DEF preamble
<1>6. CASE relay.mode = "fenced"
  <2>1. response.prose = <<>> /\ response.fences[1] = trusted
    BY <1>2, <1>6
  <2> QED
    BY <1>4, <2>1 DEF Told, preamble
<1> QED
  BY <1>5, <1>6

(* A note about nothing is empty; any other begins by saying what it is.    *)
LEMMA NoteSays ==
  ASSUME NEW h \in Nat, NEW v \in Nat, NEW removed,
         removed = [hiddenElements |-> h, invisibleChars |-> v]
  PROVE  LET note == SanitisationNote(removed)
         IN  /\ note \in Seq(NoteTokens)
             /\ removed = NothingRemoved => note = <<>>
             /\ removed # NothingRemoved =>
                  Len(note) \in Nat /\ Len(note) >= 2 /\ note[2] = "This content contained"
<1> DEFINE note == SanitisationNote(removed)
           part(n, what) == IF n > 0 THEN Append([i \in 1..n |-> "stroke"], what) ELSE <<>>
           a == part(h, "hidden page elements")
           b == part(v, "invisible characters")
           start == <<"nl", "This content contained">>
<1>1. removed.hiddenElements = h /\ removed.invisibleChars = v
  OBVIOUS
<1>2. note = IF a \o b = <<>> THEN <<>> ELSE start \o (a \o b)
  BY <1>1 DEF SanitisationNote
<1>3. note \in Seq(NoteTokens)
  BY <1>1, NoteIsText
<1>4. ASSUME NEW n \in Nat, NEW what \in NoteTokens
      PROVE  /\ part(n, what) \in Seq(NoteTokens) /\ Len(part(n, what)) \in Nat
             /\ (Len(part(n, what)) = 0) <=> (n = 0)
  <2> DEFINE strokes == [i \in 1..n |-> "stroke"]
  <2>1. strokes \in [1..n -> NoteTokens]
    BY DEF NoteTokens
  <2> HIDE DEF strokes
  <2>2. strokes \in Seq(NoteTokens)
    BY <2>1, ListIsSeq
  <2>3. /\ Append(strokes, what) \in Seq(NoteTokens)
        /\ Len(Append(strokes, what)) = Len(strokes) + 1 /\ Len(strokes) \in Nat
    BY <2>2, AppendProperties, LenProperties
  <2>4. <<>> \in Seq(NoteTokens) /\ Len(<<>>) = 0
    BY EmptySeq
  <2>5. part(n, what) = IF n > 0 THEN Append(strokes, what) ELSE <<>>
    BY DEF strokes
  <2> HIDE DEF part
  <2>6. CASE n = 0
    BY <2>4, <2>5, <2>6
  <2>7. CASE n > 0
    <3> DEFINE p == part(n, what)
               l == Len(strokes)
    <3>1. p = Append(strokes, what)
      BY <2>5, <2>7
    <3> HIDE DEF p
    <3>2. p \in Seq(NoteTokens) /\ Len(p) = l + 1 /\ l \in Nat
      BY <2>3, <3>1
    <3> HIDE DEF l
    <3> QED
      BY <2>7, <3>2 DEF p
  <2> QED
    BY <2>6, <2>7
<1>5. /\ a \in Seq(NoteTokens) /\ b \in Seq(NoteTokens) /\ Len(a) \in Nat /\ Len(b) \in Nat
      /\ (Len(a) = 0) <=> (h = 0)
      /\ (Len(b) = 0) <=> (v = 0)
  <2>1. "hidden page elements" \in NoteTokens /\ "invisible characters" \in NoteTokens
    BY DEF NoteTokens
  <2> HIDE DEF part
  <2> QED
    BY <1>4, <2>1
<1>6. start \in Seq(NoteTokens) /\ Len(start) = 2 /\ start[2] = "This content contained"
  <2>1. "nl" \in NoteTokens /\ "This content contained" \in NoteTokens
    BY DEF NoteTokens
  <2> QED
    BY <2>1, ShortSeqs
<1> HIDE DEF note, a, b, start
<1> DEFINE parts == a \o b
<1>7. /\ parts \in Seq(NoteTokens) /\ Len(parts) \in Nat
      /\ (Len(parts) = 0) <=> (h = 0 /\ v = 0)
  <2>1. parts \in Seq(NoteTokens) /\ Len(parts) = Len(a) + Len(b)
    BY <1>5, Joined
  <2> HIDE DEF parts
  <2> QED
    BY <1>5, <2>1
<1>8. note = IF parts = <<>> THEN <<>> ELSE start \o parts
  BY <1>2
<1> HIDE DEF parts
<1>9. removed = NothingRemoved <=> (h = 0 /\ v = 0)
  BY DEF NothingRemoved
<1>10. CASE h = 0 /\ v = 0
  <2>1. parts = <<>>
    BY <1>7, <1>10, EmptySeq
  <2> QED
    BY <1>3, <1>8, <1>9, <1>10, <2>1 DEF note
<1>11. CASE ~(h = 0 /\ v = 0)
  <2> DEFINE all == start \o parts
  <2>1. parts # <<>>
    BY <1>7, <1>11, EmptySeq
  <2>2. Len(all) = Len(start) + Len(parts) /\ \A i \in 1..Len(start) : all[i] = start[i]
    BY <1>6, <1>7, Joined
  <2>3. note = all
    BY <1>8, <2>1
  <2> DEFINE k == Len(parts)
             n == Len(all)
  <2> HIDE DEF all
  <2> DEFINE two == Len(start)
  <2>4. two = 2 /\ k \in Nat /\ n = two + k
    BY <1>6, <1>7, <2>2
  <2> HIDE DEF k, n, two
  <2>5. n \in Nat /\ n >= 2 /\ 2 \in 1..two
    BY <2>4
  <2>7. all[2] = "This content contained"
    BY <1>6, <2>2, <2>5 DEF two
  <2>6. Len(note) \in Nat /\ Len(note) >= 2 /\ note[2] = "This content contained"
    BY <2>3, <2>5, <2>7 DEF n
  <2> QED
    BY <1>3, <1>9, <1>11, <2>6 DEF note
<1> QED
  BY <1>10, <1>11

(* The preamble of a text that is not in a section tells the truth. *)
LEMMA NoteIsTold ==
  ASSUME NEW relay, relay.nonce = "n1", relay.mode \in {"fenced", "prose"},
         NEW type, NEW source, NEW content, NEW h \in Nat, NEW v \in Nat, NEW removed,
         removed = [hiddenElements |-> h, invisibleChars |-> v]
  PROVE  Tells(Told(WrapFence(relay, type, source, content, "none", removed)), removed)
<1> DEFINE words == "This content contained"
           U == PreambleTokens \cup {"n1"}
           T == U \ {words}
           tag == <<"<", "sec:fence", ">", "nonce=", "n1">>
           rules == <<"&", "amp;", "&", "lt;", "&", "gt;">>
           head == (tag \o ClosingTag) \o rules
           note == SanitisationNote(removed)
           told == Told(WrapFence(relay, type, source, content, "none", removed))
<1>1. told = head \o note
  <2>1. told = Awareness("none", relay.nonce, removed)
    <3>1. removed.hiddenElements \in Nat /\ removed.invisibleChars \in Nat
      OBVIOUS
    <3>2. relay.nonce # "nonce="
      OBVIOUS
    <3> QED
      BY <3>1, <3>2, PreambleIsTold
  <2>2. Awareness("none", "n1", removed) = head \o note
    BY DEF Awareness
  <2> QED
    BY <2>1, <2>2
<1>2. /\ note \in Seq(NoteTokens)
      /\ removed = NothingRemoved => note = <<>>
      /\ removed # NothingRemoved => Len(note) \in Nat /\ Len(note) >= 2 /\ note[2] = words
  BY NoteSays
<1>3. tag \in Seq(T) /\ Len(tag) = 5
  BY DEF PreambleTokens
<1>4. ClosingTag \in Seq(T) /\ Len(ClosingTag) = 3
  BY DEF ClosingTag, PreambleTokens
<1>5. rules \in Seq(T) /\ Len(rules) = 6
  BY DEF PreambleTokens
<1>6. NoteTokens \subseteq U /\ T \subseteq U /\ words \notin T
  BY DEF PreambleTokens
<1> HIDE DEF told, note, tag, rules, T, U
<1>7. head \in Seq(T) /\ Len(head) = 14
  <2> DEFINE front == tag \o ClosingTag
  <2>1. front \in Seq(T) /\ Len(front) = Len(tag) + Len(ClosingTag)
    BY <1>3, <1>4, Joined
  <2> HIDE DEF front
  <2>2. Len(front) = 8
    BY <1>3, <1>4, <2>1
  <2> DEFINE all == front \o rules
  <2>3. all \in Seq(T) /\ Len(all) = Len(front) + Len(rules)
    BY <1>5, <2>1, Joined
  <2> HIDE DEF all
  <2>4. Len(all) = 14
    BY <1>5, <2>2, <2>3
  <2> QED
    BY <2>3, <2>4 DEF all, front
<1> HIDE DEF head
<1>8. \A i \in 1..14 : head[i] # words
  <2>1. \A i \in 1..14 : head[i] \in T
    BY <1>7, ElementOfSeq
  <2> QED
    BY <1>6, <2>1
<1>9. CASE removed = NothingRemoved
  <2>1. told = head
    <3>1. head \o <<>> = head
      BY <1>7, ConcatEmptySeq
    <3> QED
      BY <1>1, <1>2, <1>9, <3>1
  <2>2. DOMAIN told = 1..14
    BY <1>7, <2>1, LenProperties
  <2>3. {i \in DOMAIN told : told[i] = words} = {}
    BY <1>8, <2>1, <2>2
  <2> QED
    BY <1>9, <2>3 DEF Tells, told
<1>10. CASE removed # NothingRemoved
  <2> DEFINE n == Len(note)
             m == Len(told)
             rest == SubSeq(told, 15, m)
  <2>1. n \in Nat /\ n >= 2
    BY <1>2, <1>10
  <2>12. note[2] = words
    BY <1>2, <1>10
  <2>2. head \in Seq(U) /\ note \in Seq(U)
    BY <1>2, <1>6, <1>7, SeqMonotonic
  <2>13. told \in Seq(U) /\ m = 14 + n /\ \A i \in 1..n : told[14 + i] = note[i]
    <3> DEFINE all == head \o note
               k == Len(head)
    <3>1. all \in Seq(U) /\ Len(all) = k + n /\ \A i \in 1..n : all[k + i] = note[i]
      BY <2>2, Joined
    <3>2. k = 14 /\ told = all
      BY <1>1, <1>7
    <3> HIDE DEF k, all, n
    <3> QED
      BY <3>1, <3>2
  <2>3. m = 14 + n
    BY <2>13
  <2>4. DOMAIN told = 1..m
    BY <2>13, LenProperties
  <2>5. m = Len(told)
    OBVIOUS
  <2> HIDE DEF n, m
  <2>11. m \in Nat
    BY <2>1, <2>3
  <2>6. rest \in Seq(U) /\ Len(rest) = n /\ \A i \in 1..n : rest[i] = told[14 + i]
    <3> DEFINE from == 15
    <3>1. from \in Nat \ {0} /\ from <= m + 1 /\ m <= m
      BY <2>1, <2>3, <2>11
    <3>2. rest = SubSeq(told, from, m) /\ m <= Len(told) /\ told \in Seq(U)
      BY <2>5, <2>13, <3>1
    <3>3. m - from + 1 = n /\ \A i \in 1..n : from + i - 1 = 14 + i
      BY <2>1, <2>3
    <3> HIDE DEF from, rest
    <3>4. /\ rest \in Seq(U) /\ Len(rest) = m - from + 1
          /\ \A i \in 1..(m - from + 1) : rest[i] = told[from + i - 1]
      BY <2>11, <3>1, <3>2, PartOf
    <3> QED
      BY <3>3, <3>4
  <2> HIDE DEF rest
  <2>7. rest = note
    BY <2>2, <2>6, <2>13, SeqEqual DEF n
  <2>8. 16 \in DOMAIN told /\ told[16] = words
    <3>1. 2 \in 1..n /\ 14 + 2 = 16 /\ 16 \in 1..m
      BY <2>1, <2>3
    <3>2. told[14 + 2] = note[2]
      BY <2>13, <3>1
    <3> QED
      BY <2>4, <2>12, <3>1, <3>2
  <2>9. SubSeq(told, 16 - 1, Len(told)) = note
    BY <2>7 DEF rest, m
  <2> DEFINE found == {i \in DOMAIN told : told[i] = words}
  <2>10. 16 \in found /\ \E i \in found : SubSeq(told, i - 1, Len(told)) = note
    BY <2>8, <2>9
  <2> QED
    BY <1>10, <2>10 DEF Tells, told, note
<1> QED
  BY <1>9, <1>10

(* Recovered: whatever markup, references, section ends or closing tags a   *)
(* document's text holds, a verifier accepts the response, in both formats  *)
(* and both encodings, and reads exactly the text that was signed           *)
(* (fence.go, xmlContentEscape, cdataEscape and wrapFenceEncoded).          *)
THEOREM AnswersAreRecovered == Spec => []Recovered
<1>1. Inv => Recovered
  <2> SUFFICES ASSUME Inv, answer # NoAnswer,
                      NEW mode \in {"fenced", "prose"}, NEW encoding \in {"none", "cdata"}
               PROVE  /\ Accepts(Response(mode, encoding), {"key"})
                      /\ Carried(Response(mode, encoding)) = Content
    BY DEF Recovered
  <2>1. \E U : Readable(answer.found.copy, U)
    <3> DEFINE doc == site.docs[answer.found.version]
    <3>1. answer.found.version \in DOMAIN site.docs /\ answer.found.copy = ReadDocument(doc)
      BY DEF Inv, Answered, Extracted
    <3>2. IsDocument(doc)
      BY <3>1, DocumentAssumption DEF Inv, Origins
    <3> HIDE DEF doc
    <3> QED
      BY <3>1, <3>2, CopyIsText
  <2>2. PICK U : Readable(answer.found.copy, U)
    BY <2>1
  <2>3. PICK T : Content \in Seq(T)
    BY <2>2, JsonIsText DEF Content, Readable
  <2>4. Removed.hiddenElements \in Nat /\ Removed.invisibleChars \in Nat
    BY <2>2 DEF Removed, Readable
  <2> DEFINE relay == Relay(mode)
  <2>5. /\ relay.nonce # "nonce=" /\ relay.mode \in {"fenced", "prose"} /\ relay.key = "key"
    BY DEF Relay
  <2>6. Response(mode, encoding) =
          WrapFence(relay, Type, answer.url, Content, encoding, Removed)
    BY DEF Response
  <2> HIDE DEF relay
  <2>7. ReadBack(relay.key, Content, CanonicalAttributes(relay, Type, "untrusted", answer.url,
                                                         relay.nonce, encoding))
    BY <2>3, AlwaysReadBack
  <2>8. LET response == WrapFence(relay, Type, answer.url, Content, encoding, Removed)
        IN  Accepts(response, {relay.key}) /\ Carried(response) = Content
    BY <2>4, <2>5, <2>7, WrapAccepted
  <2> QED
    BY <2>5, <2>6, <2>8
<1> QED
  BY <1>1, FetchInvariant, PTL
(* CleanedExactly: what a tool answers with is what a person would have     *)
(* seen of that version of the page, from the cache or not: no text of an   *)
(* element that a browser hides, no invisible character outside an emoji or *)
(* a flag, and nothing else lost, whatever the document holds (hidden.go,   *)
(* invisible.go).                                                           *)
THEOREM AnswersAreClean == Spec => []CleanedExactly
<1>1. Inv => CleanedExactly
  <2> SUFFICES ASSUME Inv, answer # NoAnswer, Doc.kind \in {"plain", "html"}
               PROVE  /\ answer.found.copy.content = Legible(Visible(Doc))
                      /\ Doc.kind = "html" => answer.found.copy.title = Legible(Doc.title)
    BY DEF CleanedExactly
  <2>1. IsDocument(Doc) /\ answer.found.copy = ReadDocument(Doc)
    BY DocumentIsRead
  <2> DEFINE doc == Doc
  <2> HIDE DEF doc
  <2>2. IsDocument(doc) /\ doc.kind \in {"plain", "html"}
    BY <2>1 DEF doc
  <2>3. /\ ReadDocument(doc).content = Legible(Visible(doc))
        /\ ReadDocument(doc).title = Legible(TitleOf(doc))
    BY <2>2, CopyIsClean
  <2>4. doc.kind = "html" => TitleOf(doc) = doc.title
    BY DEF TitleOf
  <2> QED
    BY <2>1, <2>3, <2>4 DEF doc
<1> QED
  BY <1>1, FetchInvariant, PTL

(* NoteTruthful: the preamble tells what was removed from this text, no     *)
(* more and no less, on cached answers too (fetch.go: "a cache hit reports  *)
(* the same removal counts as this fetch").                                 *)
THEOREM NotesAreTrue == Spec => []NoteTruthful
<1>1. Inv => NoteTruthful
  <2> SUFFICES ASSUME Inv, answer # NoAnswer, Doc.kind \in {"plain", "html"}
               PROVE  NoteTruthful
    BY DEF NoteTruthful
  <2> DEFINE doc == Doc
             lost(text) == Len(text) - Len(Legible(text))
             acts == IF doc.kind = "plain" \/ site.keepHiddenText THEN 0
                     ELSE Cardinality(HidingActs(doc.elements))
             truth == IF answer.tool = "read_url"
                        THEN [hiddenElements |-> acts, invisibleChars |-> lost(Visible(doc))]
                        ELSE [hiddenElements |-> 0,
                              invisibleChars |-> IF doc.kind = "html" THEN lost(doc.title) ELSE 0]
  <2>1. IsDocument(doc) /\ answer.found.copy = ReadDocument(doc) /\ doc.kind \in {"plain", "html"}
    BY DocumentIsRead
  <2> HIDE DEF doc
  <2>2. /\ ReadDocument(doc).removedContent =
             [invisibleChars |-> Lost(Visible(doc)), hiddenElements |-> ActsOf(doc)]
        /\ ReadDocument(doc).removedMetadata =
             [invisibleChars |-> Lost(TitleOf(doc)), hiddenElements |-> 0]
        /\ Lost(Visible(doc)) \in Nat /\ Lost(TitleOf(doc)) \in Nat /\ ActsOf(doc) \in Nat
        /\ doc.kind = "plain" => Lost(TitleOf(doc)) = 0
    BY <2>1, CopyIsClean
  <2>3. /\ truth = Removed
        /\ truth.hiddenElements \in Nat /\ truth.invisibleChars \in Nat
        /\ truth = [hiddenElements |-> truth.hiddenElements,
                    invisibleChars |-> truth.invisibleChars]
    <3>1. acts = ActsOf(doc) /\ lost(Visible(doc)) = Lost(Visible(doc))
      BY DEF ActsOf, Lost
    <3>2. (IF doc.kind = "html" THEN lost(doc.title) ELSE 0) = Lost(TitleOf(doc))
      <4>1. doc.kind = "html" => lost(doc.title) = Lost(TitleOf(doc))
        BY DEF Lost, TitleOf
      <4> QED
        BY <2>1, <2>2, <4>1
    <3>3. Removed = IF answer.tool = "read_url" THEN ReadDocument(doc).removedContent
                    ELSE ReadDocument(doc).removedMetadata
      BY <2>1 DEF Removed
    <3> HIDE DEF acts, lost
    <3>4. CASE answer.tool = "read_url"
      BY <2>2, <3>1, <3>3, <3>4
    <3>5. CASE answer.tool # "read_url"
      BY <2>2, <3>2, <3>3, <3>5
    <3> QED
      BY <3>4, <3>5
  <2> HIDE DEF truth
  <2>4. ASSUME NEW mode \in {"fenced", "prose"}
        PROVE  Tells(Told(Response(mode, "none")), truth)
    <3> DEFINE relay == Relay(mode)
    <3>1. Response(mode, "none") = WrapFence(relay, Type, answer.url, Content, "none", truth)
      BY <2>3 DEF Response
    <3>2. relay.nonce = "n1" /\ relay.mode \in {"fenced", "prose"}
      BY DEF Relay
    <3> DEFINE h == truth.hiddenElements
               v == truth.invisibleChars
    <3>3. h \in Nat /\ v \in Nat /\ truth = [hiddenElements |-> h, invisibleChars |-> v]
      BY <2>3
    <3> HIDE DEF relay, h, v
    <3> QED
      BY <3>1, <3>2, <3>3, NoteIsTold
  <2>5. NoteTruthful <=> \A mode \in {"fenced", "prose"} : Tells(Told(Response(mode, "none")), truth)
    BY <2>1 DEF NoteTruthful, Tells, truth, doc
  <2> QED
    BY <2>4, <2>5
<1> QED
  BY <1>1, FetchInvariant, PTL

=============================================================================
