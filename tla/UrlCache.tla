------------------------------ MODULE UrlCache ------------------------------
(***************************************************************************)
(* readURL and the URL content cache it shares between all callers          *)
(* (fetch.go).  Readers run concurrently; the cache locks each call, but    *)
(* nothing spans two of them, so a reader's Get, its check of the expiry,   *)
(* its Remove and its final Add interleave with everybody else's.           *)
(* A page is a version number that its origin moves on at any time; what a  *)
(* version says is a document of the site, which extraction cleans before   *)
(* it is cached.  FetchTools composes this with the tools that call it.     *)
(***************************************************************************)
EXTENDS Lru, Hidden, Invisible

CONSTANTS
  Url, Reader,
  CacheMaxEntries,  \* CACHE_MAX_ENTRIES
  TTL,              \* CACHE_TTL_SECONDS
  MaxLoad,          \* longest time from response headers to the end of
                    \* extraction: the client's Timeout bounds the download
  Sites,            \* what there is to read: [docs, keepHiddenText,
                    \* keepInvisibleChars, scope], docs a sequence of versions
  MaxTime           \* bound: the clock

ASSUME CacheAssumption ==
  /\ CacheMaxEntries \in Nat \ {0} /\ TTL \in Nat /\ MaxLoad \in Nat
  /\ MaxTime \in Nat /\ IsFiniteSet(Url) /\ IsFiniteSet(Reader)
  /\ \A s \in Sites : Len(s.docs) \in Nat \ {0} /\ DOMAIN s.docs = 1..Len(s.docs)

IsText(t) == t \in Seq(ToSet(t))

(* What a parser makes of a style, an element and a body. *)
IsStyle(s) == IsText(s) /\ \A i \in DOMAIN s : s[i].important \in BOOLEAN

IsElement(e, place) ==
  /\ IsText(e.text) /\ e.parent \in 0..(place - 1)
  /\ \A i \in DOMAIN e.attrs : e.attrs[i].key = "style" => IsStyle(e.attrs[i].val)

IsDocument(d) ==
  /\ d.kind \in {"html", "plain", "no article", "unparsable"}
  /\ IsText(d.title) /\ IsText(d.elements)
  /\ \A i \in DOMAIN d.elements : IsElement(d.elements[i], i)

ASSUME DocumentAssumption == \A s \in Sites : \A v \in DOMAIN s.docs : IsDocument(s.docs[v])

VARIABLES
  site,     \* the documents, and FETCH_KEEP_HIDDEN_TEXT, FETCH_KEEP_INVISIBLE
  now,      \* the wall clock
  page,     \* Url -> the version its origin serves
  shown,    \* history: Url -> time -> the versions served in that tick
  cache,    \* Server.cache: [copy, version, fetchedAt, expiresAt], LRU order
  rd,       \* Reader -> where it is in readURL, and its result at the end
  hits,     \* CacheHits
  misses,   \* CacheMisses
  timed     \* FetchDuration: observations of each cache outcome

cacheVars == <<site, now, page, shown, cache, rd, hits, misses, timed>>

Idle == [pc |-> "idle"]

CacheInit ==
  /\ site \in Sites
  /\ now = 0
  /\ page = [u \in Url |-> 1]
  /\ shown = [u \in Url |-> [t \in 0..MaxTime |-> IF t = 0 THEN {1} ELSE {}]]
  /\ cache = LruEmpty
  /\ rd = [r \in Reader |-> Idle]
  /\ hits = 0 /\ misses = 0
  /\ timed = [hit |-> 0, miss |-> 0]

(* Bound: what else may happen while this site is read.  "text": nothing;   *)
(* "time": the clock moves and pages change; "calls": readURL fails or      *)
(* finds an image, and calls end early.                                     *)
Scope(s) == site.scope \in s

(* Mutant of Fresh: still good at the instant it expires. *)
FreshAtExpiry(e) == now <= e.expiresAt

Fresh(e) == now < e.expiresAt

(* time.Now().Add(s.cacheTTL), taken when the entry is added. *)
ExpiresAt == now + TTL

(* Mutant of FetchedAt: the time the text is stored. *)
StoredAt(r) == now

(* The fetchedAt of a response is read when its headers arrive. *)
FetchedAt(r) == rd[r].fetchedAt

-----------------------------------------------------------------------------
(* From a document [kind, elements, title] to the copy that is cached.  The *)
(* extractor (a library) keeps the text of every element it is given.       *)

NothingRemoved == [invisibleChars |-> 0, hiddenElements |-> 0]
Nothing == [copy |-> [content |-> <<>>, title |-> <<>>, removedContent |-> NothingRemoved,
                      removedMetadata |-> NothingRemoved],
            version |-> 0, fetchedAt |-> 0]

(* extractHTMLDocument: [text, title, removed].  When the page cannot be    *)
(* parsed nothing is extracted; when no article is found its text is empty. *)
ExtractHtml(doc) ==
  LET stripped == IF site.keepHiddenText
                    THEN [text |-> TextWithout(doc.elements, {}), removed |-> 0]
                    ELSE StripHiddenElements(doc.elements)
  IN  CASE doc.kind = "html"       -> [text |-> stripped.text, title |-> doc.title,
                                       removed |-> stripped.removed]
        [] doc.kind = "no article" -> [text |-> <<>>, title |-> <<>>,
                                       removed |-> stripped.removed]
        [] doc.kind = "unparsable" -> [text |-> <<>>, title |-> <<>>, removed |-> 0]

Extract(doc) ==
  IF doc.kind = "plain"
    THEN [text |-> TextWithout(doc.elements, {}), title |-> <<>>, removed |-> 0]
    ELSE ExtractHtml(doc)

(* sanitiseFetched, on one text. *)
Sanitise(text) ==
  IF site.keepInvisibleChars THEN [text |-> text, removed |-> 0] ELSE StripInvisible(text)

(* From the body to what is cached and returned. *)
ReadDocument(doc) ==
  LET found == Extract(doc)
      text  == Sanitise(found.text)
      title == Sanitise(found.title)
  IN  [content |-> text.text, title |-> title.text,
       removedContent  |-> [invisibleChars |-> text.removed,
                            hiddenElements |-> found.removed],
       removedMetadata |-> [invisibleChars |-> title.removed, hiddenElements |-> 0]]

-----------------------------------------------------------------------------
(* The environment. *)

Tick ==
  /\ Scope({"time"}) /\ now < MaxTime
  /\ \A r \in Reader : rd[r].pc = "load" => now < rd[r].fetchedAt + MaxLoad
  /\ now' = now + 1
  /\ shown' = [u \in Url |-> [shown[u] EXCEPT ![now + 1] = {page[u]}]]
  /\ UNCHANGED <<site, page, cache, rd, hits, misses, timed>>

Publish(u) ==
  /\ Scope({"time"}) /\ page[u] < Len(site.docs)
  /\ page' = [page EXCEPT ![u] = @ + 1]
  /\ shown' = [shown EXCEPT ![u][now] = @ \cup {page[u] + 1}]
  /\ UNCHANGED <<site, now, cache, rd, hits, misses, timed>>

-----------------------------------------------------------------------------
(* readURL. *)

(* force_refresh: the entry goes before the fetch is tried. *)
ForceRefresh(r, u) ==
  /\ rd[r] = Idle
  /\ cache' = LruRemove(cache, u)
  /\ misses' = misses + 1
  /\ rd' = [rd EXCEPT ![r] = [pc |-> "fetch", url |-> u]]
  /\ UNCHANGED <<site, now, page, shown, hits, timed>>

(* cache.Get: a miss goes on to fetch, an entry is examined next. *)
Lookup(r, u) ==
  /\ rd[r] = Idle
  /\ cache' = LruGet(cache, u)
  /\ \/ /\ LruHas(cache, u)
        /\ rd' = [rd EXCEPT ![r] =
                    [pc |-> "judge", url |-> u, entry |-> LruValue(cache, u)]]
        /\ UNCHANGED misses
     \/ /\ ~LruHas(cache, u)
        /\ misses' = misses + 1
        /\ rd' = [rd EXCEPT ![r] = [pc |-> "fetch", url |-> u]]
  /\ UNCHANGED <<site, now, page, shown, hits, timed>>

(* What readURL returns; the reader's tool takes it from there. *)
Return(r, kind, cached, found) ==
  rd' = [rd EXCEPT ![r] = [pc |-> "done", url |-> rd[r].url, kind |-> kind,
                           cached |-> cached, found |-> found, at |-> now]]

(* Mutant of Recalled: the removal counts are those of this call. *)
RecalledUncounted(e) ==
  [copy |-> [e.copy EXCEPT !.removedContent = NothingRemoved,
                           !.removedMetadata = NothingRemoved],
   version |-> e.version, fetchedAt |-> e.fetchedAt]

(* The result as the entry has it. *)
Recalled(e) == [copy |-> e.copy, version |-> e.version, fetchedAt |-> e.fetchedAt]

(* The entry is still good: it is the answer. *)
Hit(r) ==
  /\ rd[r].pc = "judge" /\ Fresh(rd[r].entry)
  /\ hits' = hits + 1
  /\ timed' = [timed EXCEPT !.hit = @ + 1]
  /\ Return(r, "text", TRUE, Recalled(rd[r].entry))
  /\ UNCHANGED <<site, now, page, shown, cache, misses>>

(* The entry has expired: whatever is under its key by now is removed.      *)
(* Once expired it stays expired, so the check and the Remove are one step. *)
DropExpired(r) ==
  /\ rd[r].pc = "judge" /\ ~Fresh(rd[r].entry)
  /\ cache' = LruRemove(cache, rd[r].url)
  /\ misses' = misses + 1
  /\ rd' = [rd EXCEPT ![r] = [pc |-> "fetch", url |-> rd[r].url]]
  /\ UNCHANGED <<site, now, page, shown, hits, timed>>

(* The origin answers 200; the version is what it served at that moment. *)
Respond(r) ==
  /\ rd[r].pc = "fetch"
  /\ \E kind \in IF Scope({"calls"}) THEN {"text", "image"} ELSE {"text"} :
       rd' = [rd EXCEPT ![r] =
                [pc |-> "load", url |-> rd[r].url, kind |-> kind,
                 version |-> page[rd[r].url], fetchedAt |-> now]]
  /\ UNCHANGED <<site, now, page, shown, cache, hits, misses, timed>>

(* Any error return: scheme, dial, status, a disabled image, a body that    *)
(* breaks off, a PDF or office file that does not extract.                  *)
Fail(r) ==
  /\ Scope({"calls"}) /\ rd[r].pc \in {"fetch", "load"}
  /\ timed' = [timed EXCEPT !.miss = @ + 1]
  /\ Return(r, "error", FALSE, Nothing)
  /\ UNCHANGED <<site, now, page, shown, cache, hits, misses>>

(* Mutant of TimeImage: the call is missing from the latency histogram. *)
TimeNothing == timed

TimeImage == [timed EXCEPT !.miss = @ + 1]

(* An image is returned and never cached. *)
ReturnImage(r) ==
  /\ rd[r].pc = "load" /\ rd[r].kind = "image"
  /\ timed' = TimeImage
  /\ Return(r, "image", FALSE, Nothing)
  /\ UNCHANGED <<site, now, page, shown, cache, hits, misses>>

(* Text is cached and returned. *)
Store(r) ==
  LET u == rd[r].url
      e == [copy |-> ReadDocument(site.docs[rd[r].version]),
            version |-> rd[r].version, fetchedAt |-> FetchedAt(r),
            expiresAt |-> ExpiresAt]
  IN  /\ rd[r].pc = "load" /\ rd[r].kind = "text"
      /\ cache' = LruAdd(cache, u, e, CacheMaxEntries)
      /\ timed' = [timed EXCEPT !.miss = @ + 1]
      /\ Return(r, "text", FALSE,
                [copy |-> e.copy, version |-> e.version, fetchedAt |-> e.fetchedAt])
      /\ UNCHANGED <<site, now, page, shown, hits, misses>>

(* readURL, once it has been called, and everything around it. *)
CacheStep ==
  \/ Tick
  \/ \E u \in Url : Publish(u)
  \/ \E r \in Reader : \/ Hit(r) \/ DropExpired(r) \/ Respond(r)
                       \/ Fail(r) \/ ReturnImage(r) \/ Store(r)

-----------------------------------------------------------------------------
(* Every variable has its type, and the cache keeps its bound. *)
CacheTypeOK ==
  /\ now \in 0..MaxTime
  /\ page \in [Url -> DOMAIN site.docs]
  /\ Len(cache) <= CacheMaxEntries
  /\ \A i, j \in DOMAIN cache : cache[i].key = cache[j].key => i = j
  /\ \A r \in Reader : rd[r].pc \in {"idle", "judge", "fetch", "load", "done"}

(* readURL counts every call once: hits and misses add up to the calls that *)
(* have been decided, and the latency histogram has one observation per     *)
(* finished call, under the outcome the counters gave it.                   *)
ReadsAccounted(reads) ==
  /\ reads = hits + misses + Cardinality({r \in Reader : rd[r].pc = "judge"})
  /\ timed.hit = hits
  /\ misses = timed.miss + Cardinality({r \in Reader : rd[r].pc \in {"fetch", "load"}})

=============================================================================
