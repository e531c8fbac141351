# A TLA+ model of mcp-searxng-relay

mcp-searxng-relay is one Go process that gives language-model clients four MCP
tools: `searxng_web_search`, `searxng_read_url`, `searxng_url_metadata` and
`searxng_session_sources`. It talks to a SearXNG instance, to the pages it is
asked to read, and (when it carries user identities onwards) to an identity
provider. Every tool call is a goroutine; what the calls share sits in memory
behind short mutexes, and nothing is persisted. The difficulty is therefore
mostly in what happens between two locks: state that is read, released, and
acted on later, while other calls, the clock, an operator or the network have
moved on. What a restart does lose (keys, verdicts, requests in flight) is in
`Relay`; what a text goes through on its way to a model, in `Hidden`,
`Invisible` and `Fence`.

This directory holds TLA+ modules translated from the Go source, TLC
configurations that check them on small instances, and TLAPS proofs that the
safety properties these runs pass hold for every value of the constants.
`PROJECT.json` maps each definition to its source lines.

Tools: `tlc -workers 2 -config X.cfg M` for a run, `tlapm M.tla` for the proofs
of a module `*Proofs`.

## The system and its parts

| Part | State it keeps | Operations | Hard because |
|---|---|---|---|
| Source ledger of one caller (`history.go`) | slots, index by citable URL, two counters | `appendRecord`, `mergeRecord`, `evictLeastRecent`, `list` | slots are reused, repeat fetches fold into rows that clients have already polled |
| Cache of ledgers (`history.go`, `server.go`, `transport_http.go`) | LRU from (identity, session) to ledger | `historyKey`, `historyFor`, `recordFetch`, `toolSessionSources` | a request keeps a pointer to a ledger that may leave the cache; clients choose their session IDs |
| URL cache (`fetch.go`) | expirable entries, hit and miss counters | `readURL` | check, removal and store are separate calls; the page changes; the clock moves |
| Window of a text (`fetch.go`) | none | `paginateContent`, `toolReadURL` | invented offsets, multi-byte runes, a text that changes between two pages |
| Egress (`ssrf.go`) | allow-lists, proxy; pooled connections | `proxyFor`, `safeDialContext`, `safeCheckRedirect` | names resolve differently each time, redirects, connections used again |
| Provenance (`provenance.go`, `confirm.go`) | seen set per caller, used nonces | `checkURLProvenance`, `confirmations.issue`, `redeem` | retries race, the clock is read before the lock |
| Rate limit and authentication gate (`rate_limit.go`, `transport_http.go`) | LRU of token buckets | `rateLimit`, `requireAuth`, `rateLimitVerified`, `chargeFailedAuth` | who pays is known only after verification; buckets can be evicted in use |
| File reloaders (`tls.go`, `oauth.go`) | last good copy and the mtimes it was read under | `current`, `currentIfFresh`, `load` | the operator rewrites two files while readers stat and read them |
| Health probe (`transport_http.go`) | one verdict and its time | `handleHealth` | concurrent probes, cancelled requests |
| Sessions (`server.go`, `transport_http.go`) | table of initialized sessions | `limitSessions`, `handleInitialized`, `reapStaleSessions` | the SDK's own table changes between snapshot and sweep |
| Search and token exchange (`search.go`, `searxng_user_token.go`) | LRU of exchanged tokens | `userTokenForSearch`, `Exchange`, `search` | slow unlocked exchange, lifetimes that overflow, evictions |
| URL tools (`fetch.go`) | call and error counters | `toolReadURL`, `toolURLMetadata` | one pipeline, two tools that answer with different text of it; counters in many places |
| Metrics (`metrics.go`) | engine and domain tables, histograms | `recordEngineFailure`, `recordFetchByDomain`, exposition | read lock given up for the write lock |
| Fencing (`fence.go`, `fence_key.go`) | a key, loaded once | wrap and sign a result, publish the key | the text is chosen by a page; escaping has to be undone by a verifier; keys are rotated by restarts |
| Cleaning (`hidden.go`, `invisible.go`) | none | remove hidden elements and invisible characters | a walk that removes what it walks over; context on both sides of a character; counts that outlive the removal |
| Extraction (`extract_html.go`, `fetch.go`) | none | HTML, PDF and Office to text | data only |
| Process (`main.go`) | listener, requests in flight | start, listen, drain, exit | signals at every moment, requests that never end |
| Discovery and configuration (`discovery.go`, `config.go`) | the configuration | read once | data only |

How they meet: `authGate` admits an HTTP request and attaches an identity;
`limitSessions` guards new sessions. A search goes through the token exchange to
SearXNG and its results enter the caller's seen set. A read goes through the
provenance check, the URL cache, and on a miss the egress rules, then through
extraction and cleaning into the cache; a window of it, or its metadata, is
fenced with a note of what was removed. The outcome is recorded in the caller's
ledger, and the links it shows enter the seen set. The seen set lives in the ledger, so an
evicted ledger forgets both (`Provenance!ForgetCaller`).

What makes each part correct is stated as the properties of its module, below.
`PROJECT.json` lists under `hazards` every place in this code that a test would
hardly reach, with the properties that cover it.

## Modules

| Module | Models | Notes |
|---|---|---|
| `Lru` | hashicorp's LRU, as a sequence from oldest to newest | external; used by four modules |
| `Hidden` | `stripHiddenElements`, and what a reader of a page sees | operators |
| `Invisible` | `stripInvisible`, and the same by positions | operators |
| `Fence` | `wrapFenceEncoded`, and a verifier that follows `docs/fence-verification.md` | operators |
| `RecencyTable` | abstract specification: a table of the most recently touched sources | refined by `SourceLedger` |
| `SourceTable` | the ledger's operations, as operators | shared by the next two |
| `SourceLedger` | one ledger and a client that polls it | refines `RecencyTable` |
| `CallerLedgers` | the LRU of ledgers, requests that hold pointers into it | composes `SourceTable` and `Lru` |
| `SessionSources` | the text `searxng_session_sources` answers with, and an agent that copies from it | composes `SourceLedger` and `Fence` |
| `UrlCache` | `readURL` by concurrent readers, with the cleaning of what it caches | a component; composes `Lru`, `Hidden`, `Invisible` |
| `FetchTools` | `toolReadURL` and `toolURLMetadata` | composes `UrlCache` and `Fence` |
| `Paginate` | `paginateContent`, as operators | |
| `Egress` | one fetch on its way out | a component without a specification of its own |
| `ReadUrl` | a client that pages through a document | composes `Egress` and `Paginate` |
| `Provenance` | the check, the question, the redemption | |
| `RateLimit` | `authGate` | |
| `FileReload` | both reloaders | `Files = 2` is TLS, `Files = 1` is JWKS |
| `HealthProbe` | `handleHealth` | |
| `Relay` | the process: start, signals, drain, end, restart | composes `HealthProbe` and `Fence` |
| `Sessions` | admission, tracking, janitor | |
| `TokenExchange` | `Exchange` and its cache | a component |
| `Search` | a search from identity to engine counters | composes `TokenExchange` |
| `DataProofs` | lemmas about the LRU, joined sequences and sums | used by the next modules |
| `SourceTableProofs` | lemmas about the ledger's operations | |
| `SourceLedgerProofs`, `CallerLedgersProofs`, `FetchToolsProofs`, `ProvenanceProofs`, `RateLimitProofs`, `RelayProofs` | the theorems, listed under Proofs | each about the module it is named for; three hold a second subject |

`MC*` modules only give constants their values.

How state and actions correspond to the code:

- **A lock held across a block is one action; what happens between two locks is
  two.** `AppendRecord` is one step because `appendRecord` holds `h.mu` for all
  of it. `Exchange` in `TokenExchange` is `Begin`, then `Reuse` or `Ask`, then
  `Issue`, then `Store`, because the mutex is released around the HTTP request.
- **Where a request is** is a record with a `pc` field; its other fields are the
  Go locals that are live at that point (a pointer to a ledger or to a bucket,
  the time read before a lock, the mtimes of a stat).
- **Pointers** are places in a `heap` that outlasts the cache, in
  `CallerLedgers` and `RateLimit`: a ledger or bucket the LRU has dropped is
  still written to by whoever holds it.
- **Clocks.** `now` only moves by `Tick`, so any number of steps may share an
  instant. `FileReload` has mtimes and no clock. `Sessions` counts ages up to
  one past the limit, after which older makes no difference.
- **Text** is a sequence of tokens: the characters with a meaning to the code at
  hand (`&`, `<`, a joiner, a tag), the words that make references or tags behind
  one, and one or two that stand for all others. A document is a sequence of
  elements with their parents; a style is its declarations, comments and blanks
  already gone and every way to write zero as one. A signature is what it was
  computed over and a nonce is new, which is what ed25519 and `crypto/rand` give.
- **Data.** A URL is its `urlKey` or citable URL; a page is a version number, or
  (for pagination) a size and the offsets of its runes; an address is the class
  that the checks tell apart; a token is its place in the list of issued ones;
  a confirmation's nonce is its place in the list of issued ones.
- **Durations** in `TokenExchange` wrap at `Word` values, as `int64` nanoseconds
  do, because `expires_in * time.Second` can overflow (`Wrap`).
- **History variables**, marked as such where they are declared, record what was
  shown, given out or reported so that properties can speak of it. No guard
  reads them, apart from the bounds that count reads, fetches and failures, and
  from what a client remembers of its own calls (`cursor`, `chain`).
- **Bounds** are constants of their own with `bound:` in their comment.

An operator commented "Mutant of X" is X with a plausible mistake: the property
named beside it in `PROJECT.json` must fail when it takes X's place.

## Abstract specifications and reference definitions

`RecencyTable` says what a ledger promises without slots or index: of the
sources fetched it holds the `Cap` most recently touched, each with the deepest
read and its fetches since it was admitted. `SourceLedger!KeepsMostRecent`
instantiates it with a refinement mapping (the clock is `total`, a source's last
touch is its row's `seq`); TLC checks, and `SourceLedgerProofs` proves, that
every step of the ledger is a step of that table.

The cleaning has a second, declarative definition each. `Hidden!SeenText` is what
a person sees: the text of elements none of whose ancestors is unseen, by the
declaration the cascade applies. `Invisible!Cleaned` keeps a position unless it
is invisible and neither part of a whole flag nor between two emoji. `Fence` has
the verifier of `docs/fence-verification.md`, which knows nothing of how the relay
escapes. `FetchTools` relates the three to the code's versions through the cache.

## Runs

| Run | Question | Instance and why it is enough |
|---|---|---|
| `source_ledger` | does one ledger stay exact, and does a polling client miss anything? | 3 URLs for 2 slots, so eviction, re-admission and slot reuse all happen within 4 fetches; one URL may redirect to another, so two requested URLs share a citable one; every depth and two lengths |
| `caller_ledgers` | is a ledger lost, shown to others, or miscounted? | callers whose identities and IDs are spelled to collide (one holds the separator, two share an ID, one sends an ID that is too long), with and without `MCP_STATELESS`; 2 cache entries, ledgers of 1 slot, so both evictions happen with requests in between |
| `fetch_tools` | what age, truth, text and note has an answer, cached or not? does everything count each call once? | a reader of each tool on a cache of 1 entry and a table of 1 domain. Each behaviour reads one site. `scope = "text"`: one call, and every text of up to 3 tokens of markup or 4 classes of runes (and the overlapping section ends), every tree of up to 4 elements of which any are hidden, every attribute, every style of up to 3 declarations, every kind of page under every switch. `"time"`: 4 ticks cover fetch, load, TTL and a fetch after expiry; a page whose second version hides nothing; 3 calls. `"calls"`: errors, images, refusals, questions, windows past the end; 3 calls. The scopes are apart because what they bound is independent: cleaning reads no clock. Where time passes, `MayGoOn` lets a call end before anything else happens; that part of it touches nothing `readURL` uses |
| `provenance` | is an address fetched that nobody showed or confirmed? is a confirmation used twice? | 2 callers, one of whom can be asked; 2 calls in flight; 2 confirmations; time to pass their expiry |
| `rate_limit` | who pays, how often, and does the limit hold? | every kind of credential behind one address; an LRU of 1 bucket, so any second key evicts the first in use; 2/3 token a second, so rounding matters |
| `file_reload` | can a stale copy be taken for a fresh one, and do readers converge? | both ways to rewrite (swap, truncate and write), two files, 2 readers, one failure; 3 rotations, so that a copy of the second can be loaded and overtaken |
| `relay` | is "reachable" recent; does the pinned key sign; is a drain kept and does it end? | 2 pollers whose probes overlap, 5 instants against a TTL of 2, a drain of 2 and a probe of 1 (30 s and 5 s in the code: only that the first is longer matters); a request that may stay open; each preamble mode, and one misspelt; a key set twice, inline or in a file, whole or mangled, with the other variable cleared or kept. A behaviour follows either the settings or the clock (`follows`): no action reads both |
| `sessions` | how far past the cap; who is closed; who leaves the table? | 3 sessions, cap 1, 2 in flight, one client that stays silent |
| `search` | whose token, how fresh, how old; are engine failures counted? | 2 searches, 2 users and anonymous callers, 1 cache entry, 3 engines for 2 counters, and lifetimes that are short, long, and overflow (20 in a word of 32) |
| `read_url` | which connections are made; does a client get the whole text? | ACLs with and without a proxy and `FETCH_PROXY_ALL`; targets that are listed, listed on another port, unlisted, and the proxy itself; public and internal addresses, 2 in one answer; 3 requests of a fetch (5 in the code: the redirect count is compared the same way); texts with runes of 1 to 4 bytes, empty, and capped; offsets before, inside and past the end |
| `health_hang_up` | violated, see below | as `relay`, without the process |
| `listed_exact` | violated, see below | 2 URLs, one with two query parameters |

What the runs establish, by property:

- **Source ledger.** `IndexExact`: no source has two rows or an unreachable one.
  `SeqsDistinct`: rows are strictly ordered. `FetchesConserved`: rows and dropped
  rows add up to `total_fetches` (and the table keeps its cap). `ElidedIffIncomplete`: `elided` is zero exactly
  while nothing is missing. `ToldExact`: a client polling with `since_seq` holds
  an exact copy of what it has been past. `NeverUnread`: a depth, a count or a
  success is never taken back. `KeepsMostRecent`: the refinement.
- **Ledger cache.** `LedgersAccounted`: racing first fetches never build two
  ledgers, and the eviction metrics count exactly what was dropped, in orphaned
  ledgers too. `CallersIsolated`: no caller is handed another identity's rows,
  nor those of another of its own conversations while its ID is usable.
  `ListedUnlessEvicted`: rows filed since the cursor are listed while no ledger
  was pushed out.
- **URL cache and tools.** `FetchTruth`: the fetch time of an answer is when its
  origin served it. `CachedAgeBounded`: a cached answer is younger than TTL plus
  load time. `CallsAccounted`: tool counters, ledger records, cache counters,
  histogram and domain table agree on every path. `CleanedExactly`: an answer is
  what a person would have seen, no less and no more. `NoteTruthful`: the preamble
  tells what was removed from that text, on cache hits too. `Recovered`: a
  verifier accepts every response and recovers the signed text.
- **Provenance.** `NoUnaskedFetch`, `SeenIsShown`, `SingleUseUntilExpiry`.
- **Admission.** `RateRespected`: burst plus regeneration bounds what a bucket
  gives out, and racing requests share one bucket. `BilledOnce`.
  `RetryIsEnough`: a client that waits out `Retry-After` is let in.
- **Reloading.** `FreshMeansCurrent`: matching mtimes mean current content.
  `PickedUpNext`: a reader that starts after a rotation is answered from it.
  `Converges`: eventually the copy is the last rotation, for good.
- **Process.** `ReachableIsRecent`. `AcceptedAsPinned`: what a running process
  sends verifies under the key the operator set last before its start, and in the
  format it announces. `DrainKept`: no first signal cuts a request short.
  `PollsDrain`: a shutdown fails only if a client held on. `Stops`: and it ends.
- **Sessions.** `SoftCap`: the overshoot is at most what was in flight.
  `OnlyOldClosed`. `TrackedEnds`: a tracked session is closed in time, and its
  entry leaves the table.
- **Search.** `ServedFresh`: a token from the cache has its renewal margin left
  and is younger than the maximum life. `StoredIsReused`: no
  needless exchange. `IdentityKept`: a search carries its own caller's token, or
  fails. `EngineFailuresCounted`: each failure once, in a counter or the overflow.
- **Reading.** `ConnectionsAllowed`: every connection a request goes out on is
  one the ACL allows, whatever names resolve to and wherever redirects lead.
  `HintsLeadOn`: a hint lies beyond the offset asked for. `FollowedWhole`:
  following hints gives each byte once, and "full" exactly at a whole text.

Invariants that only state types are conjuncts of another property of the run. `CHECK_DEADLOCK` is on everywhere; a module
whose bounded behaviour ends says so with an explicit `Rest` action.

### Fairness

- `FileReload`: each reader's steps, because goroutines run and requests (or
  handshakes) keep arriving; and the completion of a rotation that was begun,
  because without it there is no last rotation to converge to. Nothing makes an
  operator start one, and failures are not fair. Mtimes are distinct for distinct
  writes; a file system whose mtime is too coarse to tell two writes apart is
  outside the model.
- `Relay`: the clock, `main` (from the signal to the exit), and the health
  handler's own steps once its timeout is due. No client ever has to close a
  stream, no tool call to end, and SearXNG owes nobody an answer: `Stops` and
  `PollsDrain` rest on the two timeouts alone. Signals are not fair. A signal
  comes only when a whole drain fits before the clock's bound.
- `Sessions`: the ticker, the janitor's goroutine and the SDK's handler of a
  notification that arrived. No client has to do anything.

The other modules state safety only.

## Proofs

Each `*Proofs` module EXTENDS the modules it is about and proves their safety
properties for every value of the constants: every capacity, timeout, TTL and
lifetime, every set of callers, URLs, sessions, files, addresses and texts, and
any number of requests in flight and of steps. Three of them hold the theorems
of more than one module; those modules share no state, they only share a file.

| Module | Specification | Theorem: property |
|---|---|---|
| `SourceLedgerProofs` | `SourceLedger` | `LedgerTypeOK`, `LedgerIndexExact`, `LedgerSeqsDistinct`, `LedgerElidedIffIncomplete`, `LedgerToldExact`, `LedgerNeverUnread`, `LedgerKeepsMostRecent`, `LedgerFetchesConserved` |
| `CallerLedgersProofs` | `CallerLedgers` | `CallersKeptApart`: `CallersIsolated`; `CallersListed`: `ListedUnlessEvicted`; `CallersAccounted`: `LedgersAccounted` |
| | `Search` (with `TokenExchange`) | `SearchKeepsIdentity`: `IdentityKept`; `SearchServedFresh`: `ServedFresh`; `SearchReusesStored`: `StoredIsReused`; `SearchCountsFailures`: `EngineFailuresCounted` |
| `FetchToolsProofs` | `FetchTools` (with `UrlCache`) | `AnswersAreTrue`: `FetchTruth`; `AnswersAreRecent`: `CachedAgeBounded`; `CallsAreAccounted`: `CallsAccounted`; `AnswersAreRecovered`: `Recovered`; `AnswersAreClean`: `CleanedExactly`; `NotesAreTrue`: `NoteTruthful` |
| `ProvenanceProofs` | `Provenance` | `ProvenanceKept`: `NoUnaskedFetch`; `SeenSetHonest`: `SeenIsShown`; `ConfirmedOnce`: `SingleUseUntilExpiry` |
| | `ReadUrl` (with `Egress`, `Paginate`) | `OnlyAllowedConnections`: `ConnectionsAllowed`; `HintsAreAhead`: `HintsLeadOn`; `FollowersGetAll`: `FollowedWhole` |
| `RateLimitProofs` | `RateLimit` | `LimiterRespectsRate`: `RateRespected`; `LimiterBillsOnce`: `BilledOnce`; `LimiterRetryIsEnough`: `RetryIsEnough` |
| `RelayProofs` | `Relay` (with `HealthProbe`) | `RelayReachableIsRecent` and `ProbeReachableIsRecent`: `ReachableIsRecent`; `RelayDrainKept`: `DrainKept`; `RelayPollsDrain`: `PollsDrain`; `RelayAccepted`: `AcceptedAsPinned` |
| | `Sessions` | `SessionsSoftCap`: `SoftCap`; `SessionsOnlyOldClosed`: `OnlyOldClosed` |
| | `FileReload` | `ReloadFresh`: `FreshMeansCurrent`; `ReloadPickedUp`: `PickedUpNext` |

A theorem `Spec => []P` follows from one inductive invariant of the
specification: `Inv` or, where a file holds several, `HealthInv`, `SessionInv`,
`ReloadInv`, `ReadInv`, `SearchInv`. It holds initially, each action preserves it
(one lemma or step per action) and it implies the properties. They need more
than the properties say:

- **One ledger.** `ToldExact` needs that no row lies at or below the cursor unless
  it was told, hence that the cursor is a seq given out (`CursorGivenOut`), that a
  fold or an admission takes a seq above all others (`SeqsDistinct`) and that it
  lands in the row its URL leads to (`IndexExact`). `ElidedIffIncomplete` needs that
  once something was evicted the table stays full (`Accounted`); `NeverUnread`
  needs rows to be honest reports (`RowsHonest`). `SourceTableProofs` shows first,
  operator by operator, that folding, admitting and replacing keep a table in order
  (`AppendOK`). The refinement shows that each step is a step of `RecencyTable` or
  a stutter, under the mapping of `SourceLedger`; that the abstract table is full
  exactly when the slots are is `HeldCardinality`. `FetchesConserved` is a sum
  over the rows, of which an append changes one.
- **Ledgers of all callers.** Isolation rests on `historyKey` being injective
  where it has to be: the length in front of the identity says where the identity
  ends, whatever either part spells. The invariant has each ledger owned by a key
  (`Owned`), the cache leading from a key to a ledger of that key (`Cached`), every
  ledger cached while none was pushed out (`AllCached`), and each request holding
  a ledger of its caller's key (`Requests`), even one the cache has forgotten.
- **Search.** `Exchanged`: a cached token belongs to its key's user and is fresh for
  whoever reads the clock before its expiry (`FreshUntil`). That survives lifetimes
  that overflow because `Wrap` never yields more than its argument, for every word
  size. `StillOwed`: a token stored and not evicted is in the cache under the very
  expiry it was stored with, so a removal of an expired entry cannot take it.
- **URL cache and tools.** What a reader holds after it left the cache is true of
  its address at the recorded time, and within its download or cached age
  (`Copied`, `Answered`); each counter is a sum over the readers still on their way
  to it (`Reads`, `Called`, `Table`, `Summed`), and each copy is what `ReadDocument`
  makes of that version of the page (`Extracted`).
- **Fencing.** A verifier recovers every text: an entity-escaped body is a
  concatenation of one-token references, each read back alone (`XmlRecovered`); a
  CDATA body is read token by token, and after the first n tokens of the text the
  verifier has exactly those n, split or not (`CdataRecovered`, by climbing from 0
  to the length of the text). The closing tag with the nonce of this response is
  found at its end only, because no text can hold a nonce drawn after it
  (`AlwaysReadBack`). What remains is that the texts are sequences of tokens, and that
  of a page is, cleaned or not (`Readable`).
- **Cleaning.** Both loops are shown to compute what their definitions for a
  reader say, by an invariant that holds after every turn. The walk (`Visited`):
  the nodes known so far are those visited and those on the stack, each once, and
  what is detached are the hidden children of the visited ones. Each turn visits a
  new node, so after as many turns as there are nodes the stack is empty, and then
  the visited nodes are those a reader is shown (`RemovesExactly`); that a style
  hides what the cascade hides is `FinalIsApplied`. The loop over the runes
  (`AtPlace`): what is written is exactly what may stay of the text before the
  place reached, the last rune but selectors is known, and a flag's tags are
  consumed with it (`StripsExactly`). A copy and its two counts follow
  (`CopyIsClean`), and a preamble that ends with the note of these counts tells no
  other (`NoteIsTold`).
- **Provenance.** A redeemed confirmation stays recorded as used for as long as it
  is answerable (`Marked`), which is what stops a second redemption, though the
  clock was read before the lock.
- **Reading.** At each place of a fetch the connection is one the ACL allows for
  the route taken (`EgressInv`). A window ends where a rune starts or the text ends,
  so the chain of windows is always the whole text up to there (`ChainOK`).
- **Admission.** What a bucket gave out and still holds is within its burst and
  what it regained since its first use (`Within`); each place in `authGate`
  determines the bill so far and the bucket held (`RequestOK`).
- **Process.** A good verdict, recorded or on its way, was true when its probe
  was served, and no probe outlives its timeout (`HealthInv`); a request open at
  the first signal has waited as long as the drain lasts (`Process`).
- **Sessions.** The sessions present and the requests already let past the check
  stay below the cap plus what is in flight together (`Capped`); an entry is never
  older than its session, and a session once closed is not tracked again (`Aged`,
  `Heard`).
- **Reloading.** The mtimes of the held copy belong to rotations no later than
  the copy's, and what a reader saw is no later than what is in the files; the
  rotation a reader is owed is no later than any file it has yet to read.

`DataProofs` has what these arguments share: what each call of the LRU does to its
keys and values, and how a sum over a function changes with one of its values. The
sums and the recursive functions of the models are reasoned about by least
elements (the least index, or set, at which a fact fails has a predecessor at which
it holds), not by an induction theorem; what a model computes over a sequence is
written for that as a function of the index reached.

Assumptions are the named `ASSUME`s of the modules, and nothing else. They say
what configuration parsing and Go's types enforce. Six of them were found by the
proofs: an unset variable is not a malformed one (`RelayAssumption`), a verdict
lives longer than no time (`ProbeAssumption`), files are written at least once
(`ReloadAssumption`), identities are sequences of characters (`CallersAssumption`),
the requests, searches and engines at any time are finitely many, and a parser
gives a page as texts and elements, each behind its parent (`DocumentAssumption`).
In `Fence` and `RateLimit` two arms of a CASE overlapped and are now disjoint.

Only model-checked:

- `Converges`, `Stops` and `TrackedEnds`: liveness under fairness.
- The two properties that fail, of `health_hang_up` and `listed_exact`.

## Where code and documentation disagree

Two have a run that exhibits them:

- **`health_hang_up`** (`transport_http.go:483`). The probe runs on the poller's
  request context, so a poller that hangs up makes it fail, and the failure is
  cached for ten seconds as SearXNG's unreachability. `ReachableIsRecent` is what
  does hold: an answer "reachable" is never stale.
- **`listed_exact`** (`history.go:504`, `fence.go:474`). The rows are JSON, in
  which `json.Marshal` writes `&`, `<` and `>` as `\u0026`, `\u003c` and `\u003e`;
  the fence around them is announced as byte-exact and free of escapes. An agent
  that obeys copies a URL that was never fetched. Tests decode the JSON first.
  With `JsonText` left out of `SourcesText` the property holds.

The others were met while modelling; each is marked by the weaker property that
passes:

- `docs/tools.md:151` has "full" mean the whole extracted text; a window that
  starts near the end and reaches it is "full" too (`fetch.go:169-172`).
  `FollowedWhole` holds.
- `docs/fence-verification.md` lists type `data` for content fences; `read_url`
  and the search tool send `content` (`fetch.go:161`, `search.go:260`).
- The comment at `main.go:563-564` has `/metrics` fall back to the MCP token
  table; without `MCP_METRICS_TOKEN` it is closed (`main.go:479-486`,
  `requireMetricsAuth`).
- `fetch.go:525` reads a body through `io.LimitReader` and does not notice when
  the limit cuts it: the text is then neither an error nor `truncated`.
- A declaration with an invalid value replaces an earlier valid one in
  `inlineStyleHides` (`hidden.go:156-159`), where a browser drops it. `Hidden`
  has valid values only.
- `history.go:152` counts "distinct sources dropped", but the counter rises with
  every eviction, so a source dropped twice counts twice (`history.go:306`).
  `ElidedIffIncomplete` holds.
- `docs/tools.md:153` has repeat fetches keep "a single row", but a failed fetch
  is filed under the requested URL and a redirected success under the final one
  (`history.go:272`). `IndexExact` holds.
- `history.go:404` promises "only what has been fetched since", but the successor
  of an evicted ledger counts from 1, below the client's cursor.
  `ListedUnlessEvicted` holds.
- `docs/caching.md:66-69` has a copy served for up to the TTL, but the TTL runs
  from the end of extraction (`fetch.go:644`). `CachedAgeBounded` holds.
- `docs/caching.md:47-49` has metadata-then-read cost one request; a reader that
  removes a key it found expired may remove a fresh copy (`fetch.go:439`).
- `confirm.go:28-30` calls confirmations single-use; the clock is read before the
  lock (`confirm.go:89-101`), so at the expiry one may be used twice.
  `SingleUseUntilExpiry` holds.
- `docs/caching.md:131-132` has probes at most once per ten seconds; polls that
  find the verdict stale together probe together (`transport_http.go:473-479`).
- `docs/configuration.md:165` caps every session's age; a session whose client
  never sends `initialized` is not tracked (`server.go:425`), and one tracked
  between the janitor's snapshot and its sweep is dropped (`server.go:415-434`).
  `TrackedEnds` holds.
- `fetch.go:103-105` records failed reads so that they can be told from reads
  never tried; a `start_index` beyond the end returns an error before it
  (`fetch.go:157-159`).
- `searxng_user_token.go:363-365` reads the clock before the mutex, so a search
  that waited may use a token that expired while it did. `ServedFresh` measures
  freshness at the time the search read.

## Not modelled

- Extraction: trafilatura, Markdown rendering, PDF and office files, character
  sets, the truncation of metadata fields. Sequential functions of one document
  in libraries or without a decision a property here depends on; extraction is a
  duration and the text of the elements it is given. Search result formatting.
- Attribute escaping and the order of attributes in a fence, base64, PEM, the
  strength of ed25519: `Fence` has the attributes as a record.
- Libraries: go-sdk sessions, net/http, hashicorp's LRU, the JWT verifier and
  the resolver appear as actions marked external in the map, as the code in the
  repository uses them.
- Configuration parsing, engine discovery, the startup banner, stdio mode: read
  or run once in sequence. What they enforce is stated as assumptions on
  constants, or is the one outcome `tokens` in `Relay`.
- ACME (`tls.go`): certificate issue and renewal are autocert's; the relay's part
  is configuration, a directory check and logging.
- The exposition text of the metrics, causes of errors, log lines, the
  block-reason counters of `ssrf.go`, the developer's script `linkdiag.go`.

## Plan

In order of importance, and done so far: (1) source ledger, its cache, and the
proofs of the former; (2) URL cache, provenance, rate limit; (3) reloaders,
health, sessions; (4) search with token exchange, reading with egress and
pagination; (5) the two URL tools over the cache, cleaning and fencing;
(6) the process, its key, shutdown and restarts; (7) session correlation in
stateless mode.

Every invariant and every step property of a passing run is now a theorem. What
only TLC checks is liveness, which is out of the prover's reach, and the two runs
that exhibit a violation.

Left of the model: one call from admission to ledger, so that an eviction
between the provenance check and the record is explored with both components'
real state.
