---------------------------- MODULE CallerLedgers ----------------------------
(***************************************************************************)
(* The relay's cache of source ledgers (Server.history) under concurrent    *)
(* requests.  historyFor hands out a pointer to the caller's ledger; the     *)
(* request files or lists through that pointer later, when other callers    *)
(* may have pushed the ledger out of the cache.  Ledgers therefore live in   *)
(* a heap that outlasts the cache entry.  Of the counters, the two that      *)
(* describe this state are modelled (HistoryEvictions and the cache's        *)
(* eviction callback); the call counters are left out.                       *)
(***************************************************************************)
EXTENDS SourceTable, Lru, FiniteSets, Functions

CONSTANTS
  Char,        \* the characters of identities and session IDs
  Caller,      \* [identity, sdk, header]: who calls, in which conversation by
               \* the SDK's session ID and by Mcp-Session-Id; each a sequence
               \* of characters
  MaxClientSessionIDLen,
  Request,     \* requests that can be in flight at once
  MaxCallers,  \* fetchHistoryCallers
  Calls,       \* the fetches the tools can report, a subset of Fetch
  MaxFetches,  \* bound: recordFetch calls in a behaviour
  MaxLedgers   \* bound: ledgers created in a behaviour

ASSUME CallersAssumption ==
  /\ Caller \subseteq [identity : Seq(Char), sdk : Seq(Char), header : Seq(Char)]
  /\ Calls \subseteq Fetch /\ IsFiniteSet(Request)
  /\ MaxCallers \in Nat \ {0} /\ MaxClientSessionIDLen \in Nat
  /\ MaxFetches \in Nat /\ MaxLedgers \in Nat

VARIABLES
  stateless,        \* MCP_STATELESS
  cache,            \* Server.history: historyKey -> address in the heap
  heap,             \* every ledger ever created
  req,              \* Request -> what it is doing
  cursor,           \* Caller -> highest seq of a previous sources call
  historyEvictions, \* metric: sources dropped from a ledger
  callersEvicted,   \* metric: ledgers pushed out of the cache
  owner,            \* history: heap address -> the caller it was created for
  unseen,           \* history: Caller -> sources filed since its last list
  leaked,           \* history: some list was of a conversation not the caller's
  skipped,          \* history: some list left out a held row filed since
  filed             \* history: fetches filed so far

vars == <<stateless, cache, heap, req, cursor, historyEvictions, callersEvicted,
          owner, unseen, leaked, skipped, filed>>

(* Mutant of Sanitize: an ID that is too long is cut. *)
SanitizeByCutting(id) ==
  IF \E i \in DOMAIN id : id[i] = "space" THEN <<>>
  ELSE SubSeq(id, 1, IF Len(id) > MaxClientSessionIDLen THEN MaxClientSessionIDLen ELSE Len(id))

(* sanitizeClientSessionID: "space" is any character that is not printable. *)
Sanitize(id) ==
  IF Len(id) > MaxClientSessionIDLen \/ \E i \in DOMAIN id : id[i] = "space" THEN <<>> ELSE id

(* In stateless mode the SDK names no session. *)
SdkSession(c) == IF stateless THEN <<>> ELSE c.sdk

TrackClientSession(c) == IF stateless THEN Sanitize(c.header) ELSE <<>>

SessionIDOf(c) == IF SdkSession(c) # <<>> THEN SdkSession(c) ELSE TrackClientSession(c)

(* Mutants of HistoryKey: the session alone; the two joined, without the    *)
(* length of the first.                                                     *)
SessionKey(c) == SessionIDOf(c)
JoinedKey(c) == c.identity \o <<"|">> \o SessionIDOf(c)

HistoryKey(c) ==
  <<Len(c.identity), "|">> \o c.identity \o <<"|">> \o SessionIDOf(c)

(* A ledger created for o would show c what is not c's: another identity's  *)
(* fetches, or, where c's own conversation is known, another one's.         *)
Foreign(o, c) ==
  LET conversation(x) == IF stateless THEN x.header ELSE x.sdk
  IN  \/ o.identity # c.identity
      \/ SessionIDOf(c) # <<>> /\ conversation(o) # conversation(c)

Idle == [pc |-> "idle"]

Init ==
  /\ stateless \in BOOLEAN
  /\ cache = LruEmpty /\ heap = << >> /\ owner = << >>
  /\ req = [r \in Request |-> Idle]
  /\ cursor = [c \in Caller |-> 0]
  /\ historyEvictions = 0 /\ callersEvicted = 0
  /\ unseen = [c \in Caller |-> {}]
  /\ leaked = FALSE /\ skipped = FALSE /\ filed = 0

(* historyFor's two outcomes; each leaves the address of the ledger in at.  *)
FindLedger(k, at) ==
  /\ LruHas(cache, k)
  /\ at = LruValue(cache, k)
  /\ cache' = LruGet(cache, k)
  /\ UNCHANGED <<heap, owner, callersEvicted>>

CreateLedger(k, c, at) ==
  /\ Len(heap) < MaxLedgers
  /\ at = Len(heap) + 1
  /\ heap' = Append(heap, EmptyTable)
  /\ owner' = Append(owner, c)
  /\ cache' = LruAdd(cache, k, at, MaxCallers)
  /\ callersEvicted' =
       callersEvicted + (IF LruEvicts(cache, k, MaxCallers) THEN 1 ELSE 0)

(* Mutant of HistoryFor: no lock over both, so a caller that missed creates *)
(* a ledger although another request has created it by now.                 *)
HistoryForUnlocked(c, at) ==
  FindLedger(HistoryKey(c), at) \/ CreateLedger(HistoryKey(c), c, at)

(* historyFor: get or create under historyMu, so one step. *)
HistoryFor(c, at) ==
  LET k == HistoryKey(c)
  IN  FindLedger(k, at) \/ (~LruHas(cache, k) /\ CreateLedger(k, c, at))

(* recordFetch, up to the point where it holds the ledger. *)
StartRecord(r, c, f) ==
  /\ req[r] = Idle
  /\ filed + Cardinality({x \in Request : req[x].pc = "append"}) < MaxFetches
  /\ \E at \in 1..MaxLedgers :
       /\ HistoryFor(c, at)
       /\ req' = [req EXCEPT ![r] =
                    [pc |-> "append", caller |-> c, at |-> at, fetch |-> f]]
  /\ UNCHANGED <<cursor, historyEvictions, unseen, leaked,
                 skipped, filed>>

(* Mutant of EvictedBy: the ledger's own running count. *)
EvictedSoFar(h, g) == g.evicted

(* What appendRecord reports for HistoryEvictions: whether filing dropped a *)
(* source.                                                                   *)
EvictedBy(h, g) == g.evicted - h.evicted

(* recordFetch, its appendRecord. *)
FinishRecord(r) ==
  LET c == req[r].caller
      h == heap[req[r].at]
  IN  /\ req[r].pc = "append"
      /\ \E g \in AppendRecord(h, req[r].fetch) :
           /\ heap' = [heap EXCEPT ![req[r].at] = g]
           /\ historyEvictions' = historyEvictions + EvictedBy(h, g)
      /\ unseen' = [unseen EXCEPT ![c] =
                      @ \cup {[source |-> Citable(req[r].fetch), at |-> req[r].at]}]
      /\ filed' = filed + 1
      /\ req' = [req EXCEPT ![r] = Idle]
      /\ UNCHANGED <<cache, cursor, callersEvicted, owner,
                     leaked, skipped>>

(* toolSessionSources, up to the point where it holds the ledger. *)
StartSources(r, c) ==
  /\ req[r] = Idle
  /\ \E at \in 1..MaxLedgers :
       /\ HistoryFor(c, at)
       /\ req' = [req EXCEPT ![r] =
                    [pc |-> "list", caller |-> c, at |-> at, since |-> cursor[c]]]
  /\ UNCHANGED <<cursor, historyEvictions, unseen, leaked,
                 skipped, filed>>

(* toolSessionSources, its list, the since_seq filter and the answer. *)
FinishSources(r) ==
  LET c    == req[r].caller
      h    == heap[req[r].at]
      rows == RowsSince(h, req[r].since)
      sent == {Citable(h.entries[i]) : i \in rows}
      due  == {u.source : u \in {x \in unseen[c] : x.at = req[r].at}}
  IN  /\ req[r].pc = "list"
      /\ cursor' \in {[cursor EXCEPT ![c] = HighWater(@, n)] :
                        n \in {0} \cup {h.entries[i].seq : i \in rows}}
      /\ \A i \in rows : h.entries[i].seq <= cursor'[c]
      /\ leaked' = (leaked \/ Foreign(owner[req[r].at], c))
      /\ skipped' = (skipped \/ \E k \in due : Holds(h, k) /\ k \notin sent)
      /\ unseen' = [unseen EXCEPT ![c] = {x \in @ : x.at # req[r].at}]
      /\ req' = [req EXCEPT ![r] = Idle]
      /\ UNCHANGED <<cache, heap, historyEvictions, callersEvicted, owner, filed>>

Next ==
  /\ UNCHANGED stateless
  /\ \E r \in Request :
       \/ \E c \in Caller, f \in Calls : StartRecord(r, c, f)
       \/ FinishRecord(r)
       \/ \E c \in Caller : StartSources(r, c)
       \/ FinishSources(r)

Spec == Init /\ [][Next]_vars

-----------------------------------------------------------------------------
(* Every variable has its type, and both caches keep their bounds. *)
TypeOK ==
  /\ Len(cache) <= MaxCallers
  /\ \A i \in DOMAIN cache : cache[i].val \in DOMAIN heap
  /\ \A r \in Request : req[r].pc \in {"idle", "append", "list"}
  /\ \A i \in DOMAIN heap : Len(heap[i].entries) <= Cap
  /\ cursor \in [Caller -> 0..MaxFetches]
  /\ DOMAIN owner = DOMAIN heap
  /\ historyEvictions \in 0..MaxFetches /\ callersEvicted \in 0..MaxLedgers

(* Two first fetches from one caller never build two ledgers of which one   *)
(* silently replaces the other: every ledger ever created is cached, under  *)
(* one key, or was pushed out and counted by mcp_history_callers_evicted.   *)
(* And mcp_history_evictions_total is exactly the sources dropped from all  *)
(* the ledgers, the orphaned ones a request still writes to included.       *)
LedgersAccounted ==
  /\ TypeOK
  /\ Len(heap) = Cardinality({cache[i].val : i \in DOMAIN cache}) + callersEvicted
  /\ historyEvictions = SumFunction([i \in DOMAIN heap |-> heap[i].evicted])

(* No caller is handed another identity's ledger, whatever it puts in its   *)
(* header and whatever the identities spell, nor that of another of its own *)
(* conversations as long as the ID it sends is usable: the reasons          *)
(* historyKey carries the identity and its length, and an unusable ID is    *)
(* dropped, not cut.                                                        *)
CallersIsolated == ~leaked

(* While no ledger has been pushed out, a sources call that passes the      *)
(* highest seq of a previous call lists every row filed since, as           *)
(* history.go:404 promises.  (Once one has, it need not: the caller's next  *)
(* ledger restarts its Seq at 1, below the caller's cursor.)                *)
ListedUnlessEvicted == callersEvicted = 0 => ~skipped

=============================================================================
