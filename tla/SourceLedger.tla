---------------------------- MODULE SourceLedger ----------------------------
(***************************************************************************)
(* One caller's source ledger (history.go) and a client that polls it with  *)
(* since_seq, always passing the highest seq it has been given.  The        *)
(* table's mutex makes appendRecord and list atomic, so each is one action. *)
(***************************************************************************)
EXTENDS SourceTable, FiniteSets, Functions

CONSTANTS
  Calls,       \* the fetches the tools can report, a subset of Fetch
  MaxFetches   \* bound: fetches in a behaviour

ASSUME LedgerAssumption ==
  /\ Calls \subseteq Fetch /\ \A f \in Calls : Honest(f)
  /\ MaxFetches \in Nat

VARIABLES
  h,          \* the table
  cursor,     \* the highest seq the client has been given
  told,       \* source -> the row the client was last given, partial
  fetched,    \* history: every source ever filed
  forgotten   \* history: fetches counted by rows that were dropped

vars == <<h, cursor, told, fetched, forgotten>>

(* f is a partial function from S to T. *)
IsPartial(f, S, T) == DOMAIN f \subseteq S /\ f \in [DOMAIN f -> T]

Init ==
  /\ h = EmptyTable
  /\ cursor = 0
  /\ told = [k \in {} |-> 0]
  /\ fetched = {} /\ forgotten = 0

(* The sources of h that are not in g, and the fetches their rows counted. *)
Lost(g) == DOMAIN h.index \ DOMAIN g.index
LostFetches(g) == IF Lost(g) = {} THEN 0
                  ELSE Row(h, CHOOSE k \in Lost(g) : TRUE).fetches

(* A tool call files the fetch it made (or failed to make). *)
RecordFetch(f) ==
  /\ h.total < MaxFetches
  /\ h' \in AppendRecord(h, f)
  /\ fetched' = fetched \cup {Citable(f)}
  /\ forgotten' = forgotten + LostFetches(h')
  /\ UNCHANGED <<cursor, told>>

(* A poll: list() filtered to the rows above the client's cursor; an empty  *)
(* answer leaves the client where it was.                                   *)
Poll ==
  LET rows == RowsSince(h, cursor)
      news == {Citable(h.entries[i]) : i \in rows}
  IN  /\ cursor' \in {cursor} \cup {h.entries[i].seq : i \in rows}
      /\ \A i \in rows : h.entries[i].seq <= cursor'
      /\ told' = [k \in DOMAIN told \cup news |->
                    IF k \in news THEN Row(h, k) ELSE told[k]]
      /\ UNCHANGED <<h, fetched, forgotten>>

Next == (\E f \in Calls : RecordFetch(f)) \/ Poll

Spec == Init /\ [][Next]_vars

-----------------------------------------------------------------------------
(* Every variable has its type, and the table never outgrows its cap. *)
TypeOK ==
  /\ h = [entries |-> h.entries, index |-> h.index,
          total |-> h.total, evicted |-> h.evicted]
  /\ h.entries \in Seq(Entry) /\ Len(h.entries) <= Cap
  /\ IsPartial(h.index, Url, Nat)
  /\ h.total \in Nat /\ h.evicted \in Nat
  /\ cursor \in Nat
  /\ IsPartial(told, Url, Entry)
  /\ fetched \subseteq Url /\ forgotten \in Nat

(* index and entries stay in step through appends, folds and slot reuse:    *)
(* each slot is filed under its own citable URL and each key leads to the   *)
(* slot that carries it, so no two slots hold one source and none is        *)
(* unreachable for a later fold.                                            *)
IndexExact ==
  /\ \A k \in DOMAIN h.index :
       h.index[k] \in DOMAIN h.entries /\ Citable(Row(h, k)) = k
  /\ \A i \in DOMAIN h.entries :
       LET k == Citable(h.entries[i]) IN Holds(h, k) /\ h.index[k] = i

(* Seqs order the rows strictly (list sorts on them, and evictLeastRecent   *)
(* takes their minimum) and never run ahead of the fetch count.             *)
SeqsDistinct ==
  /\ \A i \in DOMAIN h.entries : h.entries[i].seq \in 1..h.total
  /\ \A i, j \in DOMAIN h.entries :
       h.entries[i].seq = h.entries[j].seq => i = j

(* No fetch is counted twice or lost by a fold or an eviction: the rows'    *)
(* fetches and those of the rows dropped so far add up to total_fetches.    *)
FetchesConserved ==
  /\ TypeOK
  /\ h.total = forgotten
               + SumFunction([i \in DOMAIN h.entries |-> h.entries[i].fetches])

(* elided is "the one number that says the list is no longer complete"      *)
(* (history.go, sourcesPayload): it is zero exactly while every source ever *)
(* fetched is still listed.                                                 *)
ElidedIffIncomplete == (h.evicted = 0) <=> (fetched = DOMAIN h.index)

(* A client that always passes the highest seq it was given holds an exact  *)
(* copy of every retained row it has been past: no fold changes a row       *)
(* without moving it above the cursor.                                      *)
ToldExact ==
  \A k \in DOMAIN h.index :
    Row(h, k).seq <= cursor => k \in DOMAIN told /\ told[k] = Row(h, k)

(* A row that stays in the table is never un-read: neither a later triage,  *)
(* a shorter window nor a failed re-fetch takes back a depth, a character   *)
(* count or a success already recorded for that source.                     *)
NeverUnread ==
  [][\A k \in DOMAIN h.index \cap DOMAIN h'.index :
       LET old == Row(h, k)
           new == Row(h', k)
       IN  /\ DepthRank(new.read) >= DepthRank(old.read)
           /\ new.chars >= old.chars /\ new.total >= old.total
           /\ old.outcome = "ok" => new.outcome = "ok"]_vars

(* The ledger implements the recency table: same sources held, same         *)
(* recency, the deepest read and the fetch count of each.                   *)
Abstract ==
  INSTANCE RecencyTable WITH
    Source <- Url,
    clock  <- h.total,
    last   <- [k \in DOMAIN h.index |-> Row(h, k).seq],
    depth  <- [k \in DOMAIN h.index |-> DepthRank(Row(h, k).read)],
    count  <- [k \in DOMAIN h.index |-> Row(h, k).fetches]

KeepsMostRecent == Abstract!RSpec
=============================================================================
