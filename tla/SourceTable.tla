----------------------------- MODULE SourceTable -----------------------------
(***************************************************************************)
(* The table behind searxng_session_sources: history.go's fetchHistory and  *)
(* the functions that file a fetch in it.  A table is a record              *)
(*   entries  the slots, one per retained source (Go's slice, from 1)       *)
(*   index    citable URL -> slot                                           *)
(*   total    fetches ever appended; the source of Seq                      *)
(*   evicted  sources dropped to make room                                  *)
(* The module is constant-level: SourceLedger runs one table, and           *)
(* CallerLedgers runs the relay's cache of them.                            *)
(***************************************************************************)
EXTENDS Integers, Sequences

CONSTANTS
  Url,             \* the URLs a fetch can be aimed at or end up at
  NoUrl,           \* the empty FinalURL of a fetch that failed
  HistoryEntries,  \* MCP_HISTORY_ENTRIES
  DefaultEntries,  \* fetchHistoryEntries, used when the setting is not positive
  MaxChars         \* bound: the longest extracted text

ASSUME TableAssumption ==
  /\ NoUrl \notin Url
  /\ HistoryEntries \in Int
  /\ DefaultEntries \in Nat \ {0}
  /\ MaxChars \in Nat

(* The number of sources retained before eviction starts. *)
Cap == IF HistoryEntries > 0 THEN HistoryEntries ELSE DefaultEntries

Depths == {"none", "metadata", "image", "partial", "full"}

DepthRank(d) ==
  CASE d = "full"                  -> 4
    [] d = "partial"               -> 3
    [] d \in {"metadata", "image"} -> 2
    [] OTHER                       -> 1

(* What the tools report of one fetch, before it is given a Seq. *)
Fetch ==
  [url: Url, final: Url \cup {NoUrl}, read: Depths, outcome: {"ok", "error"},
   chars: 0..MaxChars, total: 0..MaxChars]

(* The tools report an error exactly when nothing was read. *)
Honest(r) == r.outcome = "ok" <=> r.read # "none"

Entry ==
  [url: Url, final: Url \cup {NoUrl}, read: Depths, outcome: {"ok", "error"},
   chars: 0..MaxChars, total: 0..MaxChars, seq: Nat, fetches: Nat]

(* The URL an entry is filed and cited under. *)
Citable(r) == IF r.final # NoUrl THEN r.final ELSE r.url

(* Mutants of HighWater: the current record's count; the sum of both. *)
LatestCount(m, n) == n
SummedCount(m, n) == m + n

HighWater(m, n) == IF m > n THEN m ELSE n

(* The fold of a repeat fetch into the entry held: what was read comes from *)
(* the deeper record (the newer one on a tie), recency from the new one.    *)
MergeRecord(held, cur) ==
  LET best == IF DepthRank(held.read) > DepthRank(cur.read) THEN held ELSE cur
  IN  [url     |-> cur.url,
       final   |-> cur.final,
       read    |-> best.read,
       outcome |-> best.outcome,
       chars   |-> HighWater(held.chars, cur.chars),
       total   |-> HighWater(held.total, cur.total),
       seq     |-> cur.seq,
       fetches |-> held.fetches + 1]

EmptyTable ==
  [entries |-> << >>, index |-> [k \in {} |-> 0], total |-> 0, evicted |-> 0]

(* Mutant of Numbered: a first fetch that does not count itself. *)
NumberedUncounted(h, f) ==
  [url |-> f.url, final |-> f.final, read |-> f.read, outcome |-> f.outcome,
   chars |-> f.chars, total |-> f.total, seq |-> h.total + 1, fetches |-> 0]

(* The fetch f as appendRecord files it: the next Seq, one fetch so far. *)
Numbered(h, f) ==
  [url |-> f.url, final |-> f.final, read |-> f.read, outcome |-> f.outcome,
   chars |-> f.chars, total |-> f.total, seq |-> h.total + 1, fetches |-> 1]

Holds(h, k) == k \in DOMAIN h.index

(* Mutant of LeastRecent: the source first seen longest ago, by slot. *)
OldestSlot(entries) == {1}

(* The slots whose source was touched longest ago (one: Seqs are distinct). *)
LeastRecent(entries) ==
  {i \in DOMAIN entries :
     \A j \in DOMAIN entries : entries[i].seq <= entries[j].seq}

(* Mutant of Reindexed: the reused slot stays filed under its old key too. *)
ReindexedKeepingOld(index, old, k, i) ==
  [x \in DOMAIN index \cup {k} |-> IF x = k THEN i ELSE index[x]]

(* The index with the key that slot i held (if any) moved to k. *)
Reindexed(index, old, k, i) ==
  [x \in (DOMAIN index \ {old}) \cup {k} |-> IF x = k THEN i ELSE index[x]]

(* Mutant of Fold: a repeat fetch that does not consume its Seq. *)
FoldUnnumbered(h, r) ==
  LET i == h.index[Citable(r)]
  IN  [h EXCEPT !.entries[i] = MergeRecord(@, r)]

Fold(h, r) ==
  LET i == h.index[Citable(r)]
  IN  [entries |-> [h.entries EXCEPT ![i] = MergeRecord(@, r)],
       index   |-> h.index,
       total   |-> r.seq,
       evicted |-> h.evicted]

Admit(h, r) ==
  [entries |-> Append(h.entries, r),
   index   |-> Reindexed(h.index, Citable(r), Citable(r), Len(h.entries) + 1),
   total   |-> r.seq,
   evicted |-> h.evicted]

(* Mutant of Replace: the dropped source is not counted. *)
ReplaceUncounted(h, r, i) ==
  [entries |-> [h.entries EXCEPT ![i] = r],
   index   |-> Reindexed(h.index, Citable(h.entries[i]), Citable(r), i),
   total   |-> r.seq,
   evicted |-> h.evicted]

Replace(h, r, i) ==
  [entries |-> [h.entries EXCEPT ![i] = r],
   index   |-> Reindexed(h.index, Citable(h.entries[i]), Citable(r), i),
   total   |-> r.seq,
   evicted |-> h.evicted + 1]

(* The tables appendRecord can leave behind. *)
AppendRecord(h, f) ==
  LET r == Numbered(h, f)
  IN  IF Holds(h, Citable(r)) THEN {Fold(h, r)}
      ELSE IF Len(h.entries) < Cap THEN {Admit(h, r)}
      ELSE {Replace(h, r, i) : i \in LeastRecent(h.entries)}

(* Mutant of RowsSince: since_seq is taken for the next Seq, not the last. *)
RowsPastNext(h, since) == {i \in DOMAIN h.entries : h.entries[i].seq > since + 1}

(* The rows list returns to a caller that passes since_seq = since. *)
RowsSince(h, since) == {i \in DOMAIN h.entries : h.entries[i].seq > since}

Row(h, k) == h.entries[h.index[k]]
=============================================================================
