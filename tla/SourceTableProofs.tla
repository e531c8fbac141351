-------------------------- MODULE SourceTableProofs --------------------------
(***************************************************************************)
(* What appendRecord preserves of a source table, for every cap and every   *)
(* set of URLs.  The facts are stated once, on SourceTable's operators, for *)
(* the proofs about the modules that run tables.                            *)
(***************************************************************************)
EXTENDS SourceTable, SequenceTheorems, TLAPS

(* A table as Go's types and its cap admit it. *)
TableType(h) ==
  /\ h = [entries |-> h.entries, index |-> h.index,
          total |-> h.total, evicted |-> h.evicted]
  /\ h.entries \in Seq(Entry) /\ Len(h.entries) <= Cap
  /\ DOMAIN h.index \subseteq Url /\ h.index \in [DOMAIN h.index -> Nat]
  /\ h.total \in Nat /\ h.evicted \in Nat

(* The index leads to the entries and nowhere else, and back. *)
TableIndexed(h) ==
  /\ \A k \in DOMAIN h.index :
       h.index[k] \in DOMAIN h.entries /\ Citable(Row(h, k)) = k
  /\ \A i \in DOMAIN h.entries :
       LET k == Citable(h.entries[i]) IN Holds(h, k) /\ h.index[k] = i

(* The entries' Seqs are distinct and were all given out. *)
TableOrdered(h) ==
  /\ \A i \in DOMAIN h.entries : h.entries[i].seq \in 1..h.total
  /\ \A i, j \in DOMAIN h.entries :
       h.entries[i].seq = h.entries[j].seq => i = j

TableOK(h) == TableType(h) /\ TableIndexed(h) /\ TableOrdered(h)

(* A row that takes nothing back from another one of the same source. *)
Deepens(old, new) ==
  /\ DepthRank(new.read) >= DepthRank(old.read)
  /\ new.chars >= old.chars /\ new.total >= old.total
  /\ old.outcome = "ok" => new.outcome = "ok"

(* What filing f does to the rows: its own row is new, or merged with the   *)
(* one held, and gets the next Seq; every other row that stays is unchanged. *)
Files(h, g, f) ==
  /\ g.total = h.total + 1
  /\ Citable(f) \in DOMAIN g.index
  /\ Row(g, Citable(f)).seq = g.total
  /\ Row(g, Citable(f)) = IF Citable(f) \in DOMAIN h.index
                          THEN MergeRecord(Row(h, Citable(f)), Numbered(h, f))
                          ELSE Numbered(h, f)
  /\ \A k \in DOMAIN g.index \ {Citable(f)} :
       k \in DOMAIN h.index /\ Row(g, k) = Row(h, k)

(* What it does to the set of sources: nothing leaves, and nothing enters a *)
(* full table, or a full table loses one source and counts it.              *)
Keeps(h, g, f) ==
  /\ g.evicted = h.evicted
  /\ DOMAIN g.index = DOMAIN h.index \cup {Citable(f)}
  /\ Len(h.entries) = Cap => DOMAIN g.index = DOMAIN h.index /\ Len(g.entries) = Cap

Drops(h, g, f) ==
  /\ g.evicted = h.evicted + 1
  /\ DOMAIN g.index \subseteq DOMAIN h.index \cup {Citable(f)}
  /\ \E k \in DOMAIN h.index : k \notin DOMAIN g.index
  /\ Len(g.entries) = Cap

-----------------------------------------------------------------------------
(* The cap is at least one slot, whatever the setting. *)
LEMMA CapPositive == Cap \in Nat \ {0}
BY TableAssumption DEF Cap

(* An entry is filed under a URL, never under the empty final URL. *)
LEMMA CitableIsUrl ==
  ASSUME NEW r \in Entry
  PROVE  Citable(r) \in Url
BY DEF Citable, Entry

(* Numbering a fetch makes it an entry filed under the fetch's own URL. *)
LEMMA NumberedIsEntry ==
  ASSUME NEW h, TableType(h), NEW f \in Fetch
  PROVE  /\ Numbered(h, f) \in Entry
         /\ Citable(Numbered(h, f)) = Citable(f)
         /\ Numbered(h, f).seq = h.total + 1
         /\ Numbered(h, f).read = f.read /\ Numbered(h, f).outcome = f.outcome
BY DEF TableType, Numbered, Fetch, Entry, Citable

(* The fold of a repeat fetch is an entry of the repeat's source and Seq. *)
LEMMA MergeIsEntry ==
  ASSUME NEW held \in Entry, NEW cur \in Entry
  PROVE  /\ MergeRecord(held, cur) \in Entry
         /\ Citable(MergeRecord(held, cur)) = Citable(cur)
         /\ MergeRecord(held, cur).seq = cur.seq
<1>1. HighWater(held.chars, cur.chars) \in 0..MaxChars
  BY TableAssumption DEF HighWater, Entry
<1>2. HighWater(held.total, cur.total) \in 0..MaxChars
  BY TableAssumption DEF HighWater, Entry
<1> QED
  BY <1>1, <1>2 DEF MergeRecord, Entry, Citable

(* The empty table is in order. *)
LEMMA EmptyTableOK == TableOK(EmptyTable)
<1>1. << >> \in Seq(Entry) /\ Len(<< >>) = 0 /\ DOMAIN << >> = {}
  OBVIOUS
<1> QED
  BY <1>1, CapPositive
  DEF TableOK, TableType, TableIndexed, TableOrdered, EmptyTable

-----------------------------------------------------------------------------
(* A fold keeps the table in order and files the fetch in its slot. *)
LEMMA FoldOK ==
  ASSUME NEW h, TableOK(h), NEW f \in Fetch, NEW g,
         Holds(h, Citable(f)), g = Fold(h, Numbered(h, f))
  PROVE  TableOK(g) /\ Files(h, g, f) /\ Keeps(h, g, f)
<1> DEFINE r == Numbered(h, f)
           k == Citable(f)
           i == h.index[k]
           m == MergeRecord(h.entries[i], r)
<1>1. r \in Entry /\ Citable(r) = k /\ r.seq = h.total + 1
  BY NumberedIsEntry DEF TableOK
<1>2. /\ h.entries \in Seq(Entry) /\ h.total \in Nat
      /\ k \in DOMAIN h.index /\ i \in 1..Len(h.entries)
      /\ h.entries[i] \in Entry
  BY ElementOfSeq DEF TableOK, TableType, TableIndexed, Holds
<1>3. m \in Entry /\ Citable(m) = k /\ m.seq = h.total + 1
  BY <1>1, <1>2, MergeIsEntry
<1>4. g = [entries |-> [h.entries EXCEPT ![i] = m], index |-> h.index,
           total |-> h.total + 1, evicted |-> h.evicted]
  BY <1>1 DEF Fold
<1>5. /\ g.entries \in Seq(Entry) /\ Len(g.entries) = Len(h.entries)
      /\ \A j \in 1..Len(h.entries) :
           g.entries[j] = IF j = i THEN m ELSE h.entries[j]
  BY <1>2, <1>3, <1>4, ExceptSeq
<1>6. DOMAIN g.entries = 1..Len(h.entries) /\ DOMAIN h.entries = 1..Len(h.entries)
  BY <1>2, <1>5
<1>7. TableType(g)
  BY <1>4, <1>5 DEF TableOK, TableType
<1>8. TableIndexed(g)
  <2>1. h.index = g.index /\ \A j \in DOMAIN h.entries :
           Citable(g.entries[j]) = Citable(h.entries[j])
    BY <1>2, <1>3, <1>4, <1>5, <1>6 DEF TableOK, TableIndexed, Row
  <2> QED
    BY <2>1, <1>6 DEF TableOK, TableIndexed, Row, Holds
<1>9. TableOrdered(g)
  <2>1. \A j \in 1..Len(h.entries) : h.entries[j].seq \in 1..h.total
    BY <1>6 DEF TableOK, TableOrdered
  <2>2. g.total = h.total + 1
    BY <1>4
  <2>3. \A j \in 1..Len(h.entries) :
          g.entries[j].seq = IF j = i THEN h.total + 1 ELSE h.entries[j].seq
    BY <1>3, <1>5
  <2>4. \A j \in DOMAIN g.entries : g.entries[j].seq \in 1..g.total
    BY <1>2, <1>6, <2>1, <2>2, <2>3
  <2>5. ASSUME NEW j \in DOMAIN g.entries, NEW l \in DOMAIN g.entries,
               g.entries[j].seq = g.entries[l].seq
        PROVE  j = l
    BY <1>2, <1>6, <2>1, <2>3, <2>5 DEF TableOK, TableOrdered
  <2> QED
    BY <2>4, <2>5 DEF TableOrdered
<1>10. Files(h, g, f)
  <2>1. Row(g, k) = m /\ Row(h, k) = h.entries[i]
    BY <1>2, <1>4, <1>5 DEF Row
  <2>2. ASSUME NEW x \in DOMAIN g.index \ {k}
        PROVE  x \in DOMAIN h.index /\ Row(g, x) = Row(h, x)
    <3>1. x \in DOMAIN h.index /\ h.index[x] \in DOMAIN h.entries /\ h.index[x] # i
      BY <1>2, <1>4, <2>2 DEF TableOK, TableIndexed, Row
    <3> QED
      BY <1>4, <1>5, <1>6, <3>1 DEF Row
  <2>3. g.total = h.total + 1 /\ k \in DOMAIN g.index /\ Row(g, k).seq = g.total
    BY <1>2, <1>3, <1>4, <2>1
  <2>4. Row(g, k) = MergeRecord(Row(h, k), r)
    BY <2>1
  <2> HIDE DEF k, r, m, i
  <2> QED
    BY <1>2, <2>2, <2>3, <2>4 DEF Files, k, r
<1>11. Keeps(h, g, f)
  BY <1>2, <1>4, <1>5 DEF Keeps
<1> QED
  BY <1>7, <1>8, <1>9, <1>10, <1>11 DEF TableOK

(* So does the admission of a new source below the cap. *)
LEMMA AdmitOK ==
  ASSUME NEW h, TableOK(h), NEW f \in Fetch, NEW g,
         ~Holds(h, Citable(f)), Len(h.entries) < Cap, g = Admit(h, Numbered(h, f))
  PROVE  TableOK(g) /\ Files(h, g, f) /\ Keeps(h, g, f)
<1> DEFINE r == Numbered(h, f)
           k == Citable(f)
           n == Len(h.entries) + 1
<1>1. r \in Entry /\ Citable(r) = k /\ r.seq = h.total + 1 /\ k \in Url
  BY NumberedIsEntry, CitableIsUrl DEF TableOK
<1>2. /\ h.entries \in Seq(Entry) /\ h.total \in Nat /\ k \notin DOMAIN h.index
      /\ Len(h.entries) \in Nat /\ DOMAIN h.entries = 1..Len(h.entries)
  BY DEF TableOK, TableType, Holds
<1>3. /\ g.entries = Append(h.entries, r) /\ g.total = h.total + 1
      /\ g.evicted = h.evicted
      /\ g.index = [x \in DOMAIN h.index \cup {k} |->
                      IF x = k THEN n ELSE h.index[x]]
      /\ g = [entries |-> g.entries, index |-> g.index,
              total |-> g.total, evicted |-> g.evicted]
  BY <1>1, <1>2 DEF Admit, Reindexed
<1>4. /\ g.entries \in Seq(Entry) /\ Len(g.entries) = n
      /\ \A j \in 1..Len(h.entries) : g.entries[j] = h.entries[j]
      /\ g.entries[n] = r
      /\ DOMAIN g.entries = 1..n
  BY <1>1, <1>2, <1>3, AppendProperties
<1>5. /\ DOMAIN g.index = DOMAIN h.index \cup {k} /\ g.index[k] = n
      /\ \A x \in DOMAIN h.index : g.index[x] = h.index[x]
  BY <1>2, <1>3
<1>6. TableType(g)
  <2>1. n \in Nat /\ n <= Cap
    BY <1>2, CapPositive
  <2>2. g.index \in [DOMAIN g.index -> Nat]
    BY <1>3, <1>5, <2>1 DEF TableOK, TableType
  <2> QED
    BY <1>1, <1>3, <1>4, <1>5, <2>1, <2>2 DEF TableOK, TableType
<1>7. TableIndexed(g)
  <2>1. ASSUME NEW x \in DOMAIN g.index
        PROVE  g.index[x] \in DOMAIN g.entries /\ Citable(Row(g, x)) = x
    <3>1. CASE x = k
      BY <1>1, <1>2, <1>4, <1>5, <3>1 DEF Row
    <3>2. CASE x # k
      BY <1>2, <1>4, <1>5, <2>1, <3>2 DEF TableOK, TableIndexed, Row
    <3> QED
      BY <3>1, <3>2
  <2>2. ASSUME NEW j \in DOMAIN g.entries
        PROVE  /\ Citable(g.entries[j]) \in DOMAIN g.index
               /\ g.index[Citable(g.entries[j])] = j
    <3>1. CASE j = n
      BY <1>1, <1>4, <1>5, <3>1
    <3>2. CASE j # n
      <4>1. j \in 1..Len(h.entries)
        BY <1>2, <1>4, <2>2, <3>2
      <4> QED
        BY <1>2, <1>4, <1>5, <4>1 DEF TableOK, TableIndexed, Holds
    <3> QED
      BY <3>1, <3>2
  <2> QED
    BY <2>1, <2>2 DEF TableIndexed, Holds
<1>8. TableOrdered(g)
  BY <1>1, <1>2, <1>3, <1>4 DEF TableOK, TableOrdered
<1>9. Files(h, g, f)
  <2>1. Row(g, k) = r
    BY <1>4, <1>5 DEF Row
  <2>2. ASSUME NEW x \in DOMAIN g.index \ {k}
        PROVE  x \in DOMAIN h.index /\ Row(g, x) = Row(h, x)
    BY <1>2, <1>4, <1>5, <2>2 DEF TableOK, TableIndexed, Row
  <2> QED
    BY <1>1, <1>2, <1>3, <1>5, <2>1, <2>2 DEF Files
<1>10. Keeps(h, g, f)
  BY <1>2, <1>3, <1>5 DEF Keeps
<1> QED
  BY <1>6, <1>7, <1>8, <1>9, <1>10 DEF TableOK

(* And the reuse of the least recent slot at the cap: the key the slot was  *)
(* filed under goes, the new source's comes.                                *)
LEMMA ReplaceOK ==
  ASSUME NEW h, TableOK(h), NEW f \in Fetch, NEW g, NEW i \in DOMAIN h.entries,
         ~Holds(h, Citable(f)), ~(Len(h.entries) < Cap),
         g = Replace(h, Numbered(h, f), i)
  PROVE  TableOK(g) /\ Files(h, g, f) /\ Drops(h, g, f)
<1> DEFINE r == Numbered(h, f)
           k == Citable(f)
           old == Citable(h.entries[i])
<1>1. r \in Entry /\ Citable(r) = k /\ r.seq = h.total + 1 /\ k \in Url
  BY NumberedIsEntry, CitableIsUrl DEF TableOK
<1>2. /\ h.entries \in Seq(Entry) /\ h.total \in Nat /\ h.evicted \in Nat
      /\ i \in 1..Len(h.entries)
      /\ Len(h.entries) \in Nat /\ DOMAIN h.entries = 1..Len(h.entries)
  BY DEF TableOK, TableType
<1>3. k \notin DOMAIN h.index /\ old \in DOMAIN h.index /\ h.index[old] = i
  BY <1>2 DEF TableOK, TableIndexed, Holds
<1>4. /\ g.entries = [h.entries EXCEPT ![i] = r] /\ g.total = h.total + 1
      /\ g.evicted = h.evicted + 1
      /\ g.index = [x \in (DOMAIN h.index \ {old}) \cup {k} |->
                      IF x = k THEN i ELSE h.index[x]]
      /\ g = [entries |-> g.entries, index |-> g.index,
              total |-> g.total, evicted |-> g.evicted]
  BY <1>1, <1>2 DEF Replace, Reindexed
<1>5. /\ g.entries \in Seq(Entry) /\ Len(g.entries) = Len(h.entries)
      /\ \A j \in 1..Len(h.entries) :
           g.entries[j] = IF j = i THEN r ELSE h.entries[j]
      /\ DOMAIN g.entries = 1..Len(h.entries)
  BY <1>1, <1>2, <1>4, ExceptSeq
<1>6. /\ DOMAIN g.index = (DOMAIN h.index \ {old}) \cup {k} /\ g.index[k] = i
      /\ \A x \in DOMAIN h.index \ {old} : g.index[x] = h.index[x]
  BY <1>3, <1>4
<1>7. ASSUME NEW x \in DOMAIN h.index \ {old}
      PROVE  h.index[x] \in 1..Len(h.entries) /\ h.index[x] # i /\ x # k
             /\ Citable(h.entries[h.index[x]]) = x
  BY <1>2, <1>3, <1>7 DEF TableOK, TableIndexed, Row
<1>8. TableType(g)
  <2>1. g.index \in [DOMAIN g.index -> Nat]
    BY <1>2, <1>4, <1>6 DEF TableOK, TableType
  <2> QED
    BY <1>1, <1>2, <1>4, <1>5, <1>6, <2>1 DEF TableOK, TableType
<1>9. TableIndexed(g)
  <2>1. ASSUME NEW x \in DOMAIN g.index
        PROVE  g.index[x] \in DOMAIN g.entries /\ Citable(Row(g, x)) = x
    <3>1. CASE x = k
      BY <1>1, <1>2, <1>5, <1>6, <3>1 DEF Row
    <3>2. CASE x # k
      BY <1>5, <1>6, <1>7, <2>1, <3>2 DEF Row
    <3> QED
      BY <3>1, <3>2
  <2>2. ASSUME NEW j \in DOMAIN g.entries
        PROVE  /\ Citable(g.entries[j]) \in DOMAIN g.index
               /\ g.index[Citable(g.entries[j])] = j
    <3>1. CASE j = i
      BY <1>1, <1>2, <1>5, <1>6, <3>1
    <3>2. CASE j # i
      <4>1. j \in DOMAIN h.entries /\ g.entries[j] = h.entries[j]
        BY <1>2, <1>5, <2>2, <3>2
      <4>2. /\ Citable(h.entries[j]) \in DOMAIN h.index
            /\ h.index[Citable(h.entries[j])] = j
        BY <4>1 DEF TableOK, TableIndexed, Holds
      <4> QED
        BY <1>3, <1>6, <3>2, <4>1, <4>2
    <3> QED
      BY <3>1, <3>2
  <2> QED
    BY <2>1, <2>2 DEF TableIndexed, Holds
<1>10. TableOrdered(g)
  <2>1. \A j \in 1..Len(h.entries) : h.entries[j].seq \in 1..h.total
    BY <1>2 DEF TableOK, TableOrdered
  <2>2. \A j \in 1..Len(h.entries) :
          g.entries[j].seq = IF j = i THEN h.total + 1 ELSE h.entries[j].seq
    BY <1>1, <1>5
  <2>3. ASSUME NEW j \in DOMAIN g.entries
        PROVE  g.entries[j].seq \in 1..g.total
    <3>1. j \in 1..Len(h.entries) /\ g.total = h.total + 1
      BY <1>4, <1>5
    <3>2. CASE j = i
      BY <1>2, <2>2, <3>1, <3>2
    <3>3. CASE j # i
      <4>1. g.entries[j].seq = h.entries[j].seq /\ h.entries[j].seq \in 1..h.total
        BY <2>1, <2>2, <3>1, <3>3
      <4> QED
        BY <1>2, <3>1, <4>1
    <3> QED
      BY <3>2, <3>3
  <2>4. ASSUME NEW j \in DOMAIN g.entries, NEW l \in DOMAIN g.entries,
               g.entries[j].seq = g.entries[l].seq
        PROVE  j = l
    BY <1>2, <1>5, <2>1, <2>2, <2>4 DEF TableOK, TableOrdered
  <2> QED
    BY <2>3, <2>4 DEF TableOrdered
<1>11. Files(h, g, f)
  <2>1. Row(g, k) = r
    BY <1>2, <1>5, <1>6 DEF Row
  <2>2. ASSUME NEW x \in DOMAIN g.index \ {k}
        PROVE  x \in DOMAIN h.index /\ Row(g, x) = Row(h, x)
    BY <1>5, <1>6, <1>7, <2>2 DEF Row
  <2> QED
    BY <1>1, <1>3, <1>4, <1>6, <2>1, <2>2 DEF Files
<1>12. Drops(h, g, f)
  <2>1. Len(g.entries) = Cap
    BY <1>2, <1>5, CapPositive DEF TableOK, TableType
  <2>2. old \notin DOMAIN g.index
    BY <1>3, <1>6
  <2> QED
    BY <1>3, <1>4, <1>6, <2>1, <2>2 DEF Drops
<1> QED
  BY <1>8, <1>9, <1>10, <1>11, <1>12 DEF TableOK

(* Whatever appendRecord does to a table in order, it leaves one in order   *)
(* with the fetch filed.                                                    *)
LEMMA AppendOK ==
  ASSUME NEW h, TableOK(h), NEW f \in Fetch, NEW g \in AppendRecord(h, f)
  PROVE  TableOK(g) /\ Files(h, g, f) /\ (Keeps(h, g, f) \/ Drops(h, g, f))
<1> DEFINE r == Numbered(h, f)
<1>1. Citable(r) = Citable(f)
  BY NumberedIsEntry DEF TableOK
<1>2. CASE Holds(h, Citable(f))
  BY <1>1, <1>2, FoldOK DEF AppendRecord
<1>3. CASE ~Holds(h, Citable(f)) /\ Len(h.entries) < Cap
  BY <1>1, <1>3, AdmitOK DEF AppendRecord
<1>4. CASE ~Holds(h, Citable(f)) /\ ~(Len(h.entries) < Cap)
  <2>1. PICK i \in LeastRecent(h.entries) : g = Replace(h, r, i)
    BY <1>1, <1>4 DEF AppendRecord
  <2>2. i \in DOMAIN h.entries
    BY <2>1 DEF LeastRecent
  <2> QED
    BY <1>4, <2>1, <2>2, ReplaceOK
<1> QED
  BY <1>2, <1>3, <1>4

-----------------------------------------------------------------------------
(* A fold takes nothing back from the row held: neither a depth, nor a      *)
(* character count, nor a success.                                          *)
LEMMA MergeDeepens ==
  ASSUME NEW held \in Entry, NEW cur \in Entry, Honest(held), Honest(cur)
  PROVE  Deepens(held, MergeRecord(held, cur)) /\ Honest(MergeRecord(held, cur))
<1> DEFINE m == MergeRecord(held, cur)
<1>1. /\ DepthRank(held.read) \in 1..4 /\ DepthRank(cur.read) \in 1..4
      /\ held.read # "none" <=> DepthRank(held.read) > 1
      /\ cur.read # "none" <=> DepthRank(cur.read) > 1
  BY DEF DepthRank, Entry, Depths
<1>2. m.chars >= held.chars /\ m.total >= held.total
  BY TableAssumption DEF MergeRecord, HighWater, Entry
<1>3. CASE DepthRank(held.read) > DepthRank(cur.read)
  BY <1>1, <1>2, <1>3 DEF MergeRecord, Deepens, Honest
<1>4. CASE ~(DepthRank(held.read) > DepthRank(cur.read))
  <2>1. m.read = cur.read /\ m.outcome = cur.outcome
    BY <1>4 DEF MergeRecord
  <2> QED
    BY <1>1, <1>2, <1>4, <2>1 DEF Deepens, Honest
<1> QED
  BY <1>3, <1>4
=============================================================================
