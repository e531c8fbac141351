------------------------- MODULE SourceLedgerProofs -------------------------
(***************************************************************************)
(* The source ledger's safety properties for every cap, every set of URLs   *)
(* and every number of fetches.                                             *)
(***************************************************************************)
EXTENDS SourceLedger, SourceTableProofs, DataProofs

(* Every row is the report of a read or of an error, folds included. *)
RowsHonest == \A i \in DOMAIN h.entries : Honest(h.entries[i])

(* The client has been given no seq that was not given out. *)
CursorGivenOut == cursor \in 0..h.total

(* What the history variables say of the table. *)
Remembered ==
  /\ IsPartial(told, Url, Entry)
  /\ fetched \subseteq Url /\ forgotten \in Nat
  /\ DOMAIN h.index \subseteq fetched

(* Nothing is elided and everything fetched is listed, or the table is full *)
(* (so it never grows again) and something fetched is missing.              *)
Accounted ==
  \/ h.evicted = 0 /\ fetched = DOMAIN h.index
  \/ /\ h.evicted > 0 /\ Len(h.entries) = Cap
     /\ \E k \in fetched : k \notin DOMAIN h.index

(* The inductive invariant. *)
Inv == TableOK(h) /\ RowsHonest /\ CursorGivenOut /\ Remembered /\ Accounted /\ ToldExact

-----------------------------------------------------------------------------
(* A row of a table in order is an entry, filed under its own URL. *)
LEMMA RowIsEntry ==
  ASSUME NEW g, TableOK(g), NEW k \in DOMAIN g.index
  PROVE  /\ g.index[k] \in DOMAIN g.entries
         /\ Row(g, k) \in Entry /\ Citable(Row(g, k)) = k /\ k \in Url
         /\ Row(g, k).seq \in 1..g.total
BY ElementOfSeq DEF TableOK, TableType, TableIndexed, TableOrdered, Row

(* The rows of an invariant state are honest, by their key. *)
LEMMA RowIsHonest ==
  ASSUME Inv, NEW k \in DOMAIN h.index
  PROVE  Honest(Row(h, k))
BY RowIsEntry DEF Inv, RowsHonest, Row

(* The fetches of a row that is dropped are a number. *)
LEMMA LostFetchesNat ==
  ASSUME Inv, NEW g
  PROVE  LostFetches(g) \in Nat
<1>1. CASE Lost(g) = {}
  BY <1>1 DEF LostFetches
<1>2. CASE Lost(g) # {}
  <2>1. (CHOOSE k \in Lost(g) : TRUE) \in DOMAIN h.index
    BY <1>2 DEF Lost
  <2>2. Row(h, CHOOSE k \in Lost(g) : TRUE) \in Entry
    BY <2>1, RowIsEntry DEF Inv
  <2> QED
    BY <1>2, <2>2 DEF LostFetches, Entry
<1> QED
  BY <1>1, <1>2

-----------------------------------------------------------------------------
(* The invariant holds before the first fetch. *)
LEMMA InvInit == Init => Inv
<1> SUFFICES ASSUME Init PROVE Inv
  OBVIOUS
<1>1. TableOK(h)
  BY EmptyTableOK DEF Init
<1>2. /\ DOMAIN h.index = {} /\ DOMAIN h.entries = {}
      /\ h.total = 0 /\ h.evicted = 0
  BY DEF Init, EmptyTable
<1> QED
  BY <1>1, <1>2
  DEF Init, Inv, RowsHonest, CursorGivenOut, Remembered, IsPartial, Accounted, ToldExact

(* What one fetch does to the rows, seen by key: its own row deepens the    *)
(* one held, or is the fetch; the others are unchanged.                     *)
LEMMA RecordFetchRows ==
  ASSUME Inv, NEW f \in Calls, RecordFetch(f)
  PROVE  /\ TableOK(h') /\ Files(h, h', f) /\ (Keeps(h, h', f) \/ Drops(h, h', f))
         /\ \A k \in DOMAIN h'.index :
              /\ Honest(Row(h', k))
              /\ k \in DOMAIN h.index => Deepens(Row(h, k), Row(h', k))
<1>1. f \in Fetch /\ Honest(f)
  BY LedgerAssumption
<1>2. TableOK(h') /\ Files(h, h', f) /\ (Keeps(h, h', f) \/ Drops(h, h', f))
  BY <1>1, AppendOK DEF Inv, RecordFetch
<1>3. Numbered(h, f) \in Entry /\ Honest(Numbered(h, f))
  BY <1>1, NumberedIsEntry DEF Inv, TableOK, Honest
<1>4. ASSUME NEW k \in DOMAIN h'.index
      PROVE  /\ Honest(Row(h', k))
             /\ k \in DOMAIN h.index => Deepens(Row(h, k), Row(h', k))
  <2>1. CASE k = Citable(f) /\ k \in DOMAIN h.index
    <3>1. Row(h', k) = MergeRecord(Row(h, k), Numbered(h, f))
      BY <1>2, <2>1 DEF Files
    <3>2. Row(h, k) \in Entry /\ Honest(Row(h, k))
      BY <2>1, RowIsEntry, RowIsHonest DEF Inv
    <3> QED
      BY <1>3, <3>1, <3>2, MergeDeepens
  <2>2. CASE k = Citable(f) /\ k \notin DOMAIN h.index
    BY <1>2, <1>3, <2>2 DEF Files
  <2>3. CASE k # Citable(f)
    <3>1. k \in DOMAIN h.index /\ Row(h', k) = Row(h, k)
      BY <1>2, <1>4, <2>3 DEF Files
    <3>2. Row(h, k) \in Entry /\ Honest(Row(h, k))
      BY <3>1, RowIsEntry, RowIsHonest DEF Inv
    <3>3. DepthRank(Row(h, k).read) \in 1..4
      BY <3>2 DEF DepthRank
    <3>4. Deepens(Row(h, k), Row(h, k))
      BY TableAssumption, <3>2, <3>3 DEF Deepens, Entry
    <3> QED
      BY <3>1, <3>2, <3>4
  <2> QED
    BY <2>1, <2>2, <2>3
<1> QED
  BY <1>2, <1>4

(* A fetch preserves the invariant. *)
LEMMA InvRecordFetch ==
  ASSUME Inv, NEW f \in Calls, RecordFetch(f)
  PROVE  Inv'
<1> DEFINE c == Citable(f)
<1>1. /\ TableOK(h') /\ Files(h, h', f) /\ (Keeps(h, h', f) \/ Drops(h, h', f))
      /\ \A k \in DOMAIN h'.index : Honest(Row(h', k))
  BY RecordFetchRows
<1>2. /\ cursor' = cursor /\ told' = told
      /\ fetched' = fetched \cup {c}
      /\ forgotten' = forgotten + LostFetches(h')
  BY DEF RecordFetch
<1>3. c \in DOMAIN h'.index /\ c \in Url /\ DOMAIN h'.index \subseteq DOMAIN h.index \cup {c}
  BY <1>1, RowIsEntry DEF Files
<1>4. RowsHonest'
  <2> SUFFICES ASSUME NEW i \in DOMAIN h'.entries PROVE Honest(h'.entries[i])
    BY DEF RowsHonest
  <2>1. LET k == Citable(h'.entries[i])
        IN  k \in DOMAIN h'.index /\ h'.index[k] = i
    BY <1>1 DEF TableOK, TableIndexed, Holds
  <2> QED
    BY <1>1, <2>1 DEF Row
<1>5. CursorGivenOut'
  BY <1>1, <1>2 DEF Inv, CursorGivenOut, Files, TableOK, TableType
<1>6. Remembered'
  <2>1. Lost(h') \subseteq Url
    BY RowIsEntry DEF Inv, Lost
  <2>2. forgotten' \in Nat
    BY <1>2, LostFetchesNat DEF Inv, Remembered
  <2>3. DOMAIN h'.index \subseteq fetched'
    BY <1>2, <1>3 DEF Inv, Remembered
  <2> QED
    BY <1>2, <1>3, <2>1, <2>2, <2>3 DEF Inv, Remembered, IsPartial
<1>7. Accounted'
  <2>1. h.evicted \in Nat
    BY DEF Inv, TableOK, TableType
  <2>2. CASE Keeps(h, h', f)
    BY <1>2, <2>1, <2>2 DEF Keeps, Inv, Accounted, Remembered
  <2>3. CASE Drops(h, h', f)
    <3>1. h'.evicted > 0 /\ Len(h'.entries) = Cap
      BY <2>1, <2>3 DEF Drops
    <3>2. PICK k \in DOMAIN h.index : k \notin DOMAIN h'.index
      BY <2>3 DEF Drops
    <3>3. k \in fetched'
      BY <1>2, <3>2 DEF Inv, Remembered
    <3> QED
      BY <3>1, <3>2, <3>3 DEF Accounted
  <2> QED
    BY <1>1, <2>2, <2>3
<1>8. ToldExact'
  <2> SUFFICES ASSUME NEW k \in DOMAIN h'.index, Row(h', k).seq <= cursor'
               PROVE  k \in DOMAIN told' /\ told'[k] = Row(h', k)
    BY DEF ToldExact
  <2>1. h.total \in Nat /\ cursor \in 0..h.total
    BY DEF Inv, TableOK, TableType, CursorGivenOut
  <2>2. k # c
    BY <1>1, <1>2, <2>1 DEF Files
  <2>3. k \in DOMAIN h.index /\ Row(h', k) = Row(h, k)
    BY <1>1, <2>2 DEF Files
  <2> QED
    BY <1>2, <2>3 DEF Inv, ToldExact
<1> QED
  BY <1>1, <1>4, <1>5, <1>6, <1>7, <1>8 DEF Inv

(* A poll preserves the invariant. *)
LEMMA InvPoll ==
  ASSUME Inv, Poll
  PROVE  Inv'
<1> DEFINE rows == RowsSince(h, cursor)
           news == {Citable(h.entries[i]) : i \in rows}
<1>1. /\ h' = h /\ fetched' = fetched /\ forgotten' = forgotten
      /\ cursor' \in {cursor} \cup {h.entries[i].seq : i \in rows}
      /\ \A i \in rows : h.entries[i].seq <= cursor'
      /\ told' = [k \in DOMAIN told \cup news |->
                    IF k \in news THEN Row(h, k) ELSE told[k]]
  BY DEF Poll
<1>2. \A i \in rows : /\ i \in DOMAIN h.entries
                      /\ h.entries[i].seq \in 1..h.total
                      /\ Citable(h.entries[i]) \in DOMAIN h.index
                      /\ h.index[Citable(h.entries[i])] = i
  BY DEF RowsSince, Inv, TableOK, TableOrdered, TableIndexed, Holds
<1>3. TableOK(h') /\ RowsHonest' /\ Accounted'
  BY <1>1 DEF Inv, RowsHonest, Accounted
<1>4. CursorGivenOut'
  <2>1. cursor \in 0..h.total /\ h.total \in Nat
    BY DEF Inv, CursorGivenOut, TableOK, TableType
  <2>2. CASE cursor' = cursor
    BY <1>1, <2>1, <2>2 DEF CursorGivenOut
  <2>3. CASE cursor' \in {h.entries[i].seq : i \in rows}
    BY <1>1, <1>2, <2>1, <2>3 DEF CursorGivenOut
  <2> QED
    BY <1>1, <2>2, <2>3
<1>5. Remembered'
  <2>1. news \subseteq DOMAIN h.index
    BY <1>2
  <2>2. \A k \in news : Row(h, k) \in Entry /\ k \in Url
    BY <2>1, RowIsEntry DEF Inv
  <2>3. DOMAIN told \subseteq Url /\ \A k \in DOMAIN told : told[k] \in Entry
    BY DEF Inv, Remembered, IsPartial
  <2>4. IsPartial(told', Url, Entry)
    BY <1>1, <2>2, <2>3 DEF IsPartial
  <2> QED
    BY <1>1, <2>4 DEF Inv, Remembered
<1>6. ToldExact'
  <2> SUFFICES ASSUME NEW k \in DOMAIN h.index, Row(h, k).seq <= cursor'
               PROVE  k \in DOMAIN told' /\ told'[k] = Row(h, k)
    BY <1>1 DEF ToldExact
  <2>1. CASE k \in news
    BY <1>1, <2>1
  <2>2. CASE k \notin news
    <3>1. h.index[k] \in DOMAIN h.entries /\ Citable(Row(h, k)) = k
          /\ Row(h, k).seq \in 1..h.total
      BY RowIsEntry DEF Inv
    <3>2. h.index[k] \notin rows
      BY <2>2, <3>1 DEF Row
    <3>3. cursor \in 0..h.total /\ h.total \in Nat
      BY DEF Inv, CursorGivenOut, TableOK, TableType
    <3>4. Row(h, k).seq <= cursor
      BY <3>1, <3>2, <3>3 DEF RowsSince, Row
    <3> QED
      BY <1>1, <2>2, <3>4 DEF Inv, ToldExact
  <2> QED
    BY <2>1, <2>2
<1> QED
  BY <1>3, <1>4, <1>5, <1>6 DEF Inv

(* Every step preserves the invariant. *)
LEMMA InvNext == Inv /\ [Next]_vars => Inv'
<1> SUFFICES ASSUME Inv, [Next]_vars PROVE Inv'
  OBVIOUS
<1>1. CASE \E f \in Calls : RecordFetch(f)
  BY <1>1, InvRecordFetch
<1>2. CASE Poll
  BY <1>2, InvPoll
<1>3. CASE UNCHANGED vars
  BY <1>3 DEF vars, Inv, RowsHonest, CursorGivenOut, Remembered, Accounted, ToldExact
<1> QED
  BY <1>1, <1>2, <1>3 DEF Next

(* The invariant holds of every reachable ledger. *)
THEOREM LedgerInvariant == Spec => []Inv
BY InvInit, InvNext, PTL DEF Spec

-----------------------------------------------------------------------------
(* Every variable keeps its type, and the table never outgrows its cap, for *)
(* every setting of MCP_HISTORY_ENTRIES.                                    *)
THEOREM LedgerTypeOK == Spec => []TypeOK
<1>1. Inv => TypeOK
  BY DEF Inv, TableOK, TableType, CursorGivenOut, Remembered, IsPartial, TypeOK
<1> QED
  BY <1>1, LedgerInvariant, PTL

(* index and entries stay in step through every fold, admission and reuse   *)
(* of a slot.                                                               *)
THEOREM LedgerIndexExact == Spec => []IndexExact
<1>1. Inv => IndexExact
  BY DEF Inv, TableOK, TableIndexed, IndexExact
<1> QED
  BY <1>1, LedgerInvariant, PTL

(* No two rows ever share a Seq, so the order list sorts by is total. *)
THEOREM LedgerSeqsDistinct == Spec => []SeqsDistinct
<1>1. Inv => SeqsDistinct
  BY DEF Inv, TableOK, TableOrdered, SeqsDistinct
<1> QED
  BY <1>1, LedgerInvariant, PTL

(* elided is zero exactly while everything fetched is still listed. *)
THEOREM LedgerElidedIffIncomplete == Spec => []ElidedIffIncomplete
<1>1. Inv => ElidedIffIncomplete
  BY DEF Inv, Accounted, ElidedIffIncomplete
<1> QED
  BY <1>1, LedgerInvariant, PTL

(* A client that polls from the highest seq it was given has an exact copy  *)
(* of every retained row it has been past.                                  *)
THEOREM LedgerToldExact == Spec => []ToldExact
<1>1. Inv => ToldExact
  BY DEF Inv
<1> QED
  BY <1>1, LedgerInvariant, PTL

(* No step takes a depth, a character count or a success back from a row    *)
(* that stays in the table.                                                 *)
THEOREM LedgerNeverUnread == Spec => NeverUnread
<1> DEFINE Kept ==
      \A k \in DOMAIN h.index \cap DOMAIN h'.index :
        LET old == Row(h, k)
            new == Row(h', k)
        IN  /\ DepthRank(new.read) >= DepthRank(old.read)
            /\ new.chars >= old.chars /\ new.total >= old.total
            /\ old.outcome = "ok" => new.outcome = "ok"
<1>1. Inv /\ [Next]_vars => [Kept]_vars
  <2> SUFFICES ASSUME Inv, Next PROVE Kept \/ UNCHANGED vars
    OBVIOUS
  <2>1. CASE \E f \in Calls : RecordFetch(f)
    BY <2>1, RecordFetchRows DEF Deepens
  <2>2. CASE Poll
    <3>1. h' = h
      BY <2>2 DEF Poll
    <3>2. \A k \in DOMAIN h.index :
            Row(h, k) \in Entry /\ DepthRank(Row(h, k).read) \in 1..4
      BY RowIsEntry DEF Inv, DepthRank
    <3> QED
      BY TableAssumption, <3>1, <3>2 DEF Entry
  <2> QED
    BY <2>1, <2>2 DEF Next
<1> QED
  BY <1>1, LedgerInvariant, PTL DEF Spec, NeverUnread

-----------------------------------------------------------------------------
(* RecencyTable counts as FiniteSets does. *)
LEMMA SameCardinality == \A S : Abstract!Cardinality(S) = Cardinality(S)
BY DEF Abstract!Cardinality, Cardinality, Abstract!IsFiniteSet, IsFiniteSet

(* A table in order holds as many sources as it has slots. *)
LEMMA HeldCardinality ==
  ASSUME NEW g, TableOK(g)
  PROVE  Cardinality(DOMAIN g.index) = Len(g.entries)
<1> DEFINE n == Len(g.entries)
           f == [i \in 1..n |-> Citable(g.entries[i])]
<1>1. n \in Nat /\ DOMAIN g.entries = 1..n
  BY DEF TableOK, TableType
<1>2. \A i \in 1..n : f[i] \in DOMAIN g.index /\ g.index[f[i]] = i
  BY <1>1 DEF TableOK, TableIndexed, Holds
<1>3. f \in Injection(1..n, DOMAIN g.index)
  BY <1>2 DEF Injection, IsInjective
<1>4. \A k \in DOMAIN g.index : \E i \in 1..n : f[i] = k
  BY <1>1 DEF TableOK, TableIndexed, Row
<1>5. f \in Surjection(1..n, DOMAIN g.index)
  BY <1>2, <1>4 DEF Surjection
<1>6. ExistsBijection(1..n, DOMAIN g.index)
  BY <1>3, <1>5 DEF Bijection, ExistsBijection
<1> QED
  BY <1>1, <1>6, FS_CountingElements

(* The depth of a fold is the deeper of the two, and it counts one more.    *)
LEMMA MergeRanks ==
  ASSUME NEW held \in Entry, NEW cur \in Entry
  PROVE  /\ DepthRank(MergeRecord(held, cur).read) =
              IF DepthRank(cur.read) > DepthRank(held.read)
              THEN DepthRank(cur.read) ELSE DepthRank(held.read)
         /\ MergeRecord(held, cur).seq = cur.seq
         /\ MergeRecord(held, cur).fetches = held.fetches + 1
<1>1. DepthRank(held.read) \in 1..4 /\ DepthRank(cur.read) \in 1..4
  BY DEF DepthRank
<1> QED
  BY <1>1 DEF MergeRecord

(* A repeat fetch touches its source in the recency table. *)
LEMMA FoldTouches ==
  ASSUME Inv, NEW f \in Fetch, Citable(f) \in DOMAIN h.index,
         TableOK(h'), Files(h, h', f), Keeps(h, h', f)
  PROVE  Abstract!Touch(Citable(f), DepthRank(f.read))
<1> DEFINE k == Citable(f)
           r == Numbered(h, f)
           d == DepthRank(f.read)
<1>1. r \in Entry /\ r.read = f.read /\ r.seq = h.total + 1
  BY NumberedIsEntry DEF Inv, TableOK
<1>2. Row(h, k) \in Entry
  BY RowIsEntry DEF Inv
<1>3. Row(h', k) = MergeRecord(Row(h, k), r)
  BY DEF Files
<1>4. /\ DepthRank(Row(h', k).read) =
            IF d > DepthRank(Row(h, k).read) THEN d ELSE DepthRank(Row(h, k).read)
      /\ Row(h', k).seq = h.total + 1
      /\ Row(h', k).fetches = Row(h, k).fetches + 1
  BY <1>1, <1>2, <1>3, MergeRanks
<1>5. DOMAIN h'.index = DOMAIN h.index /\ DOMAIN h.index \cup {k} = DOMAIN h.index
  BY DEF Keeps
<1>6. \A x \in DOMAIN h.index : x # k => Row(h', x) = Row(h, x)
  BY <1>5 DEF Files
<1> HIDE DEF k, r, d
<1>7. k \in DOMAIN h.index
  BY DEF k
<1> QED
  BY <1>4, <1>5, <1>6, <1>7 DEF Abstract!Touch, Abstract!Held, Abstract!Extend, k, d

(* A first fetch below the cap enters it. *)
LEMMA AdmitEnters ==
  ASSUME Inv, NEW f \in Fetch, Citable(f) \notin DOMAIN h.index,
         TableOK(h'), Files(h, h', f), Keeps(h, h', f)
  PROVE  Abstract!Enter(Citable(f), DepthRank(f.read))
<1> DEFINE k == Citable(f)
           d == DepthRank(f.read)
<1>1. Row(h', k) = Numbered(h, f)
  BY DEF Files
<1>2. /\ DepthRank(Row(h', k).read) = d
      /\ Row(h', k).seq = h.total + 1 /\ Row(h', k).fetches = 1
  BY <1>1 DEF Numbered
<1>3. DOMAIN h'.index = DOMAIN h.index \cup {k}
  BY DEF Keeps
<1>4. \A x \in DOMAIN h.index : x # k => Row(h', x) = Row(h, x)
  BY <1>3 DEF Files
<1>5. Cardinality(DOMAIN h.index) < Cap
  <2>1. Len(h.entries) # Cap
    BY <1>3 DEF Keeps
  <2>2. Len(h.entries) \in Nat /\ Len(h.entries) <= Cap /\ Cap \in Nat
    BY CapPositive DEF Inv, TableOK, TableType
  <2> QED
    BY <2>1, <2>2, HeldCardinality DEF Inv
<1> HIDE DEF k, d
<1>6. k \notin DOMAIN h.index
  BY DEF k
<1>7. Abstract!Cardinality(DOMAIN h.index) < Cap
  BY <1>5, SameCardinality
<1> QED
  BY <1>2, <1>3, <1>4, <1>6, <1>7 DEF Abstract!Enter, Abstract!Held, Abstract!Extend, k, d

(* The reuse of the least recent slot displaces the source it held. *)
LEMMA ReplaceDisplaces ==
  ASSUME Inv, NEW f \in Fetch, Citable(f) \notin DOMAIN h.index,
         ~(Len(h.entries) < Cap), NEW i \in LeastRecent(h.entries),
         h' = Replace(h, Numbered(h, f), i)
  PROVE  Abstract!Displace(Citable(f), DepthRank(f.read))
<1> DEFINE k == Citable(f)
           d == DepthRank(f.read)
           v == Citable(h.entries[i])
<1>1. TableOK(h) /\ i \in DOMAIN h.entries
  BY DEF Inv, LeastRecent
<1>2. Files(h, h', f)
  BY <1>1, ReplaceOK DEF Holds
<1>3. /\ DepthRank(Row(h', k).read) = d
      /\ Row(h', k).seq = h.total + 1 /\ Row(h', k).fetches = 1
  BY <1>2 DEF Files, Numbered
<1>4. v \in DOMAIN h.index /\ h.index[v] = i
  BY <1>1 DEF TableOK, TableIndexed, Holds
<1>5. DOMAIN h'.index = (DOMAIN h.index \ {v}) \cup {k}
  BY <1>1, NumberedIsEntry DEF Replace, Reindexed, TableOK
<1>6. \A x \in DOMAIN h.index \ {v} : Row(h', x) = Row(h, x)
  BY <1>2, <1>5 DEF Files
<1>7. \A x \in DOMAIN h.index : Row(h, v).seq <= Row(h, x).seq
  BY <1>1, <1>4 DEF LeastRecent, Row, TableOK, TableIndexed
<1>8. Abstract!Cardinality(DOMAIN h.index) = Cap
  <2>1. Len(h.entries) \in Nat /\ Len(h.entries) <= Cap /\ Cap \in Nat
    BY <1>1, CapPositive DEF TableOK, TableType
  <2> QED
    BY <1>1, <2>1, HeldCardinality, SameCardinality
<1> HIDE DEF k, d, v
<1>9. k \notin DOMAIN h.index
  BY DEF k
<1> QED
  BY <1>3, <1>4, <1>5, <1>6, <1>7, <1>8, <1>9
  DEF Abstract!Displace, Abstract!Held, Abstract!Extend, Abstract!Without, k, d

(* A fetch is a step of the recency table. *)
LEMMA RecordFetchRefines ==
  ASSUME Inv, NEW f \in Calls, RecordFetch(f)
  PROVE  Abstract!RNext
<1> DEFINE k == Citable(f)
           d == DepthRank(f.read)
<1>1. f \in Fetch /\ TableOK(h) /\ h.total < MaxFetches /\ h' \in AppendRecord(h, f)
  BY LedgerAssumption DEF Inv, RecordFetch
<1>2. TableOK(h') /\ Files(h, h', f)
  BY RecordFetchRows
<1>3. h'.total = h.total + 1 /\ d \in 1..4 /\ k \in Url
  BY <1>2, RowIsEntry DEF Files, DepthRank
<1>4. Citable(Numbered(h, f)) = k
  BY <1>1, NumberedIsEntry DEF TableOK
<1>5. CASE Holds(h, k)
  <2>1. h' = Fold(h, Numbered(h, f))
    BY <1>1, <1>4, <1>5 DEF AppendRecord
  <2>2. Keeps(h, h', f)
    BY <1>1, <1>5, <2>1, FoldOK
  <2> QED
    BY <1>1, <1>2, <1>3, <1>5, <2>2, FoldTouches DEF Abstract!RNext, Holds
<1>6. CASE ~Holds(h, k) /\ Len(h.entries) < Cap
  <2>1. h' = Admit(h, Numbered(h, f))
    BY <1>1, <1>4, <1>6 DEF AppendRecord
  <2>2. Keeps(h, h', f)
    BY <1>1, <1>6, <2>1, AdmitOK
  <2> QED
    BY <1>1, <1>2, <1>3, <1>6, <2>2, AdmitEnters DEF Abstract!RNext, Holds
<1>7. CASE ~Holds(h, k) /\ ~(Len(h.entries) < Cap)
  <2>1. PICK i \in LeastRecent(h.entries) : h' = Replace(h, Numbered(h, f), i)
    BY <1>1, <1>4, <1>7 DEF AppendRecord
  <2> QED
    BY <1>1, <1>3, <1>7, <2>1, ReplaceDisplaces DEF Abstract!RNext, Holds
<1> QED
  BY <1>5, <1>6, <1>7

(* The ledger implements the recency table: it keeps exactly the Cap most   *)
(* recently touched sources, whatever its slots and its index do.           *)
THEOREM LedgerKeepsMostRecent == Spec => KeepsMostRecent
<1>1. Init => Abstract!RInit
  BY DEF Init, EmptyTable, Abstract!RInit
<1>2. Inv /\ [Next]_vars => [Abstract!RNext]_(Abstract!rvars)
  <2> SUFFICES ASSUME Inv, [Next]_vars, h' # h PROVE Abstract!RNext
    BY DEF Abstract!rvars
  <2>1. PICK f \in Calls : RecordFetch(f)
    BY DEF Next, Poll, vars
  <2> QED
    BY <2>1, RecordFetchRefines
<1> QED
  BY <1>1, <1>2, LedgerInvariant, PTL DEF Spec, KeepsMostRecent, Abstract!RSpec
-----------------------------------------------------------------------------
(* The fetches counted by each row of g. *)
Counts(g) == [i \in DOMAIN g.entries |-> g.entries[i].fetches]

(* The rows' fetches and those of the rows dropped are all there were. *)
Conserved == h.total = forgotten + SumFunction(Counts(h))

(* A table in order has finitely many rows, and each counts a number. *)
LEMMA CountsNat ==
  ASSUME NEW g, TableOK(g)
  PROVE  /\ IsFiniteSet(DOMAIN g.entries) /\ DOMAIN Counts(g) = DOMAIN g.entries
         /\ \A i \in DOMAIN g.entries : Counts(g)[i] \in Nat
<1>1. g.entries \in Seq(Entry) /\ DOMAIN g.entries = 1..Len(g.entries) /\ Len(g.entries) \in Nat
  BY DEF TableOK, TableType
<1>2. IsFiniteSet(DOMAIN g.entries)
  BY <1>1, FS_Interval
<1>3. \A i \in DOMAIN g.entries : g.entries[i] \in Entry
  BY <1>1, ElementOfSeq
<1> QED
  BY <1>2, <1>3 DEF Counts, Entry

(* When one row of the table changes or is added, the sum of the counts     *)
(* changes by what that row's count does.                                   *)
LEMMA CountsChange ==
  ASSUME NEW g, TableOK(g), NEW e, TableOK(e), NEW y,
         DOMAIN e.entries = DOMAIN g.entries \cup {y},
         \A i \in DOMAIN g.entries \ {y} : e.entries[i] = g.entries[i]
  PROVE  /\ SumFunction(Counts(g)) \in Nat /\ SumFunction(Counts(e)) \in Nat
         /\ SumFunction(Counts(e)) + (IF y \in DOMAIN g.entries THEN g.entries[y].fetches ELSE 0)
              = SumFunction(Counts(g)) + e.entries[y].fetches
<1>1. y \in DOMAIN e.entries
  OBVIOUS
<1>2. \A i \in DOMAIN g.entries \ {y} : Counts(e)[i] = Counts(g)[i]
  BY DEF Counts
<1>3. Counts(e)[y] = e.entries[y].fetches
  BY <1>1 DEF Counts
<1>4. y \in DOMAIN g.entries => Counts(g)[y] = g.entries[y].fetches
  BY DEF Counts
<1>5. Counts(e)[y] \in Nat
  BY <1>1, CountsNat
<1>6. /\ SumFunction(Counts(g)) \in Nat /\ SumFunction(Counts(e)) \in Nat
      /\ SumFunction(Counts(e)) + (IF y \in DOMAIN g.entries THEN Counts(g)[y] ELSE 0)
           = SumFunction(Counts(g)) + Counts(e)[y]
  BY <1>2, <1>5, CountsNat, SumChanges
<1> QED
  BY <1>3, <1>4, <1>6

(* A fold counts its fetch in the row held, and drops nothing. *)
LEMMA FoldConserves ==
  ASSUME Inv, Conserved, NEW f \in Calls, RecordFetch(f), Holds(h, Citable(f)),
         h' = Fold(h, Numbered(h, f))
  PROVE  Conserved'
<1> DEFINE k == Citable(f)
           r == Numbered(h, f)
           y == h.index[k]
<1>1. f \in Fetch /\ TableOK(h) /\ TableOK(h')
  BY LedgerAssumption, RecordFetchRows DEF Inv
<1>2. r \in Entry /\ Citable(r) = k /\ r.seq = h.total + 1
  BY <1>1, NumberedIsEntry DEF TableOK
<1>3. /\ h.entries \in Seq(Entry) /\ h.total \in Nat /\ y \in DOMAIN h.entries
      /\ DOMAIN h.entries = 1..Len(h.entries) /\ h.entries[y] \in Entry
  BY <1>1, ElementOfSeq DEF TableOK, TableType, TableIndexed, Holds
<1>4. /\ h'.entries = [h.entries EXCEPT ![y] = MergeRecord(h.entries[y], r)]
      /\ h'.index = h.index /\ h'.total = h.total + 1
  BY <1>2 DEF Fold
<1>5. /\ DOMAIN h'.entries = DOMAIN h.entries \cup {y}
      /\ \A i \in DOMAIN h.entries \ {y} : h'.entries[i] = h.entries[i]
      /\ h'.entries[y] = MergeRecord(h.entries[y], r)
  BY <1>3, <1>4
<1>6. h'.entries[y].fetches = h.entries[y].fetches + 1 /\ h.entries[y].fetches \in Nat
  <2> HIDE DEF y, r, k
  <2>1. h.entries[y].fetches \in Nat
    BY <1>3 DEF Entry
  <2> QED
    BY <1>2, <1>3, <1>5, <2>1, MergeRanks
<1>7. forgotten' = forgotten /\ forgotten \in Nat
  <2>1. LostFetches(h') = 0
    BY <1>4 DEF LostFetches, Lost
  <2>2. forgotten' = forgotten + LostFetches(h') /\ forgotten \in Nat
    BY DEF RecordFetch, Inv, Remembered
  <2> QED
    BY <2>1, <2>2
<1> HIDE DEF y, r, k
<1>8. /\ SumFunction(Counts(h)) \in Nat /\ SumFunction(Counts(h')) \in Nat
      /\ SumFunction(Counts(h')) + h.entries[y].fetches
           = SumFunction(Counts(h)) + h'.entries[y].fetches
  BY <1>1, <1>3, <1>5, CountsChange
<1>9. h'.total = forgotten' + SumFunction(Counts(h'))
  <2>1. h.total = forgotten + SumFunction(Counts(h))
    BY DEF Conserved
  <2>2. SumFunction(Counts(h')) = SumFunction(Counts(h)) + 1
    BY <1>6, <1>8
  <2>3. h'.total = h.total + 1 /\ h.total \in Nat
    BY <1>3, <1>4
  <2> QED
    BY <1>7, <1>8, <2>1, <2>2, <2>3
<1> QED
  BY <1>9 DEF Conserved

(* An admission counts its fetch in a row of its own. *)
LEMMA AdmitConserves ==
  ASSUME Inv, Conserved, NEW f \in Calls, RecordFetch(f), ~Holds(h, Citable(f)),
         h' = Admit(h, Numbered(h, f))
  PROVE  Conserved'
<1> DEFINE k == Citable(f)
           r == Numbered(h, f)
           y == Len(h.entries) + 1
<1>1. f \in Fetch /\ TableOK(h) /\ TableOK(h')
  BY LedgerAssumption, RecordFetchRows DEF Inv
<1>2. r \in Entry /\ Citable(r) = k /\ r.seq = h.total + 1 /\ r.fetches = 1
  BY <1>1, NumberedIsEntry DEF TableOK, Numbered
<1>3. /\ h.entries \in Seq(Entry) /\ h.total \in Nat /\ Len(h.entries) \in Nat
      /\ DOMAIN h.entries = 1..Len(h.entries)
  BY <1>1 DEF TableOK, TableType
<1>4. /\ h'.entries = Append(h.entries, r) /\ h'.total = h.total + 1
      /\ DOMAIN h.index \subseteq DOMAIN h'.index
  BY <1>2 DEF Admit, Reindexed
<1>5. /\ y \notin DOMAIN h.entries
      /\ DOMAIN h'.entries = DOMAIN h.entries \cup {y}
      /\ \A i \in DOMAIN h.entries \ {y} : h'.entries[i] = h.entries[i]
      /\ h'.entries[y] = r
  BY <1>2, <1>3, <1>4, AppendProperties
<1>6. forgotten' = forgotten /\ forgotten \in Nat
  <2>1. LostFetches(h') = 0
    BY <1>4 DEF LostFetches, Lost
  <2>2. forgotten' = forgotten + LostFetches(h') /\ forgotten \in Nat
    BY DEF RecordFetch, Inv, Remembered
  <2> QED
    BY <2>1, <2>2
<1> HIDE DEF y, r, k
<1>7. /\ SumFunction(Counts(h)) \in Nat /\ SumFunction(Counts(h')) \in Nat
      /\ SumFunction(Counts(h')) + 0 = SumFunction(Counts(h)) + h'.entries[y].fetches
  BY <1>1, <1>5, CountsChange
<1> QED
  BY <1>2, <1>3, <1>4, <1>5, <1>6, <1>7 DEF Conserved

(* The reuse of a slot forgets exactly the fetches its old row counted. *)
LEMMA ReplaceConserves ==
  ASSUME Inv, Conserved, NEW f \in Calls, RecordFetch(f), ~Holds(h, Citable(f)),
         NEW i \in DOMAIN h.entries, h' = Replace(h, Numbered(h, f), i)
  PROVE  Conserved'
<1> DEFINE k == Citable(f)
           r == Numbered(h, f)
           v == Citable(h.entries[i])
<1>1. f \in Fetch /\ TableOK(h) /\ TableOK(h')
  BY LedgerAssumption, RecordFetchRows DEF Inv
<1>2. r \in Entry /\ Citable(r) = k /\ r.seq = h.total + 1 /\ r.fetches = 1
  BY <1>1, NumberedIsEntry DEF TableOK, Numbered
<1>3. /\ h.entries \in Seq(Entry) /\ h.total \in Nat /\ h.entries[i] \in Entry
      /\ v \in DOMAIN h.index /\ h.index[v] = i /\ k \notin DOMAIN h.index
  BY <1>1, ElementOfSeq DEF TableOK, TableType, TableIndexed, Holds
<1>4. /\ h'.entries = [h.entries EXCEPT ![i] = r] /\ h'.total = h.total + 1
      /\ DOMAIN h'.index = (DOMAIN h.index \ {v}) \cup {k}
  BY <1>2 DEF Replace, Reindexed
<1>5. /\ DOMAIN h'.entries = DOMAIN h.entries \cup {i}
      /\ \A j \in DOMAIN h.entries \ {i} : h'.entries[j] = h.entries[j]
      /\ h'.entries[i] = r
  BY <1>3, <1>4
<1>6. Lost(h') = {v}
  BY <1>3, <1>4 DEF Lost
<1>7. LostFetches(h') = h.entries[i].fetches
  <2>1. (CHOOSE x \in Lost(h') : TRUE) = v /\ Lost(h') # {}
    BY <1>6
  <2> HIDE DEF v
  <2> QED
    BY <1>3, <2>1 DEF LostFetches, Row
<1>8. forgotten' = forgotten + h.entries[i].fetches /\ forgotten \in Nat
      /\ h.entries[i].fetches \in Nat
  BY <1>3, <1>7 DEF RecordFetch, Inv, Remembered, Entry
<1> HIDE DEF r, k, v
<1>9. /\ SumFunction(Counts(h)) \in Nat /\ SumFunction(Counts(h')) \in Nat
      /\ SumFunction(Counts(h')) + h.entries[i].fetches
           = SumFunction(Counts(h)) + h'.entries[i].fetches
  BY <1>1, <1>5, CountsChange
<1>10. h'.total = forgotten' + SumFunction(Counts(h'))
  <2>1. h.total = forgotten + SumFunction(Counts(h))
    BY DEF Conserved
  <2>2. SumFunction(Counts(h')) + h.entries[i].fetches = SumFunction(Counts(h)) + 1
    BY <1>2, <1>5, <1>9
  <2>3. h'.total = h.total + 1 /\ h.total \in Nat
    BY <1>3, <1>4
  <2> QED
    BY <1>8, <1>9, <2>1, <2>2, <2>3
<1> QED
  BY <1>10 DEF Conserved

(* Every step keeps the fetches accounted for. *)
LEMMA ConservedNext == Inv /\ Conserved /\ [Next]_vars => Conserved'
<1> SUFFICES ASSUME Inv, Conserved, [Next]_vars PROVE Conserved'
  OBVIOUS
<1>1. CASE UNCHANGED <<h, forgotten>>
  BY <1>1 DEF Conserved
<1>2. ASSUME NEW f \in Calls, RecordFetch(f) PROVE Conserved'
  <2>1. f \in Fetch /\ TableOK(h) /\ h' \in AppendRecord(h, f)
    BY <1>2, LedgerAssumption DEF Inv, RecordFetch
  <2>2. Citable(Numbered(h, f)) = Citable(f)
    BY <2>1, NumberedIsEntry DEF TableOK
  <2>3. CASE Holds(h, Citable(f))
    BY <1>2, <2>1, <2>2, <2>3, FoldConserves DEF AppendRecord
  <2>4. CASE ~Holds(h, Citable(f)) /\ Len(h.entries) < Cap
    BY <1>2, <2>1, <2>2, <2>4, AdmitConserves DEF AppendRecord
  <2>5. CASE ~Holds(h, Citable(f)) /\ ~(Len(h.entries) < Cap)
    <3>1. PICK i \in LeastRecent(h.entries) : h' = Replace(h, Numbered(h, f), i)
      BY <2>1, <2>2, <2>5 DEF AppendRecord
    <3>2. i \in DOMAIN h.entries
      BY DEF LeastRecent
    <3> QED
      BY <1>2, <2>5, <3>1, <3>2, ReplaceConserves
  <2> QED
    BY <2>3, <2>4, <2>5
<1> QED
  BY <1>1, <1>2 DEF Next, Poll, vars

(* Before the first fetch there is nothing to count. *)
LEMMA ConservedInit == Init => Conserved
<1> SUFFICES ASSUME Init PROVE Conserved
  OBVIOUS
<1>1. TableOK(h) /\ DOMAIN h.entries = {} /\ h.total = 0 /\ forgotten = 0
  BY EmptyTableOK DEF Init, EmptyTable
<1>2. IsFiniteSet({}) /\ DOMAIN Counts(h) = {} /\ \A i \in {} : Counts(h)[i] \in Nat
  BY <1>1, CountsNat
<1>3. SumFunctionOnSet(Counts(h), {}) = 0
  BY <1>2, SumSplit
<1> QED
  BY <1>1, <1>2, <1>3 DEF SumFunction, Conserved

(* No fetch is counted twice or lost by a fold or an eviction, for any cap  *)
(* and any number of fetches.                                               *)
THEOREM LedgerFetchesConserved == Spec => []FetchesConserved
<1>1. Inv /\ Conserved => FetchesConserved
  <2>1. Inv => TypeOK
    BY DEF Inv, TableOK, TableType, CursorGivenOut, Remembered, IsPartial, TypeOK
  <2> QED
    BY <2>1 DEF Conserved, Counts, FetchesConserved
<1>2. Spec => []Conserved
  BY ConservedInit, ConservedNext, LedgerInvariant, PTL DEF Spec
<1> QED
  BY <1>1, <1>2, LedgerInvariant, PTL

=============================================================================
