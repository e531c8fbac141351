----------------------------- MODULE DataProofs -----------------------------
(***************************************************************************)
(* Facts about the data the modules are built on, for the proofs about      *)
(* those modules: what the calls of an LRU cache do to its keys, for every  *)
(* size, what the sum of a function's values does when one changes, and     *)
(* that the fence around a text is read back as the text, for every text.   *)
(***************************************************************************)
EXTENDS Lru, Fence, Functions, FiniteSetTheorems, SequenceTheorems, TLAPS

(* A cache of pairs from K and V, with one pair to a key. *)
LruOK(l, K, V) ==
  /\ l \in Seq([key : K, val : V])
  /\ \A i, j \in DOMAIN l : l[i].key = l[j].key => i = j

LruKeys(l) == {l[i].key : i \in DOMAIN l}

(* The pairs of m are pairs of l. *)
SameValues(l, m) ==
  \A x \in LruKeys(m) : x \in LruKeys(l) /\ LruValue(m, x) = LruValue(l, x)

(* The cache a holds v under k and else what l held; another key of l is    *)
(* gone from it exactly when the Add evicts, and then one.                  *)
Added(l, a, k, v, size) ==
  /\ k \in LruKeys(a) /\ LruValue(a, k) = v
  /\ LruKeys(a) \subseteq LruKeys(l) \cup {k}
  /\ \A x \in LruKeys(a) \ {k} : LruValue(a, x) = LruValue(l, x)
  /\ Len(a) <= size
  /\ LruEvicts(l, k, size) =>
       /\ Len(a) = Len(l) /\ k \notin LruKeys(l)
       /\ \E x \in LruKeys(l) : LruKeys(a) = (LruKeys(l) \ {x}) \cup {k}
  /\ ~LruEvicts(l, k, size) =>
       /\ LruKeys(a) = LruKeys(l) \cup {k}
       /\ Len(a) = IF k \in LruKeys(l) THEN Len(l) ELSE Len(l) + 1

-----------------------------------------------------------------------------

(* The empty cache is one, whatever it is to hold. *)
LEMMA LruEmptyOK == \A K, V : LruOK(LruEmpty, K, V) /\ LruKeys(LruEmpty) = {}
BY DEF LruOK, LruEmpty, LruKeys

(* A key that is there is in one place, and the value found is the one      *)
(* there.                                                                   *)
LEMMA LruPlaced ==
  ASSUME NEW K, NEW V, NEW l, LruOK(l, K, V), NEW i \in DOMAIN l
  PROVE  /\ LruPlace(l, l[i].key) = i /\ LruHas(l, l[i].key)
         /\ LruValue(l, l[i].key) = l[i].val
         /\ l[i] = [key |-> l[i].key, val |-> l[i].val]
         /\ l[i].key \in K /\ l[i].val \in V
<1>1. l[i] \in [key : K, val : V]
  <2>1. l \in Seq([key : K, val : V])
    BY DEF LruOK
  <2> QED
    BY <2>1, LenProperties, ElementOfSeq
<1>2. LruPlace(l, l[i].key) = i
  BY DEF LruOK, LruPlace
<1> QED
  BY <1>1, <1>2 DEF LruHas, LruValue

(* The keys are those Has says are there. *)
LEMMA LruHasKey == \A l, k : LruHas(l, k) <=> k \in LruKeys(l)
BY DEF LruHas, LruKeys

(* A key's pair is in the cache. *)
LEMMA LruFound ==
  ASSUME NEW K, NEW V, NEW l, LruOK(l, K, V), NEW k \in LruKeys(l)
  PROVE  /\ LruPlace(l, k) \in DOMAIN l /\ l[LruPlace(l, k)].key = k
         /\ k \in K /\ LruValue(l, k) \in V
<1>1. PICK i \in DOMAIN l : l[i].key = k
  BY DEF LruKeys
<1> QED
  BY <1>1, LruPlaced

(* Remove takes the key's pair out and keeps the others, in their order. *)
LEMMA LruRemoveOK ==
  ASSUME NEW K, NEW V, NEW l, LruOK(l, K, V), NEW k
  PROVE  LET m == LruRemove(l, k)
         IN  /\ LruOK(m, K, V) /\ SameValues(l, m)
             /\ LruKeys(m) = LruKeys(l) \ {k}
             /\ Len(m) = IF k \in LruKeys(l) THEN Len(l) - 1 ELSE Len(l)
<1> DEFINE m == LruRemove(l, k)
<1>1. CASE k \notin LruKeys(l)
  <2>1. m = l
    BY <1>1, LruHasKey DEF LruRemove
  <2> QED
    BY <1>1, <2>1 DEF SameValues
<1>2. CASE k \in LruKeys(l)
  <2> DEFINE p == LruPlace(l, k)
             n == Len(l)
             P == [key : K, val : V]
  <2>1. l \in Seq(P) /\ n \in Nat /\ DOMAIN l = 1..n /\ p \in 1..n /\ l[p].key = k
    <3>1. l \in Seq(P)
      BY DEF LruOK
    <3>2. p \in DOMAIN l /\ l[p].key = k
      BY <1>2, LruFound
    <3> QED
      BY <3>1, <3>2, LenProperties
  <2>0. \A i \in 1..n : l[i] \in P
    BY <2>1, ElementOfSeq
  <2>2. m = SubSeq(l, 1, p - 1) \o SubSeq(l, p + 1, n)
    BY <1>2, LruHasKey DEF LruRemove, RemoveAt
  <2> HIDE DEF p, n, m
  <2>3. /\ SubSeq(l, 1, p - 1) \in Seq(P) /\ Len(SubSeq(l, 1, p - 1)) = p - 1
        /\ \A i \in 1..(p - 1) : SubSeq(l, 1, p - 1)[i] = l[i]
    <3>1. p - 1 \in Int /\ 1 \in Int /\ \A i \in 1..(p - 1) : l[i] \in P
      BY <2>0, <2>1
    <3>2. /\ SubSeq(l, 1, p - 1) \in Seq(P)
          /\ Len(SubSeq(l, 1, p - 1)) = IF 1 <= p - 1 THEN (p - 1) - 1 + 1 ELSE 0
          /\ \A i \in 1..((p - 1) - 1 + 1) : SubSeq(l, 1, p - 1)[i] = l[1 + i - 1]
      BY <3>1, SubSeqProperties
    <3> QED
      BY <2>1, <3>2
  <2>4. /\ SubSeq(l, p + 1, n) \in Seq(P) /\ Len(SubSeq(l, p + 1, n)) = n - p
        /\ \A i \in 1..(n - p) : SubSeq(l, p + 1, n)[i] = l[p + i]
    <3>1. p + 1 \in Int /\ n \in Int /\ \A i \in (p + 1)..n : l[i] \in P
      BY <2>0, <2>1
    <3>2. /\ SubSeq(l, p + 1, n) \in Seq(P)
          /\ Len(SubSeq(l, p + 1, n)) = IF p + 1 <= n THEN n - (p + 1) + 1 ELSE 0
          /\ \A i \in 1..(n - (p + 1) + 1) : SubSeq(l, p + 1, n)[i] = l[(p + 1) + i - 1]
      BY <3>1, SubSeqProperties
    <3> QED
      BY <2>1, <3>2
  <2>5. /\ m \in Seq(P) /\ Len(m) = n - 1 /\ DOMAIN m = 1..(n - 1)
        /\ \A i \in 1..(n - 1) : m[i] = IF i < p THEN l[i] ELSE l[i + 1]
    <3>1. /\ m \in Seq(P) /\ Len(m) = (p - 1) + (n - p)
          /\ \A i \in 1..((p - 1) + (n - p)) :
               m[i] = IF i <= p - 1 THEN SubSeq(l, 1, p - 1)[i]
                      ELSE SubSeq(l, p + 1, n)[i - (p - 1)]
      BY <2>2, <2>3, <2>4, ConcatProperties
    <3>2. (p - 1) + (n - p) = n - 1 /\ DOMAIN m = 1..Len(m)
      BY <2>1, <3>1
    <3>3. ASSUME NEW i \in 1..(n - 1)
          PROVE  m[i] = IF i < p THEN l[i] ELSE l[i + 1]
      <4>1. CASE i < p
        BY <2>1, <2>3, <3>1, <3>2, <4>1
      <4>2. CASE ~(i < p)
        <5>1. i - (p - 1) \in 1..(n - p) /\ p + (i - (p - 1)) = i + 1
          BY <2>1, <4>2
        <5> QED
          BY <2>1, <2>4, <3>1, <3>2, <4>2, <5>1
      <4> QED
        BY <4>1, <4>2
    <3> QED
      BY <3>1, <3>2, <3>3
  <2>6. LruOK(m, K, V)
    <3>1. ASSUME NEW i \in 1..(n - 1), NEW j \in 1..(n - 1), m[i].key = m[j].key
          PROVE  i = j
      <4>1. \A a, b \in 1..n : l[a].key = l[b].key => a = b
        BY <2>1 DEF LruOK
      <4>2. CASE i < p /\ j < p
        BY <2>1, <2>5, <3>1, <4>1, <4>2
      <4>3. CASE i < p /\ ~(j < p)
        BY <2>1, <2>5, <3>1, <4>1, <4>3
      <4>4. CASE ~(i < p) /\ j < p
        BY <2>1, <2>5, <3>1, <4>1, <4>4
      <4>5. CASE ~(i < p) /\ ~(j < p)
        BY <2>1, <2>5, <3>1, <4>1, <4>5
      <4> QED
        BY <4>2, <4>3, <4>4, <4>5
    <3> QED
      BY <2>5, <3>1 DEF LruOK
  <2>7. ASSUME NEW i \in DOMAIN m
        PROVE  /\ m[i].key \in LruKeys(l) /\ m[i].key # k
               /\ LruValue(m, m[i].key) = LruValue(l, m[i].key)
    <3>1. PICK j \in DOMAIN l : m[i] = l[j] /\ j # p
      <4>1. i \in 1..(n - 1)
        BY <2>5
      <4>2. CASE i < p
        <5>1. m[i] = l[i] /\ i \in DOMAIN l /\ i # p
          BY <2>1, <2>5, <4>1, <4>2
        <5> QED
          BY <5>1
      <4>3. CASE ~(i < p)
        <5>1. m[i] = l[i + 1] /\ i + 1 \in DOMAIN l /\ i + 1 # p
          BY <2>1, <2>5, <4>1, <4>3
        <5> QED
          BY <5>1
      <4> QED
        BY <4>2, <4>3
    <3>2. l[j].key # k
      BY <2>1, <3>1 DEF LruOK
    <3>3. LruValue(m, m[i].key) = m[i].val /\ LruValue(l, l[j].key) = l[j].val
      BY <2>6, LruPlaced
    <3> QED
      BY <3>1, <3>2, <3>3 DEF LruKeys
  <2>8. ASSUME NEW x \in LruKeys(l), x # k
        PROVE  x \in LruKeys(m)
    <3>1. PICK j \in DOMAIN l : l[j].key = x
      BY <2>8 DEF LruKeys
    <3>2. j # p
      BY <2>1, <2>8, <3>1
    <3>3. \E i \in DOMAIN m : m[i] = l[j]
      <4>1. CASE j < p
        BY <2>1, <2>5, <3>1, <4>1
      <4>2. CASE j > p
        <5>1. j - 1 \in 1..(n - 1) /\ ~(j - 1 < p) /\ (j - 1) + 1 = j
          BY <2>1, <3>1, <4>2
        <5> QED
          BY <2>5, <5>1
      <4> QED
        BY <2>1, <3>1, <3>2, <4>1, <4>2
    <3> QED
      BY <3>1, <3>3 DEF LruKeys
  <2>9. LruKeys(m) = LruKeys(l) \ {k} /\ SameValues(l, m)
    BY <2>7, <2>8 DEF LruKeys, SameValues
  <2> QED
    BY <1>2, <2>5, <2>6, <2>9 DEF m, n
<1> QED
  BY <1>1, <1>2

(* A new key's pair goes to the most recent end. *)
LEMMA LruAppendOK ==
  ASSUME NEW K, NEW V, NEW m, LruOK(m, K, V), NEW k \in K, NEW v \in V, k \notin LruKeys(m)
  PROVE  LET a == Append(m, [key |-> k, val |-> v])
         IN  /\ LruOK(a, K, V) /\ LruKeys(a) = LruKeys(m) \cup {k}
             /\ LruValue(a, k) = v /\ SameValues(a, m)
             /\ Len(a) = Len(m) + 1
<1> DEFINE e == [key |-> k, val |-> v]
           a == Append(m, e)
           n == Len(m)
           P == [key : K, val : V]
<1>1. m \in Seq(P) /\ n \in Nat /\ DOMAIN m = 1..n /\ e \in P
  BY LenProperties DEF LruOK
<1>2. /\ a \in Seq(P) /\ Len(a) = n + 1 /\ DOMAIN a = 1..(n + 1)
      /\ a[n + 1] = e /\ \A i \in 1..n : a[i] = m[i]
  BY <1>1, AppendProperties
<1>3. \A i \in 1..n : m[i].key # k
  BY <1>1 DEF LruKeys
<1>4. e.key = k /\ e.val = v
  OBVIOUS
<1> HIDE DEF a, e, n
<1>5. LruOK(a, K, V)
  <2> SUFFICES ASSUME NEW i \in 1..(n + 1), NEW j \in 1..(n + 1), a[i].key = a[j].key
               PROVE  i = j
    BY <1>2 DEF LruOK
  <2>1. CASE i \in 1..n /\ j \in 1..n
    BY <1>1, <1>2, <2>1 DEF LruOK
  <2>2. CASE i \in 1..n /\ j = n + 1
    BY <1>2, <1>3, <1>4, <2>2
  <2>3. CASE i = n + 1 /\ j \in 1..n
    BY <1>2, <1>3, <1>4, <2>3
  <2>4. CASE i = n + 1 /\ j = n + 1
    BY <2>4
  <2> QED
    BY <1>1, <2>1, <2>2, <2>3, <2>4
<1>6. n + 1 \in DOMAIN a /\ DOMAIN m \subseteq DOMAIN a
  BY <1>1, <1>2
<1>7. LruValue(a, k) = v
  BY <1>2, <1>4, <1>5, <1>6, LruPlaced
<1>8. ASSUME NEW i \in DOMAIN m
      PROVE  m[i].key \in LruKeys(a) /\ LruValue(m, m[i].key) = LruValue(a, m[i].key)
  <2>1. a[i] = m[i] /\ i \in DOMAIN a
    BY <1>1, <1>2, <1>6
  <2>2. LruValue(a, a[i].key) = a[i].val /\ LruValue(m, m[i].key) = m[i].val
    BY <1>5, <2>1, LruPlaced
  <2> QED
    BY <2>1, <2>2 DEF LruKeys
<1>9. LruKeys(a) = LruKeys(m) \cup {k}
  <2>1. ASSUME NEW i \in DOMAIN a PROVE a[i].key \in LruKeys(m) \cup {k}
    <3>1. i \in 1..n \/ i = n + 1
      BY <1>1, <1>2, <2>1
    <3> QED
      BY <1>1, <1>2, <1>4, <3>1 DEF LruKeys
  <2>2. k \in LruKeys(a)
    BY <1>2, <1>4, <1>6 DEF LruKeys
  <2> QED
    BY <1>8, <2>1, <2>2 DEF LruKeys
<1>10. SameValues(a, m)
  BY <1>8 DEF SameValues, LruKeys
<1> QED
  BY <1>2, <1>5, <1>7, <1>9, <1>10 DEF a, e, n

(* Dropping the least recent pair takes one key out. *)
LEMMA LruTailOK ==
  ASSUME NEW K, NEW V, NEW m, LruOK(m, K, V), m # << >>
  PROVE  LET t == Tail(m)
         IN  /\ LruOK(t, K, V) /\ SameValues(m, t) /\ Len(t) = Len(m) - 1
             /\ 1 \in DOMAIN m /\ LruKeys(t) = LruKeys(m) \ {m[1].key}
<1> DEFINE t == Tail(m)
           n == Len(m)
           P == [key : K, val : V]
<1>1. m \in Seq(P) /\ n \in Nat \ {0} /\ DOMAIN m = 1..n
  BY LenProperties, EmptySeq DEF LruOK
<1>2. /\ t \in Seq(P) /\ Len(t) = n - 1 /\ DOMAIN t = 1..(n - 1)
      /\ \A i \in 1..(n - 1) : t[i] = m[i + 1]
  <2>1. t \in Seq(P) /\ Len(t) = n - 1 /\ \A i \in 1..Len(t) : t[i] = m[i + 1]
    BY <1>1, HeadTailProperties
  <2> QED
    BY <2>1, LenProperties
<1> HIDE DEF t, n
<1>3. \A i, j \in 1..n : m[i].key = m[j].key => i = j
  BY <1>1 DEF LruOK
<1>4. LruOK(t, K, V)
  <2>1. ASSUME NEW i \in 1..(n - 1), NEW j \in 1..(n - 1), t[i].key = t[j].key
        PROVE  i = j
    <3>1. i + 1 \in 1..n /\ j + 1 \in 1..n /\ m[i + 1].key = m[j + 1].key
      BY <1>1, <1>2, <2>1
    <3>2. i + 1 = j + 1
      BY <1>3, <3>1
    <3> QED
      BY <1>1, <3>2
  <2> QED
    BY <1>2, <2>1 DEF LruOK
<1>5. 1 \in DOMAIN m
  BY <1>1
<1>6. ASSUME NEW i \in 1..n, i # 1
      PROVE  /\ m[i].key \in LruKeys(t) /\ m[i].key # m[1].key
             /\ LruValue(t, m[i].key) = LruValue(m, m[i].key)
  <2>1. i - 1 \in 1..(n - 1) /\ t[i - 1] = m[i]
    <3>1. i - 1 \in 1..(n - 1) /\ (i - 1) + 1 = i
      BY <1>1, <1>6
    <3> QED
      BY <1>2, <3>1
  <2>2. LruValue(t, t[i - 1].key) = t[i - 1].val /\ LruValue(m, m[i].key) = m[i].val
    BY <1>1, <1>2, <1>4, <2>1, LruPlaced
  <2>3. m[i].key # m[1].key
    BY <1>1, <1>3, <1>6
  <2> QED
    BY <1>2, <2>1, <2>2, <2>3 DEF LruKeys
<1>7. ASSUME NEW i \in 1..(n - 1) PROVE i + 1 \in 1..n /\ i + 1 # 1 /\ t[i].key = m[i + 1].key
  BY <1>1, <1>2, <1>7
<1>8. LruKeys(t) = LruKeys(m) \ {m[1].key}
  <2>1. ASSUME NEW x \in LruKeys(t) PROVE x \in LruKeys(m) \ {m[1].key}
    <3>1. PICK i \in 1..(n - 1) : t[i].key = x
      BY <1>2, <2>1 DEF LruKeys
    <3> QED
      BY <1>1, <1>6, <1>7, <3>1 DEF LruKeys
  <2>2. ASSUME NEW x \in LruKeys(m) \ {m[1].key} PROVE x \in LruKeys(t)
    <3>1. PICK i \in 1..n : m[i].key = x
      BY <1>1, <2>2 DEF LruKeys
    <3> QED
      BY <1>6, <2>2, <3>1
  <2> QED
    BY <2>1, <2>2
<1>9. SameValues(m, t)
  <2>1. ASSUME NEW i \in DOMAIN t
        PROVE  t[i].key \in LruKeys(m) /\ LruValue(t, t[i].key) = LruValue(m, t[i].key)
    <3>1. i \in 1..(n - 1)
      BY <1>2
    <3> QED
      BY <1>1, <1>6, <1>7, <3>1 DEF LruKeys
  <2> QED
    BY <2>1 DEF SameValues, LruKeys
<1> QED
  BY <1>2, <1>4, <1>5, <1>8, <1>9 DEF t, n

-----------------------------------------------------------------------------

(* Get changes no key and no value. *)
LEMMA LruGetOK ==
  ASSUME NEW K, NEW V, NEW l, LruOK(l, K, V), NEW k
  PROVE  LET g == LruGet(l, k)
         IN  /\ LruOK(g, K, V) /\ LruKeys(g) = LruKeys(l) /\ Len(g) = Len(l)
             /\ SameValues(l, g)
<1> DEFINE g == LruGet(l, k)
           m == LruRemove(l, k)
           v == LruValue(l, k)
<1>1. CASE k \notin LruKeys(l)
  BY <1>1, LruHasKey DEF LruGet, SameValues
<1>2. CASE k \in LruKeys(l)
  <2>1. g = Append(m, [key |-> k, val |-> v])
    BY <1>2, LruHasKey DEF LruGet
  <2>2. k \in K /\ v \in V
    BY <1>2, LruFound
  <2>3. /\ LruOK(m, K, V) /\ SameValues(l, m)
        /\ LruKeys(m) = LruKeys(l) \ {k} /\ Len(m) = Len(l) - 1
    BY <1>2, LruRemoveOK
  <2>4. Len(l) \in Nat
    BY LenProperties DEF LruOK
  <2> HIDE DEF g, m
  <2>5. /\ LruOK(g, K, V) /\ LruKeys(g) = LruKeys(m) \cup {k}
        /\ LruValue(g, k) = v /\ SameValues(g, m) /\ Len(g) = Len(m) + 1
    BY <2>1, <2>2, <2>3, LruAppendOK
  <2>6. LruKeys(g) = LruKeys(l) /\ Len(g) = Len(l)
    BY <1>2, <2>3, <2>4, <2>5
  <2>7. SameValues(l, g)
    BY <2>3, <2>5, <2>6 DEF SameValues
  <2> QED
    BY <2>5, <2>6, <2>7 DEF g
<1> QED
  BY <1>1, <1>2

(* Add stores the value under its key, keeps to the size and drops another  *)
(* key only when it says it evicts.                                         *)
LEMMA LruAddOK ==
  ASSUME NEW K, NEW V, NEW l, LruOK(l, K, V), NEW k \in K, NEW v \in V,
         NEW size \in Nat \ {0}, Len(l) <= size
  PROVE  LruOK(LruAdd(l, k, v, size), K, V) /\ Added(l, LruAdd(l, k, v, size), k, v, size)
<1> DEFINE a == LruAdd(l, k, v, size)
           m == LruRemove(l, k)
           b == Append(m, [key |-> k, val |-> v])
<1>1. a = IF Len(b) > size THEN Tail(b) ELSE b
  BY DEF LruAdd
<1>2. /\ LruOK(m, K, V) /\ SameValues(l, m) /\ LruKeys(m) = LruKeys(l) \ {k}
      /\ Len(m) = IF k \in LruKeys(l) THEN Len(l) - 1 ELSE Len(l)
  BY LruRemoveOK
<1>3. Len(l) \in Nat /\ (LruHas(l, k) <=> k \in LruKeys(l))
  BY LruHasKey, LenProperties DEF LruOK
<1> HIDE DEF a, m
<1>4. /\ LruOK(b, K, V) /\ LruKeys(b) = LruKeys(m) \cup {k}
      /\ LruValue(b, k) = v /\ SameValues(b, m) /\ Len(b) = Len(m) + 1
  BY <1>2, LruAppendOK
<1>5. m \in Seq([key : K, val : V]) /\ [key |-> k, val |-> v] \in [key : K, val : V]
  BY <1>2 DEF LruOK
<1>6. Len(m) \in Nat /\ b[Len(m) + 1] = [key |-> k, val |-> v]
      /\ \A i \in 1..Len(m) : b[i] = m[i]
  BY <1>5, AppendProperties, LenProperties
<1> HIDE DEF b
<1>7. \A x \in LruKeys(b) \ {k} : LruValue(b, x) = LruValue(l, x)
  BY <1>2, <1>4 DEF SameValues
<1>8. Len(b) > size <=> LruEvicts(l, k, size)
  BY <1>2, <1>3, <1>4 DEF LruEvicts
<1>9. CASE ~LruEvicts(l, k, size)
  <2>1. a = b
    BY <1>1, <1>8, <1>9
  <2>2. LruKeys(b) = LruKeys(l) \cup {k}
    BY <1>2, <1>4
  <2>3. Len(b) <= size /\ Len(b) = IF k \in LruKeys(l) THEN Len(l) ELSE Len(l) + 1
    BY <1>2, <1>3, <1>4, <1>8, <1>9
  <2> QED
    BY <1>4, <1>7, <1>9, <2>1, <2>2, <2>3 DEF a, Added
<1>10. CASE LruEvicts(l, k, size)
  <2>1. a = Tail(b)
    BY <1>1, <1>8, <1>10
  <2>2. k \notin LruKeys(l) /\ Len(l) = size /\ Len(m) = size /\ Len(b) = size + 1
    BY <1>2, <1>3, <1>4, <1>10 DEF LruEvicts
  <2>3. b # << >>
    BY <2>2, EmptySeq
  <2>4. /\ LruOK(a, K, V) /\ SameValues(b, a) /\ Len(a) = size
        /\ LruKeys(a) = LruKeys(b) \ {b[1].key}
    <3>1. /\ LruOK(a, K, V) /\ SameValues(b, a) /\ Len(a) = Len(b) - 1
          /\ LruKeys(a) = LruKeys(b) \ {b[1].key}
      BY <1>4, <2>1, <2>3, LruTailOK
    <3> QED
      BY <2>2, <3>1
  <2> DEFINE x == b[1].key
  <2>5. x \in LruKeys(m)
    <3>1. 1 \in 1..Len(m) /\ 1 \in DOMAIN m /\ b[1] = m[1]
      BY <1>5, <1>6, <2>2, LenProperties
    <3> QED
      BY <3>1 DEF LruKeys
  <2>6. x \in LruKeys(l) /\ x # k
    BY <1>2, <2>5
  <2> HIDE DEF x
  <2>7. LruKeys(a) = (LruKeys(l) \ {x}) \cup {k}
    BY <1>2, <1>4, <2>2, <2>4, <2>6 DEF x
  <2>8. LruValue(a, k) = v /\ \A y \in LruKeys(a) \ {k} : LruValue(a, y) = LruValue(l, y)
    BY <1>4, <1>7, <2>4, <2>7 DEF SameValues
  <2>9. k \in LruKeys(a) /\ LruKeys(a) \subseteq LruKeys(l) \cup {k}
    BY <2>7
  <2> QED
    BY <1>10, <2>2, <2>4, <2>6, <2>7, <2>8, <2>9 DEF a, Added
<1> QED
  BY <1>9, <1>10

-----------------------------------------------------------------------------

(* What is joined is found where it was put. *)
LEMMA Joined ==
  ASSUME NEW S, NEW s \in Seq(S), NEW t \in Seq(S)
  PROVE  /\ s \o t \in Seq(S) /\ Len(s) \in Nat /\ Len(t) \in Nat
         /\ Len(s \o t) = Len(s) + Len(t)
         /\ \A i \in 1..Len(s) : (s \o t)[i] = s[i]
         /\ \A i \in 1..Len(t) : (s \o t)[Len(s) + i] = t[i]
<1> DEFINE p == Len(s)
           q == Len(t)
           j == s \o t
<1>1. j \in Seq(S) /\ p \in Nat /\ q \in Nat /\ Len(j) = p + q
  BY ConcatProperties, LenProperties
<1>2. \A i \in 1..(p + q) : j[i] = IF i <= p THEN s[i] ELSE t[i - p]
  BY ConcatProperties
<1> HIDE DEF p, q, j
<1>3. \A i \in 1..p : i \in 1..(p + q) /\ i <= p
  BY <1>1
<1>4. \A i \in 1..q : p + i \in 1..(p + q) /\ ~(p + i <= p) /\ (p + i) - p = i
  BY <1>1
<1>5. (\A i \in 1..p : j[i] = s[i]) /\ \A i \in 1..q : j[p + i] = t[i]
  BY <1>2, <1>3, <1>4
<1> QED
  BY <1>1, <1>5 DEF p, q, j

-----------------------------------------------------------------------------

(* A set of numbers that is not empty has a least one. *)
LEMMA LeastElement ==
  ASSUME NEW T \in SUBSET Nat, T # {}
  PROVE  \E x \in T : \A y \in T : x <= y
<1> DEFINE R == {ss \in Nat \X Nat : ss[1] < ss[2]}
<1>1. IsWellFoundedOn(R, Nat)
  BY NatLessThanWellFounded DEF OpToRel
<1>2. PICK x \in T : \A y \in T : ~(<<y, x>> \in R)
  BY <1>1, WFMin
<1>3. ASSUME NEW y \in T PROVE x <= y
  <2>1. x \in Nat /\ y \in Nat /\ ~(<<y, x>> \in R)
    BY <1>2
  <2>2. ~(y < x)
    BY <2>1
  <2> QED
    BY <2>1, <2>2
<1> QED
  BY <1>3

(* g gives the sum of f over every subset of S, as the community modules    *)
(* add it up: one element at a time.                                        *)
IsSumOver(g, f, S) ==
  g = [s \in SUBSET S |-> IF s = {} THEN 0
                          ELSE f[CHOOSE x \in s : TRUE] + g[s \ {CHOOSE x \in s : TRUE}]]

(* The library's fold is such a g at the whole set. *)
LEMMA SumIsFold ==
  ASSUME NEW f
  PROVE  \A S : SumFunctionOnSet(f, S) = (CHOOSE g : IsSumOver(g, f, S))[S]
BY DEF SumFunctionOnSet, FoldFunctionOnSet, MapThenFoldSet, IsSumOver

(* Smaller subsets by one element. *)
LEMMA OneLess ==
  ASSUME NEW S, IsFiniteSet(S), NEW t \in SUBSET S, NEW x \in t
  PROVE  /\ IsFiniteSet(t) /\ Cardinality(t) \in Nat \ {0}
         /\ t \ {x} \in SUBSET S /\ Cardinality(t \ {x}) = Cardinality(t) - 1
<1>1. IsFiniteSet(t)
  BY FS_Subset
<1>2. Cardinality(t) \in Nat /\ (Cardinality(t) = 0 <=> t = {})
  BY <1>1, FS_CardinalityType, FS_EmptySet
<1>3. Cardinality(t \ {x}) = Cardinality(t) - 1
  BY <1>1, FS_RemoveElement
<1> QED
  BY <1>1, <1>2, <1>3

(* There is such a g for every finite S. *)
LEMMA SumExists ==
  ASSUME NEW S, IsFiniteSet(S), NEW f
  PROVE  \E g : IsSumOver(g, f, S)
<1> DEFINE ch(s) == CHOOSE x \in s : TRUE
           Upto(n) == {t \in SUBSET S : Cardinality(t) <= n}
           Adds(g, n) == g = [s \in Upto(n) |-> IF s = {} THEN 0
                                               ELSE f[ch(s)] + g[s \ {ch(s)}]]
           T == {n \in Nat : ~\E g : Adds(g, n)}
<1>1. \A s : s # {} => ch(s) \in s
  OBVIOUS
<1>2. \A t \in SUBSET S : Cardinality(t) \in Nat
  BY FS_Subset, FS_CardinalityType
<1> HIDE DEF ch
<1>3. ASSUME NEW n \in Nat, NEW s \in Upto(n), s # {}
      PROVE  n # 0 /\ s \ {ch(s)} \in Upto(n - 1)
  <2>1. /\ Cardinality(s) \in Nat \ {0} /\ s \ {ch(s)} \in SUBSET S
        /\ Cardinality(s \ {ch(s)}) = Cardinality(s) - 1
    BY <1>1, <1>3, OneLess
  <2> QED
    BY <2>1
<1>4. ASSUME T # {} PROVE FALSE
  <2>1. PICK n \in T : \A k \in T : n <= k
    <3>1. T \in SUBSET Nat
      OBVIOUS
    <3> HIDE DEF T
    <3> QED
      BY <1>4, <3>1, LeastElement
  <2>2. CASE n = 0
    <3> DEFINE g == [s \in Upto(0) |-> 0]
    <3>1. \A s \in Upto(0) : s = {}
      BY <1>3
    <3>2. g = [s \in Upto(0) |-> IF s = {} THEN 0 ELSE f[ch(s)] + g[s \ {ch(s)}]]
      BY <3>1
    <3> QED
      BY <2>1, <2>2, <3>2
  <2>3. CASE n # 0
    <3>1. n - 1 \in Nat /\ n \in Nat /\ n - 1 \notin T
      <4>1. n \in Nat /\ n - 1 \in Nat /\ ~(n <= n - 1)
        BY <2>1, <2>3
      <4> HIDE DEF T
      <4> QED
        BY <2>1, <4>1
    <3>2. PICK g0 : Adds(g0, n - 1)
      BY <3>1
    <3> DEFINE g == [s \in Upto(n) |-> IF s = {} THEN 0 ELSE f[ch(s)] + g0[s \ {ch(s)}]]
    <3>3. ASSUME NEW s \in Upto(n - 1) PROVE s \in Upto(n) /\ g[s] = g0[s]
      <4>1. s \in Upto(n)
        <5>1. s \in SUBSET S /\ Cardinality(s) \in Nat /\ Cardinality(s) <= n - 1
          BY <1>2
        <5>2. Cardinality(s) <= n
          BY <3>1, <5>1
        <5> QED
          BY <5>1, <5>2
      <4>2. g0[s] = IF s = {} THEN 0 ELSE f[ch(s)] + g0[s \ {ch(s)}]
        BY <3>2
      <4> QED
        BY <4>1, <4>2
    <3> HIDE DEF g, Upto
    <3>4. \A s \in Upto(n) : g[s] = IF s = {} THEN 0 ELSE f[ch(s)] + g[s \ {ch(s)}]
      BY <1>3, <3>1, <3>3 DEF g
    <3>5. g = [s \in Upto(n) |-> g[s]]
      BY DEF g
    <3>6. Adds(g, n)
      BY <3>4, <3>5
    <3> QED
      BY <2>1, <3>6
  <2> QED
    BY <2>2, <2>3
<1>5. PICK g : Adds(g, Cardinality(S))
  <2>1. Cardinality(S) \in Nat
    BY FS_CardinalityType
  <2> HIDE DEF Adds
  <2> QED
    BY <1>4, <2>1
<1>6. Upto(Cardinality(S)) = SUBSET S
  BY FS_Subset
<1> QED
  BY <1>5, <1>6 DEF IsSumOver, ch

(* What a sum over S gives for its subsets is computed from their elements  *)
(* alone, so equal summands have equal sums.                                *)
LEMMA SumsAgree ==
  ASSUME NEW S, IsFiniteSet(S), NEW T \in SUBSET S, NEW f, NEW h, NEW g, NEW k,
         IsSumOver(g, f, S), IsSumOver(k, h, T), \A x \in T : f[x] = h[x]
  PROVE  g[T] = k[T]
<1> DEFINE ch(s) == CHOOSE x \in s : TRUE
           Bad == {t \in SUBSET T : g[t] # k[t]}
           Sizes == {Cardinality(t) : t \in Bad}
<1>1. \A s : s # {} => ch(s) \in s
  OBVIOUS
<1>2. \A s \in SUBSET S : g[s] = IF s = {} THEN 0 ELSE f[ch(s)] + g[s \ {ch(s)}]
  BY DEF IsSumOver
<1>3. \A s \in SUBSET T : k[s] = IF s = {} THEN 0 ELSE h[ch(s)] + k[s \ {ch(s)}]
  BY DEF IsSumOver
<1> HIDE DEF ch
<1>4. IsFiniteSet(T)
  BY FS_Subset
<1>5. ASSUME Bad # {} PROVE FALSE
  <2>1. \A t \in SUBSET T : Cardinality(t) \in Nat
    BY <1>4, FS_Subset, FS_CardinalityType
  <2>2. PICK n \in Sizes : \A m \in Sizes : n <= m
    <3>1. Sizes \in SUBSET Nat /\ Sizes # {}
      BY <1>5, <2>1
    <3> HIDE DEF Sizes
    <3> QED
      BY <3>1, LeastElement
  <2>3. PICK t \in Bad : n = Cardinality(t)
    OBVIOUS
  <2>4. t # {} /\ t \in SUBSET T /\ t \in SUBSET S
    BY <1>2, <1>3, <2>3
  <2>5. /\ ch(t) \in t /\ Cardinality(t) \in Nat \ {0}
        /\ t \ {ch(t)} \in SUBSET T /\ Cardinality(t \ {ch(t)}) = Cardinality(t) - 1
    BY <1>1, <1>4, <2>4, OneLess
  <2>6. t \ {ch(t)} \notin Bad
    <3>1. ~(n <= Cardinality(t \ {ch(t)}))
      BY <2>3, <2>5
    <3> HIDE DEF Bad
    <3> QED
      BY <2>2, <3>1
  <2>7. g[t \ {ch(t)}] = k[t \ {ch(t)}]
    BY <2>5, <2>6
  <2>8. g[t] = k[t]
    BY <1>2, <1>3, <2>4, <2>5, <2>7
  <2> QED
    BY <2>3, <2>8
<1> QED
  BY <1>5

(* The sum of numbers is a number, and any summand can be taken out first.  *)
LEMMA SumTakesOut ==
  ASSUME NEW S, IsFiniteSet(S), NEW f, \A x \in S : f[x] \in Nat, NEW g, IsSumOver(g, f, S)
  PROVE  \A t \in SUBSET S : /\ g[t] \in Nat
                             /\ \A y \in t : g[t] = f[y] + g[t \ {y}]
<1> DEFINE ch(s) == CHOOSE x \in s : TRUE
           Fine(t) == g[t] \in Nat /\ \A y \in t : g[t] = f[y] + g[t \ {y}]
           Bad == {t \in SUBSET S : ~Fine(t)}
           Sizes == {Cardinality(t) : t \in Bad}
<1>1. \A s : s # {} => ch(s) \in s
  OBVIOUS
<1>2. \A s \in SUBSET S : g[s] = IF s = {} THEN 0 ELSE f[ch(s)] + g[s \ {ch(s)}]
  BY DEF IsSumOver
<1> HIDE DEF ch
<1>3. ASSUME Bad # {} PROVE FALSE
  <2>1. \A t \in SUBSET S : Cardinality(t) \in Nat
    BY FS_Subset, FS_CardinalityType
  <2>2. PICK n \in Sizes : \A m \in Sizes : n <= m
    <3>1. Sizes \in SUBSET Nat /\ Sizes # {}
      BY <1>3, <2>1
    <3> HIDE DEF Sizes
    <3> QED
      BY <3>1, LeastElement
  <2>3. PICK t \in Bad : n = Cardinality(t)
    OBVIOUS
  <2>4. \A x \in t : Fine(t \ {x})
    <3> SUFFICES ASSUME NEW x \in t PROVE t \ {x} \notin Bad /\ t \ {x} \in SUBSET S
      OBVIOUS
    <3>1. /\ Cardinality(t) \in Nat \ {0} /\ t \ {x} \in SUBSET S
          /\ Cardinality(t \ {x}) = Cardinality(t) - 1
      BY <2>3, OneLess
    <3>2. ~(n <= Cardinality(t \ {x}))
      BY <2>3, <3>1
    <3> HIDE DEF Bad
    <3> QED
      BY <2>2, <3>1, <3>2
  <2>5. CASE t = {}
    <3>1. t \in SUBSET S /\ g[t] = 0
      BY <1>2, <2>3, <2>5
    <3>2. Fine(t)
      BY <2>5, <3>1
    <3> QED
      BY <2>3, <3>2
  <2>6. CASE t # {}
    <3> DEFINE c == ch(t)
    <3>1. c \in t /\ f[c] \in Nat /\ t \in SUBSET S /\ g[t] = f[c] + g[t \ {c}]
      BY <1>1, <1>2, <2>3, <2>6
    <3>2. g[t \ {c}] \in Nat
      BY <2>4, <3>1
    <3>3. g[t] \in Nat
      BY <3>1, <3>2
    <3>4. ASSUME NEW y \in t PROVE g[t] = f[y] + g[t \ {y}]
      <4>1. CASE y = c
        BY <3>1, <4>1
      <4>2. CASE y # c
        <5> DEFINE r == (t \ {c}) \ {y}
        <5>1. y \in t \ {c} /\ c \in t \ {y} /\ (t \ {y}) \ {c} = r /\ f[y] \in Nat
          BY <3>1, <4>2
        <5>2. g[t \ {c}] = f[y] + g[r]
          BY <2>4, <3>1, <5>1
        <5>3. g[t \ {y}] = f[c] + g[r]
          BY <2>4, <5>1
        <5>4. g[r] \in Nat
          <6>1. r \in SUBSET S
            BY <2>3
          <6>2. Fine(t \ {c}) /\ t \ {c} \in SUBSET S
            BY <2>3, <2>4, <3>1
          <6>3. Cardinality(t \ {c}) = Cardinality(t) - 1 /\ Cardinality(t) \in Nat
            BY <3>1, OneLess
          <6>4. Cardinality(r) = Cardinality(t \ {c}) - 1
            <7> DEFINE u == t \ {c}
            <7>1. u \in SUBSET S /\ y \in u
              BY <5>1, <6>2
            <7> HIDE DEF u
            <7>2. Cardinality(u \ {y}) = Cardinality(u) - 1
              BY <7>1, OneLess
            <7> QED
              BY <7>2 DEF u
          <6>5. ~(n <= Cardinality(r))
            BY <2>3, <6>3, <6>4
          <6>6. r \notin Bad
            <7> HIDE DEF Bad, r
            <7> QED
              BY <2>2, <6>5
          <6> QED
            BY <6>1, <6>6
        <5> HIDE DEF r, c
        <5> QED
          BY <3>1, <5>1, <5>2, <5>3, <5>4
      <4> QED
        BY <4>1, <4>2
    <3> QED
      BY <2>3, <3>3, <3>4
  <2> QED
    BY <2>5, <2>6
<1> QED
  BY <1>3

-----------------------------------------------------------------------------

(* The sum over a finite set, without the function behind it. *)
LEMMA SumSplit ==
  ASSUME NEW S, IsFiniteSet(S), NEW f, \A x \in S : f[x] \in Nat
  PROVE  /\ SumFunctionOnSet(f, S) \in Nat
         /\ S = {} => SumFunctionOnSet(f, S) = 0
         /\ \A y \in S : SumFunctionOnSet(f, S) = f[y] + SumFunctionOnSet(f, S \ {y})
<1> DEFINE sum(T) == CHOOSE g : IsSumOver(g, f, T)
<1>1. \A T \in SUBSET S : IsSumOver(sum(T), f, T) /\ SumFunctionOnSet(f, T) = sum(T)[T]
  <2> SUFFICES ASSUME NEW T \in SUBSET S
               PROVE  IsSumOver(sum(T), f, T) /\ SumFunctionOnSet(f, T) = sum(T)[T]
    OBVIOUS
  <2>1. IsFiniteSet(T)
    BY FS_Subset
  <2>2. \E g : IsSumOver(g, f, T)
    BY <2>1, SumExists
  <2> QED
    BY <2>2, SumIsFold
<1> HIDE DEF sum
<1>2. \A T \in SUBSET S : sum(S)[T] = sum(T)[T]
  BY <1>1, SumsAgree
<1>3. \A t \in SUBSET S : /\ sum(S)[t] \in Nat
                          /\ \A y \in t : sum(S)[t] = f[y] + sum(S)[t \ {y}]
  BY <1>1, SumTakesOut
<1>4. S = {} => sum(S)[S] = 0
  BY <1>1 DEF IsSumOver
<1> QED
  BY <1>1, <1>2, <1>3, <1>4

(* Equal summands have equal sums. *)
LEMMA SumSame ==
  ASSUME NEW S, IsFiniteSet(S), NEW f, NEW h, \A x \in S : f[x] = h[x]
  PROVE  SumFunctionOnSet(f, S) = SumFunctionOnSet(h, S)
<1>1. \E g : IsSumOver(g, f, S)
  BY SumExists
<1>2. IsSumOver(CHOOSE g : IsSumOver(g, f, S), f, S)
  BY <1>1
<1>3. \E g : IsSumOver(g, h, S)
  BY SumExists
<1>4. IsSumOver(CHOOSE g : IsSumOver(g, h, S), h, S)
  BY <1>3
<1>5. (CHOOSE g : IsSumOver(g, f, S))[S] = (CHOOSE g : IsSumOver(g, h, S))[S]
  BY <1>2, <1>4, SumsAgree
<1> QED
  BY <1>5, SumIsFold

(* One summand changes, or a new one is added. *)
LEMMA SumChanges ==
  ASSUME NEW S, IsFiniteSet(S), NEW f, \A x \in S : f[x] \in Nat,
         NEW h, NEW y, \A x \in S \ {y} : h[x] = f[x], h[y] \in Nat,
         DOMAIN f = S, DOMAIN h = S \cup {y}
  PROVE  /\ SumFunction(f) \in Nat /\ SumFunction(h) \in Nat
         /\ SumFunction(h) + (IF y \in S THEN f[y] ELSE 0) = SumFunction(f) + h[y]
<1> DEFINE H == S \cup {y}
           R == S \ {y}
<1>1. IsFiniteSet(H) /\ \A x \in H : h[x] \in Nat
  BY FS_AddElement
<1>2. IsFiniteSet(R) /\ H \ {y} = R /\ y \in H
  BY FS_RemoveElement
<1>3. /\ SumFunctionOnSet(h, H) \in Nat
      /\ SumFunctionOnSet(h, H) = h[y] + SumFunctionOnSet(h, R)
  <2> HIDE DEF H, R
  <2> QED
    BY <1>1, <1>2, SumSplit
<1>4. SumFunctionOnSet(f, R) = SumFunctionOnSet(h, R) /\ SumFunctionOnSet(f, R) \in Nat
  BY <1>2, SumSame, SumSplit
<1>5. SumFunctionOnSet(f, S) \in Nat
  BY SumSplit
<1>6. SumFunctionOnSet(f, S) = (IF y \in S THEN f[y] ELSE 0) + SumFunctionOnSet(f, R)
  <2>1. CASE y \in S
    BY <2>1, SumSplit
  <2>2. CASE y \notin S
    <3>1. R = S
      BY <2>2
    <3> QED
      BY <1>4, <1>5, <2>2, <3>1
  <2> QED
    BY <2>1, <2>2
<1>7. SumFunction(f) = SumFunctionOnSet(f, S) /\ SumFunction(h) = SumFunctionOnSet(h, H)
  BY DEF SumFunction
<1> HIDE DEF H, R
<1> QED
  BY <1>3, <1>4, <1>5, <1>6, <1>7

(* With no new argument. *)
LEMMA SumMoves ==
  ASSUME NEW S, IsFiniteSet(S), NEW f, \A x \in S : f[x] \in Nat,
         NEW h, NEW y \in S, \A x \in S \ {y} : h[x] = f[x], h[y] \in Nat,
         DOMAIN f = S, DOMAIN h = S
  PROVE  /\ SumFunction(f) \in Nat /\ SumFunction(h) \in Nat
         /\ SumFunction(h) + f[y] = SumFunction(f) + h[y]
<1>1. DOMAIN h = S \cup {y}
  OBVIOUS
<1>2. /\ SumFunction(f) \in Nat /\ SumFunction(h) \in Nat
      /\ SumFunction(h) + (IF y \in S THEN f[y] ELSE 0) = SumFunction(f) + h[y]
  BY <1>1, SumChanges
<1> QED
  BY <1>2

(* A sum over part of a function's arguments when one summand changes. *)
LEMMA SumAt ==
  ASSUME NEW S, IsFiniteSet(S), NEW f, \A x \in S : f[x] \in Nat,
         NEW h, NEW y, \A x \in S \ {y} : h[x] = f[x], h[y] \in Nat
  PROVE  /\ SumFunctionOnSet(f, S) \in Nat /\ SumFunctionOnSet(h, S) \in Nat
         /\ y \notin S => SumFunctionOnSet(h, S) = SumFunctionOnSet(f, S)
         /\ y \in S => SumFunctionOnSet(h, S) + f[y] = SumFunctionOnSet(f, S) + h[y]
<1> DEFINE R == S \ {y}
<1>1. /\ SumFunctionOnSet(f, S) \in Nat
      /\ \A x \in S : SumFunctionOnSet(f, S) = f[x] + SumFunctionOnSet(f, S \ {x})
  BY SumSplit
<1>2. /\ SumFunctionOnSet(h, S) \in Nat
      /\ \A x \in S : SumFunctionOnSet(h, S) = h[x] + SumFunctionOnSet(h, S \ {x})
  <2>1. \A x \in S : h[x] \in Nat
    OBVIOUS
  <2> QED
    BY <2>1, SumSplit
<1>3. SumFunctionOnSet(f, R) = SumFunctionOnSet(h, R) /\ SumFunctionOnSet(f, R) \in Nat
  <2>1. IsFiniteSet(R)
    BY FS_RemoveElement
  <2> QED
    BY <2>1, SumSame, SumSplit
<1>4. CASE y \notin S
  <2>1. R = S
    BY <1>4
  <2> QED
    BY <1>1, <1>2, <1>3, <1>4, <2>1
<1>5. CASE y \in S
  <2>1. /\ SumFunctionOnSet(f, S) = f[y] + SumFunctionOnSet(f, R)
        /\ SumFunctionOnSet(h, S) = h[y] + SumFunctionOnSet(h, R) /\ f[y] \in Nat
    BY <1>1, <1>2, <1>5
  <2> HIDE DEF R
  <2> QED
    BY <1>1, <1>2, <1>3, <1>5, <2>1
<1> QED
  BY <1>4, <1>5

(* The sum of zeros. *)
LEMMA SumZero ==
  ASSUME NEW S, IsFiniteSet(S), NEW f, \A x \in S : f[x] = 0
  PROVE  SumFunctionOnSet(f, S) = 0
<1> DEFINE Bad == {t \in SUBSET S : SumFunctionOnSet(f, t) # 0}
           Sizes == {Cardinality(t) : t \in Bad}
<1>1. \A t \in SUBSET S : IsFiniteSet(t) /\ Cardinality(t) \in Nat
  BY FS_Subset, FS_CardinalityType
<1>2. ASSUME Bad # {} PROVE FALSE
  <2>1. PICK n \in Sizes : \A m \in Sizes : n <= m
    <3>1. Sizes \in SUBSET Nat /\ Sizes # {}
      BY <1>1, <1>2
    <3> HIDE DEF Sizes
    <3> QED
      BY <3>1, LeastElement
  <2>2. PICK t \in Bad : n = Cardinality(t)
    OBVIOUS
  <2>3. t \in SUBSET S /\ SumFunctionOnSet(f, t) # 0 /\ \A x \in t : f[x] = 0
    BY <2>2
  <2>4. /\ t = {} => SumFunctionOnSet(f, t) = 0
        /\ \A y \in t : SumFunctionOnSet(f, t) = f[y] + SumFunctionOnSet(f, t \ {y})
    <3>1. IsFiniteSet(t) /\ \A x \in t : f[x] \in Nat
      BY <1>1, <2>3
    <3> QED
      BY <3>1, SumSplit
  <2>5. PICK y \in t : TRUE
    BY <2>3, <2>4
  <2>6. /\ Cardinality(t) \in Nat /\ t \ {y} \in SUBSET S
        /\ Cardinality(t \ {y}) = Cardinality(t) - 1
    BY <2>3, <2>5, OneLess
  <2>7. t \ {y} \notin Bad
    <3>1. ~(n <= Cardinality(t \ {y}))
      BY <2>2, <2>6
    <3> HIDE DEF Bad
    <3> QED
      BY <2>1, <3>1
  <2>8. SumFunctionOnSet(f, t \ {y}) = 0
    BY <2>6, <2>7
  <2> QED
    BY <2>3, <2>4, <2>5, <2>8
<1> QED
  BY <1>2

-----------------------------------------------------------------------------
(* X goes from each number to the next, up to n. *)
Upward(X, n) == \A k \in 1..n : k - 1 \in X => k \in X

(* A set that does so from 0 has them all. *)
LEMMA Climbs ==
  ASSUME NEW n \in Nat, NEW X, 0 \in X, Upward(X, n)
  PROVE  0..n \subseteq X
<1> DEFINE T == (0..n) \ X
<1>1. ASSUME T # {} PROVE FALSE
  <2>1. T \in SUBSET Nat
    OBVIOUS
  <2>2. PICK k \in T : \A m \in T : k <= m
    <3> HIDE DEF T
    <3> QED
      BY <1>1, <2>1, LeastElement
  <2>3. k \in 0..n /\ k \notin X /\ k # 0
    BY <2>2
  <2>4. k \in 1..n /\ k - 1 \in 0..n /\ ~(k <= k - 1)
    BY <2>3
  <2>5. k - 1 \in X
    <3>1. k - 1 \notin T
      <4> HIDE DEF T
      <4> QED
        BY <2>2, <2>4
    <3> QED
      BY <2>4, <3>1
  <2> QED
    BY <2>3, <2>4, <2>5 DEF Upward
<1> QED
  BY <1>1

(* g gives what is reached from base after each of the first elements of s. *)
Reaches(g, A, B, step, base, s) ==
  /\ g \in [0..Len(s) -> A] /\ g[0] = base
  /\ \A i \in 1..Len(s) : g[i] = step[<<g[i - 1], s[i]>>]

(* A step that is a function can be taken along every sequence. *)
LEMMA StepsExist ==
  ASSUME NEW A, NEW B, NEW step \in [A \X B -> A], NEW base \in A, NEW s \in Seq(B)
  PROVE  \E g : Reaches(g, A, B, step, base, s)
<1> DEFINE Upto(g, n) == /\ g \in [0..n -> A] /\ g[0] = base
                         /\ \A i \in 1..n : g[i] = step[<<g[i - 1], s[i]>>]
           T == {n \in 0..Len(s) : ~\E g : Upto(g, n)}
<1>1. Len(s) \in Nat /\ \A i \in 1..Len(s) : s[i] \in B
  BY ElementOfSeq, LenProperties
<1>2. T = {}
  <2> SUFFICES ASSUME T # {} PROVE FALSE
    OBVIOUS
  <2>1. T \in SUBSET Nat
    BY <1>1
  <2>2. PICK n \in T : \A k \in T : n <= k
    <3> HIDE DEF T
    <3> QED
      BY <2>1, LeastElement
  <2>3. n \in 0..Len(s) /\ n \in Nat /\ n <= Len(s) /\ ~\E g : Upto(g, n)
    BY <1>1, <2>2
  <2>4. n # 0
    <3> DEFINE g == [i \in 0..0 |-> base]
    <3>1. Upto(g, 0)
      OBVIOUS
    <3> QED
      BY <2>3, <3>1
  <2>5. n - 1 \in 0..Len(s) /\ n - 1 \notin T /\ n \in 1..Len(s)
    <3>1. n - 1 \in 0..Len(s) /\ ~(n <= n - 1) /\ n \in 1..Len(s)
      BY <1>1, <2>3, <2>4
    <3> HIDE DEF T
    <3> QED
      BY <2>2, <3>1
  <2>6. PICK h : Upto(h, n - 1)
    BY <2>5
  <2> DEFINE last == step[<<h[n - 1], s[n]>>]
             g == [i \in 0..n |-> IF i = n THEN last ELSE h[i]]
  <2>7. last \in A
    BY <1>1, <2>3, <2>5, <2>6
  <2> HIDE DEF last
  <2>8. g \in [0..n -> A] /\ g[0] = base /\ g[n] = last
    <3>1. \A i \in 0..n : i # n => i \in 0..(n - 1)
      BY <2>3
    <3>2. 0 \in 0..n /\ n \in 0..n
      BY <2>3
    <3> QED
      BY <2>4, <2>6, <2>7, <3>1, <3>2
  <2>9. ASSUME NEW i \in 1..n PROVE g[i] = step[<<g[i - 1], s[i]>>]
    <3>1. i - 1 \in 0..n /\ i - 1 # n /\ i \in 0..n
      BY <2>3
    <3>2. g[i - 1] = h[i - 1]
      BY <3>1
    <3>3. CASE i = n
      BY <2>8, <3>2, <3>3 DEF last
    <3>4. CASE i # n
      <4>1. i \in 1..(n - 1)
        BY <2>3, <3>4
      <4> QED
        BY <2>6, <3>1, <3>2, <3>4, <4>1
    <3> QED
      BY <3>3, <3>4
  <2>10. Upto(g, n)
    <3> HIDE DEF g
    <3> QED
      BY <2>8, <2>9
  <2> QED
    BY <2>3, <2>10
<1>3. Len(s) \in 0..Len(s)
  BY <1>1
<1>4. \E g : Upto(g, Len(s))
  BY <1>2, <1>3
<1> QED
  BY <1>4 DEF Reaches

(* FlattenSeq joins one part after the other. *)
LEMMA FlattenIs ==
  ASSUME NEW S, NEW p \in Seq(Seq(S))
  PROVE  /\ FlattenSeq(p) \in Seq(S)
         /\ \E g : /\ g \in [0..Len(p) -> Seq(S)] /\ g[0] = <<>> /\ g[Len(p)] = FlattenSeq(p)
                   /\ \A i \in 1..Len(p) : g[i] = g[i - 1] \o p[i]
<1> DEFINE n == Len(p)
           step == [x \in Seq(S) \X Seq(S) |-> x[1] \o x[2]]
           IsFlat(f) == f = [i \in 1..n |-> IF i = 1 THEN p[i] ELSE f[i - 1] \o p[i]]
           flat == CHOOSE f : IsFlat(f)
<1>1. n \in Nat /\ <<>> \in Seq(S) /\ \A i \in 1..n : p[i] \in Seq(S)
  BY ElementOfSeq, LenProperties, EmptySeq
<1>2. \A a, b \in Seq(S) : a \o b \in Seq(S) /\ <<>> \o b = b
  BY ConcatProperties, ConcatEmptySeq
<1>3. step \in [Seq(S) \X Seq(S) -> Seq(S)] /\ \A a, b \in Seq(S) : step[<<a, b>>] = a \o b
  BY <1>2
<1> HIDE DEF step
<1>4. PICK g : Reaches(g, Seq(S), Seq(S), step, <<>>, p)
  BY <1>1, <1>3, StepsExist
<1>5. /\ g \in [0..n -> Seq(S)] /\ g[0] = <<>>
      /\ \A i \in 1..n : i - 1 \in 0..n /\ i \in 0..n /\ g[i] = g[i - 1] \o p[i]
  <2>1. g \in [0..n -> Seq(S)] /\ g[0] = <<>>
    BY <1>4 DEF Reaches
  <2>2. ASSUME NEW i \in 1..n
        PROVE  i - 1 \in 0..n /\ i \in 0..n /\ g[i] = g[i - 1] \o p[i]
    <3>1. i - 1 \in 0..n /\ i \in 0..n
      BY <1>1
    <3>2. g[i] = step[<<g[i - 1], p[i]>>]
      BY <1>4 DEF Reaches
    <3> HIDE DEF n
    <3> QED
      BY <1>1, <1>3, <2>1, <3>1, <3>2
  <2> QED
    BY <2>1, <2>2
<1> HIDE DEF n
<1>12. ASSUME NEW i \in 1..n, i = 1 PROVE g[i] = p[i]
  <2>1. g[i] = g[i - 1] \o p[i] /\ p[i] \in Seq(S)
    BY <1>1, <1>5
  <2>2. i - 1 = 0
    BY <1>12
  <2> QED
    BY <1>2, <1>5, <2>1, <2>2
<1>6. IsFlat([i \in 1..n |-> g[i]])
  <2> DEFINE f == [i \in 1..n |-> g[i]]
  <2>1. ASSUME NEW i \in 1..n PROVE f[i] = IF i = 1 THEN p[i] ELSE f[i - 1] \o p[i]
    <3>1. CASE i = 1
      BY <1>12, <3>1
    <3>2. CASE i # 1
      <4>1. i - 1 \in 1..n
        BY <1>1, <3>2
      <4> QED
        BY <1>5, <3>2, <4>1
    <3> QED
      BY <3>1, <3>2
  <2> QED
    BY <2>1
<1>7. IsFlat(flat)
  <2> HIDE DEF IsFlat
  <2> QED
    BY <1>6
<1>8. FlattenSeq(p) = IF n = 0 THEN p ELSE flat[n]
  BY DEF FlattenSeq, n
<1> HIDE DEF flat
<1> DEFINE Bad == {i \in 1..n : flat[i] # g[i]}
<1>9. Bad = {}
  <2> SUFFICES ASSUME Bad # {} PROVE FALSE
    OBVIOUS
  <2>1. Bad \in SUBSET Nat
    BY <1>1
  <2>2. PICK i \in Bad : \A k \in Bad : i <= k
    <3> HIDE DEF Bad
    <3> QED
      BY <2>1, LeastElement
  <2>3. i \in 1..n /\ flat[i] # g[i]
    BY <2>2
  <2>4. flat[i] = IF i = 1 THEN p[i] ELSE flat[i - 1] \o p[i]
    BY <1>7, <2>3
  <2>5. CASE i = 1
    BY <1>12, <2>3, <2>4, <2>5
  <2>6. CASE i # 1
    <3>1. i - 1 \in 1..n /\ ~(i <= i - 1)
      BY <1>1, <2>3, <2>6
    <3>2. i - 1 \notin Bad
      <4> HIDE DEF Bad
      <4> QED
        BY <2>2, <3>1
    <3>3. flat[i - 1] = g[i - 1]
      BY <3>1, <3>2
    <3> QED
      BY <1>5, <2>3, <2>4, <2>6, <3>3
  <2> QED
    BY <2>5, <2>6
<1>10. FlattenSeq(p) = g[n]
  <2>1. CASE n = 0
    <3>1. p = <<>>
      BY <2>1, EmptySeq DEF n
    <3> QED
      BY <1>5, <1>8, <2>1, <3>1
  <2>2. CASE n # 0
    <3>1. n \in 1..n
      BY <1>1, <2>2
    <3> QED
      BY <1>8, <1>9, <2>2, <3>1
  <2> QED
    BY <2>1, <2>2
<1>11. n \in 0..n
  BY <1>1
<1> QED
  BY <1>5, <1>10, <1>11 DEF n

(* One part more is joined at the end. *)
LEMMA FlattenAppend ==
  ASSUME NEW S, NEW p \in Seq(Seq(S)), NEW x \in Seq(S)
  PROVE  /\ FlattenSeq(Append(p, x)) = FlattenSeq(p) \o x
         /\ FlattenSeq(p) \in Seq(S) /\ FlattenSeq(Append(p, x)) \in Seq(S)
<1> DEFINE n == Len(p)
           q == Append(p, x)
<1>1. /\ q \in Seq(Seq(S)) /\ n \in Nat /\ Len(q) = n + 1
      /\ q[n + 1] = x /\ \A i \in 1..n : q[i] = p[i]
  BY AppendProperties, LenProperties
<1>2. PICK g : /\ g \in [0..n -> Seq(S)] /\ g[0] = <<>> /\ g[n] = FlattenSeq(p)
               /\ \A i \in 1..n : g[i] = g[i - 1] \o p[i]
  BY FlattenIs
<1>3. PICK h : /\ h \in [0..(n + 1) -> Seq(S)] /\ h[0] = <<>> /\ h[n + 1] = FlattenSeq(q)
               /\ \A i \in 1..(n + 1) : h[i] = h[i - 1] \o q[i]
  <2> HIDE DEF q
  <2>1. \E h : /\ h \in [0..Len(q) -> Seq(S)] /\ h[0] = <<>> /\ h[Len(q)] = FlattenSeq(q)
               /\ \A i \in 1..Len(q) : h[i] = h[i - 1] \o q[i]
    BY <1>1, FlattenIs
  <2> QED
    BY <1>1, <2>1
<1>4. FlattenSeq(p) \in Seq(S) /\ FlattenSeq(q) \in Seq(S)
  <2> HIDE DEF q
  <2> QED
    BY <1>1, FlattenIs
<1> HIDE DEF n, q
<1> DEFINE Bad == {i \in 0..n : h[i] # g[i]}
<1>5. Bad = {}
  <2> SUFFICES ASSUME Bad # {} PROVE FALSE
    OBVIOUS
  <2>1. Bad \in SUBSET Nat
    BY <1>1
  <2>2. PICK i \in Bad : \A k \in Bad : i <= k
    <3> HIDE DEF Bad
    <3> QED
      BY <2>1, LeastElement
  <2>3. i \in 0..n /\ h[i] # g[i] /\ i # 0
    BY <1>2, <1>3, <2>2
  <2>4. i \in 1..n /\ i \in 1..(n + 1) /\ i - 1 \in 0..n /\ ~(i <= i - 1)
    BY <1>1, <2>3
  <2>5. i - 1 \notin Bad
    <3> HIDE DEF Bad
    <3> QED
      BY <2>2, <2>4
  <2>6. h[i - 1] = g[i - 1]
    BY <2>4, <2>5
  <2>7. q[i] = p[i] /\ h[i] = h[i - 1] \o q[i] /\ g[i] = g[i - 1] \o p[i]
    BY <1>1, <1>2, <1>3, <2>4
  <2> QED
    BY <2>3, <2>6, <2>7
<1>6. n \in 0..n /\ n + 1 \in 1..(n + 1) /\ (n + 1) - 1 = n
  BY <1>1
<1>7. h[n] = g[n]
  BY <1>5, <1>6
<1>8. h[n + 1] = h[n] \o q[n + 1]
  BY <1>3, <1>6
<1> QED
  BY <1>1, <1>2, <1>3, <1>4, <1>7, <1>8 DEF q

(* Nothing to put together gives nothing. *)
LEMMA FlattenEmpty == FlattenSeq(<<>>) = <<>>
BY EmptySeq DEF FlattenSeq

(* A part of a sequence. *)
LEMMA PartOf ==
  ASSUME NEW S, NEW s \in Seq(S), NEW m \in Nat \ {0}, NEW n \in Nat, n <= Len(s), m <= n + 1
  PROVE  /\ SubSeq(s, m, n) \in Seq(S) /\ Len(SubSeq(s, m, n)) = n - m + 1
         /\ \A i \in 1..(n - m + 1) : SubSeq(s, m, n)[i] = s[m + i - 1]
<1> DEFINE l == Len(s)
           t == SubSeq(s, m, n)
<1>1. l \in Nat /\ \A i \in 1..l : s[i] \in S
  BY ElementOfSeq, LenProperties
<1>2. m \in Int /\ n \in Int /\ \A i \in m..n : s[i] \in S
  BY <1>1
<1>3. /\ t \in Seq(S) /\ Len(t) = IF m <= n THEN n - m + 1 ELSE 0
      /\ \A i \in 1..(n - m + 1) : t[i] = s[m + i - 1]
  BY <1>2, SubSeqProperties
<1> HIDE DEF t
<1>4. (IF m <= n THEN n - m + 1 ELSE 0) = n - m + 1
  OBVIOUS
<1> QED
  BY <1>3, <1>4 DEF t

(* The first n elements of a sequence. *)
LEMMA Prefix ==
  ASSUME NEW S, NEW s \in Seq(S), NEW n \in Nat, n <= Len(s)
  PROVE  /\ SubSeq(s, 1, n) \in Seq(S) /\ Len(SubSeq(s, 1, n)) = n
         /\ \A i \in 1..n : SubSeq(s, 1, n)[i] = s[i]
<1> DEFINE t == SubSeq(s, 1, n)
<1>1. /\ t \in Seq(S) /\ Len(t) = n - 1 + 1
      /\ \A i \in 1..(n - 1 + 1) : t[i] = s[1 + i - 1]
  <2>1. 1 <= n + 1 /\ 1 \in Nat \ {0}
    OBVIOUS
  <2> QED
    BY <2>1, PartOf
<1> HIDE DEF t
<1>2. n - 1 + 1 = n /\ \A i \in 1..n : 1 + i - 1 = i
  OBVIOUS
<1> QED
  BY <1>1, <1>2 DEF t

(* A sequence that is not empty is one appended to another. *)
LEMMA SeqEnds ==
  ASSUME NEW S, NEW s \in Seq(S), s # <<>>
  PROVE  \E f \in Seq(S), c \in S : s = Append(f, c) /\ Len(f) + 1 = Len(s) /\ Len(f) \in Nat
<1> DEFINE n == Len(s)
<1>1. n \in Nat /\ n # 0 /\ \A i \in 1..n : s[i] \in S
  BY EmptySeq, LenProperties, ElementOfSeq
<1>2. PICK k \in Nat : k + 1 = n
  BY <1>1
<1> DEFINE f == SubSeq(s, 1, k)
           a == Append(f, s[n])
<1>3. f \in Seq(S) /\ Len(f) = k /\ \A i \in 1..k : f[i] = s[i]
  <2>1. k <= Len(s)
    BY <1>2
  <2> HIDE DEF n
  <2> QED
    BY <2>1, Prefix
<1>4. s[n] \in S
  BY <1>1
<1> HIDE DEF f
<1>5. a \in Seq(S) /\ Len(a) = n /\ \A i \in 1..n : a[i] = s[i]
  <2>1. /\ a \in Seq(S) /\ Len(a) = Len(f) + 1
        /\ \A i \in 1..Len(f) : a[i] = f[i] /\ a[Len(f) + 1] = s[n]
    BY <1>3, <1>4, AppendProperties
  <2>2. a[Len(f) + 1] = s[n]
    BY <1>3, <1>4, AppendProperties
  <2> HIDE DEF n, a
  <2>3. \A i \in 1..n : i \in 1..k \/ i = n
    BY <1>2
  <2> QED
    BY <1>2, <1>3, <2>1, <2>2, <2>3
<1>6. s = a
  <2> HIDE DEF a
  <2> QED
    BY <1>5, SeqEqual
<1> QED
  BY <1>2, <1>3, <1>4, <1>6

(* A list of values is a sequence of them. *)
LEMMA ListIsSeq ==
  ASSUME NEW S, NEW n \in Nat, NEW f \in [1..n -> S]
  PROVE  f \in Seq(S) /\ Len(f) = n
OBVIOUS

(* Sequences of one and of two. *)
LEMMA ShortSeqs ==
  ASSUME NEW S, NEW x \in S, NEW y \in S
  PROVE  /\ <<x>> \in Seq(S) /\ Len(<<x>>) = 1
         /\ <<x, y>> \in Seq(S) /\ Len(<<x, y>>) = 2 /\ <<x>> \o <<y>> = <<x, y>>
<1>1. <<x>> \in Seq(S) /\ <<y>> \in Seq(S) /\ Len(<<x>>) = 1 /\ Len(<<y>>) = 1
  OBVIOUS
<1>2. <<x, y>> \in Seq(S) /\ Len(<<x, y>>) = 2
  OBVIOUS
<1> DEFINE a == <<x>>
           b == <<y>>
           c == <<x, y>>
<1>3. a[1] = x /\ b[1] = y /\ c[1] = x /\ c[2] = y
  OBVIOUS
<1> HIDE DEF a, b, c
<1>4. /\ a \o b \in Seq(S) /\ Len(a \o b) = 2
      /\ (a \o b)[1] = x /\ (a \o b)[2] = y
  <2>1. /\ a \o b \in Seq(S) /\ Len(a \o b) = 1 + 1
        /\ \A i \in 1..1 : (a \o b)[i] = a[i] /\ (a \o b)[1 + i] = b[i]
    BY <1>1, Joined DEF a, b
  <2>2. 1 \in 1..1 /\ 1 + 1 = 2
    OBVIOUS
  <2> QED
    BY <1>3, <2>1, <2>2
<1>5. \A i \in 1..2 : i = 1 \/ i = 2
  OBVIOUS
<1>6. a \o b = c
  BY <1>2, <1>3, <1>4, <1>5, SeqEqual DEF c
<1> QED
  BY <1>1, <1>2, <1>6 DEF a, b, c

(* What holds the elements of p and then x is p with x appended. *)
LEMMA AppendIs ==
  ASSUME NEW S, NEW p \in Seq(S), NEW x \in S, NEW q \in Seq(S),
         Len(q) = Len(p) + 1, \A i \in 1..Len(p) : q[i] = p[i], q[Len(p) + 1] = x
  PROVE  q = Append(p, x)
<1> DEFINE n == Len(p)
           a == Append(p, x)
<1>1. a \in Seq(S) /\ Len(a) = n + 1
  BY AppendProperties
<1>2. a[n + 1] = x /\ \A i \in 1..n : a[i] = p[i]
  BY AppendProperties
<1>3. n \in Nat
  BY LenProperties
<1>4. \A i \in 1..(n + 1) : i \in 1..n \/ i = n + 1
  BY <1>3
<1> HIDE DEF n, a
<1>5. Len(q) = n + 1 /\ q[n + 1] = x /\ \A i \in 1..n : q[i] = p[i]
  BY DEF n
<1>6. \A i \in 1..Len(q) : q[i] = a[i]
  BY <1>2, <1>4, <1>5
<1> QED
  BY <1>1, <1>5, <1>6, SeqEqual DEF a

(* A fact of all sequences holds of each if it passes from each to one that *)
(* is an element longer; Bad are those of which it fails.                   *)
LEMMA SeqsWithout ==
  ASSUME NEW S, NEW Bad \in SUBSET Seq(S), <<>> \notin Bad,
         \A f \in Seq(S), c \in S : Append(f, c) \in Bad => f \in Bad
  PROVE  Bad = {}
<1> SUFFICES ASSUME Bad # {} PROVE FALSE
  OBVIOUS
<1> DEFINE T == {Len(s) : s \in Bad}
<1>0. ASSUME NEW s \in Bad PROVE s \in Seq(S) /\ Len(s) \in Nat /\ s # <<>>
  <2>1. s \in Seq(S) /\ s # <<>>
    OBVIOUS
  <2> QED
    BY <2>1, LenProperties
<1>1. T \in SUBSET Nat /\ T # {}
  BY <1>0
<1>2. PICK n \in T : \A k \in T : n <= k
  <2> HIDE DEF T
  <2> QED
    BY <1>1, LeastElement
<1>3. PICK s \in Bad : Len(s) = n
  BY <1>2
<1>4. PICK f \in Seq(S), c \in S : s = Append(f, c) /\ Len(f) + 1 = Len(s) /\ Len(f) \in Nat
  <2>1. s \in Seq(S) /\ s # <<>>
    BY <1>0, <1>3
  <2> QED
    BY <2>1, SeqEnds
<1>5. f \in Bad
  BY <1>3, <1>4
<1>6. Len(f) \in T
  BY <1>5
<1>7. n <= Len(f) /\ Len(f) + 1 = n /\ Len(f) \in Nat
  <2> HIDE DEF T
  <2> QED
    BY <1>2, <1>3, <1>4, <1>6
<1> QED
  BY <1>7

-----------------------------------------------------------------------------
(* What a token is replaced by. *)
Escape(table, x) == IF x \in DOMAIN table THEN table[x] ELSE <<x>>

(* Every element of S is replaced by elements of T. *)
Replaces(table, S, T) == \A x \in S : Escape(table, x) \in Seq(T)

(* Escaped goes token by token. *)
LEMMA EscapedAppend ==
  ASSUME NEW S, NEW T, NEW table, Replaces(table, S, T), NEW s \in Seq(S), NEW c \in S
  PROVE  /\ Escaped(s, table) \in Seq(T)
         /\ Escaped(Append(s, c), table) = Escaped(s, table) \o Escape(table, c)
<1> DEFINE n == Len(s)
           a == Append(s, c)
           p == [i \in DOMAIN s |-> Escape(table, s[i])]
           q == [i \in DOMAIN a |-> Escape(table, a[i])]
<1>1. n \in Nat /\ DOMAIN s = 1..n /\ \A i \in 1..n : s[i] \in S
  BY LenProperties, ElementOfSeq
<1>2. a \in Seq(S) /\ Len(a) = n + 1 /\ a[n + 1] = c /\ \A i \in 1..n : a[i] = s[i]
  BY AppendProperties
<1> HIDE DEF n, a
<1>3. DOMAIN a = 1..(n + 1) /\ \A i \in 1..(n + 1) : a[i] \in S
  BY <1>2, LenProperties, ElementOfSeq
<1>4. p \in [1..n -> Seq(T)] /\ q \in [1..(n + 1) -> Seq(T)]
  BY <1>1, <1>3 DEF Replaces
<1>5. n + 1 \in Nat /\ n + 1 \in 1..(n + 1) /\ \A i \in 1..n : i \in 1..(n + 1)
  BY <1>1
<1>6. q[n + 1] = Escape(table, c) /\ \A i \in 1..n : q[i] = p[i]
  BY <1>1, <1>2, <1>3, <1>5
<1>7. FlattenSeq(p) = Escaped(s, table) /\ FlattenSeq(q) = Escaped(a, table)
  BY DEF Escaped, Escape
<1> HIDE DEF p, q
<1>8. p \in Seq(Seq(T)) /\ Len(p) = n /\ q \in Seq(Seq(T)) /\ Len(q) = n + 1
  BY <1>1, <1>4, <1>5, ListIsSeq
<1>9. Escape(table, c) \in Seq(T)
  BY DEF Replaces
<1>10. q = Append(p, Escape(table, c))
  BY <1>6, <1>8, <1>9, AppendIs
<1> QED
  BY <1>7, <1>8, <1>9, <1>10, FlattenAppend DEF a

(* There is nothing to escape in the empty text. *)
LEMMA EscapedEmpty == ASSUME NEW table PROVE Escaped(<<>>, table) = <<>>
<1>1. DOMAIN <<>> = {} /\ Len(<<>>) = 0
  OBVIOUS
<1>2. [i \in DOMAIN <<>> |-> IF <<>>[i] \in DOMAIN table THEN table[<<>>[i]]
                             ELSE <<<<>>[i]>>] = <<>>
  OBVIOUS
<1> QED
  BY <1>2, FlattenEmpty DEF Escaped

-----------------------------------------------------------------------------
(* The text that Unescape makes of the token at i. *)
Named(e, i) == i > 1 /\ e[i - 1] = "&"
Undone(e, i) ==
  CASE e[i] = "&" -> <<>>
    [] Named(e, i) /\ e[i] # "&" -> SetToSeq({c \in DOMAIN EntityOf : EntityOf[c] = e[i]})
    [] OTHER -> <<e[i]>>

(* The sequences of no element and of one. *)
LEMMA SetToSeqOne ==
  ASSUME NEW c
  PROVE  SetToSeq({c}) = <<c>> /\ SetToSeq({}) = <<>>
<1>1. Cardinality({c}) = 1 /\ Cardinality({}) = 0
  BY FS_EmptySet, FS_Singleton
<1>2. SetToSeq({c}) = <<c>>
  <2>1. <<c>> \in [1..1 -> {c}] /\ IsInjective(<<c>>)
    BY DEF IsInjective
  <2>2. \E f \in [1..1 -> {c}] : IsInjective(f)
    BY <2>1
  <2>3. SetToSeq({c}) \in [1..1 -> {c}]
    BY <1>1, <2>2 DEF SetToSeq
  <2> QED
    BY <2>3
<1>3. SetToSeq({}) = <<>>
  <2>1. <<>> \in [1..0 -> {}] /\ IsInjective(<<>>)
    BY DEF IsInjective
  <2>2. \E f \in [1..0 -> {}] : IsInjective(f)
    BY <2>1
  <2>3. SetToSeq({}) \in [1..0 -> {}]
    BY <1>1, <2>2 DEF SetToSeq
  <2> QED
    BY <2>3
<1> QED
  BY <1>2, <1>3

(* The three characters have an entity each, and no two the same one. *)
LEMMA EntityIs ==
  /\ DOMAIN EntityOf = {"&", "<", ">"} /\ Entities = {"amp;", "lt;", "gt;"}
  /\ EntityOf["&"] = "amp;" /\ EntityOf["<"] = "lt;" /\ EntityOf[">"] = "gt;"
  /\ \A c \in DOMAIN EntityOf : {d \in DOMAIN EntityOf : EntityOf[d] = EntityOf[c]} = {c}
  /\ \A x : x \notin Entities => {d \in DOMAIN EntityOf : EntityOf[d] = x} = {}
<1>1. /\ DOMAIN EntityOf = {"&", "<", ">"}
      /\ EntityOf["&"] = "amp;" /\ EntityOf["<"] = "lt;" /\ EntityOf[">"] = "gt;"
  BY DEF EntityOf
<1>2. Entities = {"amp;", "lt;", "gt;"}
  BY <1>1 DEF Entities
<1> QED
  BY <1>1, <1>2

(* What Unescape makes of one token is text. *)
LEMMA UndoneSeq ==
  ASSUME NEW U, {"&", "<", ">"} \subseteq U, NEW e, NEW i, e[i] \in U
  PROVE  Undone(e, i) \in Seq(U)
<1> DEFINE D == {c \in DOMAIN EntityOf : EntityOf[c] = e[i]}
<1>1. CASE e[i] \in Entities
  <2>1. PICK c \in DOMAIN EntityOf : e[i] = EntityOf[c]
    BY <1>1 DEF Entities
  <2>2. D = {c} /\ c \in U
    BY <2>1, EntityIs
  <2> HIDE DEF D
  <2>3. SetToSeq(D) \in Seq(U) /\ <<e[i]>> \in Seq(U) /\ <<>> \in Seq(U)
    <3>1. SetToSeq(D) = <<c>>
      BY <2>2, SetToSeqOne
    <3> QED
      BY <2>2, <3>1, ShortSeqs, EmptySeq
  <2> QED
    BY <2>3 DEF Undone, D
<1>2. CASE e[i] \notin Entities
  <2>1. SetToSeq(D) = <<>>
    BY <1>2, EntityIs, SetToSeqOne
  <2> HIDE DEF D
  <2>2. SetToSeq(D) \in Seq(U) /\ <<e[i]>> \in Seq(U) /\ <<>> \in Seq(U)
    BY <2>1
  <2> QED
    BY <2>2 DEF Undone, D
<1> QED
  BY <1>1, <1>2

(* One more token changes nothing in what was read of the others. *)
LEMMA UnescapeAppend ==
  ASSUME NEW U, {"&", "<", ">"} \subseteq U, NEW e \in Seq(U), NEW x \in U
  PROVE  /\ Unescape(e).text \in Seq(U)
         /\ Unescape(Append(e, x)).text
              = Unescape(e).text \o Undone(Append(e, x), Len(e) + 1)
<1> DEFINE n == Len(e)
           a == Append(e, x)
           p == [i \in DOMAIN e |-> Undone(e, i)]
           q == [i \in DOMAIN a |-> Undone(a, i)]
<1>1. n \in Nat /\ DOMAIN e = 1..n /\ \A i \in 1..n : e[i] \in U
  BY LenProperties, ElementOfSeq
<1>2. a \in Seq(U) /\ Len(a) = n + 1 /\ a[n + 1] = x /\ \A i \in 1..n : a[i] = e[i]
  BY AppendProperties
<1> HIDE DEF n, a
<1>3. DOMAIN a = 1..(n + 1) /\ \A i \in 1..(n + 1) : a[i] \in U
  BY <1>2, LenProperties, ElementOfSeq
<1>4. p \in [1..n -> Seq(U)] /\ q \in [1..(n + 1) -> Seq(U)]
  BY <1>1, <1>3, UndoneSeq
<1>5. n + 1 \in Nat /\ n + 1 \in 1..(n + 1) /\ \A i \in 1..n : i \in 1..(n + 1)
  BY <1>1
<1>6. ASSUME NEW i \in 1..n PROVE Undone(a, i) = Undone(e, i)
  <2>1. Named(a, i) <=> Named(e, i)
    <3>1. i > 1 => i - 1 \in 1..n
      BY <1>1
    <3> QED
      BY <1>2, <3>1 DEF Named
  <2> QED
    BY <1>2, <2>1 DEF Undone
<1>7. q[n + 1] = Undone(a, n + 1) /\ \A i \in 1..n : q[i] = p[i]
  BY <1>1, <1>3, <1>5, <1>6
<1>8. FlattenSeq(p) = Unescape(e).text /\ FlattenSeq(q) = Unescape(a).text
  BY DEF Unescape, Undone, Named
<1> HIDE DEF p, q
<1>9. p \in Seq(Seq(U)) /\ Len(p) = n /\ q \in Seq(Seq(U)) /\ Len(q) = n + 1
  BY <1>1, <1>4, <1>5, ListIsSeq
<1>10. Undone(a, n + 1) \in Seq(U)
  BY <1>3, <1>5, UndoneSeq
<1>11. q = Append(p, Undone(a, n + 1))
  BY <1>7, <1>9, <1>10, AppendIs
<1> QED
  BY <1>8, <1>9, <1>10, <1>11, FlattenAppend DEF a, n

(* Unescape reads nothing from an empty body. *)
LEMMA UnescapeEmpty == Unescape(<<>>).text = <<>>
<1> DEFINE p == [i \in DOMAIN <<>> |-> Undone(<<>>, i)]
<1>1. p = <<>>
  OBVIOUS
<1>2. Unescape(<<>>).text = FlattenSeq(p)
  BY DEF Unescape, Undone, Named
<1> QED
  BY <1>1, <1>2, FlattenEmpty

(* The references that XmlContentEscape makes. *)
XmlTable == [c \in DOMAIN EntityOf |-> <<"&", EntityOf[c]>>]

(* XmlContentEscape gives a character its reference and keeps the rest. *)
LEMMA XmlEscapeIs ==
  ASSUME NEW x
  PROVE  /\ x \in DOMAIN EntityOf => Escape(XmlTable, x) = <<"&", EntityOf[x]>>
         /\ x \notin DOMAIN EntityOf => Escape(XmlTable, x) = <<x>>
BY DEF Escape, XmlTable

(* An escaped text has no tags in it, every reference in it is whole, and   *)
(* undoing the references gives the text back.                              *)
Escapes(e, s) ==
  /\ \A i \in 1..Len(e) : /\ e[i] \notin {"<", ">"}
                          /\ e[i] = "&" => i < Len(e) /\ e[i + 1] \in Entities
  /\ Unescape(e).text = s

(* One ordinary token more. *)
LEMMA EscapesToken ==
  ASSUME NEW U, {"&", "<", ">"} \subseteq U, NEW s \in Seq(U), NEW e \in Seq(U),
         Escapes(e, s), NEW c \in U, c \notin DOMAIN EntityOf
  PROVE  Escapes(e \o <<c>>, Append(s, c))
<1> DEFINE n == Len(e)
           a == Append(e, c)
<1>1. e \o <<c>> = a
  BY AppendIsConcat
<1>2. a \in Seq(U) /\ Len(a) = n + 1 /\ a[n + 1] = c /\ \A i \in 1..n : a[i] = e[i]
  BY AppendProperties
<1>3. Unescape(a).text = Unescape(e).text \o Undone(a, n + 1)
  BY UnescapeAppend
<1>4. n \in Nat /\ c \notin {"&", "<", ">"}
  BY LenProperties, EntityIs
<1> HIDE DEF n, a
<1>5. Undone(a, n + 1) = <<c>>
  <2>1. ~Named(a, n + 1)
    <3> SUFFICES ASSUME Named(a, n + 1) PROVE FALSE
      OBVIOUS
    <3>1. n \in 1..n /\ (n + 1) - 1 = n
      BY <1>4 DEF Named
    <3>2. e[n] = "&"
      BY <1>2, <3>1 DEF Named
    <3>3. n < n
      BY <3>1, <3>2 DEF Escapes, n
    <3> QED
      BY <3>3, <1>4
  <2> QED
    BY <1>2, <1>4, <2>1 DEF Undone
<1>6. Unescape(a).text = Append(s, c)
  BY <1>3, <1>5, AppendIsConcat DEF Escapes
<1>7. ASSUME NEW i \in 1..(n + 1)
      PROVE  /\ a[i] \notin {"<", ">"}
             /\ a[i] = "&" => i < n + 1 /\ a[i + 1] \in Entities
  <2>1. CASE i = n + 1
    BY <1>2, <1>4, <2>1
  <2>2. CASE i # n + 1
    <3>1. i \in 1..n
      BY <1>4, <2>2
    <3>2. a[i] \notin {"<", ">"}
      BY <1>2, <3>1 DEF Escapes, n
    <3>3. ASSUME a[i] = "&" PROVE i < n + 1 /\ a[i + 1] \in Entities
      <4>1. i < n /\ e[i + 1] \in Entities
        BY <1>2, <3>1, <3>3 DEF Escapes, n
      <4>2. i + 1 \in 1..n /\ i < n + 1
        BY <1>4, <3>1, <4>1
      <4> QED
        BY <1>2, <4>1, <4>2
    <3> QED
      BY <3>2, <3>3
  <2> QED
    BY <2>1, <2>2
<1>8. Escapes(a, Append(s, c))
  BY <1>2, <1>6, <1>7 DEF Escapes
<1> QED
  BY <1>1, <1>8

(* One reference more. *)
LEMMA EscapesReference ==
  ASSUME NEW U, {"&", "<", ">"} \cup Entities \subseteq U, NEW s \in Seq(U), NEW e \in Seq(U),
         Escapes(e, s), NEW c \in DOMAIN EntityOf
  PROVE  Escapes(e \o <<"&", EntityOf[c]>>, Append(s, c))
<1> DEFINE n == Len(e)
           x == EntityOf[c]
           a == Append(e, "&")
           b == Append(a, x)
<1>0. /\ "&" \in U /\ x \in U /\ c \in U /\ x \in Entities
      /\ x \notin {"&", "<", ">"} /\ {"&", "<", ">"} \subseteq U
  BY EntityIs DEF Entities
<1>1. e \o <<"&", x>> = b
  <2>1. a = e \o <<"&">> /\ b = a \o <<x>>
    <3>1. a \in Seq(U)
      BY <1>0, AppendProperties
    <3> QED
      BY <1>0, <3>1, AppendIsConcat
  <2>2. <<"&">> \in Seq(U) /\ <<x>> \in Seq(U) /\ <<"&">> \o <<x>> = <<"&", x>>
    BY <1>0, ShortSeqs
  <2> HIDE DEF a, b, x
  <2> QED
    BY <2>1, <2>2, ConcatAssociative
<1>2. a \in Seq(U) /\ Len(a) = n + 1 /\ a[n + 1] = "&" /\ \A i \in 1..n : a[i] = e[i]
  BY <1>0, AppendProperties
<1> HIDE DEF x
<1>3. Unescape(a).text = Unescape(e).text \o Undone(a, n + 1)
  BY <1>0, UnescapeAppend
<1> HIDE DEF a
<1>4. /\ b \in Seq(U) /\ Len(b) = n + 2 /\ b[n + 2] = x
      /\ b[n + 1] = "&" /\ \A i \in 1..n : b[i] = e[i]
  <2>1. n \in Nat
    BY LenProperties
  <2>2. /\ b \in Seq(U) /\ Len(b) = Len(a) + 1 /\ b[Len(a) + 1] = x
        /\ \A i \in 1..Len(a) : b[i] = a[i]
    BY <1>0, <1>2, AppendProperties
  <2> HIDE DEF b, n
  <2>3. Len(a) = n + 1 /\ (n + 1) + 1 = n + 2 /\ n + 1 \in 1..(n + 1)
        /\ \A i \in 1..n : i \in 1..(n + 1)
    BY <1>2, <2>1
  <2> QED
    BY <1>2, <2>2, <2>3
<1>5. Unescape(b).text = Unescape(a).text \o Undone(b, n + 2)
  <2>1. n \in Nat /\ Len(a) + 1 = n + 2
    BY <1>2, LenProperties
  <2>2. Unescape(b).text = Unescape(a).text \o Undone(b, Len(a) + 1)
    BY <1>0, <1>2, UnescapeAppend
  <2> QED
    BY <2>1, <2>2
<1>6. n \in Nat
  BY LenProperties
<1> HIDE DEF n, b
<1>7. Undone(a, n + 1) = <<>>
  BY <1>2 DEF Undone
<1>8. Undone(b, n + 2) = <<c>>
  <2>1. Named(b, n + 2)
    BY <1>4, <1>6 DEF Named
  <2>2. {d \in DOMAIN EntityOf : EntityOf[d] = x} = {c}
    BY EntityIs DEF x
  <2>3. SetToSeq({d \in DOMAIN EntityOf : EntityOf[d] = x}) = <<c>>
    BY <2>2, SetToSeqOne
  <2> QED
    BY <1>0, <1>4, <2>1, <2>3 DEF Undone
<1>9. Unescape(b).text = Append(s, c)
  <2>1. Unescape(a).text = s
    BY <1>3, <1>7, ConcatEmptySeq DEF Escapes
  <2> QED
    BY <1>0, <1>5, <1>8, <2>1, AppendIsConcat
<1>10. ASSUME NEW i \in 1..(n + 2)
       PROVE  /\ b[i] \notin {"<", ">"}
              /\ b[i] = "&" => i < n + 2 /\ b[i + 1] \in Entities
  <2>1. CASE i = n + 2
    BY <1>0, <1>4, <2>1
  <2>2. CASE i = n + 1
    <3>1. i + 1 = n + 2 /\ i < n + 2
      BY <1>6, <2>2
    <3> QED
      BY <1>0, <1>4, <2>2, <3>1
  <2>3. CASE i # n + 2 /\ i # n + 1
    <3>1. i \in 1..n
      BY <1>6, <2>3
    <3>2. b[i] \notin {"<", ">"}
      BY <1>4, <3>1 DEF Escapes, n
    <3>3. ASSUME b[i] = "&" PROVE i < n + 2 /\ b[i + 1] \in Entities
      <4>1. i < n /\ e[i + 1] \in Entities
        BY <1>4, <3>1, <3>3 DEF Escapes, n
      <4>2. i + 1 \in 1..n /\ i < n + 2
        BY <1>6, <3>1, <4>1
      <4> QED
        BY <1>4, <4>1, <4>2
    <3> QED
      BY <3>2, <3>3
  <2> QED
    BY <2>1, <2>2, <2>3
<1>11. Escapes(b, Append(s, c))
  BY <1>4, <1>9, <1>10 DEF Escapes
<1> QED
  BY <1>1, <1>11 DEF x

(* XmlContentEscape makes a body that stands for its text, whatever the     *)
(* text.                                                                    *)
LEMMA XmlEscapes ==
  ASSUME NEW S, NEW s \in Seq(S)
  PROVE  /\ Escapes(XmlContentEscape(s), s)
         /\ XmlContentEscape(s) \in Seq(S \cup {"&", "<", ">"} \cup Entities)
<1> DEFINE U == S \cup {"&", "<", ">"} \cup Entities
           Bad == {t \in Seq(U) : ~Escapes(XmlContentEscape(t), t)}
<1>1. \A t : XmlContentEscape(t) = Escaped(t, XmlTable)
  BY DEF XmlContentEscape, XmlTable
<1>2. \A x \in U : Escape(XmlTable, x) \in Seq(U)
  <2> TAKE x \in U
  <2>1. CASE x \in DOMAIN EntityOf
    <3>1. EntityOf[x] \in U /\ "&" \in U
      BY <2>1 DEF Entities
    <3> HIDE DEF U
    <3> QED
      BY <2>1, <3>1, XmlEscapeIs, ShortSeqs
  <2>2. CASE x \notin DOMAIN EntityOf
    <3> HIDE DEF U
    <3> QED
      BY <2>2, XmlEscapeIs, ShortSeqs
  <2> QED
    BY <2>1, <2>2
<1>3. {"&", "<", ">"} \cup Entities \subseteq U /\ S \subseteq U
  OBVIOUS
<1> HIDE DEF U
<1> DEFINE table == XmlTable
<1> HIDE DEF table
<1>9. \A t \in Seq(U), c \in U : /\ Escaped(t, table) \in Seq(U)
                                  /\ Escaped(Append(t, c), table)
                                       = Escaped(t, table) \o Escape(table, c)
  <2>1. Replaces(table, U, U)
    BY <1>2 DEF table, Replaces
  <2> QED
    BY <2>1, EscapedAppend
<1>4. ASSUME NEW t \in Seq(U), NEW c \in U, Escapes(XmlContentEscape(t), t)
      PROVE  Escapes(XmlContentEscape(Append(t, c)), Append(t, c))
  <2> DEFINE e == XmlContentEscape(t)
  <2>1. e \in Seq(U) /\ XmlContentEscape(Append(t, c)) = e \o Escape(XmlTable, c)
    BY <1>1, <1>9 DEF table
  <2> HIDE DEF e
  <2>2. Escapes(e, t) /\ {"&", "<", ">"} \subseteq U
    BY <1>3, <1>4 DEF e
  <2>3. CASE c \in DOMAIN EntityOf
    BY <1>3, <2>1, <2>2, <2>3, XmlEscapeIs, EscapesReference
  <2>4. CASE c \notin DOMAIN EntityOf
    BY <2>1, <2>2, <2>4, XmlEscapeIs, EscapesToken
  <2> QED
    BY <2>3, <2>4
<1>5. Escapes(XmlContentEscape(<<>>), <<>>)
  <2>1. XmlContentEscape(<<>>) = <<>>
    BY <1>1, EscapedEmpty
  <2> QED
    BY <2>1, UnescapeEmpty DEF Escapes
<1>6. Bad = {}
  <2>1. Bad \in SUBSET Seq(U) /\ <<>> \notin Bad
    BY <1>5
  <2>2. \A f \in Seq(U), c \in U : Append(f, c) \in Bad => f \in Bad
    BY <1>4
  <2> HIDE DEF Bad
  <2> QED
    BY <2>1, <2>2, SeqsWithout
<1>7. s \in Seq(U)
  BY <1>3, SeqMonotonic
<1>8. XmlContentEscape(s) \in Seq(U)
  <2>1. CASE s = <<>>
    <3>1. Escaped(<<>>, XmlTable) = <<>>
      BY EscapedEmpty
    <3> QED
      BY <1>1, <2>1, <3>1, EmptySeq
  <2>2. CASE s # <<>>
    <3>1. PICK f \in Seq(U), c \in U : s = Append(f, c)
      BY <1>7, <2>2, SeqEnds
    <3>2. Escaped(s, XmlTable) \in Seq(U)
      BY <1>7, <1>9, <3>1 DEF table
    <3> QED
      BY <1>1, <3>2
  <2> QED
    BY <2>1, <2>2
<1> QED
  BY <1>6, <1>7, <1>8 DEF U

-----------------------------------------------------------------------------
(* Joined, by the lengths of the parts. *)
Has(S, s, n) == s \in Seq(S) /\ Len(s) = n /\ n \in Nat

(* j is s, then t. *)
Joins(S, j, s, t, m, n) ==
  /\ j \in Seq(S) /\ Len(j) = m + n
  /\ \A i \in 1..m : j[i] = s[i]
  /\ \A i \in 1..n : j[m + i] = t[i]

(* Where the elements of two joined sequences are found. *)
LEMMA JoinedAs ==
  ASSUME NEW S, NEW s, NEW t, NEW m, NEW n, Has(S, s, m), Has(S, t, n)
  PROVE  Joins(S, s \o t, s, t, m, n)
<1> DEFINE j == s \o t
<1>0. s \in Seq(S) /\ t \in Seq(S)
  BY DEF Has
<1>1. /\ j \in Seq(S) /\ Len(j) = Len(s) + Len(t)
      /\ \A i \in 1..Len(s) : j[i] = s[i]
      /\ \A i \in 1..Len(t) : j[Len(s) + i] = t[i]
  BY <1>0, Joined
<1> HIDE DEF j
<1>2. Len(s) = m /\ Len(t) = n /\ m \in Nat /\ n \in Nat
  BY DEF Has
<1>3. /\ Len(j) = m + n
      /\ \A i \in 1..m : j[i] = s[i]
      /\ \A i \in 1..n : j[m + i] = t[i]
  BY <1>1, <1>2
<1> QED
  BY <1>1, <1>3 DEF j, Joins

(* What is put between the tags. *)
Wire(b) == <<"nl">> \o b \o <<"nl">> \o ClosingTag \o <<"nl">>

WireTokens == {"nl", "<", "/sec:fence", ">"}

(* The tokens behind an opening tag: framing, body and closing tag. *)
LEMMA WireIs ==
  ASSUME NEW U, WireTokens \subseteq U, NEW b \in Seq(U)
  PROVE  LET w == Wire(b)
             n == Len(b)
         IN  /\ w \in Seq(U) /\ Len(w) = n + 6 /\ n \in Nat
             /\ \A i \in 1..n : w[i + 1] = b[i]
             /\ w[n + 2] = "nl" /\ w[n + 3] = "<" /\ w[n + 4] = "/sec:fence" /\ w[n + 5] = ">"
<1> DEFINE w == Wire(b)
           n == Len(b)
           nl == <<"nl">>
           p == nl \o b
           q == p \o nl
           r == q \o ClosingTag
<1>1. Has(U, nl, 1) /\ nl[1] = "nl"
  <2>1. "nl" \in U
    BY DEF WireTokens
  <2> QED
    BY <2>1, ShortSeqs DEF Has
<1>2. /\ Has(U, ClosingTag, 3)
      /\ ClosingTag[1] = "<" /\ ClosingTag[2] = "/sec:fence" /\ ClosingTag[3] = ">"
  BY DEF ClosingTag, WireTokens, Has
<1>3. w = r \o nl
  BY DEF Wire
<1> HIDE DEF w, nl
<1>4. n \in Nat
  BY LenProperties
<1>0. Has(U, b, n)
  BY <1>4 DEF Has
<1>5. Has(U, p, n + 1) /\ p[1] = "nl" /\ \A i \in 1..n : p[i + 1] = b[i]
  <2>0. Joins(U, p, nl, b, 1, n)
    BY <1>0, <1>1, JoinedAs
  <2>1. /\ p \in Seq(U) /\ Len(p) = 1 + n
        /\ \A i \in 1..n : p[1 + i] = b[i]
    BY <2>0 DEF Joins
  <2>2. \A i \in 1..1 : p[i] = nl[i]
    BY <2>0 DEF Joins
  <2>3. 1 \in 1..1 /\ 1 + n = n + 1 /\ \A i \in 1..n : 1 + i = i + 1
    BY <1>4
  <2> HIDE DEF p, n
  <2> QED
    BY <1>1, <1>4, <2>1, <2>2, <2>3 DEF Has
<1> HIDE DEF p, n
<1>6. /\ Has(U, q, n + 2) /\ q[n + 2] = "nl"
      /\ \A i \in 1..n : q[i + 1] = b[i]
  <2>0. Joins(U, q, p, nl, n + 1, 1)
    BY <1>1, <1>5, JoinedAs
  <2> HIDE DEF q
  <2>1. q \in Seq(U) /\ Len(q) = (n + 1) + 1 /\ \A i \in 1..1 : q[(n + 1) + i] = nl[i]
    BY <2>0 DEF Joins
  <2>2. \A i \in 1..(n + 1) : q[i] = p[i]
    BY <2>0 DEF Joins
  <2>3. 1 \in 1..1 /\ (n + 1) + 1 = n + 2 /\ \A i \in 1..n : i + 1 \in 1..(n + 1)
    BY <1>4
  <2> HIDE DEF q
  <2> QED
    BY <1>1, <1>4, <1>5, <2>1, <2>2, <2>3 DEF Has
<1> HIDE DEF q
<1>7. /\ Has(U, r, n + 5) /\ r[n + 2] = "nl"
      /\ \A i \in 1..n : r[i + 1] = b[i]
      /\ r[n + 3] = "<" /\ r[n + 4] = "/sec:fence" /\ r[n + 5] = ">"
  <2>0. Joins(U, r, q, ClosingTag, n + 2, 3)
    BY <1>2, <1>6, JoinedAs
  <2> HIDE DEF r
  <2>1. /\ r \in Seq(U) /\ Len(r) = (n + 2) + 3
        /\ \A i \in 1..3 : r[(n + 2) + i] = ClosingTag[i]
    BY <2>0 DEF Joins
  <2>2. \A i \in 1..(n + 2) : r[i] = q[i]
    BY <2>0 DEF Joins
  <2>3. /\ (n + 2) + 1 = n + 3 /\ (n + 2) + 2 = n + 4 /\ (n + 2) + 3 = n + 5
        /\ \A i \in 1..n : i + 1 \in 1..(n + 2)
        /\ n + 2 \in 1..(n + 2) /\ 1 \in 1..3 /\ 2 \in 1..3 /\ 3 \in 1..3
    BY <1>4
  <2> HIDE DEF r
  <2> QED
    BY <1>2, <1>4, <1>6, <2>1, <2>2, <2>3 DEF Has
<1> HIDE DEF r
<1>8. /\ w \in Seq(U) /\ Len(w) = n + 6 /\ w[n + 2] = "nl"
      /\ \A i \in 1..n : w[i + 1] = b[i]
      /\ w[n + 3] = "<" /\ w[n + 4] = "/sec:fence" /\ w[n + 5] = ">"
  <2>0. Joins(U, r \o nl, r, nl, n + 5, 1)
    BY <1>1, <1>7, JoinedAs
  <2>1. w \in Seq(U) /\ Len(w) = (n + 5) + 1
    BY <1>3, <2>0 DEF Joins
  <2>2. \A i \in 1..(n + 5) : w[i] = r[i]
    BY <1>3, <2>0 DEF Joins
  <2>3. /\ (n + 5) + 1 = n + 6
        /\ \A i \in 1..n : i + 1 \in 1..(n + 5)
        /\ n + 2 \in 1..(n + 5) /\ n + 3 \in 1..(n + 5)
        /\ n + 4 \in 1..(n + 5) /\ n + 5 \in 1..(n + 5)
    BY <1>4
  <2> QED
    BY <1>7, <2>1, <2>2, <2>3
<1> QED
  BY <1>4, <1>8 DEF w, n

(* The tag is where its three tokens are. *)
LEMMA TagAt ==
  ASSUME NEW U, NEW w \in Seq(U), NEW i \in 1..(Len(w) - 2)
  PROVE  SubSeq(w, i, i + 2) = ClosingTag
           <=> w[i] = "<" /\ w[i + 1] = "/sec:fence" /\ w[i + 2] = ">"
<1> DEFINE t == SubSeq(w, i, i + 2)
           c == ClosingTag
<1>1. Len(w) \in Nat
  BY LenProperties
<1>2. /\ i \in Nat \ {0} /\ i + 2 \in Nat /\ i + 2 <= Len(w)
      /\ i <= (i + 2) + 1 /\ (i + 2) - i + 1 = 3
  BY <1>1
<1>3. /\ t \in Seq(U) /\ Len(t) = 3
      /\ \A k \in 1..((i + 2) - i + 1) : t[k] = w[i + k - 1]
  BY <1>2, PartOf
<1> HIDE DEF t
<1>4. t[1] = w[i] /\ t[2] = w[i + 1] /\ t[3] = w[i + 2]
  <2>1. /\ 1 \in 1..((i + 2) - i + 1) /\ 2 \in 1..((i + 2) - i + 1)
        /\ 3 \in 1..((i + 2) - i + 1)
        /\ i + 1 - 1 = i /\ i + 2 - 1 = i + 1 /\ i + 3 - 1 = i + 2
    BY <1>2
  <2> QED
    BY <1>3, <2>1
<1>5. /\ c \in Seq({"<", "/sec:fence", ">"}) /\ Len(c) = 3
      /\ c[1] = "<" /\ c[2] = "/sec:fence" /\ c[3] = ">"
  BY DEF ClosingTag
<1> HIDE DEF c
<1>6. t \in Seq(U \cup {"<", "/sec:fence", ">"}) /\ c \in Seq(U \cup {"<", "/sec:fence", ">"})
  BY <1>3, <1>5, SeqMonotonic
<1>7. \A k \in 1..3 : k = 1 \/ k = 2 \/ k = 3
  OBVIOUS
<1>8. ASSUME w[i] = "<", w[i + 1] = "/sec:fence", w[i + 2] = ">" PROVE t = c
  <2>1. \A k \in 1..3 : t[k] = c[k]
    BY <1>4, <1>5, <1>7, <1>8
  <2> QED
    BY <1>3, <1>5, <1>6, <2>1, SeqEqual
<1>9. ASSUME t = c PROVE w[i] = "<" /\ w[i + 1] = "/sec:fence" /\ w[i + 2] = ">"
  BY <1>4, <1>5, <1>9
<1> QED
  BY <1>8, <1>9 DEF t, c

(* The first place where the element can end is where it is read to end. *)
LEMMA FirstEnd ==
  ASSUME NEW U, NEW fence, fence.wire \in Seq(U), NEW e \in 1..Len(fence.wire),
         EndsAt(fence, e), \A i \in 1..(e - 1) : ~EndsAt(fence, i)
  PROVE  ElementEnd(fence) = e
<1> DEFINE n == Len(fence.wire)
           d == [i \in DOMAIN fence.wire |-> i]
           I == {i \in 1..Len(d) : EndsAt(fence, d[i])}
<1>1. n \in Nat /\ DOMAIN fence.wire = 1..n
  BY LenProperties
<1>2. d \in [1..n -> Nat]
  BY <1>1
<1>3. d \in Seq(Nat) /\ Len(d) = n
  <2> HIDE DEF d, n
  <2> QED
    BY <1>1, <1>2, ListIsSeq
<1>4. I = {i \in 1..n : EndsAt(fence, i)}
  BY <1>1, <1>3
<1>5. ElementEnd(fence) = IF I # {} THEN Min(I) ELSE 0
  BY DEF SelectInSeq, ElementEnd
<1> HIDE DEF I, d, n
<1>6. e \in I /\ \A i \in I : e <= i /\ i \in 1..n
  <2>1. e \in 1..n
    BY DEF n
  <2>2. \A i \in 1..n : ~(e <= i) => i \in 1..(e - 1)
    BY <1>1, <2>1
  <2> QED
    BY <1>4, <2>1, <2>2
<1>7. Min(I) \in I /\ \A i \in I : Min(I) <= i
  BY <1>6 DEF Min
<1>8. Min(I) = e
  <2>1. Min(I) <= e /\ e <= Min(I) /\ Min(I) \in 1..n /\ e \in 1..n
    BY <1>6, <1>7
  <2> QED
    BY <1>1, <2>1
<1> QED
  BY <1>5, <1>6, <1>8 DEF d

(* What a gateway takes for the body, wherever it finds the element's end,  *)
(* is where the body began.                                                 *)
LEMMA BodyIs ==
  ASSUME NEW U, WireTokens \subseteq U, NEW b \in Seq(U), NEW m \in 0..Len(b)
  PROVE  Body(Wire(b), m + 3) = SubSeq(b, 1, m)
<1> DEFINE w == Wire(b)
           n == Len(b)
<1>1. w \in Seq(U) /\ Len(w) = n + 6 /\ n \in Nat /\ \A i \in 1..n : w[i + 1] = b[i]
  BY WireIs
<1> HIDE DEF w, n
<1>2. m \in 0..n /\ m \in Nat
  BY <1>1 DEF n
<1> DEFINE s == SubSeq(w, 2, m + 1)
           t == SubSeq(b, 1, m)
<1>3. /\ s \in Seq(U) /\ Len(s) = (m + 1) - 2 + 1
      /\ \A i \in 1..((m + 1) - 2 + 1) : s[i] = w[2 + i - 1]
  <2>1. 2 \in Nat \ {0} /\ m + 1 \in Nat /\ m + 1 <= Len(w) /\ 2 <= (m + 1) + 1
    BY <1>1, <1>2
  <2> QED
    BY <1>1, <2>1, PartOf
<1>4. t \in Seq(U) /\ Len(t) = m /\ \A i \in 1..m : t[i] = b[i]
  <2>1. m <= Len(b)
    BY <1>1, <1>2 DEF n
  <2> QED
    BY <1>2, <2>1, Prefix
<1>5. Body(w, m + 3) = s
  <2>1. (m + 3) - 2 = m + 1
    BY <1>2
  <2> QED
    BY <2>1 DEF Body
<1> HIDE DEF s, t
<1>6. (m + 1) - 2 + 1 = m /\ \A i \in 1..m : 2 + i - 1 = i + 1 /\ i \in 1..n
  BY <1>1, <1>2
<1>7. \A i \in 1..m : s[i] = t[i]
  BY <1>1, <1>3, <1>4, <1>6
<1> QED
  BY <1>3, <1>4, <1>5, <1>6, <1>7, SeqEqual DEF w, t

(* A text that was escaped for XML is what a gateway reads of its fence. *)
LEMMA XmlRecovered ==
  ASSUME NEW S, NEW s \in Seq(S), NEW key, NEW meta, meta.encoding # "cdata"
  PROVE  LET body == Recover(BuildFence(key, s, meta))
         IN  body.ok /\ body.text = s
<1> DEFINE U == S \cup {"&", "<", ">"} \cup Entities \cup WireTokens
           e == XmlContentEscape(s)
           n == Len(e)
           w == Wire(e)
           fence == BuildFence(key, s, meta)
<1>1. Escapes(e, s) /\ e \in Seq(S \cup {"&", "<", ">"} \cup Entities)
  BY XmlEscapes
<1>2. e \in Seq(U)
  <2>1. S \cup {"&", "<", ">"} \cup Entities \subseteq U
    OBVIOUS
  <2> HIDE DEF e, U
  <2> QED
    BY <1>1, <2>1, SeqMonotonic
<1>3. WireTokens \subseteq U
  OBVIOUS
<1>4. fence.wire = w /\ fence.meta = meta
  <2> HIDE DEF e
  <2> QED
    BY DEF BuildFence, Wire, e
<1> HIDE DEF e, U, fence
<1>5. /\ w \in Seq(U) /\ Len(w) = n + 6 /\ n \in Nat
      /\ \A i \in 1..n : w[i + 1] = e[i]
      /\ w[n + 2] = "nl" /\ w[n + 3] = "<" /\ w[n + 4] = "/sec:fence" /\ w[n + 5] = ">"
  BY <1>2, <1>3, WireIs
<1>6. \A i \in 1..n : /\ e[i] # "<"
                      /\ e[i] = "&" => i < n /\ e[i + 1] \in Entities
  BY <1>1 DEF Escapes
<1>7. Body(w, n + 3) = e
  <2>1. n \in 0..Len(e) /\ n \in Nat /\ n <= Len(e)
    BY <1>5
  <2>2. Body(w, n + 3) = SubSeq(e, 1, n)
    BY <1>2, <1>3, <2>1, BodyIs
  <2>3. SubSeq(e, 1, n) \in Seq(U) /\ Len(SubSeq(e, 1, n)) = n
        /\ \A i \in 1..n : SubSeq(e, 1, n)[i] = e[i]
    BY <1>2, <2>1, Prefix
  <2>4. SubSeq(e, 1, n) = e
    BY <1>2, <2>3, SeqEqual
  <2> QED
    BY <2>2, <2>4
<1>8. Unescape(e).ok /\ Unescape(e).text = s
  <2>1. DOMAIN e = 1..n
    BY <1>2, LenProperties
  <2>2. Unescape(e).ok =
          (\A i \in DOMAIN e : e[i] = "&" => i < Len(e) /\ e[i + 1] \in Entities)
    BY DEF Unescape
  <2>3. Unescape(e).text = s
    BY <1>1 DEF Escapes
  <2> QED
    BY <1>6, <2>1, <2>2, <2>3
<1> HIDE DEF w, n
<1>9. n + 3 \in 1..Len(w) /\ Len(w) - 2 = n + 4 /\ n + 3 \in 3..(n + 4)
  BY <1>5
<1>10. EndsAt(fence, n + 3)
  <2>1. (n + 3) + 1 = n + 4 /\ (n + 3) + 2 = n + 5 /\ n + 3 \in 1..(Len(w) - 2)
    BY <1>5
  <2>2. SubSeq(w, n + 3, (n + 3) + 2) = ClosingTag
    BY <1>5, <2>1, TagAt
  <2> QED
    BY <1>4, <1>9, <2>2 DEF EndsAt
<1>11. ASSUME NEW i \in 1..((n + 3) - 1) PROVE ~EndsAt(fence, i)
  <2> SUFFICES ASSUME EndsAt(fence, i) PROVE FALSE
    OBVIOUS
  <2>1. i \in 3..(Len(w) - 2) /\ SubSeq(w, i, i + 2) = ClosingTag
    BY <1>4 DEF EndsAt
  <2>2. i \in 1..(Len(w) - 2)
    BY <1>9, <2>1
  <2>3. w[i] = "<"
    BY <1>5, <2>1, <2>2, TagAt
  <2>4. CASE i = n + 2
    BY <1>5, <2>3, <2>4
  <2>5. CASE i # n + 2
    <3>1. i - 1 \in 1..n /\ (i - 1) + 1 = i
      BY <1>5, <2>1, <2>5
    <3>2. w[i] = e[i - 1] /\ e[i - 1] # "<"
      BY <1>5, <1>6, <3>1
    <3> QED
      BY <2>3, <3>2
  <2> QED
    BY <2>4, <2>5
<1>12. ElementEnd(fence) = n + 3
  <2>1. fence.wire \in Seq(U) /\ n + 3 \in 1..Len(fence.wire)
    BY <1>4, <1>5, <1>9
  <2> QED
    BY <1>10, <1>11, <2>1, FirstEnd
<1>13. Recover(fence) = Unescape(e)
  <2>1. n + 3 # 0 /\ n + 3 > 0
    BY <1>5
  <2> DEFINE end == ElementEnd(fence)
  <2>2. Recover(fence) = CASE end = 0 -> [ok |-> FALSE, text |-> <<>>]
        [] end > 0 /\ fence.meta.encoding = "cdata" -> Sections(Body(fence.wire, end))
        [] end > 0 /\ fence.meta.encoding # "cdata" -> Unescape(Body(fence.wire, end))
    BY DEF Recover
  <2>3. end = n + 3
    BY <1>12
  <2> HIDE DEF end
  <2> QED
    BY <1>4, <1>7, <2>1, <2>2, <2>3
<1> QED
  BY <1>8, <1>13 DEF fence

(* The words of a note. *)
NoteTokens == {"nl", "This content contained", "stroke", "hidden page elements",
               "invisible characters"}

(* SanitisationNote is text, for every count of what was removed. *)
LEMMA NoteIsText ==
  ASSUME NEW removed, removed.hiddenElements \in Nat, removed.invisibleChars \in Nat
  PROVE  SanitisationNote(removed) \in Seq(NoteTokens)
<1> DEFINE part(n, what) == IF n > 0 THEN Append([i \in 1..n |-> "stroke"], what) ELSE <<>>
           parts == part(removed.hiddenElements, "hidden page elements")
                      \o part(removed.invisibleChars, "invisible characters")
           start == <<"nl", "This content contained">>
<1>1. ASSUME NEW n \in Nat, NEW what \in NoteTokens PROVE part(n, what) \in Seq(NoteTokens)
  <2> DEFINE strokes == [i \in 1..n |-> "stroke"]
  <2>1. strokes \in [1..n -> NoteTokens]
    BY DEF NoteTokens
  <2> HIDE DEF strokes
  <2>2. strokes \in Seq(NoteTokens)
    BY <2>1, ListIsSeq
  <2>3. Append(strokes, what) \in Seq(NoteTokens) /\ <<>> \in Seq(NoteTokens)
    BY <2>2, AppendProperties, EmptySeq
  <2> QED
    BY <2>3 DEF strokes
<1>2. "hidden page elements" \in NoteTokens /\ "invisible characters" \in NoteTokens
  BY DEF NoteTokens
<1>3. parts \in Seq(NoteTokens)
  <2>1. part(removed.hiddenElements, "hidden page elements") \in Seq(NoteTokens)
    BY <1>1, <1>2
  <2>2. part(removed.invisibleChars, "invisible characters") \in Seq(NoteTokens)
    BY <1>1, <1>2
  <2> HIDE DEF part
  <2> QED
    BY <2>1, <2>2, ConcatProperties
<1>4. start \in Seq(NoteTokens)
  <2>1. "nl" \in NoteTokens /\ "This content contained" \in NoteTokens
    BY DEF NoteTokens
  <2> QED
    BY <2>1, ShortSeqs
<1>5. SanitisationNote(removed) = IF parts = <<>> THEN <<>> ELSE start \o parts
  BY DEF SanitisationNote
<1> HIDE DEF parts, start
<1>6. start \o parts \in Seq(NoteTokens) /\ <<>> \in Seq(NoteTokens)
  BY <1>3, <1>4, ConcatProperties, EmptySeq
<1> QED
  BY <1>5, <1>6

(* The text names one nonce, behind its first tag. *)
Names(U, p, nonce) ==
  /\ p \in Seq(U) /\ Len(p) \in Nat /\ Len(p) >= 5 /\ p[5] = nonce
  /\ \A i \in 1..Len(p) : p[i] = "nonce=" <=> i = 4

(* It still does when text without another is joined to it. *)
LEMMA NamesOnward ==
  ASSUME NEW U, NEW nonce, NEW p, Names(U, p, nonce), NEW t \in Seq(U \ {"nonce="})
  PROVE  Names(U, p \o t, nonce)
<1> DEFINE j == p \o t
           m == Len(p)
           n == Len(t)
<1>1. t \in Seq(U) /\ n \in Nat /\ \A i \in 1..n : t[i] # "nonce="
  <2>1. \A i \in 1..n : t[i] \in U \ {"nonce="}
    BY ElementOfSeq
  <2>2. U \ {"nonce="} \subseteq U
    OBVIOUS
  <2> QED
    BY <2>1, <2>2, SeqMonotonic, LenProperties
<1>2. p \in Seq(U) /\ m \in Nat /\ m >= 5 /\ p[5] = nonce
      /\ \A i \in 1..m : p[i] = "nonce=" <=> i = 4
  BY DEF Names
<1>3. /\ j \in Seq(U) /\ Len(j) = m + n
      /\ \A i \in 1..m : j[i] = p[i]
      /\ \A i \in 1..n : j[m + i] = t[i]
  BY <1>1, <1>2, Joined
<1> HIDE DEF j, m, n
<1>4. m + n \in Nat /\ m + n >= 5 /\ j[5] = nonce
  <2>1. 5 \in 1..m
    BY <1>2
  <2> QED
    BY <1>1, <1>2, <1>3, <2>1
<1>5. ASSUME NEW i \in 1..(m + n) PROVE j[i] = "nonce=" <=> i = 4
  <2>1. CASE i \in 1..m
    BY <1>2, <1>3, <2>1
  <2>2. CASE i \notin 1..m
    <3>1. i - m \in 1..n /\ m + (i - m) = i /\ i # 4
      BY <1>1, <1>2, <2>2
    <3> QED
      BY <1>1, <1>3, <3>1
  <2> QED
    BY <2>1, <2>2
<1> QED
  BY <1>3, <1>4, <1>5 DEF Names, j

(* The words of a preamble. *)
PreambleTokens ==
  {"<", "sec:fence", ">", "nonce=", "/sec:fence", "&", "amp;", "lt;", "gt;"} \cup NoteTokens

(* The preamble names the nonce of the fence it describes, and no other. *)
LEMMA AwarenessNames ==
  ASSUME NEW encoding, NEW nonce, nonce # "nonce=", NEW removed,
         removed.hiddenElements \in Nat, removed.invisibleChars \in Nat
  PROVE  Names(PreambleTokens \cup {nonce}, Awareness(encoding, nonce, removed), nonce)
<1> DEFINE U == PreambleTokens \cup {nonce}
           T == U \ {"nonce="}
           tag == <<"<", "sec:fence", ">", "nonce=", nonce>>
           rules == IF encoding = "cdata" THEN <<>>
                    ELSE <<"&", "amp;", "&", "lt;", "&", "gt;">>
<1>1. Names(U, tag, nonce)
  <2>1. tag \in Seq(U) /\ Len(tag) = 5
    BY DEF PreambleTokens
  <2>2. /\ tag[1] = "<" /\ tag[2] = "sec:fence" /\ tag[3] = ">"
        /\ tag[4] = "nonce=" /\ tag[5] = nonce
    OBVIOUS
  <2>3. \A i \in 1..5 : i = 1 \/ i = 2 \/ i = 3 \/ i = 4 \/ i = 5
    OBVIOUS
  <2> HIDE DEF tag, U
  <2>4. \A i \in 1..5 : tag[i] = "nonce=" <=> i = 4
    BY <2>2, <2>3
  <2> QED
    BY <2>1, <2>2, <2>4 DEF Names
<1>2. ClosingTag \in Seq(T)
  BY DEF ClosingTag, PreambleTokens
<1>3. rules \in Seq(T)
  <2>1. <<"&", "amp;", "&", "lt;", "&", "gt;">> \in Seq(T)
    BY DEF PreambleTokens
  <2> QED
    BY <2>1, EmptySeq
<1>4. SanitisationNote(removed) \in Seq(T)
  <2>1. NoteTokens \subseteq T
    BY DEF NoteTokens, PreambleTokens
  <2> HIDE DEF T
  <2> QED
    BY <2>1, NoteIsText, SeqMonotonic
<1>5. Awareness(encoding, nonce, removed) =
        ((tag \o ClosingTag) \o rules) \o SanitisationNote(removed)
  BY DEF Awareness
<1> HIDE DEF tag, rules, U
<1>6. Names(U, tag \o ClosingTag, nonce)
  BY <1>1, <1>2, NamesOnward
<1>7. Names(U, (tag \o ClosingTag) \o rules, nonce)
  BY <1>3, <1>6, NamesOnward
<1>8. Names(U, ((tag \o ClosingTag) \o rules) \o SanitisationNote(removed), nonce)
  BY <1>4, <1>7, NamesOnward
<1> QED
  BY <1>5, <1>8 DEF U

-----------------------------------------------------------------------------
(* What a gateway reads of the text's fence is the text. *)
ReadBack(key, text, meta) ==
  LET body == Recover(BuildFence(key, text, meta))
  IN  body.ok /\ body.text = text

(* A fence that reads back verifies under the key it was signed with. *)
LEMMA ReadBackVerifies ==
  ASSUME NEW key, NEW text, NEW meta, meta.kid = key, ReadBack(key, text, meta)
  PROVE  Verifies(BuildFence(key, text, meta), {key})
<1> DEFINE fence == BuildFence(key, text, meta)
<1>1. fence.meta = meta /\ fence.signature = Signature(key, text, meta)
  BY DEF BuildFence
<1>2. Recover(fence).ok /\ Recover(fence).text = text
  BY DEF ReadBack
<1> HIDE DEF fence
<1> QED
  BY <1>1, <1>2 DEF Verifies, fence

(* A gateway that holds the key lets the response through, and the text is  *)
(* the one that was signed.                                                 *)
LEMMA WrapAccepted ==
  ASSUME NEW relay, relay.nonce # "nonce=", relay.mode \in {"fenced", "prose"},
         NEW type, NEW source, NEW content, NEW encoding, NEW removed,
         removed.hiddenElements \in Nat, removed.invisibleChars \in Nat,
         ReadBack(relay.key, content,
                  CanonicalAttributes(relay, type, "untrusted", source, relay.nonce, encoding))
  PROVE  LET response == WrapFence(relay, type, source, content, encoding, removed)
         IN  /\ Accepts(response, {relay.key}) /\ Carried(response) = content
             /\ \A i \in DOMAIN response.fences :
                  response.fences[i].meta.version = FenceVersion(relay.mode)
<1> DEFINE preamble == Awareness(encoding, relay.nonce, removed)
           meta == CanonicalAttributes(relay, type, "untrusted", source, relay.nonce, encoding)
           trust == CanonicalAttributes(relay, "instructions", "trusted", "awareness",
                                        relay.preambleNonce, "none")
           fence == BuildFence(relay.key, content, meta)
           trusted == BuildFence(relay.key, preamble, trust)
           response == WrapFence(relay, type, source, content, encoding, removed)
<1>1. Names(PreambleTokens \cup {relay.nonce}, preamble, relay.nonce)
  BY AwarenessNames
<1>2. /\ meta.kid = relay.key /\ meta.version = FenceVersion(relay.mode)
      /\ meta.timestamp = relay.now /\ meta.nonce = relay.nonce
      /\ trust.kid = relay.key /\ trust.version = FenceVersion(relay.mode)
      /\ trust.timestamp = relay.now /\ trust.type = "instructions"
      /\ trust.source = "awareness" /\ trust.encoding = "none"
  BY DEF CanonicalAttributes
<1>3. response = IF relay.mode = "prose"
                   THEN [prose |-> preamble \o <<"nl", "nl">>, fences |-> <<fence>>]
                   ELSE [prose |-> <<>>, fences |-> <<trusted, fence>>]
  BY DEF WrapFence
<1>4. fence.meta = meta /\ trusted.meta = trust
  BY DEF BuildFence
<1>5. ReadBack(relay.key, content, meta)
  OBVIOUS
<1> HIDE DEF preamble, meta, trust
<1>6. ReadBack(relay.key, preamble, trust)
  <2>1. preamble \in Seq(PreambleTokens \cup {relay.nonce})
    BY <1>1 DEF Names
  <2>2. trust.encoding # "cdata"
    BY <1>2
  <2> QED
    BY <2>1, <2>2, XmlRecovered DEF ReadBack
<1>7. Verifies(fence, {relay.key}) /\ Verifies(trusted, {relay.key})
  BY <1>2, <1>5, <1>6, ReadBackVerifies
<1>8. Recover(fence).text = content /\ Recover(trusted).text = preamble
  BY <1>5, <1>6 DEF ReadBack
<1>9. Links(preamble, fence)
  <2>1. DOMAIN preamble = 1..Len(preamble)
    BY <1>1, LenProperties DEF Names
  <2>2. 4 \in 1..Len(preamble) /\ preamble[5] = relay.nonce
    BY <1>1 DEF Names
  <2>3. {i \in DOMAIN preamble : preamble[i] = "nonce="} = {4}
    BY <1>1, <2>1, <2>2 DEF Names
  <2> QED
    BY <1>2, <1>4, <2>2, <2>3 DEF Links
<1> HIDE DEF fence, trusted, response
<1>10. CASE relay.mode = "prose"
  <2>1. response.fences = <<fence>>
    BY <1>3, <1>10
  <2>2. /\ DOMAIN response.fences = {1} /\ response.fences[1] = fence
        /\ Last(response.fences) = fence
    BY <2>1 DEF Last
  <2>3. fence.meta.version = "1.0" /\ FenceVersion(relay.mode) = "1.0"
    BY <1>2, <1>4, <1>10 DEF FenceVersion
  <2>4. Accepts(response, {relay.key})
    BY <1>7, <2>2, <2>3 DEF Accepts
  <2>5. Carried(response) = content
    BY <1>8, <2>2 DEF Carried
  <2> QED
    BY <2>2, <2>3, <2>4, <2>5 DEF response
<1>11. CASE relay.mode = "fenced"
  <2>1. response.fences = <<trusted, fence>> /\ response.prose = <<>>
    BY <1>3, <1>11
  <2>2. /\ DOMAIN response.fences = {1, 2} /\ Len(response.fences) = 2
        /\ response.fences[1] = trusted /\ response.fences[2] = fence
        /\ Last(response.fences) = fence
    BY <2>1 DEF Last
  <2>3. \A i \in DOMAIN response.fences : Verifies(response.fences[i], {relay.key})
    BY <1>7, <2>2
  <2>4. /\ trusted.meta.type = "instructions" /\ trusted.meta.source = "awareness"
        /\ \A f \in {"version", "kid", "timestamp"} : trusted.meta[f] = fence.meta[f]
    BY <1>2, <1>4
  <2>5. Accepts(response, {relay.key})
    BY <1>8, <1>9, <2>1, <2>2, <2>3, <2>4 DEF Accepts
  <2>6. Carried(response) = content
    BY <1>8, <2>2 DEF Carried
  <2>7. \A i \in DOMAIN response.fences :
          response.fences[i].meta.version = FenceVersion(relay.mode)
    BY <1>2, <1>4, <2>2
  <2> QED
    BY <2>5, <2>6, <2>7 DEF response
<1> QED
  BY <1>10, <1>11

-----------------------------------------------------------------------------
(* Where a reader of a CDATA body can be. *)
Points(U) ==
  [at : {"outside", "opening", "section", "bad"}, section : Seq(U), text : Seq(U)]

Outset == [at |-> "outside", section |-> <<>>, text |-> <<>>]

(* A reader that takes a token is somewhere a reader can be. *)
LEMMA InCdataType ==
  ASSUME NEW U, NEW st \in Points(U), NEW c \in U
  PROVE  InCdata(st, c) \in Points(U)
<1> DEFINE n == Len(st.section)
           ends == c = ">" /\ Bracketed(st.section, n)
           text == SubSeq(st.section, 1, n - 2)
<1>1. st.section \in Seq(U) /\ st.text \in Seq(U) /\ n \in Nat
  <2>1. st.section \in Seq(U) /\ st.text \in Seq(U)
    BY DEF Points
  <2> QED
    BY <2>1, LenProperties
<1>2. Append(st.section, c) \in Seq(U) /\ <<>> \in Seq(U)
  BY <1>1, AppendProperties, EmptySeq
<1>3. ends => st.text \o text \in Seq(U)
  <2> SUFFICES ASSUME ends PROVE st.text \o text \in Seq(U)
    OBVIOUS
  <2>1. n - 2 \in Nat /\ n - 2 <= n
    BY <1>1 DEF Bracketed
  <2>2. text \in Seq(U)
    BY <1>1, <2>1, Prefix
  <2> HIDE DEF text
  <2> QED
    BY <1>1, <2>2, ConcatProperties
<1>4. InCdata(st, c) =
        CASE st.at = "section" /\ ends  -> [at |-> "outside", section |-> <<>>,
                                            text |-> st.text \o text]
          [] st.at = "section" /\ ~ends -> [at |-> "section", section |-> Append(st.section, c),
                                            text |-> st.text]
          [] st.at = "outside" /\ c = "<" -> [at |-> "opening", section |-> <<>>, text |-> st.text]
          [] st.at = "opening" /\ c = "![CDATA[" ->
               [at |-> "section", section |-> <<>>, text |-> st.text]
          [] OTHER -> [at |-> "bad", section |-> <<>>, text |-> st.text]
  BY DEF InCdata
<1> DEFINE joined == st.text \o text
           longer == Append(st.section, c)
<1> HIDE DEF ends, text, joined, longer
<1>5. /\ ends => joined \in Seq(U)
      /\ longer \in Seq(U)
  BY <1>2, <1>3 DEF joined, longer
<1> QED
  BY <1>1, <1>2, <1>4, <1>5 DEF Points, joined, longer

(* st is what is reached after each token of d. *)
ReadsAlong(U, st, d) ==
  /\ st \in [0..Len(d) -> Points(U)] /\ st[0] = Outset
  /\ \A i \in 1..Len(d) : st[i] = InCdata(st[i - 1], d[i])

(* Progress is defined for every body, and each token is one step of it. *)
LEMMA ProgressIs ==
  ASSUME NEW U, NEW d \in Seq(U)
  PROVE  ReadsAlong(U, Progress(d), d)
<1> DEFINE n == Len(d)
           step == [x \in Points(U) \X U |-> InCdata(x[1], x[2])]
           Is(f) == f = [i \in 0..n |-> IF i = 0 THEN Outset ELSE InCdata(f[i - 1], d[i])]
           st == CHOOSE f : Is(f)
<1>1. n \in Nat /\ \A i \in 1..n : d[i] \in U
  BY ElementOfSeq, LenProperties
<1>2. /\ step \in [Points(U) \X U -> Points(U)]
      /\ \A r \in Points(U), c \in U : step[<<r, c>>] = InCdata(r, c)
  BY InCdataType
<1>3. Outset \in Points(U)
  BY EmptySeq DEF Outset, Points
<1> HIDE DEF step
<1>4. PICK g : Reaches(g, Points(U), U, step, Outset, d)
  BY <1>2, <1>3, StepsExist
<1>5. g \in [0..n -> Points(U)] /\ g[0] = Outset
  BY <1>4 DEF Reaches
<1>6. ASSUME NEW i \in 1..n PROVE g[i] = InCdata(g[i - 1], d[i])
  <2>1. g[i] = step[<<g[i - 1], d[i]>>]
    BY <1>4 DEF Reaches
  <2>2. i - 1 \in 0..n
    BY <1>1
  <2> HIDE DEF n
  <2>3. g[i - 1] \in Points(U) /\ d[i] \in U
    BY <1>1, <1>5, <2>2
  <2> QED
    BY <1>2, <2>1, <2>3
<1> HIDE DEF n
<1>7. Is(g)
  <2> DEFINE f == [i \in 0..n |-> IF i = 0 THEN Outset ELSE InCdata(g[i - 1], d[i])]
  <2>1. ASSUME NEW i \in 0..n PROVE f[i] = g[i]
    <3>1. i # 0 => i \in 1..n
      BY <1>1
    <3> QED
      BY <1>5, <1>6, <3>1
  <2> QED
    BY <1>5, <2>1
<1>8. Is(st)
  <2> HIDE DEF Is
  <2> QED
    BY <1>7
<1>9. Progress(d) = st
  BY DEF Progress, Outset, n
<1> HIDE DEF st
<1>10. DOMAIN st = 0..n /\ st[0] = Outset
  BY <1>1, <1>8
<1>11. ASSUME NEW i \in 1..n PROVE st[i] = InCdata(st[i - 1], d[i])
  <2>1. i \in 0..n /\ i # 0
    BY <1>1
  <2> QED
    BY <1>8, <2>1
<1> DEFINE Bad == {i \in 0..n : st[i] # g[i]}
<1>12. Bad = {}
  <2> SUFFICES ASSUME Bad # {} PROVE FALSE
    OBVIOUS
  <2>1. Bad \in SUBSET Nat
    BY <1>1
  <2>2. PICK i \in Bad : \A k \in Bad : i <= k
    <3> HIDE DEF Bad
    <3> QED
      BY <2>1, LeastElement
  <2>3. i \in 0..n /\ st[i] # g[i]
    BY <2>2
  <2>4. i # 0
    BY <1>5, <1>10, <2>3
  <2>5. i \in 1..n /\ i - 1 \in 0..n /\ ~(i <= i - 1)
    BY <1>1, <2>3, <2>4
  <2>6. i - 1 \notin Bad
    <3> HIDE DEF Bad
    <3> QED
      BY <2>2, <2>5
  <2>7. st[i - 1] = g[i - 1]
    BY <2>5, <2>6
  <2> QED
    BY <1>6, <1>11, <2>3, <2>5, <2>7
<1>13. st = g
  BY <1>5, <1>8, <1>12
<1> QED
  BY <1>5, <1>6, <1>9, <1>13 DEF ReadsAlong, n

(* The reader of a longer text has been where that of its beginning is. *)
LEMMA ProgressAgrees ==
  ASSUME NEW U, NEW d \in Seq(U), NEW b \in Seq(U), Len(b) <= Len(d),
         NEW k \in 0..Len(b), \A i \in 1..Len(b) : b[i] = d[i]
  PROVE  Progress(b)[k] = Progress(d)[k]
<1> DEFINE m == Len(b)
           n == Len(d)
           f == Progress(b)
           g == Progress(d)
           Bad == {i \in 0..m : f[i] # g[i]}
<1>1. m \in Nat /\ n \in Nat /\ m <= n /\ k \in 0..m /\ \A i \in 1..m : b[i] = d[i]
  BY LenProperties
<1>2. ReadsAlong(U, f, b) /\ ReadsAlong(U, g, d)
  BY ProgressIs
<1> HIDE DEF f, g
<1>3. /\ f[0] = Outset /\ g[0] = Outset
      /\ \A i \in 1..m : f[i] = InCdata(f[i - 1], b[i])
      /\ \A i \in 1..n : g[i] = InCdata(g[i - 1], d[i])
  BY <1>2 DEF ReadsAlong
<1> HIDE DEF m, n
<1>4. Bad = {}
  <2> SUFFICES ASSUME Bad # {} PROVE FALSE
    OBVIOUS
  <2>1. Bad \in SUBSET Nat
    BY <1>1
  <2>2. PICK i \in Bad : \A j \in Bad : i <= j
    <3> HIDE DEF Bad
    <3> QED
      BY <2>1, LeastElement
  <2>3. i \in 0..m /\ f[i] # g[i]
    BY <2>2
  <2>4. i \in 1..m /\ i \in 1..n /\ i - 1 \in 0..m /\ ~(i <= i - 1)
    BY <1>1, <1>3, <2>3
  <2>5. i - 1 \notin Bad
    <3> HIDE DEF Bad
    <3> QED
      BY <2>2, <2>4
  <2>6. f[i - 1] = g[i - 1]
    BY <2>4, <2>5
  <2>7. f[i] = InCdata(f[i - 1], b[i]) /\ g[i] = InCdata(g[i - 1], d[i]) /\ b[i] = d[i]
    BY <1>1, <1>3, <2>4
  <2> QED
    BY <2>3, <2>6, <2>7
<1> QED
  BY <1>1, <1>4 DEF f, g

(* Where the reader is at the end of d. *)
ReadTo(d) == Progress(d)[Len(d)]

(* Where a body's reader ends up. *)
LEMMA ReadToType ==
  ASSUME NEW U, NEW d \in Seq(U)
  PROVE  ReadTo(d) \in Points(U)
<1>1. ReadsAlong(U, Progress(d), d)
  BY ProgressIs
<1>2. Len(d) \in 0..Len(d)
  BY LenProperties
<1> QED
  BY <1>1, <1>2 DEF ReadsAlong, ReadTo

(* One token more. *)
LEMMA ProgressAppend ==
  ASSUME NEW U, NEW d \in Seq(U), NEW c \in U
  PROVE  /\ ReadTo(Append(d, c)) = InCdata(ReadTo(d), c)
         /\ \A k \in 0..Len(d) : Progress(Append(d, c))[k] = Progress(d)[k]
<1> DEFINE a == Append(d, c)
           n == Len(d)
<1>1. /\ a \in Seq(U) /\ Len(a) = n + 1 /\ a[n + 1] = c /\ \A i \in 1..n : a[i] = d[i]
  BY AppendProperties
<1>2. n \in Nat
  BY LenProperties
<1> HIDE DEF a
<1>3. ReadsAlong(U, Progress(a), a)
  BY <1>1, ProgressIs
<1>4. \A k \in 0..n : Progress(d)[k] = Progress(a)[k]
  <2>1. n <= Len(a)
    BY <1>1, <1>2
  <2> QED
    BY <1>1, <2>1, ProgressAgrees
<1>5. n + 1 \in 1..Len(a) /\ (n + 1) - 1 = n /\ n \in 0..n
  BY <1>1, <1>2
<1>6. Progress(a)[n + 1] = InCdata(Progress(a)[n], c)
  <2> HIDE DEF n
  <2>1. Progress(a)[n + 1] = InCdata(Progress(a)[(n + 1) - 1], a[n + 1])
    BY <1>3, <1>5 DEF ReadsAlong
  <2> QED
    BY <1>1, <1>5, <2>1
<1> QED
  BY <1>1, <1>4, <1>5, <1>6 DEF ReadTo, a

(* A section opens behind the first k tokens. *)
Opens(d, k) == k + 2 <= Len(d) /\ d[k + 1] = "<" /\ d[k + 2] = "![CDATA["

(* Between sections, up to the nth token, there is nothing. *)
NothingBetween(d, n) == \A k \in 0..n : Progress(d)[k].at = "outside" => Opens(d, k)

(* A section that opens still opens when the body goes on. *)
LEMMA OpensOnward ==
  ASSUME NEW U, NEW d \in Seq(U), NEW c \in U, NEW k \in Nat, Opens(d, k)
  PROVE  Opens(Append(d, c), k)
<1> DEFINE a == Append(d, c)
           n == Len(d)
<1>1. /\ a \in Seq(U) /\ Len(a) = n + 1 /\ \A i \in 1..n : a[i] = d[i]
  BY AppendProperties
<1>2. n \in Nat
  BY LenProperties
<1> HIDE DEF a
<1>3. k + 2 <= n
  BY DEF Opens
<1>4. k + 1 \in 1..n /\ k + 2 \in 1..n /\ k + 2 <= n + 1
  BY <1>2, <1>3
<1> QED
  BY <1>1, <1>4 DEF Opens, a

(* Nothing between the sections stays so when the body goes on. *)
LEMMA NothingOnward ==
  ASSUME NEW U, NEW d \in Seq(U), NEW c \in U,
         NEW n \in Int, n <= Len(d), NothingBetween(d, n)
  PROVE  NothingBetween(Append(d, c), n)
<1> SUFFICES ASSUME NEW k \in 0..n, Progress(Append(d, c))[k].at = "outside"
             PROVE  Opens(Append(d, c), k)
  BY DEF NothingBetween
<1>1. k \in 0..Len(d) /\ k \in Nat
  BY LenProperties
<1>2. Progress(d)[k].at = "outside"
  BY <1>1, ProgressAppend
<1> QED
  BY <1>1, <1>2, OpensOnward DEF NothingBetween

(* One token more, and still nothing between the sections. *)
LEMMA NothingAt ==
  ASSUME NEW d, NEW n \in Nat, NothingBetween(d, n - 1),
         Progress(d)[n].at = "outside" => Opens(d, n)
  PROVE  NothingBetween(d, n)
<1> SUFFICES ASSUME NEW k \in 0..n, Progress(d)[k].at = "outside"
             PROVE  Opens(d, k)
  BY DEF NothingBetween
<1>1. k = n \/ k \in 0..(n - 1)
  OBVIOUS
<1> QED
  BY <1>1 DEF NothingBetween

(* d has been read into a section, and what was read is s; or to the end of *)
(* one.                                                                     *)
Inside(U, d, s, section, text) ==
  /\ d \in Seq(U) /\ section \in Seq(U) /\ text \in Seq(U)
  /\ ReadTo(d) = [at |-> "section", section |-> section, text |-> text]
  /\ text \o section = s /\ NothingBetween(d, Len(d))

Outside(U, d, s) ==
  /\ d \in Seq(U) /\ ReadTo(d) = [at |-> "outside", section |-> <<>>, text |-> s]
  /\ NothingBetween(d, Len(d) - 1)

(* A token that does not end the section is one more of its text. *)
LEMMA InsideMore ==
  ASSUME NEW U, NEW d, NEW s, NEW section, NEW text, Inside(U, d, s, section, text),
         NEW c \in U, ~(c = ">" /\ Bracketed(section, Len(section)))
  PROVE  Inside(U, Append(d, c), Append(s, c), Append(section, c), text)
<1> DEFINE a == Append(d, c)
           n == Len(d)
<1>1. /\ d \in Seq(U) /\ section \in Seq(U) /\ text \in Seq(U)
      /\ ReadTo(d) = [at |-> "section", section |-> section, text |-> text]
      /\ text \o section = s /\ NothingBetween(d, n)
  BY DEF Inside
<1>2. a \in Seq(U) /\ Len(a) = n + 1 /\ n \in Nat
  BY <1>1, AppendProperties, LenProperties
<1>3. ReadTo(a) = [at |-> "section", section |-> Append(section, c), text |-> text]
  <2>1. ReadTo(a) = InCdata(ReadTo(d), c)
    BY <1>1, ProgressAppend
  <2> DEFINE st == ReadTo(d)
  <2>2. st.at = "section" /\ st.section = section /\ st.text = text
    BY <1>1
  <2> HIDE DEF a, st
  <2> QED
    BY <2>1, <2>2 DEF InCdata, st
<1>4. Append(section, c) \in Seq(U)
  BY <1>1, AppendProperties
<1>5. text \o Append(section, c) = Append(s, c)
  <2>1. Append(section, c) = section \o <<c>> /\ <<c>> \in Seq(U)
    BY <1>1, AppendIsConcat, ShortSeqs
  <2>2. s \in Seq(U)
    BY <1>1, ConcatProperties
  <2>3. Append(s, c) = s \o <<c>>
    BY <2>2, AppendIsConcat
  <2> QED
    BY <1>1, <2>1, <2>3, ConcatAssociative
<1>6. NothingBetween(a, n + 1)
  <2>1. n \in Int /\ n <= Len(d) /\ (n + 1) - 1 = n /\ n + 1 \in Nat
    BY <1>2
  <2>2. NothingBetween(a, n)
    BY <1>1, <2>1, NothingOnward
  <2>3. Progress(a)[n + 1].at # "outside"
    BY <1>2, <1>3 DEF ReadTo
  <2> HIDE DEF a, n
  <2> QED
    BY <2>1, <2>2, <2>3, NothingAt
<1> QED
  BY <1>1, <1>2, <1>3, <1>4, <1>5, <1>6 DEF Inside

(* What ends a section that was read ends the text that was read. *)
LEMMA SectionOfText ==
  ASSUME NEW U, NEW text \in Seq(U), NEW section \in Seq(U),
         Bracketed(section, Len(section))
  PROVE  Bracketed(text \o section, Len(text \o section))
<1> DEFINE j == text \o section
           m == Len(text)
           n == Len(section)
<1>1. /\ Len(j) = m + n /\ \A i \in 1..n : j[m + i] = section[i]
      /\ m \in Nat /\ n \in Nat
  BY Joined, LenProperties
<1> HIDE DEF j
<1>2. n > 1 /\ section[n - 1] = "]" /\ section[n] = "]"
  BY DEF Bracketed
<1> HIDE DEF m, n
<1>3. n - 1 \in 1..n /\ n \in 1..n /\ m + (n - 1) = (m + n) - 1 /\ m + n > 1
  BY <1>1, <1>2
<1>4. j[m + (n - 1)] = section[n - 1] /\ j[m + n] = section[n]
  BY <1>1, <1>3
<1> QED
  BY <1>1, <1>2, <1>3, <1>4 DEF Bracketed, j

(* Two tokens are put behind a text at once or one after the other. *)
LEMMA TwoAppended ==
  ASSUME NEW U, NEW s \in Seq(U), NEW x \in U, NEW y \in U
  PROVE  s \o <<x, y>> = Append(Append(s, x), y)
<1>1. <<x>> \in Seq(U) /\ <<y>> \in Seq(U) /\ <<x>> \o <<y>> = <<x, y>>
  BY ShortSeqs
<1>2. Append(s, x) = s \o <<x>> /\ Append(s, x) \in Seq(U)
  BY AppendIsConcat, AppendProperties
<1>3. Append(Append(s, x), y) = Append(s, x) \o <<y>>
  BY <1>2, AppendIsConcat
<1> DEFINE a == <<x>>
           b == <<y>>
           c == <<x, y>>
<1>4. a \in Seq(U) /\ b \in Seq(U)
  BY <1>1
<1>7. a \o b = c
  BY <1>1
<1>5. Append(Append(s, x), y) = (s \o a) \o b
  BY <1>2, <1>3
<1> HIDE DEF a, b, c
<1>6. (s \o a) \o b = s \o c
  <2>1. (s \o a) \o b = s \o (a \o b)
    BY <1>4, ConcatAssociative
  <2> QED
    BY <1>7, <2>1
<1> QED
  BY <1>5, <1>6 DEF c

(* The end of a section that holds the rest of the text: it has all been    *)
(* read, and nothing is between the sections.                               *)
LEMMA InsideEnds ==
  ASSUME NEW U, {"]", ">"} \subseteq U, NEW d, NEW s, NEW section, NEW text,
         Inside(U, d, s, section, text)
  PROVE  Outside(U, d \o EndSection, s)
<1> DEFINE x == Append(d, "]")
           y == Append(x, "]")
           z == Append(y, ">")
           s1 == Append(section, "]")
           s2 == Append(s1, "]")
           n == Len(section)
<1>0. "]" \in U /\ ">" \in U
  OBVIOUS
<1>1. d \in Seq(U) /\ section \in Seq(U) /\ text \in Seq(U) /\ text \o section = s
  BY DEF Inside
<1>2. Inside(U, x, Append(s, "]"), s1, text)
  BY <1>0, InsideMore
<1> HIDE DEF x
<1>3. Inside(U, y, Append(Append(s, "]"), "]"), s2, text)
  <2> HIDE DEF s1
  <2>1. Inside(U, y, Append(Append(s, "]"), "]"), Append(s1, "]"), text)
    BY <1>0, <1>2, InsideMore
  <2> QED
    BY <2>1
<1> HIDE DEF y
<1>4. n \in Nat /\ s1 \in Seq(U) /\ Len(s1) = n + 1 /\ s1[n + 1] = "]"
      /\ \A i \in 1..n : s1[i] = section[i]
  BY <1>0, <1>1, AppendProperties, LenProperties
<1> HIDE DEF n, s1
<1>5. /\ s2 \in Seq(U) /\ Len(s2) = n + 2 /\ s2[n + 1] = "]" /\ s2[n + 2] = "]"
      /\ \A i \in 1..n : s2[i] = section[i]
  <2>1. /\ s2 \in Seq(U) /\ Len(s2) = Len(s1) + 1 /\ s2[Len(s1) + 1] = "]"
        /\ \A i \in 1..Len(s1) : s2[i] = s1[i]
    BY <1>0, <1>4, AppendProperties
  <2>2. n + 1 \in 1..(n + 1) /\ (n + 1) + 1 = n + 2 /\ \A i \in 1..n : i \in 1..(n + 1)
    BY <1>4
  <2> HIDE DEF s2
  <2> QED
    BY <1>4, <2>1, <2>2
<1> HIDE DEF s2
<1>6. Bracketed(s2, Len(s2))
  <2>1. n + 2 > 1 /\ (n + 2) - 1 = n + 1
    BY <1>4
  <2> QED
    BY <1>5, <2>1 DEF Bracketed
<1>7. SubSeq(s2, 1, Len(s2) - 2) = section
  <2>1. Len(s2) - 2 = n /\ n \in Nat /\ n <= Len(s2)
    BY <1>4, <1>5
  <2>2. SubSeq(s2, 1, n) \in Seq(U) /\ Len(SubSeq(s2, 1, n)) = n
        /\ \A i \in 1..n : SubSeq(s2, 1, n)[i] = s2[i]
    BY <1>5, <2>1, Prefix
  <2>3. SubSeq(s2, 1, n) = section
    BY <1>1, <1>5, <2>2, SeqEqual DEF n
  <2> QED
    BY <2>1, <2>3
<1>8. y \in Seq(U) /\ ReadTo(y) = [at |-> "section", section |-> s2, text |-> text]
      /\ NothingBetween(y, Len(y))
  BY <1>3 DEF Inside
<1>9. ReadTo(z) = [at |-> "outside", section |-> <<>>, text |-> s]
  <2>1. ReadTo(z) = InCdata(ReadTo(y), ">")
    BY <1>0, <1>8, ProgressAppend
  <2> DEFINE st == ReadTo(y)
  <2>2. st.at = "section" /\ st.section = s2 /\ st.text = text
    BY <1>8
  <2> HIDE DEF z, st
  <2>3. InCdata(st, ">") = [at |-> "outside", section |-> <<>>,
                            text |-> text \o SubSeq(s2, 1, Len(s2) - 2)]
    BY <1>6, <2>2 DEF InCdata
  <2> QED
    BY <1>1, <1>7, <2>1, <2>3 DEF st
<1>10. z \in Seq(U) /\ Len(z) = Len(y) + 1 /\ Len(y) \in Nat
  BY <1>0, <1>8, AppendProperties, LenProperties
<1>11. NothingBetween(z, Len(z) - 1)
  <2>1. Len(z) - 1 = Len(y) /\ Len(y) \in Int /\ Len(y) <= Len(y)
    BY <1>10
  <2> QED
    BY <1>0, <1>8, <2>1, NothingOnward
<1>12. d \o EndSection = z
  <2>1. y = d \o <<"]", "]">>
    BY <1>0, <1>1, TwoAppended DEF x, y
  <2> DEFINE b == <<"]", "]">>
             c == <<">">>
             e == EndSection
  <2>2. b \in Seq(U) /\ c \in Seq(U) /\ Len(b) = 2 /\ Len(c) = 1
    BY <1>0
  <2>3. e \in Seq(U) /\ Len(e) = 3
    BY <1>0 DEF EndSection
  <2>4. b[1] = "]" /\ b[2] = "]" /\ c[1] = ">" /\ e[1] = "]" /\ e[2] = "]" /\ e[3] = ">"
    BY DEF EndSection
  <2> HIDE DEF b, c, e
  <2>5. Joins(U, b \o c, b, c, 2, 1)
    BY <2>2, JoinedAs DEF Has
  <2>6. b \o c = e
    <3> DEFINE j == b \o c
    <3> HIDE DEF j
    <3>1. /\ j \in Seq(U) /\ Len(j) = 2 + 1 /\ \A i \in 1..2 : j[i] = b[i]
          /\ \A i \in 1..1 : j[2 + i] = c[i]
      BY <2>5 DEF Joins, j
    <3>2. 1 \in 1..2 /\ 2 \in 1..2 /\ 1 \in 1..1 /\ 2 + 1 = 3
          /\ \A i \in 1..3 : i = 1 \/ i = 2 \/ i = 3
      OBVIOUS
    <3>3. j[1] = b[1] /\ j[2] = b[2] /\ j[2 + 1] = c[1]
      BY <3>1, <3>2
    <3>4. \A i \in 1..3 : j[i] = e[i]
      BY <2>4, <3>2, <3>3
    <3>5. j = e
      BY <2>3, <3>1, <3>2, <3>4, SeqEqual
    <3> QED
      BY <3>5 DEF j
  <2>7. z = y \o c
    BY <1>0, <1>8, AppendIsConcat DEF c
  <2>8. d \o e = (d \o b) \o c
    <3>1. (d \o b) \o c = d \o (b \o c)
      BY <1>1, <2>2, ConcatAssociative
    <3> QED
      BY <2>6, <3>1
  <2>9. y = d \o b
    BY <2>1 DEF b
  <2> QED
    BY <2>7, <2>8, <2>9 DEF e
<1> QED
  BY <1>9, <1>10, <1>11, <1>12 DEF Outside

(* Another section opens with none of the text in it. *)
LEMMA OutsideOpens ==
  ASSUME NEW U, {"<", "![CDATA["} \subseteq U, NEW d, NEW s \in Seq(U), Outside(U, d, s)
  PROVE  Inside(U, d \o OpenSection, s, <<>>, s)
<1> DEFINE x == Append(d, "<")
           y == Append(x, "![CDATA[")
           n == Len(d)
<1>0. "<" \in U /\ "![CDATA[" \in U
  OBVIOUS
<1>1. /\ d \in Seq(U) /\ ReadTo(d) = [at |-> "outside", section |-> <<>>, text |-> s]
      /\ NothingBetween(d, n - 1)
  BY DEF Outside
<1>2. n \in Nat /\ x \in Seq(U) /\ Len(x) = n + 1 /\ x[n + 1] = "<"
  BY <1>0, <1>1, AppendProperties, LenProperties
<1>3. ReadTo(x) = [at |-> "opening", section |-> <<>>, text |-> s]
  <2>1. ReadTo(x) = InCdata(ReadTo(d), "<")
    BY <1>0, <1>1, ProgressAppend
  <2> DEFINE st == ReadTo(d)
  <2>2. st.at = "outside" /\ st.text = s
    BY <1>1
  <2> HIDE DEF x, st
  <2> QED
    BY <2>1, <2>2 DEF InCdata, st
<1>4. NothingBetween(x, n - 1) /\ Progress(x)[n] = Progress(d)[n]
  <2>1. n - 1 \in Int /\ n - 1 <= Len(d) /\ n \in 0..Len(d)
    BY <1>2
  <2> QED
    BY <1>0, <1>1, <2>1, NothingOnward, ProgressAppend
<1> HIDE DEF x, n
<1>5. y \in Seq(U) /\ Len(y) = n + 2 /\ y[n + 2] = "![CDATA[" /\ y[n + 1] = "<"
  <2>1. y \in Seq(U) /\ Len(y) = Len(x) + 1 /\ y[Len(x) + 1] = "![CDATA["
        /\ \A i \in 1..Len(x) : y[i] = x[i]
    BY <1>0, <1>2, AppendProperties
  <2> HIDE DEF y
  <2>2. (n + 1) + 1 = n + 2 /\ n + 1 \in 1..(n + 1)
    BY <1>2
  <2> QED
    BY <1>2, <2>1, <2>2
<1>6. ReadTo(y) = [at |-> "section", section |-> <<>>, text |-> s]
  <2>1. ReadTo(y) = InCdata(ReadTo(x), "![CDATA[")
    BY <1>0, <1>2, ProgressAppend
  <2> DEFINE st == ReadTo(x)
  <2>2. st.at = "opening" /\ st.text = s
    BY <1>3
  <2> HIDE DEF y, st
  <2> QED
    BY <2>1, <2>2 DEF InCdata, st
<1>7. Opens(y, n)
  BY <1>2, <1>5 DEF Opens
<1>8. NothingBetween(y, n - 1)
  <2>1. n - 1 \in Int /\ n - 1 <= Len(x)
    BY <1>2
  <2> QED
    BY <1>0, <1>2, <1>4, <2>1, NothingOnward
<1>9. Progress(y)[n + 1].at # "outside" /\ Progress(y)[n + 2].at # "outside"
  <2>1. n + 1 \in 0..Len(x)
    BY <1>2
  <2>2. Progress(y)[n + 1] = Progress(x)[n + 1]
    BY <1>0, <1>2, <2>1, ProgressAppend
  <2>3. Progress(x)[n + 1] = ReadTo(x) /\ Progress(y)[n + 2] = ReadTo(y)
    BY <1>2, <1>5 DEF ReadTo
  <2> QED
    BY <1>3, <1>6, <2>2, <2>3
<1> HIDE DEF y
<1>10. NothingBetween(y, n + 2)
  <2>1. NothingBetween(y, n)
    BY <1>2, <1>7, <1>8, NothingAt
  <2>2. n + 1 \in Nat /\ (n + 1) - 1 = n /\ n + 2 \in Nat /\ (n + 2) - 1 = n + 1
    BY <1>2
  <2>3. NothingBetween(y, n + 1)
    BY <1>9, <2>1, <2>2, NothingAt
  <2> QED
    BY <1>9, <2>2, <2>3, NothingAt
<1>11. d \o OpenSection = y
  BY <1>0, <1>1, TwoAppended DEF OpenSection, x, y
<1>12. s \o <<>> = s /\ <<>> \in Seq(U)
  BY ConcatEmptySeq, EmptySeq
<1> QED
  BY <1>5, <1>6, <1>10, <1>11, <1>12 DEF Inside

-----------------------------------------------------------------------------
(* What CdataEscape makes of the token at i. *)
CdataPart(s, i) ==
  IF Bracketed(s, i - 1) /\ s[i] = ">" THEN EndSection \o OpenSection \o <<">">> ELSE <<s[i]>>

SectionTokens == {"<", "![CDATA[", "]", ">"}

(* What CdataEscape makes of one token is tokens. *)
LEMMA CdataPartSeq ==
  ASSUME NEW U, SectionTokens \subseteq U, NEW s, NEW i, s[i] \in U
  PROVE  CdataPart(s, i) \in Seq(U)
<1>1. EndSection \in Seq(U) /\ OpenSection \in Seq(U) /\ <<">">> \in Seq(U)
  BY DEF EndSection, OpenSection, SectionTokens
<1>2. EndSection \o OpenSection \in Seq(U)
  BY <1>1, ConcatProperties
<1>3. EndSection \o OpenSection \o <<">">> \in Seq(U) /\ <<s[i]>> \in Seq(U)
  BY <1>1, <1>2, ConcatProperties, ShortSeqs
<1> QED
  BY <1>3 DEF CdataPart

(* CdataEscape goes token by token. *)
LEMMA CdataAppend ==
  ASSUME NEW U, SectionTokens \subseteq U, NEW s \in Seq(U), NEW c \in U
  PROVE  /\ CdataEscape(s) \in Seq(U)
         /\ CdataEscape(Append(s, c)) =
              CdataEscape(s) \o IF Bracketed(s, Len(s)) /\ c = ">"
                                  THEN EndSection \o OpenSection \o <<">">> ELSE <<c>>
<1> DEFINE n == Len(s)
           a == Append(s, c)
           p == [i \in DOMAIN s |-> CdataPart(s, i)]
           q == [i \in DOMAIN a |-> CdataPart(a, i)]
           x == CdataPart(a, n + 1)
<1>1. n \in Nat /\ DOMAIN s = 1..n /\ \A i \in 1..n : s[i] \in U
  BY LenProperties, ElementOfSeq
<1>2. a \in Seq(U) /\ Len(a) = n + 1 /\ a[n + 1] = c /\ \A i \in 1..n : a[i] = s[i]
  BY AppendProperties
<1> HIDE DEF n, a
<1>3. DOMAIN a = 1..(n + 1) /\ \A i \in 1..(n + 1) : a[i] \in U
  BY <1>2, LenProperties, ElementOfSeq
<1>4. p \in [1..n -> Seq(U)] /\ q \in [1..(n + 1) -> Seq(U)]
  BY <1>1, <1>3, CdataPartSeq
<1>5. n + 1 \in Nat /\ n + 1 \in 1..(n + 1) /\ \A i \in 1..n : i \in 1..(n + 1)
  BY <1>1
<1>6. ASSUME NEW i \in 1..(n + 1) PROVE Bracketed(a, i - 1) <=> Bracketed(s, i - 1)
  <2>1. i - 1 > 1 => i - 1 \in 1..n /\ (i - 1) - 1 \in 1..n
    BY <1>1
  <2> QED
    BY <1>2, <2>1 DEF Bracketed
<1>7. ASSUME NEW i \in 1..n PROVE CdataPart(a, i) = CdataPart(s, i)
  <2>1. i \in 1..(n + 1) /\ a[i] = s[i]
    BY <1>2, <1>5
  <2> QED
    BY <1>6, <2>1 DEF CdataPart
<1>8. q[n + 1] = x /\ \A i \in 1..n : q[i] = p[i]
  BY <1>1, <1>3, <1>5, <1>7
<1>9. FlattenSeq(p) = CdataEscape(s) /\ FlattenSeq(q) = CdataEscape(a)
  BY DEF CdataEscape, CdataPart
<1>10. x \in Seq(U)
  BY <1>3, <1>5, CdataPartSeq
<1>11. x = IF Bracketed(s, n) /\ c = ">" THEN EndSection \o OpenSection \o <<">">> ELSE <<c>>
  <2>1. (n + 1) - 1 = n
    BY <1>1
  <2>2. Bracketed(a, (n + 1) - 1) <=> Bracketed(s, (n + 1) - 1)
    BY <1>5, <1>6
  <2> QED
    BY <1>2, <2>1, <2>2 DEF CdataPart
<1> HIDE DEF p, q, x
<1>12. p \in Seq(Seq(U)) /\ Len(p) = n /\ q \in Seq(Seq(U)) /\ Len(q) = n + 1
  BY <1>1, <1>4, <1>5, ListIsSeq
<1>13. q = Append(p, x)
  BY <1>8, <1>10, <1>12, AppendIs
<1>14. CdataEscape(s) \in Seq(U) /\ CdataEscape(a) = CdataEscape(s) \o x
  BY <1>9, <1>10, <1>12, <1>13, FlattenAppend
<1> QED
  BY <1>11, <1>14 DEF a, n

(* There is nothing to split in the empty text. *)
LEMMA CdataEmpty == CdataEscape(<<>>) = <<>>
<1> DEFINE p == [i \in DOMAIN <<>> |-> CdataPart(<<>>, i)]
<1>1. p = <<>>
  OBVIOUS
<1>2. CdataEscape(<<>>) = FlattenSeq(p)
  BY DEF CdataEscape, CdataPart
<1> QED
  BY <1>1, <1>2, FlattenEmpty

(* An escaped text is read into the section that is open at its end. *)
InSection(U, e, s) ==
  \E section, text : Inside(U, OpenSection \o e, s, section, text)

(* Texts and their concatenation, by names that the provers leave alone. *)
OfTokens(U, x) == x \in Seq(U)
Cat(x, y) == x \o y

(* Three texts put together, either way. *)
LEMMA CatAssociative ==
  ASSUME NEW U, NEW x, NEW y, NEW z, OfTokens(U, x), OfTokens(U, y), OfTokens(U, z)
  PROVE  OfTokens(U, Cat(x, y)) /\ Cat(Cat(x, y), z) = Cat(x, Cat(y, z))
<1>1. x \o y \in Seq(U)
  BY ConcatProperties DEF OfTokens
<1>2. (x \o y) \o z = x \o (y \o z)
  BY ConcatAssociative DEF OfTokens
<1> QED
  BY <1>1, <1>2 DEF OfTokens, Cat
(* Five texts put together from the left, or as a body around three of      *)
(* them.                                                                    *)
LEMMA Regroup ==
  ASSUME NEW U, NEW a, NEW b, NEW c, NEW d, NEW e,
         OfTokens(U, a), OfTokens(U, b), OfTokens(U, c), OfTokens(U, d), OfTokens(U, e)
  PROVE  Cat(Cat(Cat(Cat(a, b), c), d), e) = Cat(a, Cat(b, Cat(Cat(c, d), e)))
<1>1. OfTokens(U, Cat(a, b)) /\ OfTokens(U, Cat(c, d)) /\ OfTokens(U, Cat(Cat(c, d), e))
  BY CatAssociative
<1>2. Cat(Cat(Cat(a, b), c), d) = Cat(Cat(a, b), Cat(c, d))
  BY <1>1, CatAssociative
<1>3. Cat(Cat(Cat(a, b), Cat(c, d)), e) = Cat(Cat(a, b), Cat(Cat(c, d), e))
  <2> DEFINE p == Cat(a, b)
             q == Cat(c, d)
  <2>1. OfTokens(U, p) /\ OfTokens(U, q)
    BY <1>1
  <2> HIDE DEF p, q
  <2>2. Cat(Cat(p, q), e) = Cat(p, Cat(q, e))
    BY <2>1, CatAssociative
  <2> QED
    BY <2>2 DEF p, q
<1>4. Cat(Cat(a, b), Cat(Cat(c, d), e)) = Cat(a, Cat(b, Cat(Cat(c, d), e)))
  BY <1>1, CatAssociative
<1> QED
  BY <1>2, <1>3, <1>4

(* If the text so far is read into an open section, so is the text with one *)
(* token more: a "]]>" in it ends up in two sections.                       *)
LEMMA InSectionMore ==
  ASSUME NEW U, SectionTokens \subseteq U, NEW s \in Seq(U), NEW e \in Seq(U),
         InSection(U, e, s), NEW c \in U
  PROVE  InSection(U, e \o IF Bracketed(s, Len(s)) /\ c = ">"
                            THEN EndSection \o OpenSection \o <<">">> ELSE <<c>>, Append(s, c))
<1> DEFINE d == OpenSection \o e
           open == OpenSection
           end == EndSection
           last == <<c>>
<1>1. PICK section, text : Inside(U, d, s, section, text)
  BY DEF InSection
<1>2. open \in Seq(U) /\ end \in Seq(U) /\ last \in Seq(U)
  BY DEF EndSection, OpenSection, SectionTokens
<1>3. d \in Seq(U) /\ section \in Seq(U) /\ text \in Seq(U) /\ text \o section = s
  BY <1>1 DEF Inside
<1>4. d = open \o e
  OBVIOUS
<1>5. CASE ~(Bracketed(s, Len(s)) /\ c = ">")
  <2>1. ~(c = ">" /\ Bracketed(section, Len(section)))
    BY <1>3, <1>5, SectionOfText
  <2>2. Inside(U, Append(d, c), Append(s, c), Append(section, c), text)
    BY <1>1, <2>1, InsideMore
  <2>3. Append(d, c) = d \o last
    BY <1>3, AppendIsConcat
  <2> HIDE DEF open, last, d
  <2>4. d \o last = open \o (e \o last)
    <3>1. (open \o e) \o last = open \o (e \o last)
      BY <1>2, ConcatAssociative
    <3> QED
      BY <1>4, <3>1
  <2>5. Inside(U, open \o (e \o last), Append(s, c), Append(section, c), text)
    BY <2>2, <2>3, <2>4
  <2>6. InSection(U, e \o last, Append(s, c))
    BY <2>5 DEF InSection, open
  <2> QED
    BY <1>5, <2>6 DEF last
<1>6. CASE Bracketed(s, Len(s)) /\ c = ">"
  <2>1. {"]", ">"} \subseteq U /\ {"<", "![CDATA["} \subseteq U
    BY DEF SectionTokens
  <2>2. Outside(U, d \o end, s)
    BY <1>1, <2>1, InsideEnds
  <2> HIDE DEF d, end
  <2> DEFINE f == d \o end
  <2>3. f \in Seq(U)
    BY <1>2, <1>3, ConcatProperties
  <2> HIDE DEF f
  <2>4. Inside(U, f \o open, s, <<>>, s)
    <3>1. Outside(U, f, s)
      BY <2>2 DEF f
    <3> QED
      BY <2>1, <3>1, OutsideOpens
  <2> HIDE DEF open
  <2> DEFINE g == f \o open
  <2>5. g \in Seq(U)
    BY <1>2, <2>3, ConcatProperties
  <2>6. Inside(U, Append(g, c), Append(s, c), Append(<<>>, c), s)
    <3>1. ~Bracketed(<<>>, Len(<<>>))
      <4>1. Len(<<>>) = 0
        OBVIOUS
      <4> QED
        BY <4>1 DEF Bracketed
    <3> QED
      BY <2>4, <3>1, InsideMore
  <2> HIDE DEF g
  <2>7. Append(g, c) = g \o last
    BY <2>5, AppendIsConcat
  <2> HIDE DEF last
  <2>8. g \o last = open \o (e \o ((end \o open) \o last))
    <3>1. open \in Seq(U) /\ e \in Seq(U) /\ end \in Seq(U) /\ last \in Seq(U)
      BY <1>2
    <3>2. (((open \o e) \o end) \o open) \o last = open \o (e \o ((end \o open) \o last))
      <4>1. OfTokens(U, open) /\ OfTokens(U, e) /\ OfTokens(U, end) /\ OfTokens(U, last)
        BY <3>1 DEF OfTokens
      <4>2. Cat(Cat(Cat(Cat(open, e), end), open), last)
              = Cat(open, Cat(e, Cat(Cat(end, open), last)))
        BY ONLY <4>1, Regroup
      <4> QED
        BY <4>2 DEF Cat
    <3> QED
      BY <1>4, <3>2 DEF f, g
  <2>9. Inside(U, open \o (e \o ((end \o open) \o last)), Append(s, c), Append(<<>>, c), s)
    BY <2>6, <2>7, <2>8
  <2>10. InSection(U, e \o ((end \o open) \o last), Append(s, c))
    BY <2>9 DEF InSection, open
  <2> QED
    BY <1>6, <2>10 DEF open, end, last
<1> QED
  BY <1>5, <1>6

(* CdataEscape of any text is read as that text. *)
LEMMA CdataInSection ==
  ASSUME NEW U, SectionTokens \subseteq U, NEW s \in Seq(U)
  PROVE  CdataEscape(s) \in Seq(U) /\ InSection(U, CdataEscape(s), s)
<1> DEFINE Bad == {t \in Seq(U) : ~InSection(U, CdataEscape(t), t)}
<1>0. "<" \in U
  BY DEF SectionTokens
<1>1. \A t \in Seq(U) : CdataEscape(t) \in Seq(U)
  BY <1>0, CdataAppend
<1>2. ASSUME NEW t \in Seq(U), NEW c \in U, InSection(U, CdataEscape(t), t)
      PROVE  InSection(U, CdataEscape(Append(t, c)), Append(t, c))
  <2> DEFINE e == CdataEscape(t)
             part == IF Bracketed(t, Len(t)) /\ c = ">"
                       THEN EndSection \o OpenSection \o <<">">> ELSE <<c>>
  <2>1. e \in Seq(U) /\ CdataEscape(Append(t, c)) = e \o part
    BY CdataAppend
  <2> HIDE DEF e
  <2>2. InSection(U, e \o part, Append(t, c))
    <3>1. InSection(U, e, t)
      BY <1>2 DEF e
    <3> QED
      BY <2>1, <3>1, InSectionMore
  <2> HIDE DEF part
  <2> QED
    BY <2>1, <2>2
<1>3. InSection(U, CdataEscape(<<>>), <<>>)
  <2>1. Outside(U, <<>>, <<>>)
    <3>1. <<>> \in Seq(U) /\ Len(<<>>) = 0
      BY EmptySeq
    <3>2. ReadsAlong(U, Progress(<<>>), <<>>)
      BY <3>1, ProgressIs
    <3>3. ReadTo(<<>>) = [at |-> "outside", section |-> <<>>, text |-> <<>>]
      BY <3>1, <3>2 DEF ReadsAlong, ReadTo, Outset
    <3>4. NothingBetween(<<>>, Len(<<>>) - 1)
      BY <3>1 DEF NothingBetween
    <3> QED
      BY <3>1, <3>3, <3>4 DEF Outside
  <2>2. {"<", "![CDATA["} \subseteq U /\ <<>> \in Seq(U) /\ OpenSection \in Seq(U)
    BY EmptySeq DEF SectionTokens, OpenSection
  <2>3. Inside(U, <<>> \o OpenSection, <<>>, <<>>, <<>>)
    BY <2>1, <2>2, OutsideOpens
  <2>4. <<>> \o OpenSection = OpenSection \o <<>>
    BY <2>2, ConcatEmptySeq
  <2> QED
    BY <2>3, <2>4, CdataEmpty DEF InSection
<1>4. Bad = {}
  <2>1. Bad \in SUBSET Seq(U) /\ <<>> \notin Bad
    BY <1>3
  <2>2. \A f \in Seq(U), c \in U : Append(f, c) \in Bad => f \in Bad
    BY <1>2
  <2> HIDE DEF Bad
  <2> QED
    BY <2>1, <2>2, SeqsWithout
<1> QED
  BY <1>1, <1>4

(* A text that was put into sections is what a gateway reads of its fence.  *)
LEMMA CdataRecovered ==
  ASSUME NEW S, NEW s \in Seq(S), NEW key, NEW meta, meta.encoding = "cdata"
  PROVE  LET body == Recover(BuildFence(key, s, meta))
         IN  body.ok /\ body.text = s
<1> DEFINE U == S \cup SectionTokens \cup WireTokens
           open == OpenSection \o CdataEscape(s)
           e == open \o EndSection
           n == Len(e)
           w == Wire(e)
           fence == BuildFence(key, s, meta)
<1>1. s \in Seq(U) /\ SectionTokens \subseteq U /\ WireTokens \subseteq U
  <2>1. S \subseteq U
    OBVIOUS
  <2> QED
    BY <2>1, SeqMonotonic
<1>2. fence.wire = w /\ fence.meta = meta
  <2> HIDE DEF open
  <2>1. fence.wire = <<"nl">> \o (OpenSection \o CdataEscape(s) \o EndSection) \o <<"nl">>
                       \o ClosingTag \o <<"nl">>
    BY DEF BuildFence
  <2> QED
    BY <2>1 DEF BuildFence, Wire, open
<1> HIDE DEF U, fence
<1>3. Outside(U, e, s)
  <2>1. PICK section, text : Inside(U, open, s, section, text)
    BY <1>1, CdataInSection DEF InSection
  <2>2. {"]", ">"} \subseteq U
    BY <1>1 DEF SectionTokens
  <2> HIDE DEF open
  <2> QED
    BY <2>1, <2>2, InsideEnds
<1> HIDE DEF open, e
<1>4. /\ e \in Seq(U) /\ ReadTo(e) = [at |-> "outside", section |-> <<>>, text |-> s]
      /\ NothingBetween(e, n - 1)
  BY <1>3 DEF Outside
<1>5. /\ w \in Seq(U) /\ Len(w) = n + 6 /\ n \in Nat
      /\ \A i \in 1..n : w[i + 1] = e[i]
      /\ w[n + 2] = "nl" /\ w[n + 3] = "<" /\ w[n + 4] = "/sec:fence" /\ w[n + 5] = ">"
  BY <1>1, <1>4, WireIs
<1>6. ASSUME NEW m \in 0..n
      PROVE  /\ Sections(Body(w, m + 3)).ok <=> Progress(e)[m].at = "outside"
             /\ Sections(Body(w, m + 3)).text = Progress(e)[m].text
  <2> DEFINE b == SubSeq(e, 1, m)
  <2>1. m \in 0..Len(e) /\ m \in Nat /\ m <= Len(e)
    BY <1>5
  <2>2. Body(w, m + 3) = b
    BY <1>1, <1>4, <2>1, BodyIs
  <2>3. b \in Seq(U) /\ Len(b) = m /\ \A i \in 1..m : b[i] = e[i]
    BY <1>4, <2>1, Prefix
  <2> HIDE DEF b
  <2>4. Progress(b)[m] = Progress(e)[m]
    <3>1. m \in 0..Len(b) /\ Len(b) <= Len(e) /\ \A i \in 1..Len(b) : b[i] = e[i]
      BY <2>1, <2>3
    <3> QED
      BY <1>4, <2>3, <3>1, ProgressAgrees
  <2>5. /\ Sections(b).ok <=> Progress(b)[m].at = "outside"
        /\ Sections(b).text = Progress(b)[m].text
    BY <2>3 DEF Sections
  <2> QED
    BY <2>2, <2>4, <2>5
<1>7. Sections(Body(w, n + 3)).ok /\ Sections(Body(w, n + 3)).text = s
  <2>1. n \in 0..n
    BY <1>5
  <2>2. Progress(e)[n].at = "outside" /\ Progress(e)[n].text = s
    BY <1>4 DEF ReadTo
  <2> QED
    BY <1>6, <2>1, <2>2
<1> HIDE DEF w, n
<1>8. n + 3 \in 1..Len(w) /\ Len(w) - 2 = n + 4 /\ n + 3 \in 3..(n + 4)
  BY <1>5
<1>9. EndsAt(fence, n + 3)
  <2>1. (n + 3) + 1 = n + 4 /\ (n + 3) + 2 = n + 5 /\ n + 3 \in 1..(Len(w) - 2)
    BY <1>5
  <2>2. SubSeq(w, n + 3, (n + 3) + 2) = ClosingTag
    BY <1>5, <2>1, TagAt
  <2> QED
    BY <1>2, <1>7, <1>8, <2>2 DEF EndsAt
<1>10. ASSUME NEW i \in 1..((n + 3) - 1) PROVE ~EndsAt(fence, i)
  <2> SUFFICES ASSUME EndsAt(fence, i) PROVE FALSE
    OBVIOUS
  <2>1. /\ i \in 3..(Len(w) - 2) /\ SubSeq(w, i, i + 2) = ClosingTag
        /\ Sections(Body(w, i)).ok
    BY <1>2 DEF EndsAt
  <2>2. i \in 1..(Len(w) - 2)
    BY <1>8, <2>1
  <2>3. w[i] = "<"
    BY <1>5, <2>1, <2>2, TagAt
  <2> DEFINE m == i - 3
  <2>4. m \in 0..n /\ m + 3 = i /\ m \in 0..(n - 1)
    BY <1>5, <2>1
  <2>5. Progress(e)[m].at = "outside"
    <3>1. Sections(Body(w, m + 3)).ok
      BY <2>1, <2>4
    <3> HIDE DEF m
    <3> QED
      BY <1>6, <2>4, <3>1
  <2>6. Opens(e, m)
    BY <1>4, <2>4, <2>5 DEF NothingBetween
  <2>7. m + 2 \in 1..n /\ (m + 2) + 1 = i
    BY <1>5, <2>4, <2>6 DEF Opens, n
  <2>8. w[i] = "![CDATA["
    <3>1. w[(m + 2) + 1] = e[m + 2]
      BY <1>5, <2>7
    <3> QED
      BY <2>6, <2>7, <3>1 DEF Opens
  <2> QED
    BY <2>3, <2>8
<1>11. ElementEnd(fence) = n + 3
  <2>1. fence.wire \in Seq(U) /\ n + 3 \in 1..Len(fence.wire)
    BY <1>2, <1>5, <1>8
  <2> QED
    BY <1>9, <1>10, <2>1, FirstEnd
<1>12. Recover(fence) = Sections(Body(w, n + 3))
  <2>1. n + 3 # 0 /\ n + 3 > 0
    BY <1>5
  <2> QED
    BY <1>2, <1>11, <2>1 DEF Recover
<1> QED
  BY <1>7, <1>12 DEF fence

(* Both encodings read back, for every text, key and attributes. *)
LEMMA AlwaysReadBack ==
  ASSUME NEW S, NEW text \in Seq(S), NEW key, NEW meta
  PROVE  ReadBack(key, text, meta)
<1>1. CASE meta.encoding = "cdata"
  BY <1>1, CdataRecovered DEF ReadBack
<1>2. CASE meta.encoding # "cdata"
  BY <1>2, XmlRecovered DEF ReadBack
<1> QED
  BY <1>1, <1>2

=============================================================================
