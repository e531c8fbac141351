-------------------------- MODULE ProvenanceProofs --------------------------
(***************************************************************************)
(* What may leave the relay, for every set of callers, addresses, documents *)
(* and ACLs and any number of calls: the safety properties of the URL       *)
(* provenance check and its confirmations, and after them (from ReadUrl on) *)
(* those of a read, its connections and the windows it is answered with.    *)
(***************************************************************************)
EXTENDS Provenance, ReadUrl, DataProofs

(* A seen set in order: a bounded list without duplicates, taken from U. *)
SeenOK(s, U) ==
  s \in Seq(Url) /\ Len(s) <= MaxSeen /\ IsInjective(s) /\ ToSet(s) \subseteq U

Remembered ==
  /\ DOMAIN seen = Caller /\ shown \in [Caller -> SUBSET Url]
  /\ \A c \in Caller : SeenOK(seen[c], shown[c])

State == [binding : Caller \X Tool \X Url, exp : Nat]

(* A confirmation that was redeemed stays recorded as used for as long as   *)
(* it is answerable; this is what makes the second redemption impossible.   *)
Marked(n) ==
  now <= issued[n].exp => /\ redeemed[n] > 0 => n \in used
                          /\ redeemed[n] <= 1

Confirmations ==
  /\ issued \in Seq(State) /\ redeemed \in Seq(Nat)
  /\ Len(redeemed) = Len(issued) /\ used \subseteq DOMAIN issued
  /\ \A n \in DOMAIN issued : Marked(n)

Redeeming == [pc : {"redeem"}, caller : Caller, tool : Tool, url : Url,
              nonce : Nat, at : Nat, yes : BOOLEAN]
Fetches == [pc : {"fetch"}, caller : Caller, tool : Tool, url : Url]

(* A redemption in flight read the clock before its state expired, and was  *)
(* found to answer the binding it is for.                                   *)
RedeemingOK(q, states, yeses, t) ==
  /\ q \in Redeeming
  /\ q.nonce \in DOMAIN states
  /\ states[q.nonce].binding = Binding(q.caller, q.tool, q.url)
  /\ q.at <= t /\ q.at <= states[q.nonce].exp
  /\ q.yes => Binding(q.caller, q.tool, q.url) \in yeses

CallOK(q, states, yeses, t) ==
  q = Idle \/ q \in Fetches \/ RedeemingOK(q, states, yeses, t)

Calls ==
  DOMAIN call = Call /\ \A x \in Call : CallOK(call[x], issued, accepted, now)

(* The inductive invariant. *)
Inv ==
  /\ mode \in Modes /\ now \in 0..MaxTime /\ unasked = FALSE
  /\ Remembered /\ Confirmations /\ Calls

-----------------------------------------------------------------------------
(* A seen set stays in order when it is held against a larger set. *)
LEMMA SeenWidens ==
  ASSUME NEW s, NEW U, NEW V, U \subseteq V, SeenOK(s, U)
  PROVE  SeenOK(s, V)
BY DEF SeenOK

(* One more address keeps a seen set in order. *)
LEMMA SeenAddOK ==
  ASSUME NEW U, NEW s, SeenOK(s, U), NEW u \in Url, u \in U
  PROVE  SeenOK(SeenAdd(s, u), U)
<1>1. CASE Contains(s, u)
  BY <1>1 DEF SeenAdd
<1>2. CASE ~Contains(s, u)
  <2> DEFINE t == Append(s, u)
  <2>1. s \in Seq(Url) /\ Len(s) \in Nat /\ Len(s) <= MaxSeen /\ MaxSeen \in Nat \ {0}
    BY LenProperties, ProvenanceAssumption DEF SeenOK
  <2>2. /\ t \in Seq(Url) /\ Len(t) = Len(s) + 1 /\ t[Len(t)] = u
        /\ \A i \in 1..Len(s) : t[i] = s[i]
        /\ DOMAIN t = 1..(Len(s) + 1) /\ DOMAIN s = 1..Len(s)
    BY <2>1, AppendProperties, LenProperties
  <2>3. \A i \in 1..Len(s) : s[i] # u
    BY <1>2 DEF Contains
  <2>4. \A i, j \in DOMAIN t : t[i] = t[j] => i = j
    BY <2>1, <2>2, <2>3 DEF SeenOK, IsInjective
  <2>5. \A i \in DOMAIN t : t[i] \in U
    BY <2>1, <2>2 DEF SeenOK, ToSet
  <2> HIDE DEF t
  <2>6. CASE Len(t) > MaxSeen
    <3>1. /\ Tail(t) \in Seq(Url) /\ Len(Tail(t)) = Len(t) - 1
          /\ \A i \in 1..Len(Tail(t)) : Tail(t)[i] = t[i + 1]
      BY <2>1, <2>2, HeadTailProperties, EmptySeq
    <3>2. DOMAIN Tail(t) = 1..Len(s) /\ \A i \in 1..Len(s) : Tail(t)[i] = t[i + 1]
      BY <2>1, <2>2, <3>1, LenProperties
    <3>3. IsInjective(Tail(t))
      BY <2>1, <2>2, <2>4, <3>2 DEF IsInjective
    <3>4. ToSet(Tail(t)) \subseteq U
      BY <2>1, <2>2, <2>5, <3>2 DEF ToSet
    <3>5. SeenOK(Tail(t), U)
      BY <2>1, <2>2, <3>1, <3>3, <3>4 DEF SeenOK
    <3> QED
      BY <1>2, <2>6, <3>5 DEF SeenAdd, t
  <2>7. CASE ~(Len(t) > MaxSeen)
    <3>1. IsInjective(t) /\ ToSet(t) \subseteq U
      BY <2>4, <2>5 DEF IsInjective, ToSet
    <3>2. SeenOK(t, U)
      BY <2>1, <2>2, <2>7, <3>1 DEF SeenOK
    <3> QED
      BY <1>2, <2>7, <3>2 DEF SeenAdd, t
  <2> QED
    BY <2>6, <2>7
<1> QED
  BY <1>1, <1>2

(* Adding addresses one by one has a result after each, whatever their      *)
(* number: the recursion in SeenAddAll is well defined.                     *)
LEMMA SeenAddAllDefined ==
  ASSUME NEW s, NEW us, NEW n \in Nat
  PROVE  \E f : f = [i \in 0..n |-> IF i = 0 THEN s ELSE SeenAdd(f[i - 1], us[i])]
<1> DEFINE Steps(f, m) ==
             f = [i \in 0..m |-> IF i = 0 THEN s ELSE SeenAdd(f[i - 1], us[i])]
           T == {m \in Nat : ~\E f : Steps(f, m)}
<1>1. SUFFICES ASSUME T # {} PROVE FALSE
  OBVIOUS
<1>2. PICK m \in T : \A k \in T : m <= k
  <2>1. T \in SUBSET Nat
    OBVIOUS
  <2> HIDE DEF T
  <2> QED
    BY <1>1, <2>1, LeastElement
<1>3. CASE m = 0
  <2>1. Steps([i \in 0..0 |-> s], 0)
    OBVIOUS
  <2> QED
    BY <1>2, <1>3, <2>1
<1>4. CASE m # 0
  <2>1. m - 1 \in Nat /\ m \in Nat /\ m - 1 \notin T
    <3>1. m \in Nat /\ m - 1 \in Nat /\ ~(m <= m - 1)
      BY <1>2, <1>4
    <3> HIDE DEF T
    <3> QED
      BY <1>2, <3>1
  <2>2. PICK f : Steps(f, m - 1)
    BY <2>1
  <2> DEFINE g == [i \in 0..m |-> IF i = m THEN SeenAdd(f[m - 1], us[m]) ELSE f[i]]
  <2>3. /\ \A i \in 0..(m - 1) : g[i] = f[i]
        /\ g[m] = SeenAdd(f[m - 1], us[m])
    BY <2>1
  <2>4. \A i \in 0..(m - 1) : f[i] = IF i = 0 THEN s ELSE SeenAdd(f[i - 1], us[i])
    BY <2>2
  <2>5. \A i \in 0..m : g[i] = IF i = 0 THEN s ELSE SeenAdd(g[i - 1], us[i])
    <3> SUFFICES ASSUME NEW i \in 0..m
                 PROVE  g[i] = IF i = 0 THEN s ELSE SeenAdd(g[i - 1], us[i])
      OBVIOUS
    <3>1. CASE i = m
      BY <1>4, <2>1, <2>3, <3>1
    <3>2. CASE i = 0
      BY <1>4, <2>1, <2>3, <2>4, <3>2
    <3>3. CASE i \in 1..(m - 1)
      BY <2>1, <2>3, <2>4, <3>3
    <3> QED
      BY <2>1, <3>1, <3>2, <3>3
  <2>6. g = [i \in 0..m |-> g[i]]
    OBVIOUS
  <2> HIDE DEF g
  <2>7. Steps(g, m)
    BY <2>5, <2>6
  <2> QED
    BY <1>2, <2>7
<1> QED
  BY <1>3, <1>4

(* The addresses of an answer, all in U, keep a seen set in order. *)
LEMMA SeenAddAllOK ==
  ASSUME NEW U, NEW s, SeenOK(s, U), NEW us \in Seq(Url), ToSet(us) \subseteq U
  PROVE  SeenOK(SeenAddAll(s, us), U)
<1> DEFINE Steps(f) ==
             f = [i \in 0..Len(us) |-> IF i = 0 THEN s ELSE SeenAdd(f[i - 1], us[i])]
           added == CHOOSE f : Steps(f)
           T == {i \in 0..Len(us) : ~SeenOK(added[i], U)}
<1>1. Len(us) \in Nat /\ DOMAIN us = 1..Len(us)
  BY LenProperties
<1>2. Steps(added)
  BY <1>1, SeenAddAllDefined
<1>3. SeenAddAll(s, us) = added[Len(us)]
  BY DEF SeenAddAll
<1> HIDE DEF added
<1>4. \A i \in 0..Len(us) : added[i] = IF i = 0 THEN s ELSE SeenAdd(added[i - 1], us[i])
  BY <1>2
<1>5. ASSUME T # {} PROVE FALSE
  <2>1. PICK m \in T : \A k \in T : m <= k
    <3>1. T \in SUBSET Nat
      BY <1>1
    <3> HIDE DEF T
    <3> QED
      BY <1>5, <3>1, LeastElement
  <2>2. CASE m = 0
    BY <1>1, <1>4, <2>1, <2>2
  <2>3. CASE m # 0
    <3>1. m - 1 \in 0..Len(us) /\ m \in 1..Len(us) /\ m - 1 \notin T
      <4>1. m - 1 \in 0..Len(us) /\ m \in 1..Len(us) /\ ~(m <= m - 1)
        BY <1>1, <2>1, <2>3
      <4> HIDE DEF T
      <4> QED
        BY <2>1, <4>1
    <3>2. SeenOK(added[m - 1], U)
      BY <3>1
    <3>3. us[m] \in Url /\ us[m] \in U
      BY <1>1, <3>1, ElementOfSeq DEF ToSet
    <3>4. SeenOK(SeenAdd(added[m - 1], us[m]), U)
      BY <3>2, <3>3, SeenAddOK
    <3> QED
      BY <1>4, <2>1, <2>3, <3>1, <3>4
  <2> QED
    BY <2>2, <2>3
<1> QED
  BY <1>1, <1>3, <1>5

-----------------------------------------------------------------------------
(* The first states satisfy the invariant. *)
LEMMA InvInit == Init => Inv
<1> SUFFICES ASSUME Init PROVE Inv
  OBVIOUS
<1>1. SeenOK(<< >>, {})
  BY ProvenanceAssumption, EmptySeq DEF SeenOK, IsInjective, ToSet
<1>2. Remembered
  BY <1>1 DEF Init, Remembered
<1>3. Confirmations
  BY EmptySeq DEF Init, Confirmations
<1> QED
  BY <1>2, <1>3, ProvenanceAssumption DEF Init, Inv, Calls, CallOK

(* What the check lets through without asking the user is justified. *)
LEMMA AllowedJustified ==
  ASSUME Inv, NEW c \in Caller, NEW tool, NEW u, Allowed(c, u)
  PROVE  Justified(c, tool, u)
<1>1. Contains(seen[c], u) => u \in shown[c]
  BY LenProperties DEF Inv, Remembered, SeenOK, Contains, ToSet
<1>2. mode \in {"enforce", "strict", "log", "off"}
  BY ProvenanceAssumption DEF Inv, ProvenanceMode
<1> QED
  BY <1>1, <1>2 DEF Allowed, Justified

(* What is shown to a caller keeps its seen set in order. *)
LEMMA ShowKeeps ==
  ASSUME Inv, NEW c \in Caller, NEW us \in Seq(Url),
         seen' = [seen EXCEPT ![c] = SeenAddAll(@, us)],
         shown' = [shown EXCEPT ![c] = @ \cup ToSet(us)]
  PROVE  Remembered'
<1> DEFINE U == shown[c] \cup ToSet(us)
<1>1. SeenOK(seen[c], U)
  BY SeenWidens DEF Inv, Remembered
<1>2. SeenOK(SeenAddAll(seen[c], us), U)
  BY <1>1, SeenAddAllOK
<1>3. ToSet(us) \subseteq Url
  BY ElementOfSeq, LenProperties DEF ToSet
<1>4. shown' \in [Caller -> SUBSET Url] /\ DOMAIN seen' = Caller
  BY <1>3 DEF Inv, Remembered
<1>5. ASSUME NEW d \in Caller PROVE SeenOK(seen'[d], shown'[d])
  BY <1>2 DEF Inv, Remembered
<1> QED
  BY <1>4, <1>5 DEF Remembered

(* Time passes: a redemption's reading of the clock only gets older.        *)
LEMMA InvTick == Inv /\ Tick => Inv'
<1> SUFFICES ASSUME Inv, Tick PROVE Inv'
  OBVIOUS
<1>1. now \in Nat /\ now' = now + 1 /\ now' \in 0..MaxTime
  BY ProvenanceAssumption DEF Inv, Tick
<1>2. Confirmations'
  <2>1. \A n \in DOMAIN issued : issued[n].exp \in Nat
    <3>1. \A n \in DOMAIN issued : issued[n] \in State
      BY ElementOfSeq, LenProperties DEF Inv, Confirmations
    <3> QED
      BY <3>1 DEF State
  <2>2. \A n \in DOMAIN issued : Marked(n)'
    BY <1>1, <2>1 DEF Inv, Tick, Confirmations, Marked
  <2> QED
    BY <2>2 DEF Inv, Tick, Confirmations
<1>3. Calls'
  <2> SUFFICES ASSUME NEW x \in Call PROVE CallOK(call[x], issued, accepted, now')
    BY DEF Inv, Tick, Calls
  <2>1. CallOK(call[x], issued, accepted, now)
    BY DEF Inv, Calls
  <2> QED
    BY <1>1, <2>1 DEF CallOK, RedeemingOK, Redeeming
<1> QED
  BY <1>1, <1>2, <1>3 DEF Inv, Tick, Remembered

(* The calls and the confirmations are as they were. *)
LEMMA SameCalls ==
  ASSUME Inv, UNCHANGED <<now, issued, used, redeemed>>
  PROVE  Confirmations' /\ (UNCHANGED <<call, accepted>> => Calls')
BY DEF Inv, Confirmations, Marked, Calls

(* An answer of a search is shown. *)
LEMMA InvShowResults ==
  ASSUME Inv, NEW c \in Caller, NEW us \in Answers, ShowResults(c, us)
  PROVE  Inv'
<1>1. us \in Seq(Url)
  BY ProvenanceAssumption
<1>2. Remembered'
  BY <1>1, ShowKeeps DEF ShowResults
<1> QED
  BY <1>2, SameCalls DEF Inv, ShowResults

(* A caller is forgotten: its seen set is empty, what it was shown stays.   *)
LEMMA InvForgetCaller ==
  ASSUME Inv, NEW c \in Caller, ForgetCaller(c)
  PROVE  Inv'
<1>1. SeenOK(<< >>, shown[c])
  BY ProvenanceAssumption, EmptySeq DEF SeenOK, IsInjective, ToSet
<1>2. Remembered'
  BY <1>1 DEF Inv, Remembered, ForgetCaller
<1> QED
  BY <1>2, SameCalls DEF Inv, ForgetCaller

(* The check lets a call through. *)
LEMMA InvPass ==
  ASSUME Inv, NEW x \in Call, NEW c \in Caller, NEW tool \in Tool, NEW u \in Url,
         Pass(x, c, tool, u)
  PROVE  Inv'
<1>1. unasked' = FALSE
  BY AllowedJustified DEF Pass, Inv
<1>2. Fetching(c, tool, u) \in Fetches
  BY DEF Fetching, Fetches
<1>3. Calls'
  BY <1>2 DEF Inv, Pass, Calls, CallOK
<1> QED
  BY <1>1, <1>3, SameCalls DEF Inv, Pass, Remembered

(* A call whose client can be asked gets a confirmation state. *)
LEMMA InvAsk ==
  ASSUME Inv, NEW x \in Call, NEW c \in Caller, NEW tool \in Tool, NEW u \in Url,
         Ask(x, c, tool, u)
  PROVE  Inv'
<1> DEFINE st == [binding |-> Binding(c, tool, u), exp |-> now + ConfirmTTL]
<1>1. st \in State /\ now \in Nat
  BY ProvenanceAssumption DEF Inv, State, Binding
<1>2. issued' = Append(issued, st) /\ redeemed' = Append(redeemed, 0)
  BY DEF Ask
<1> HIDE DEF st
<1>3. /\ Len(issued) \in Nat /\ Len(redeemed) = Len(issued)
      /\ DOMAIN issued = 1..Len(issued) /\ DOMAIN redeemed = 1..Len(issued)
  BY LenProperties DEF Inv, Confirmations
<1>4. /\ issued' \in Seq(State) /\ Len(issued') = Len(issued) + 1
      /\ \A n \in 1..Len(issued) : issued'[n] = issued[n]
  BY <1>1, <1>2, <1>3, AppendProperties DEF Inv, Confirmations
<1>5. /\ redeemed' \in Seq(Nat) /\ Len(redeemed') = Len(issued) + 1
      /\ \A n \in 1..Len(issued) : redeemed'[n] = redeemed[n]
      /\ redeemed'[Len(issued) + 1] = 0
  BY <1>2, <1>3, AppendProperties DEF Inv, Confirmations
<1>6. DOMAIN issued' = 1..(Len(issued) + 1)
  BY <1>4, LenProperties
<1>7. Confirmations'
  <2>1. used' \subseteq DOMAIN issued'
    BY <1>3, <1>6 DEF Ask, Inv, Confirmations
  <2>2. ASSUME NEW n \in DOMAIN issued' PROVE Marked(n)'
    <3>1. CASE n \in 1..Len(issued)
      BY <1>3, <1>4, <1>5, <3>1 DEF Ask, Inv, Confirmations, Marked
    <3>2. CASE n = Len(issued) + 1
      BY <1>5, <3>2 DEF Marked
    <3> QED
      BY <1>3, <1>6, <3>1, <3>2
  <2> QED
    BY <1>4, <1>5, <2>1, <2>2 DEF Confirmations
<1>8. Calls'
  <2> SUFFICES ASSUME NEW y \in Call PROVE CallOK(call[y], issued', accepted, now)
    BY DEF Inv, Ask, Calls
  <2>1. CallOK(call[y], issued, accepted, now)
    BY DEF Inv, Calls
  <2> QED
    BY <1>3, <1>4, <1>6, <2>1 DEF CallOK, RedeemingOK
<1> QED
  BY <1>7, <1>8 DEF Inv, Ask, Remembered

(* A retry whose state answers this call: the redemption starts. *)
LEMMA InvRetry ==
  ASSUME Inv, NEW x \in Call, NEW c \in Caller, NEW tool \in Tool, NEW u \in Url,
         NEW n \in DOMAIN issued, NEW yes \in BOOLEAN, Retry(x, c, tool, u, n, yes)
  PROVE  Inv'
<1> DEFINE q == [pc |-> "redeem", caller |-> c, tool |-> tool, url |-> u,
                 nonce |-> n, at |-> now, yes |-> yes]
<1>1. now \in Nat /\ n \in Nat
  BY ProvenanceAssumption, LenProperties DEF Inv, Confirmations
<1>2. q \in Redeeming /\ q.nonce = n /\ q.at = now /\ q.yes = yes
      /\ q.caller = c /\ q.tool = tool /\ q.url = u
  BY <1>1 DEF Redeeming
<1>3. call' = [call EXCEPT ![x] = q]
  BY DEF Retry
<1> HIDE DEF q
<1>4. /\ issued[n].binding = Binding(c, tool, u) /\ now <= issued[n].exp
      /\ accepted \subseteq accepted' /\ (yes => Binding(c, tool, u) \in accepted')
  BY DEF Retry, Redeemable
<1>5. RedeemingOK(q, issued, accepted', now)
  BY <1>1, <1>2, <1>4 DEF RedeemingOK
<1>6. \A y \in Call : CallOK(call[y], issued, accepted', now)
  BY <1>4 DEF Inv, Calls, CallOK, RedeemingOK
<1>7. \A y \in Call : CallOK(call'[y], issued, accepted', now)
  BY <1>3, <1>5, <1>6 DEF CallOK, Inv, Calls
<1>8. Calls'
  BY <1>3, <1>7 DEF Retry, Inv, Calls
<1> QED
  BY <1>8, SameCalls DEF Inv, Retry, Remembered

(* A redemption is settled under redeem's lock.  The marks it purges are of *)
(* states past their expiry, and the state it redeems was not: its reading  *)
(* of the clock is within the expiry, so a mark on it was not purged.       *)
LEMMA RedeemConfirms ==
  ASSUME Inv, NEW x \in Call, Redeem(x)
  PROVE  Confirmations'
<1> DEFINE r == call[x]
           n == r.nonce
<1>1. /\ r \in Redeeming /\ n \in DOMAIN issued
      /\ r.at <= now /\ r.at <= issued[n].exp
  BY DEF Inv, Calls, CallOK, Redeem, RedeemingOK, Idle, Fetches
<1>2. r.at \in Nat /\ now \in Nat
  BY <1>1, ProvenanceAssumption DEF Redeeming, Inv
<1>3. /\ Len(issued) \in Nat /\ Len(redeemed) = Len(issued)
      /\ DOMAIN issued = 1..Len(issued) /\ DOMAIN redeemed = 1..Len(issued)
  BY LenProperties DEF Inv, Confirmations
<1>4. \A m \in DOMAIN issued : issued[m].exp \in Nat
  <2>1. \A m \in DOMAIN issued : issued[m] \in State
    BY <1>3, ElementOfSeq DEF Inv, Confirmations
  <2> QED
    BY <2>1 DEF State
<1>5. issued' = issued /\ now' = now
  BY DEF Redeem
<1>6. \A m \in used : now <= issued[m].exp => m \in StillUsed(r.at)
  BY <1>1, <1>2, <1>4 DEF StillUsed, Inv, Confirmations
<1>7. StillUsed(r.at) \subseteq used /\ (n \in used => n \in StillUsed(r.at))
  BY <1>1 DEF StillUsed
<1>8. CASE n \in StillUsed(r.at) /\ used' = StillUsed(r.at) /\ redeemed' = redeemed
  BY <1>5, <1>6, <1>7, <1>8 DEF Inv, Confirmations, Marked
<1>9. CASE /\ n \notin StillUsed(r.at) /\ used' = StillUsed(r.at) \cup {n}
           /\ redeemed' = [redeemed EXCEPT ![n] = @ + 1]
  <2>1. redeemed[n] \in Nat /\ redeemed[n] + 1 \in Nat
    BY <1>1, <1>3, ElementOfSeq DEF Inv, Confirmations
  <2>2. /\ redeemed' \in Seq(Nat) /\ Len(redeemed') = Len(redeemed)
        /\ redeemed'[n] = redeemed[n] + 1
        /\ \A m \in DOMAIN issued \ {n} : redeemed'[m] = redeemed[m]
    BY <1>1, <1>3, <1>9, <2>1, ExceptSeq DEF Inv, Confirmations
  <2>3. ASSUME NEW m \in DOMAIN issued PROVE Marked(m)'
    <3>1. CASE m = n
      <4>1. now <= issued[n].exp => redeemed[n] = 0
        BY <1>1, <1>7, <1>9, <2>1 DEF Inv, Confirmations, Marked
      <4> QED
        BY <1>5, <1>9, <2>1, <2>2, <3>1, <4>1 DEF Marked
    <3>2. CASE m # n
      BY <1>5, <1>6, <1>9, <2>2, <3>2 DEF Inv, Confirmations, Marked
    <3> QED
      BY <3>1, <3>2
  <2> QED
    BY <1>1, <1>3, <1>5, <1>7, <1>9, <2>2, <2>3 DEF Inv, Confirmations
<1> QED
  BY <1>8, <1>9 DEF Redeem

(* The other calls stay where they are. *)
LEMMA OneCallMoves ==
  ASSUME Inv, NEW x \in Call, NEW q, q = Idle \/ q \in Fetches,
         call' = [call EXCEPT ![x] = q], UNCHANGED <<now, issued, accepted>>
  PROVE  Calls'
BY DEF Inv, Calls, CallOK

(* A redemption is settled. *)
LEMMA InvRedeem ==
  ASSUME Inv, NEW x \in Call, Redeem(x)
  PROVE  Inv'
<1> DEFINE r == call[x]
           c == r.caller
<1>1. /\ r \in Redeeming
      /\ r.yes => Binding(c, r.tool, r.url) \in accepted
  BY DEF Inv, Calls, CallOK, Redeem, RedeemingOK, Idle, Fetches
<1>2. c \in Caller /\ r.tool \in Tool /\ r.url \in Url
  BY <1>1 DEF Redeeming
<1>3. Confirmations'
  BY RedeemConfirms
<1>4. UNCHANGED <<mode, now, issued, accepted>>
  BY DEF Redeem
<1>5. CASE call' = [call EXCEPT ![x] = Idle] /\ UNCHANGED <<seen, shown, unasked>>
  BY <1>3, <1>4, <1>5, OneCallMoves DEF Inv, Remembered
<1>6. CASE /\ r.yes
           /\ seen' = [seen EXCEPT ![c] = SeenAdd(@, r.url)]
           /\ unasked' = (unasked \/ ~Justified(c, r.tool, r.url))
           /\ shown' = [shown EXCEPT ![c] = @ \cup {r.url}]
           /\ call' = [call EXCEPT ![x] = Fetching(c, r.tool, r.url)]
  <2> DEFINE U == shown[c] \cup {r.url}
  <2>1. SeenOK(SeenAdd(seen[c], r.url), U)
    <3>1. SeenOK(seen[c], U)
      BY <1>2, SeenWidens DEF Inv, Remembered
    <3> QED
      BY <1>2, <3>1, SeenAddOK
  <2>2. shown' \in [Caller -> SUBSET Url] /\ DOMAIN seen' = Caller
    BY <1>2, <1>6 DEF Inv, Remembered
  <2>3. \A d \in Caller : SeenOK(seen'[d], shown'[d])
    BY <1>2, <1>6, <2>1 DEF Inv, Remembered
  <2>4. Fetching(c, r.tool, r.url) \in Fetches
    BY <1>2 DEF Fetching, Fetches
  <2>5. Calls'
    BY <1>4, <1>6, <2>4, OneCallMoves
  <2>6. unasked' = FALSE
    BY <1>1, <1>6 DEF Justified, Binding, Inv
  <2> QED
    BY <1>3, <1>4, <2>2, <2>3, <2>5, <2>6 DEF Inv, Remembered
<1> QED
  BY <1>5, <1>6 DEF Redeem

(* A fetch ends. *)
LEMMA InvFinish ==
  ASSUME Inv, NEW x \in Call, NEW us \in Answers, Finish(x, us)
  PROVE  Inv'
<1> DEFINE c   == call[x].caller
           new == <<call[x].url>> \o us
<1>1. call[x] \in Fetches
  BY DEF Inv, Calls, CallOK, Finish, RedeemingOK, Idle, Redeeming
<1>2. c \in Caller /\ new \in Seq(Url)
  <2>1. call[x].caller \in Caller /\ call[x].url \in Url /\ us \in Seq(Url)
    BY <1>1, ProvenanceAssumption DEF Fetches
  <2> QED
    BY <2>1, ConcatProperties
<1>3. /\ call' = [call EXCEPT ![x] = Idle]
      /\ UNCHANGED <<mode, now, issued, used, accepted, redeemed, unasked>>
  BY DEF Finish
<1>4. Calls' /\ Confirmations'
  BY <1>3, OneCallMoves, SameCalls
<1>5. CASE UNCHANGED <<seen, shown>>
  BY <1>3, <1>4, <1>5 DEF Inv, Remembered
<1>6. CASE /\ seen' = [seen EXCEPT ![c] = SeenAddAll(@, new)]
           /\ shown' = [shown EXCEPT ![c] = @ \cup ToSet(new)]
  <2>1. Remembered'
    <3> HIDE DEF c, new
    <3> QED
      BY <1>2, <1>6, ShowKeeps
  <2> QED
    BY <1>3, <1>4, <2>1 DEF Inv
<1> QED
  BY <1>5, <1>6 DEF Finish

(* Every step keeps the invariant. *)
LEMMA InvNext == Inv /\ [Next]_vars => Inv'
<1> SUFFICES ASSUME Inv, [Next]_vars PROVE Inv'
  OBVIOUS
<1>1. CASE Tick
  BY <1>1, InvTick
<1>2. CASE \E c \in Caller : ForgetCaller(c) \/ \E us \in Answers : ShowResults(c, us)
  BY <1>2, InvForgetCaller, InvShowResults
<1>3. CASE \E x \in Call, c \in Caller, tool \in Tool, u \in Url :
             \/ Pass(x, c, tool, u)
             \/ Ask(x, c, tool, u)
             \/ \E n \in DOMAIN issued, yes \in BOOLEAN : Retry(x, c, tool, u, n, yes)
  BY <1>3, InvPass, InvAsk, InvRetry
<1>4. CASE \E x \in Call : Redeem(x) \/ \E us \in Answers : Finish(x, us)
  BY <1>4, InvRedeem, InvFinish
<1>5. CASE UNCHANGED vars
  BY <1>5, SameCalls DEF vars, Inv, Remembered
<1> QED
  BY <1>1, <1>2, <1>3, <1>4, <1>5 DEF Next

(* The invariant holds in every reachable state. *)
THEOREM ProvenanceInvariant == Spec => []Inv
BY InvInit, InvNext, PTL DEF Spec

-----------------------------------------------------------------------------
(* Whatever is fetched was shown to this caller, is trusted or was          *)
(* confirmed by its user: checkURLProvenance never lets anything else by.   *)
THEOREM ProvenanceKept == Spec => []NoUnaskedFetch
<1>1. Inv => NoUnaskedFetch
  BY DEF Inv, NoUnaskedFetch
<1> QED
  BY <1>1, ProvenanceInvariant, PTL

(* seenURLs never holds an address its caller was not shown, nor one twice, *)
(* however often it is flooded and however often the caller is forgotten.   *)
THEOREM SeenSetHonest == Spec => []SeenIsShown
<1>1. Inv => SeenIsShown
  <2> SUFFICES ASSUME Inv PROVE SeenIsShown
    OBVIOUS
  <2>1. DOMAIN redeemed = DOMAIN issued
    BY LenProperties DEF Inv, Confirmations
  <2>2. \A x \in Call : call[x].pc \in {"idle", "redeem", "fetch"}
    BY DEF Inv, Calls, CallOK, RedeemingOK, Idle, Redeeming, Fetches
  <2>3. TypeOK
    BY <2>1, <2>2 DEF Inv, Remembered, Confirmations, SeenOK, TypeOK
  <2> QED
    BY <2>3 DEF Inv, Remembered, SeenOK, SeenIsShown
<1> QED
  BY <1>1, ProvenanceInvariant, PTL

(* No confirmation is redeemed twice while it is answerable, whatever       *)
(* number of retries race for it.                                           *)
THEOREM ConfirmedOnce == Spec => []SingleUseUntilExpiry
<1>1. Inv => SingleUseUntilExpiry
  <2> SUFFICES ASSUME Inv, NEW n \in DOMAIN issued, redeemed[n] > 1
               PROVE  now > issued[n].exp
    BY DEF SingleUseUntilExpiry
  <2>1. issued[n] \in State /\ redeemed[n] \in Nat
    BY ElementOfSeq, LenProperties DEF Inv, Confirmations
  <2>2. issued[n].exp \in Nat /\ now \in Nat
    BY <2>1, ProvenanceAssumption DEF State, Inv
  <2> QED
    BY <2>1, <2>2 DEF Inv, Confirmations, Marked
<1> QED
  BY <1>1, ProvenanceInvariant, PTL
-----------------------------------------------------------------------------
(* What goes out once a call may fetch, and what comes back: for every      *)
(* document, text, ACL and resolver.  The two specifications share no       *)
(* state.                                                                   *)

(* A connection, a request on its way to one, and a request sent. *)
Connection == [to : Target, proxied : BOOLEAN, ip : Address]
UnderWay == [pc : {"route", "connect", "redirect"}, target : Target, made : Nat]
Sending  == [pc : {"sent"}, target : Target, made : Nat, conn : Connection]

Open == idle \subseteq Connection /\ \A c \in idle : ConnAllowed(c)

(* A request goes out for its target, or through the proxy that is to carry *)
(* it, on a connection the ACL allows; none names the proxy by then.        *)
FetchOK ==
  \/ fetch \in {NoFetch, Got, Failed(0), Failed(1)}
  \/ fetch \in UnderWay /\ (fetch.pc = "connect" => ~NamesProxy(fetch.target))
  \/ /\ fetch \in Sending /\ ConnAllowed(fetch.conn)
     /\ IF fetch.conn.proxied THEN acl.all \/ HostAllowed(fetch.target)
        ELSE fetch.conn.to = fetch.target

EgressInv == acl \in Configs /\ Open /\ FetchOK

(* Where a window can end: before a rune, or at the end of the text. *)
Ends(t) == t.starts \cup {t.size}

(* What a client has read without a gap is all of a text up to there. *)
ChainOK ==
  chain # NoText => /\ chain.text \in Texts /\ chain.upTo \in Ends(chain.text)
                    /\ chain.chars = chain.upTo

Asked ==
  /\ doc \in Doc /\ page \in Texts \cup {Image} /\ cache \in Texts \cup {NoText}
  /\ asked.start \in Int /\ asked.length \in Int

Replied ==
  /\ reply.read \in {"none", "partial", "full", "image"}
  /\ reply.asked \in Int /\ reply.hint \in Nat
  /\ reply.read = "partial" /\ reply.hint # 0 => reply.hint > reply.asked
  /\ chain # NoText /\ reply.read \in {"partial", "full"} =>
       (reply.read = "full" <=> chain.upTo = chain.text.size /\ ~chain.text.cut)

(* The inductive invariant. *)
ReadInv == EgressInv /\ Asked /\ ChainOK /\ Replied

-----------------------------------------------------------------------------
(* The last rune start up to an offset. *)
LEMMA LastStartIs ==
  ASSUME NEW t, IsText(t), t.size > 0, NEW i \in Nat
  PROVE  /\ LastStart(t, i) \in t.starts /\ LastStart(t, i) <= i
         /\ \A k \in t.starts : k <= i => k <= LastStart(t, i)
<1> DEFINE B == {i - k : k \in {x \in t.starts : x <= i}}
<1>1. t.starts \subseteq Nat /\ 0 \in t.starts
  BY DEF IsText
<1>2. B \in SUBSET Nat /\ i - 0 \in B
  BY <1>1
<1>3. PICK b \in B : \A y \in B : b <= y
  <2> HIDE DEF B
  <2> QED
    BY <1>2, LeastElement
<1>4. PICK e \in t.starts : e <= i /\ b = i - e
  BY <1>3
<1>5. \A k \in t.starts : k <= i => k <= e
  <2>1. ASSUME NEW k \in t.starts, k <= i PROVE k <= e
    <3>1. i - k \in B /\ k \in Nat /\ e \in Nat
      BY <1>1, <2>1
    <3>2. i - e <= i - k
      BY <1>3, <1>4, <3>1
    <3> QED
      BY <3>1, <3>2
  <2> QED
    BY <2>1
<1> QED
  BY <1>4, <1>5 DEF LastStart

(* The next rune start after an offset, or the text's end. *)
LEMMA NextStartIs ==
  ASSUME NEW t, IsText(t), NEW i \in Nat, i < t.size
  PROVE  /\ NextStart(t, i) \in Ends(t) /\ NextStart(t, i) > i
         /\ \A k \in Ends(t) : k > i => NextStart(t, i) <= k
<1> DEFINE T == {k \in Ends(t) : k > i}
<1>1. Ends(t) \subseteq Nat /\ t.size \in Ends(t)
  BY DEF IsText, Ends
<1>2. T \in SUBSET Nat /\ t.size \in T
  BY <1>1
<1>3. \E x \in T : \A y \in T : x <= y
  <2> HIDE DEF T
  <2> QED
    BY <1>2, LeastElement
<1>4. \E j \in Ends(t) : j > i /\ \A k \in Ends(t) : k > i => j <= k
  BY <1>3
<1> QED
  BY <1>4 DEF NextStart, Ends

(* A window starts where it was asked for, or at the rune that offset is    *)
(* in; it ends between runes, beyond the offset unless the text does.       *)
WindowOK(t, start, w) ==
  /\ w.start \in Nat /\ w.end \in Ends(t) /\ w.end \in Nat /\ w.end <= t.size
  /\ start <= 0 => w.start = 0
  /\ start \in t.starts => w.start = start
  /\ w.end < t.size => w.end > start

(* paginateContent returns such a window. *)
LEMMA WindowIsOK ==
  ASSUME NEW t, IsText(t), NEW start \in Int, NEW length \in Int,
         ~BeyondEnd(t, start)
  PROVE  WindowOK(t, start, Window(t, start, length))
<1> DEFINE s == StartOf(t, start)
           n == Length(length)
           e == EndOf(t, s, n)
<1>1. /\ t.size \in Nat /\ t.starts \subseteq 0..(t.size - 1) /\ t.size \in Ends(t)
      /\ t.starts \subseteq Ends(t)
  BY DEF IsText, Ends
<1>2. n \in Nat /\ n > 0
  BY PaginateAssumption DEF Length
<1>3. CASE t.size = 0
  <2>1. start <= 0 /\ t.starts = {}
    BY <1>1, <1>3 DEF BeyondEnd
  <2>2. s = 0
    BY <2>1 DEF StartOf
  <2>3. e = 0
    BY <1>2, <1>3, <2>2 DEF EndOf
  <2> QED
    BY <1>1, <1>3, <2>1, <2>2, <2>3 DEF WindowOK, Window
<1>4. CASE t.size > 0
  <2>1. 0 \in t.starts
    BY <1>4 DEF IsText
  <2>2. /\ s \in t.starts /\ s \in Nat /\ s < t.size
        /\ start <= 0 => s = 0
        /\ \A k \in t.starts : k <= start => k <= s
        /\ start \in t.starts => s = start
    <3>1. CASE start <= 0
      BY <1>1, <2>1, <3>1 DEF StartOf
    <3>2. CASE start > 0
      <4>1. start \in Nat /\ s = LastStart(t, start)
        BY <3>2 DEF StartOf
      <4>2. s \in t.starts /\ s <= start /\ \A k \in t.starts : k <= start => k <= s
        BY <1>4, <4>1, LastStartIs
      <4> HIDE DEF s
      <4>3. s \in Nat /\ s < t.size
        BY <1>1, <4>2
      <4>4. start \in t.starts => s = start
        BY <4>1, <4>2, <4>3
      <4> QED
        BY <3>2, <4>2, <4>3, <4>4
    <3> QED
      BY <3>1, <3>2
  <2> HIDE DEF s, n
  <2>3. e \in Ends(t) /\ (e < t.size => e > s)
    <3>1. CASE s + n >= t.size
      BY <1>1, <3>1 DEF EndOf
    <3>2. CASE ~(s + n >= t.size)
      <4> DEFINE l == LastStart(t, s + n)
      <4>1. s + n \in Nat /\ s <= s + n
        BY <1>2, <2>2
      <4>2. l \in t.starts /\ s <= l
        BY <1>4, <2>2, <4>1, LastStartIs
      <4>3. NextStart(t, s) \in Ends(t) /\ NextStart(t, s) > s
        BY <2>2, NextStartIs
      <4>4. e = IF l = s THEN NextStart(t, s) ELSE l
        BY <3>2 DEF EndOf
      <4> HIDE DEF l, e
      <4>5. l \in Nat /\ s \in Nat
        BY <1>1, <2>2, <4>2
      <4> QED
        BY <1>1, <4>2, <4>3, <4>4, <4>5
    <3> QED
      BY <3>1, <3>2
  <2> HIDE DEF e
  <2>4. e \in Nat /\ e <= t.size
    BY <1>1, <2>3 DEF Ends
  <2>5. e < t.size => e > start
    <3> SUFFICES ASSUME e < t.size PROVE e > start
      OBVIOUS
    <3>1. e \in t.starts /\ e > s
      BY <1>1, <2>3, <2>4 DEF Ends
    <3>2. ~(e <= start)
      BY <2>2, <2>4, <3>1
    <3> QED
      BY <2>4, <3>2
  <2>6. Window(t, start, length) = [start |-> s, end |-> e]
    BY DEF Window, s, e, n
  <2> QED
    BY <2>2, <2>3, <2>4, <2>5, <2>6 DEF WindowOK
<1> QED
  BY <1>1, <1>3, <1>4

(* What an answer makes of the client's chain. *)
LEMMA RespondOK ==
  ASSUME ChainOK, NEW t \in Texts, NEW start \in Int, NEW length \in Int,
         Respond(t, start, length)
  PROVE  ChainOK' /\ Replied'
<1>1. IsText(t) /\ t.cut \in BOOLEAN /\ t.size \in Nat
  BY ReadUrlAssumption DEF IsText
<1>2. CASE BeyondEnd(t, start)
  <2>1. reply' = [read |-> "none", asked |-> start, hint |-> 0] /\ chain' = NoText
    BY <1>2 DEF Respond, NoReply
  <2> QED
    BY <2>1 DEF ChainOK, Replied
<1>3. CASE ~BeyondEnd(t, start)
  <2> DEFINE w == Window(t, start, length)
             c == Chained(t, start, w)
  <2>1. WindowOK(t, start, w)
    BY <1>1, <1>3, WindowIsOK
  <2>2. /\ reply' = [read |-> Depth(t, w), asked |-> start, hint |-> Hint(t, w)]
        /\ chain' = c
    BY <1>3 DEF Respond
  <2> HIDE DEF w
  <2>3. c # NoText => c.text = t /\ c.upTo = w.end /\ c.chars = w.end
    <3>1. CASE start <= 0
      <4>1. c = [text |-> t, upTo |-> w.end, chars |-> w.end - w.start]
        BY <3>1 DEF Chained
      <4>2. w.start = 0 /\ w.end \in Nat
        BY <2>1, <3>1 DEF WindowOK
      <4>3. w.end - w.start = w.end
        BY <4>2
      <4> QED
        BY <4>1, <4>3
    <3>2. CASE start > 0 /\ chain # NoText /\ chain.text = t /\ chain.upTo = start
      <4>1. c = [text |-> t, upTo |-> w.end, chars |-> chain.chars + w.end - w.start]
        BY <3>2 DEF Chained
      <4>2. start \in Ends(t) /\ chain.chars = start
        BY <3>2 DEF ChainOK
      <4>3. start \in t.starts
        BY <1>1, <1>3, <3>2, <4>2 DEF Ends, BeyondEnd
      <4>4. w.start = start /\ w.end \in Nat
        BY <2>1, <4>3 DEF WindowOK
      <4>5. chain.chars + w.end - w.start = w.end
        BY <4>2, <4>4
      <4> QED
        BY <4>1, <4>5
    <3>3. CASE ~(start <= 0) /\ ~(chain # NoText /\ chain.text = t /\ chain.upTo = start)
      BY <3>3 DEF Chained
    <3> QED
      BY <3>1, <3>2, <3>3
  <2> HIDE DEF c
  <2>4. ChainOK'
    <3>1. w.end \in Ends(t)
      BY <2>1 DEF WindowOK
    <3> QED
      BY <2>2, <2>3, <3>1 DEF ChainOK, Ends
  <2>5. reply'.read \in {"partial", "full"} /\ reply'.asked = start /\ reply'.hint = Hint(t, w)
    BY <2>2 DEF Depth
  <2>6. Hint(t, w) \in Nat /\ (Hint(t, w) # 0 => Hint(t, w) > start)
    BY <2>1 DEF WindowOK, Hint
  <2>7. w.end >= t.size <=> w.end = t.size
    BY <1>1, <2>1 DEF WindowOK
  <2>8. reply'.read = "full" <=> w.end = t.size /\ ~t.cut
    BY <2>2, <2>7 DEF Depth
  <2>9. chain' # NoText =>
          (reply'.read = "full" <=> chain'.upTo = chain'.text.size /\ ~chain'.text.cut)
    BY <2>2, <2>3, <2>8
  <2> QED
    BY <2>4, <2>5, <2>6, <2>9 DEF Replied
<1> QED
  BY <1>2, <1>3

-----------------------------------------------------------------------------
(* Where a fetch is says what it holds. *)
LEMMA FetchAt ==
  ASSUME FetchOK
  PROVE  /\ fetch.pc \in {"none", "got", "failed", "route", "connect", "redirect", "sent"}
         /\ fetch.pc \in {"route", "connect", "redirect"} => fetch \in UnderWay
         /\ fetch.pc = "connect" => ~NamesProxy(fetch.target)
         /\ fetch.pc = "sent" =>
              /\ fetch \in Sending /\ ConnAllowed(fetch.conn)
              /\ IF fetch.conn.proxied THEN acl.all \/ HostAllowed(fetch.target)
                 ELSE fetch.conn.to = fetch.target
BY DEF FetchOK, UnderWay, Sending, NoFetch, Got, Failed

(* A fetch for a target is on its way to a route. *)
LEMMA RequestOK ==
  ASSUME NEW t \in Target, NEW n \in Nat, fetch' = Request(t, n)
  PROVE  FetchOK'
BY DEF Request, FetchOK, UnderWay

(* The operators of the ACL read only the ACL. *)
LEMMA SameAcl ==
  ASSUME acl' = acl
  PROVE  /\ \A c : ConnAllowed(c)' <=> ConnAllowed(c)
         /\ \A t : HostAllowed(t)' <=> HostAllowed(t)
         /\ \A t : NamesProxy(t)' <=> NamesProxy(t)
BY DEF ConnAllowed, HostAllowed, NamesProxy, Reachable

(* What the configuration was refused without: an ACL that sends everything *)
(* through the proxy has one.                                               *)
LEMMA AclIsOK ==
  ASSUME acl \in Configs
  PROVE  acl.proxy \in BOOLEAN /\ acl.all \in BOOLEAN /\ (acl.all => acl.proxy)
BY EgressAssumption DEF SetProxy

(* A request is sent on a connection of its own route that the ACL allows. *)
LEMMA SentOK ==
  ASSUME acl \in Configs, fetch.pc = "connect", fetch \in UnderWay,
         acl' = acl, NEW c \in Connection, ConnAllowed(c),
         c.to = Peer(fetch.target), c.proxied = Proxied(fetch.target),
         fetch' = Sent(c)
  PROVE  FetchOK'
<1>1. fetch' \in Sending /\ fetch'.conn = c /\ fetch'.target = fetch.target
  BY DEF Sent, UnderWay, Sending
<1>2. ConnAllowed(c)' /\ HostAllowed(fetch'.target) = HostAllowed(fetch.target)
  BY <1>1, SameAcl
<1>3. CASE c.proxied
  BY <1>1, <1>2, <1>3 DEF FetchOK, Proxied, ConnAllowed, HostAllowed, Reachable
<1>4. CASE ~c.proxied
  BY <1>1, <1>2, <1>4 DEF FetchOK, Proxied, Peer, ConnAllowed, HostAllowed,
     Reachable
<1> QED
  BY <1>3, <1>4

(* safeDialContext opens only connections the ACL allows. *)
LEMMA DialAllowed ==
  ASSUME acl \in Configs, fetch \in UnderWay, ~NamesProxy(fetch.target),
         NEW addrs \in Resolutions,
         \/ acl.proxy /\ Peer(fetch.target) = ProxyAuthority
         \/ HostAllowed(Peer(fetch.target))
         \/ AllReachable(addrs, Peer(fetch.target)[2]),
         NEW c, c = [to |-> Peer(fetch.target), proxied |-> Proxied(fetch.target),
                     ip |-> addrs[1]]
  PROVE  c \in Connection /\ ConnAllowed(c)
<1>1. addrs[1] \in Address /\ 1 \in DOMAIN addrs
  <2>1. PICK n \in 1..MaxAddrs : addrs \in [1..n -> Address]
    BY DEF Resolutions
  <2>2. 1 \in 1..n
    BY EgressAssumption, <2>1, MaxAddrs \in Nat
  <2> QED
    BY <2>1, <2>2
<1>2. /\ fetch.target \in Target /\ ProxyAuthority \in Target
      /\ Peer(fetch.target) \in Target /\ Proxied(fetch.target) \in BOOLEAN
  BY EgressAssumption, AclIsOK DEF UnderWay, Peer, Proxied,
     HostAllowed
<1>3. c \in Connection
  BY <1>1, <1>2 DEF Connection
<1>4. CASE Proxied(fetch.target)
  BY <1>3, <1>4 DEF ConnAllowed, Proxied, Peer
<1>5. CASE ~Proxied(fetch.target)
  <2>1. c.to = fetch.target /\ ~c.proxied /\ ~acl.all
    BY <1>5, AclIsOK DEF Proxied, Peer
  <2>2. ~(acl.proxy /\ c.to = ProxyAuthority)
    BY <2>1 DEF NamesProxy
  <2>3. HostAllowed(c.to) \/ Reachable(c.ip, c.to[2])
    BY <1>1, <1>5, <2>1, <2>2 DEF Peer, AllReachable
  <2> QED
    BY <1>3, <2>1, <2>2, <2>3 DEF ConnAllowed
<1> QED
  BY <1>4, <1>5

(* The connections that stay open are allowed. *)
LEMMA OpenStays ==
  ASSUME Open, acl' = acl, \A c \in idle' : c \in idle \/ (c \in Connection /\ ConnAllowed(c))
  PROVE  Open'
BY SameAcl DEF Open

(* Each step of a fetch. *)
LEMMA EgressMoves ==
  ASSUME EgressInv, EgressStep
  PROVE  EgressInv'
<1>1. acl' = acl /\ acl \in Configs /\ Open /\ FetchOK
  BY DEF EgressInv, EgressStep, Route, ReuseConn, Dial, Answer,
     Redirected, CheckRedirect, GiveUp, CloseIdle
<1>2. Open'
  <2>1. fetch.pc = "sent" => fetch.conn \in Connection /\ ConnAllowed(fetch.conn)
    BY <1>1, FetchAt DEF Sending
  <2>2. \A c \in idle' : c \in idle \/ (c \in Connection /\ ConnAllowed(c))
    BY <2>1 DEF EgressStep, Route, ReuseConn, Dial, Answer,
       Redirected, CheckRedirect, GiveUp, CloseIdle
  <2> QED
    BY <1>1, <2>2, OpenStays
<1>3. CASE Route
  <2>1. fetch \in UnderWay
    BY <1>1, <1>3, FetchAt DEF Route
  <2>2. CASE NamesProxy(fetch.target)
    BY <1>1, <1>2, <1>3, <2>2 DEF EgressInv, Route, FetchOK
  <2>3. CASE ~NamesProxy(fetch.target)
    <3>1. fetch' \in UnderWay /\ fetch'.target = fetch.target
      BY <1>3, <2>1, <2>3 DEF Route, UnderWay
    <3>2. ~(acl'.proxy /\ fetch'.target = ProxyAuthority)
      BY <1>1, <2>3, <3>1 DEF NamesProxy
    <3> QED
      BY <1>1, <1>2, <3>1, <3>2 DEF EgressInv, FetchOK, NamesProxy
  <2> QED
    BY <2>2, <2>3
<1>4. CASE ReuseConn
  <2>1. /\ fetch.pc = "connect" /\ fetch \in UnderWay
        /\ \E c \in idle : /\ c.to = Peer(fetch.target)
                           /\ c.proxied = Proxied(fetch.target) /\ fetch' = Sent(c)
    BY <1>1, <1>4, FetchAt DEF ReuseConn
  <2>2. FetchOK'
    BY <1>1, <2>1, SentOK DEF Open
  <2> QED
    BY <1>1, <1>2, <2>2 DEF EgressInv
<1>5. CASE Dial
  <2>1. fetch.pc = "connect" /\ fetch \in UnderWay /\ ~NamesProxy(fetch.target)
    BY <1>1, <1>5, FetchAt DEF Dial
  <2>2. PICK addrs \in Resolutions :
          \/ /\ \/ acl.proxy /\ Peer(fetch.target) = ProxyAuthority
                \/ HostAllowed(Peer(fetch.target))
                \/ AllReachable(addrs, Peer(fetch.target)[2])
             /\ fetch' = Sent([to |-> Peer(fetch.target),
                                    proxied |-> Proxied(fetch.target), ip |-> addrs[1]])
          \/ fetch' = Failed(1)
    BY <1>5 DEF Dial
  <2> DEFINE c == [to |-> Peer(fetch.target),
                   proxied |-> Proxied(fetch.target), ip |-> addrs[1]]
  <2>3. c.to = Peer(fetch.target) /\ c.proxied = Proxied(fetch.target)
    OBVIOUS
  <2>4. FetchOK' \/ (c \in Connection /\ ConnAllowed(c) /\ fetch' = Sent(c))
    BY <1>1, <2>1, <2>2, DialAllowed DEF FetchOK
  <2> HIDE DEF c
  <2>5. FetchOK'
    BY <1>1, <2>1, <2>3, <2>4, SentOK
  <2> QED
    BY <1>1, <1>2, <2>5 DEF EgressInv
<1>6. CASE Answer \/ GiveUp \/ CloseIdle
  <2>1. CASE fetch' = fetch
    <3>1. FetchOK'
      BY <1>1, <2>1 DEF FetchOK, NamesProxy, ConnAllowed, HostAllowed,
         Reachable
    <3> QED
      BY <1>1, <1>2, <3>1 DEF EgressInv
  <2>2. CASE fetch' \in {Got, Failed(0)}
    BY <1>1, <1>2, <2>2 DEF EgressInv, FetchOK
  <2> QED
    BY <1>6, <2>1, <2>2 DEF Answer, GiveUp, CloseIdle
<1>7. CASE Redirected
  <2>1. fetch.made \in Nat
    BY <1>1, <1>7, FetchAt DEF Redirected, Sending
  <2>2. fetch' \in UnderWay /\ fetch'.pc # "connect"
    BY <1>7, <2>1 DEF Redirected, UnderWay
  <2> QED
    BY <1>1, <1>2, <2>2 DEF EgressInv, FetchOK
<1>8. CASE CheckRedirect
  <2>1. fetch.made \in Nat /\ fetch.target \in Target
    BY <1>1, <1>8, FetchAt DEF CheckRedirect, UnderWay
  <2>2. fetch' \in {Failed(0), Failed(1), Request(fetch.target, fetch.made + 1)}
    BY <1>8 DEF CheckRedirect
  <2>3. FetchOK'
    BY <2>1, <2>2, RequestOK DEF FetchOK
  <2> QED
    BY <1>1, <1>2, <2>3 DEF EgressInv
<1> QED
  BY <1>3, <1>4, <1>5, <1>6, <1>7, <1>8 DEF EgressStep

(* A fetch that nothing happens to. *)
LEMMA SameEgress == EgressInv /\ UNCHANGED egressVars => EgressInv'
BY DEF EgressInv, Open, FetchOK, egressVars, NamesProxy, ConnAllowed,
   HostAllowed, Reachable

(* A call starts or ends a fetch; the ACL and the connections stay. *)
LEMMA CallMoves ==
  ASSUME EgressInv, UNCHANGED <<acl, idle>>,
         \/ fetch' = NoFetch
         \/ \E t \in Target : fetch' = Request(t, 1)
  PROVE  EgressInv'
<1>1. Open'
  BY OpenStays DEF EgressInv, Open
<1>2. FetchOK'
  BY RequestOK DEF FetchOK
<1> QED
  BY <1>1, <1>2 DEF EgressInv

(* The first call finds nothing done. *)
LEMMA ReadInvInit == ASSUME ReadInit PROVE ReadInv
<1>1. EgressInv
  BY DEF ReadInit, EgressInit, EgressInv, Open, FetchOK
<1>2. reply = [read |-> "none", asked |-> 0, hint |-> 0] /\ chain = NoText
  BY DEF ReadInit, NoReply
<1>3. ChainOK /\ Replied
  BY <1>2 DEF ChainOK, Replied
<1>4. Asked
  BY DEF ReadInit, Asked
<1> QED
  BY <1>1, <1>3, <1>4 DEF ReadInv

(* Every step of a call, of the origin and of other callers keeps it so. *)
LEMMA ReadInvNext == ASSUME ReadInv, [ReadNext]_readUrlVars PROVE ReadInv'
<1> USE DEF ReadInv
<1>1. /\ Starts \subseteq Int /\ Lengths \subseteq Int /\ Doc \subseteq Target
      /\ Image \notin Texts /\ NoText \notin Texts
  BY ReadUrlAssumption
<1>2. ASSUME NEW start \in Asks, NEW length \in Lengths, ReadCached(start, length)
      PROVE  ReadInv'
  <2> start \in Int /\ length \in Int
    BY <1>1 DEF Asks, Replied
  <2>1. cache \in Texts
    BY <1>2 DEF Asked, ReadCached
  <2>2. ChainOK' /\ Replied'
    BY <1>2, <2>1, RespondOK DEF ReadCached
  <2>3. EgressInv'
    BY <1>2, SameEgress DEF ReadCached
  <2>4. Asked'
    BY <1>2 DEF Asked, ReadCached
  <2> QED
    BY <2>2, <2>3, <2>4
<1>3. ASSUME NEW start \in Asks, NEW length \in Lengths, ReadFresh(start, length)
      PROVE  ReadInv'
  <2>1. start \in Int /\ length \in Int /\ doc \in Target
    BY <1>1 DEF Asks, Replied, Asked
  <2>2. EgressInv'
    BY <1>3, <2>1, CallMoves DEF ReadFresh
  <2>3. Asked'
    BY <1>3, <2>1 DEF Asked, ReadFresh
  <2>4. ChainOK' /\ Replied'
    BY <1>3 DEF ChainOK, Replied, ReadFresh, Ends
  <2> QED
    BY <2>2, <2>3, <2>4
<1>4. CASE FetchStep
  <2>1. EgressInv'
    BY <1>4, EgressMoves DEF FetchStep
  <2>2. Asked' /\ ChainOK' /\ Replied'
    BY <1>4 DEF FetchStep, readVars, Asked, ChainOK, Replied, Ends
  <2> QED
    BY <2>1, <2>2
<1>5. CASE ReturnText
  <2>1. page \in Texts /\ asked.start \in Int /\ asked.length \in Int
    BY <1>5 DEF ReturnText, Asked
  <2>2. ChainOK' /\ Replied'
    BY <1>5, <2>1, RespondOK DEF ReturnText
  <2>3. EgressInv'
    BY <1>5, CallMoves DEF ReturnText
  <2>4. Asked'
    BY <1>5, <2>1 DEF Asked, ReturnText
  <2> QED
    BY <2>2, <2>3, <2>4
<1>6. CASE ReturnImage
  <2>1. EgressInv'
    BY <1>6, CallMoves DEF ReturnImage
  <2>2. Asked'
    BY <1>6 DEF Asked, ReturnImage
  <2>3. ChainOK' /\ Replied'
    BY <1>6 DEF ReturnImage, ChainOK, Replied, Asked
  <2> QED
    BY <2>1, <2>2, <2>3
<1>7. CASE ReturnError
  <2>1. EgressInv'
    BY <1>7, CallMoves DEF ReturnError
  <2>2. Asked'
    BY <1>7 DEF Asked, ReturnError
  <2>3. chain # NoText => chain.upTo \in Nat
    BY ReadUrlAssumption DEF IsText, ChainOK, Ends
  <2>4. reply' = [read |-> "none", asked |-> asked.start,
                  hint |-> IF chain = NoText THEN 0 ELSE chain.upTo] /\ chain' = chain
    BY <1>7 DEF ReturnError, NoReply
  <2>5. ChainOK' /\ Replied'
    BY <2>3, <2>4 DEF ChainOK, Replied, Asked, Ends
  <2> QED
    BY <2>1, <2>2, <2>5
<1>8. CASE Republish \/ OthersRead
  <2>1. EgressInv'
    BY <1>8, SameEgress DEF Republish, OthersRead
  <2>2. ChainOK' /\ Replied'
    BY <1>8 DEF Republish, OthersRead, ChainOK, Replied, Ends
  <2>3. Asked'
    BY <1>8 DEF Republish, OthersRead, Asked
  <2> QED
    BY <2>1, <2>2, <2>3
<1>9. CASE UNCHANGED readUrlVars
  <2>1. EgressInv'
    BY <1>9, SameEgress DEF readUrlVars
  <2>2. Asked' /\ ChainOK' /\ Replied'
    BY <1>9 DEF readUrlVars, readVars, Asked, ChainOK, Replied, Ends
  <2> QED
    BY <2>1, <2>2
<1> QED
  BY <1>2, <1>3, <1>4, <1>5, <1>6, <1>7, <1>8, <1>9 DEF ReadNext

(* The invariant holds of every reachable state. *)
THEOREM ReadInvariant == ReadSpec => []ReadInv
BY ReadInvInit, ReadInvNext, PTL DEF ReadSpec

(* Every request of a fetch goes out on a connection the ACL allows, and    *)
(* through the proxy only when the operator meant it to.                    *)
THEOREM OnlyAllowedConnections ==
  ReadSpec => []ConnectionsAllowed
<1>1. ReadInv => ConnectionsAllowed
  <2> SUFFICES ASSUME ReadInv PROVE ConnectionsAllowed
    OBVIOUS
  <2>1. \A c \in idle : ConnAllowed(c)
    BY DEF ReadInv, EgressInv, Open
  <2> QED
    BY <2>1, FetchAt DEF ReadInv, EgressInv, ConnectionsAllowed
<1> QED
  BY <1>1, ReadInvariant, PTL

(* A continuation hint lies beyond the offset that was asked for, for every *)
(* text, offset and length, and however the text changes in between.        *)
THEOREM HintsAreAhead == ReadSpec => []HintsLeadOn
<1>1. ReadInv => HintsLeadOn
  <2> SUFFICES ASSUME ReadInv PROVE HintsLeadOn
    OBVIOUS
  <2>1. ReadTypeOK
    BY FetchAt DEF ReadInv, EgressInv, Asked, Replied, ReadTypeOK
  <2>2. reply.read = "partial" /\ reply.hint # 0 => reply.hint > reply.asked
    BY DEF ReadInv, Replied
  <2> QED
    BY <2>1, <2>2 DEF HintsLeadOn
<1> QED
  BY <1>1, ReadInvariant, PTL

(* A client that follows the hints through one text gets each byte once,    *)
(* and is told "full" exactly when it has all of one that was not capped.   *)
THEOREM FollowersGetAll == ReadSpec => []FollowedWhole
<1>1. ReadInv => FollowedWhole
  BY DEF ReadInv, ChainOK, Replied, FollowedWhole
<1> QED
  BY <1>1, ReadInvariant, PTL
=============================================================================
