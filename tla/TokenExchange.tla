---------------------------- MODULE TokenExchange ----------------------------
(***************************************************************************)
(* The per-user token exchange and its tokens (searxng_user_token.go):        *)
(* Exchange reads the clock, looks in the tokens under its mutex, asks the    *)
(* identity provider without it, and stores what it gets under it again, so *)
(* exchanges for one user run side by side.  The clock and every lifetime    *)
(* count in units of time.Duration, Second of them to a second; expires_in   *)
(* is in seconds.  Search.tla makes the calls and uses what they return.     *)
(***************************************************************************)
EXTENDS Integers, Lru, FiniteSets

CONSTANTS
  Subject,        \* callers' verified tokens, by digest
  Call,           \* searches that can be in flight at once
  Second,         \* time.Second
  Word,           \* the values a time.Duration can take; 2^64 in Go
  EarlyRenewal,   \* userTokenEarlyRenewal
  DefaultLife,    \* userTokenDefaultLifetime
  MaxLife,        \* userTokenMaxLifetime
  CacheEntries,   \* userTokenCacheEntries
  ExpiresIn,      \* the expires_in values a provider can report; 0 is none
  MaxTime,        \* bound: the clock
  MaxTokens       \* bound: tokens issued

ASSUME ExchangeAssumption ==
  /\ Second \in Nat \ {0} /\ Word \in Nat \ {0} /\ ExpiresIn \subseteq Nat
  /\ EarlyRenewal \in Nat /\ DefaultLife \in Nat /\ MaxLife \in Nat
  /\ EarlyRenewal < DefaultLife /\ DefaultLife < MaxLife
  /\ 2 * MaxLife < Word
  /\ CacheEntries \in Nat \ {0} /\ MaxTime \in Nat /\ MaxTokens \in Nat

VARIABLES
  now,       \* the clock
  issued,    \* the provider's tokens: [subject, at, expiresIn]
  tokens,     \* subject -> [token, expires], LRU order
  call,      \* Call -> where the search is
  owed       \* history: Subject -> expiry of the token last stored, 0 if it
             \* was evicted

exchangeVars == <<now, issued, tokens, call, owed>>

AtRest == [pc |-> "idle"]

ExchangeInit ==
  /\ now = 0 /\ issued = << >> /\ tokens = LruEmpty
  /\ call = [x \in Call |-> AtRest]
  /\ owed = [s \in Subject |-> 0]

(* A product of durations keeps its low bits, read as a signed number. *)
Wrap(n) == ((n + Word \div 2) % Word) - Word \div 2

(* Mutant of Life: the provider's word is taken, however long. *)
LifeAsStated(expiresIn) ==
  IF expiresIn > 0 THEN Wrap(expiresIn * Second) ELSE DefaultLife

(* How long request takes a token to live. *)
Life(expiresIn) ==
  LET stated == IF expiresIn > 0 THEN Wrap(expiresIn * Second) ELSE DefaultLife
  IN  IF stated > MaxLife THEN MaxLife ELSE stated

(* Mutant of Expires: counted from the provider's answer. *)
ExpiresFromAnswer(started, life) ==
  IF life <= EarlyRenewal THEN now + life \div 2 ELSE now + life - EarlyRenewal

(* Until when it is reused, counted from before the request.  Go halves     *)
(* towards zero; a life that wrapped below zero is over either way.          *)
Expires(started, life) ==
  IF life <= EarlyRenewal THEN started + life \div 2
  ELSE started + life - EarlyRenewal

(* Mutant of Usable: given up one tick early. *)
UsableTickBefore(s, started) ==
  LruHas(tokens, s) /\ started < LruValue(tokens, s).expires - 1

(* The tokens holds a token for s that has not expired. *)
Usable(s, started) == LruHas(tokens, s) /\ started < LruValue(tokens, s).expires

(* The search goes on to SearXNG with this token; 0 is none.  A token from  *)
(* the tokens comes with the clock it was judged by.                         *)
Send(s, token, reusedAt) ==
  [pc |-> "send", subject |-> s, token |-> token, reusedAt |-> reusedAt]

(* Mutant of Refused: a failed exchange searches as nobody. *)
SearchedBare(c) == Send(c.subject, 0, {})

(* A failed exchange refuses the search, "rather than quietly dropping the  *)
(* user's identity".                                                        *)
Refused(c) == AtRest

-----------------------------------------------------------------------------
Tick ==
  /\ now < MaxTime
  /\ now' = now + 1
  /\ UNCHANGED <<issued, tokens, call, owed>>

(* Exchange begins: it reads the clock, and only then waits for the mutex. *)
Begin(x, s) ==
  /\ call[x] = AtRest
  /\ call' = [call EXCEPT ![x] = [pc |-> "look", subject |-> s, started |-> now]]
  /\ UNCHANGED <<now, issued, tokens, owed>>

(* A token in the tokens that has not expired is the answer. *)
Reuse(x) ==
  LET c == call[x]
  IN  /\ c.pc = "look" /\ Usable(c.subject, c.started)
      /\ tokens' = LruGet(tokens, c.subject)
      /\ call' = [call EXCEPT ![x] = Send(c.subject,
                                LruValue(tokens, c.subject).token, {c.started})]
      /\ UNCHANGED <<now, issued, owed>>

(* Otherwise an expired one is removed, and the provider is asked. *)
Ask(x) ==
  LET c == call[x]
  IN  /\ c.pc = "look" /\ ~Usable(c.subject, c.started)
      /\ tokens' = LruRemove(tokens, c.subject)
      /\ call' = [call EXCEPT ![x] = [pc |-> "ask", subject |-> c.subject,
                                started |-> c.started,
                                wasOwed |-> now < owed[c.subject]]]
      /\ UNCHANGED <<now, issued, owed>>

(* The provider issues a token; its response is under way. *)
Issue(x) ==
  LET c == call[x]
  IN  /\ c.pc = "ask" /\ Len(issued) < MaxTokens
      /\ \E e \in ExpiresIn :
           issued' = Append(issued, [subject |-> c.subject, at |-> now,
                                     expiresIn |-> e])
      /\ call' = [call EXCEPT ![x] = [pc |-> "store", subject |-> c.subject,
                                started |-> c.started, token |-> Len(issued')]]
      /\ UNCHANGED <<now, tokens, owed>>

(* The response is good: stored, and returned to the search. *)
Store(x) ==
  LET c == call[x]
      e == [token |-> c.token,
            expires |-> Expires(c.started, Life(issued[c.token].expiresIn))]
  IN  /\ c.pc = "store"
      /\ tokens' = LruAdd(tokens, c.subject, e, CacheEntries)
      /\ owed' = [s \in Subject |->
                    IF s = c.subject THEN e.expires
                    ELSE IF LruHas(tokens, s) /\ ~LruHas(tokens', s) THEN 0
                    ELSE owed[s]]
      /\ call' = [call EXCEPT ![x] = Send(c.subject, c.token, {})]
      /\ UNCHANGED <<now, issued>>

(* Anything else fails it: no connection, no 200, no usable token. *)
Fail(x) ==
  /\ call[x].pc \in {"ask", "store"}
  /\ call' = [call EXCEPT ![x] = Refused(call[x])]
  /\ UNCHANGED <<now, issued, tokens, owed>>

Exchange ==
  \/ Tick
  \/ \E x \in Call :
       \/ \E s \in Subject : Begin(x, s)
       \/ Reuse(x) \/ Ask(x) \/ Issue(x) \/ Store(x) \/ Fail(x)

-----------------------------------------------------------------------------
(* A cached token "never expires between the tokens and the backend": one    *)
(* whose lifetime the provider stated has EarlyRenewal left, or half its    *)
(* life, when the search that gets it reads the clock, however slow the     *)
(* exchange was and however long a life was stated, the ones that overflow  *)
(* a Duration included.  And "a revoked user stops reaching the backend     *)
(* within this window even if the provider issues long tokens": it was      *)
(* issued less than MaxLife before that.                                    *)
ServedFresh ==
  \A x \in Call :
    call[x].pc = "send" =>
      \A at \in call[x].reusedAt :
        LET t    == issued[call[x].token]
            life == t.expiresIn * Second
            left == t.at + life - at
        IN  /\ t.expiresIn > 0 => left >= EarlyRenewal \/ 2 * left >= life
            /\ at < t.at + MaxLife

(* A stored token answers every later search of its user until it expires,  *)
(* unless it was evicted: the removal of an expired token never takes a     *)
(* fresh one with it.                                                       *)
StoredIsReused == \A x \in Call : call[x].pc = "ask" => ~call[x].wasOwed
=============================================================================
