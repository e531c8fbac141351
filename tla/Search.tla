------------------------------- MODULE Search -------------------------------
(***************************************************************************)
(* A search, from its caller's identity to the engine counters (search.go,   *)
(* metrics.go): the token exchange first, for a caller with a verified OAuth *)
(* token; then the request to SearXNG, which answers, or fails, or names     *)
(* engines that did not respond; then one failure counted for each.          *)
(* recordEngineFailure looks an engine up under the read lock, and takes the *)
(* write lock only to insert one, so two searches may find one missing.      *)
(***************************************************************************)
EXTENDS TokenExchange, Functions

CONSTANTS
  NoUser,       \* a caller without a verified OAuth token
  Engine,       \* the names SearXNG reports
  MaxEngines,   \* maxTrackedEngines
  MaxReported   \* bound: failures reported

ASSUME SearchAssumption ==
  /\ NoUser \notin Subject /\ MaxEngines \in Nat \ {0} /\ MaxReported \in Nat
  /\ IsFiniteSet(Call) /\ IsFiniteSet(Engine)

VARIABLES
  errors,     \* engine -> failures counted: engineErrors
  overflow,   \* EngineErrorOverflow
  reported    \* history: the failures SearXNG has reported

engineVars == <<errors, overflow, reported>>
searchVars == <<exchangeVars, engineVars>>

SearchInit == ExchangeInit /\ errors = << >> /\ overflow = 0 /\ reported = 0

-----------------------------------------------------------------------------
(* The token exchange takes a step, for a search that needs it. *)
ExchangeStep == Exchange /\ UNCHANGED engineVars

(* errNoUserToken: the search goes out with no token. *)
BeginAnonymous(x) ==
  /\ call[x] = AtRest
  /\ call' = [call EXCEPT ![x] = Send(NoUser, 0, {})]
  /\ UNCHANGED <<now, issued, tokens, owed, engineVars>>

(* No connection, a redirect that carries a token, no 200, no JSON. *)
SearchFails(x) ==
  /\ call[x].pc = "send"
  /\ call' = [call EXCEPT ![x] = AtRest]
  /\ UNCHANGED <<now, issued, tokens, owed, engineVars>>

(* Where a search is with these engines still to count. *)
Counting(engines) ==
  IF engines = {} THEN AtRest ELSE [pc |-> "count", engines |-> engines]

(* SearXNG answers, and names the engines that did not. *)
Answered(x) ==
  /\ call[x].pc = "send"
  /\ \E engines \in SUBSET Engine :
       /\ reported + Cardinality(engines) <= MaxReported
       /\ reported' = reported + Cardinality(engines)
       /\ call' = [call EXCEPT ![x] = Counting(engines)]
  /\ UNCHANGED <<now, issued, tokens, owed, errors, overflow>>

(* recordEngineFailure's fast path: the engine has its counter. *)
CountKnown(x, e) ==
  /\ call[x].pc = "count" /\ e \in call[x].engines \cap DOMAIN errors
  /\ errors' = [errors EXCEPT ![e] = @ + 1]
  /\ call' = [call EXCEPT ![x] = Counting(@.engines \ {e})]
  /\ UNCHANGED <<now, issued, tokens, owed, overflow, reported>>

(* It has none: the read lock is given up for the write lock. *)
MissEngine(x, e) ==
  /\ call[x].pc = "count" /\ e \in call[x].engines \ DOMAIN errors
  /\ call' = [call EXCEPT ![x] = [pc |-> "insert", engines |-> @.engines,
                                  engine |-> e]]
  /\ UNCHANGED <<now, issued, tokens, owed, engineVars>>

(* Mutant of Known: not looked up again under the write lock. *)
KnownBefore(e) == FALSE

(* The second look. *)
Known(e) == e \in DOMAIN errors

(* Under the write lock: inserted meanwhile, no room, or a new counter. *)
InsertEngine(x) ==
  LET e == call[x].engine
  IN  /\ call[x].pc = "insert"
      /\ \/ /\ Known(e)
            /\ errors' = [errors EXCEPT ![e] = @ + 1] /\ UNCHANGED overflow
         \/ /\ ~Known(e) /\ Cardinality(DOMAIN errors) >= MaxEngines
            /\ overflow' = overflow + 1 /\ UNCHANGED errors
         \/ /\ ~Known(e) /\ Cardinality(DOMAIN errors) < MaxEngines
            /\ errors' = [d \in DOMAIN errors \cup {e} |->
                            IF d = e THEN 1 ELSE errors[d]]
            /\ UNCHANGED overflow
      /\ call' = [call EXCEPT ![x] = Counting(@.engines \ {e})]
      /\ UNCHANGED <<now, issued, tokens, owed, reported>>

SearchNext ==
  \/ ExchangeStep
  \/ \E x \in Call :
       \/ BeginAnonymous(x) \/ SearchFails(x) \/ Answered(x) \/ InsertEngine(x)
       \/ \E e \in Engine : CountKnown(x, e) \/ MissEngine(x, e)

SearchSpec == SearchInit /\ [][SearchNext]_searchVars

-----------------------------------------------------------------------------
(* Every variable has its type, and both tables keep their bounds. *)
SearchTypeOK ==
  /\ now \in 0..MaxTime /\ Len(issued) <= MaxTokens
  /\ Len(tokens) <= CacheEntries
  /\ \A i, j \in DOMAIN tokens : tokens[i].key = tokens[j].key => i = j
  /\ \A i \in DOMAIN tokens : tokens[i].val.token \in DOMAIN issued
  /\ \A x \in Call :
       call[x].pc \in {"idle", "look", "ask", "store", "send", "count", "insert"}
  /\ IsFiniteSet(DOMAIN errors) /\ DOMAIN errors \subseteq Engine
  /\ overflow \in 0..MaxReported /\ reported \in 0..MaxReported

(* What a search carries to SearXNG is its own caller's identity, never     *)
(* another's and never none where the caller has one, however the exchanges *)
(* and evictions of several users interleave: "a failed exchange fails the  *)
(* search rather than quietly dropping the user's identity".                *)
IdentityKept ==
  \A x \in Call :
    call[x].pc = "send" =>
      IF call[x].subject = NoUser THEN call[x].token = 0
      ELSE /\ call[x].token \in DOMAIN issued
           /\ issued[call[x].token].subject = call[x].subject

(* The failures still to be counted by search x. *)
Pending(x) ==
  IF call[x].pc \in {"count", "insert"} THEN Cardinality(call[x].engines) ELSE 0

(* Every failure SearXNG reports is counted exactly once, in its engine's   *)
(* counter or in the overflow, whatever searches see an engine for the      *)
(* first time together and however full the table is.                       *)
EngineFailuresCounted ==
  /\ SearchTypeOK
  /\ Cardinality(DOMAIN errors) <= MaxEngines
  /\ SumFunction(errors) + overflow
       + SumFunction([x \in Call |-> Pending(x)]) = reported
=============================================================================
