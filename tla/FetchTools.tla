----------------------------- MODULE FetchTools -----------------------------
(***************************************************************************)
(* toolReadURL and toolURLMetadata (fetch.go) over readURL and its cache:   *)
(* what each call counts, files in the caller's ledger and answers, and the *)
(* fence its answer travels in.  The provenance check is its outcome here   *)
(* (Provenance), the ledger the number of records filed (CallerLedgers),    *)
(* and a window is the whole text or lies past its end (Paginate).          *)
(***************************************************************************)
EXTENDS UrlCache, Fence

CONSTANTS
  ToolOf,             \* the tool each reader calls
  DomainOf,           \* domainOf, for each address
  MaxTrackedDomains,  \* maxTrackedDomains
  MaxCalls            \* bound: tool calls, where more than one is made

Tools == {"read_url", "url_metadata"}

ASSUME ToolsAssumption ==
  /\ ToolOf \in [Reader -> Tools] /\ DOMAIN DomainOf = Url
  /\ MaxTrackedDomains \in Nat /\ MaxCalls \in Nat \ {0}

VARIABLES
  total,     \* FetchTotal and MetadataTotal
  errors,    \* FetchErrors and MetadataErrors
  domains,   \* Metrics.domains: [ok, error] by tracked domain
  overflow,  \* FetchDomainOverflowOK and FetchDomainOverflowError
  missed,    \* readers that found no entry and go on to the write lock
  declined,  \* history: calls the provenance check ended
  filed,     \* history: records filed, by outcome
  unfiled,   \* history: calls that ended without a record
  ended,     \* history: the fetches of each domain that ended, by outcome
  answer     \* history: the text the last step answered with

toolVars == <<total, errors, domains, overflow, missed, declined, filed, unfiled, ended>>
vars == <<cacheVars, toolVars, answer>>

None == [ok |-> 0, error |-> 0]
NoAnswer == [at |-> 0, cached |-> FALSE]

Init ==
  /\ CacheInit
  /\ total = [t \in Tools |-> 0] /\ errors = [t \in Tools |-> 0]
  /\ domains = [d \in {} |-> None] /\ overflow = None /\ missed = {}
  /\ declined = 0 /\ filed = None /\ unfiled = 0
  /\ ended = [u \in Url |-> None]
  /\ answer = NoAnswer

Started == total["read_url"] + total["url_metadata"]

Calls == IF Scope({"text"}) THEN 1 ELSE MaxCalls

(* FetchTotal.Add(1), MetadataTotal.Add(1). *)
Counted(r) ==
  /\ rd[r] = Idle /\ Started < Calls
  /\ total' = [total EXCEPT ![ToolOf[r]] = @ + 1]
  /\ answer' = NoAnswer

(* The provenance check lets the call pass, and readURL begins. *)
Start(r, u) ==
  /\ Counted(r)
  /\ Lookup(r, u) \/ (~Scope({"text"}) /\ ForceRefresh(r, u))
  /\ UNCHANGED <<errors, domains, overflow, missed, declined, filed, unfiled, ended>>

(* It refuses the call, which is filed as an error. *)
Refuse(r) ==
  /\ Scope({"calls"}) /\ Counted(r)
  /\ declined' = declined + 1
  /\ filed' = [filed EXCEPT !.error = @ + 1]
  /\ UNCHANGED <<cacheVars, errors, domains, overflow, missed, unfiled, ended>>

(* It asks the user, and the call ends with the question. *)
AskUser(r) ==
  /\ Scope({"calls"}) /\ Counted(r)
  /\ declined' = declined + 1
  /\ unfiled' = unfiled + 1
  /\ UNCHANGED <<cacheVars, errors, domains, overflow, missed, filed, ended>>

Outcome(r) == IF rd[r].kind = "error" THEN "error" ELSE "ok"

PlusOne(count, r) == [count EXCEPT ![Outcome(r)] = @ + 1]

(* A window past the end of the text is an error that is not filed. *)
PastEnd(r) == Scope({"calls"}) /\ rd[r].kind = "text" /\ ToolOf[r] = "read_url"

(* The rest of the call: the error counter, the record, the answer. *)
Finish(r) ==
  /\ errors' = [errors EXCEPT ![ToolOf[r]] = IF Outcome(r) = "error" THEN @ + 1 ELSE @]
  /\ ended' = [ended EXCEPT ![rd[r].url] = PlusOne(@, r)]
  /\ \/ /\ filed' = PlusOne(filed, r)
        /\ answer' = IF rd[r].kind # "text" THEN NoAnswer
                     ELSE [tool |-> ToolOf[r], url |-> rd[r].url, at |-> rd[r].at,
                           cached |-> rd[r].cached, found |-> rd[r].found]
        /\ UNCHANGED unfiled
     \/ PastEnd(r) /\ unfiled' = unfiled + 1 /\ answer' = NoAnswer /\ UNCHANGED filed
  /\ rd' = [rd EXCEPT ![r] = Idle]
  /\ UNCHANGED <<site, now, page, shown, cache, hits, misses, timed, total, declined>>

(* recordFetchByDomain: the entry exists.  What follows in the call meets   *)
(* nobody else's state, and is part of the step.                            *)
CountKnown(r) ==
  LET d == DomainOf[rd[r].url]
  IN  /\ rd[r].pc = "done" /\ r \notin missed /\ d \in DOMAIN domains
      /\ domains' = [domains EXCEPT ![d] = PlusOne(@, r)]
      /\ Finish(r)
      /\ UNCHANGED <<overflow, missed>>

(* There is none yet; the read lock is given up for the write lock. *)
MissDomain(r) ==
  /\ rd[r].pc = "done" /\ r \notin missed /\ DomainOf[rd[r].url] \notin DOMAIN domains
  /\ missed' = missed \cup {r} /\ answer' = NoAnswer
  /\ UNCHANGED <<cacheVars, total, errors, domains, overflow, declined, filed, unfiled, ended>>

(* Mutant of Tracked: the entry is not looked for again. *)
TrackedBefore(d) == FALSE

(* The second look, under the write lock. *)
Tracked(d) == d \in DOMAIN domains

InsertDomain(r) ==
  LET d     == DomainOf[rd[r].url]
      entry == IF Tracked(d) THEN domains[d] ELSE None
      full  == ~Tracked(d) /\ Cardinality(DOMAIN domains) >= MaxTrackedDomains
  IN  /\ r \in missed
      /\ missed' = missed \ {r}
      /\ domains' = IF full THEN domains
                    ELSE [e \in DOMAIN domains \cup {d} |->
                            IF e = d THEN PlusOne(entry, r) ELSE domains[e]]
      /\ overflow' = IF full THEN PlusOne(overflow, r) ELSE overflow
      /\ Finish(r)

(* Nobody calls any more and the clock is at its bound. *)
Rest ==
  /\ Started = Calls /\ (Scope({"time"}) => now = MaxTime)
  /\ \A r \in Reader : rd[r] = Idle
  /\ UNCHANGED vars

(* Bound: where time passes, a call ends before anything else happens.      *)
(* What it does from there touches no state of readURL's, so no other order *)
(* would lead elsewhere.                                                    *)
MayGoOn == Scope({"time"}) => \A r \in Reader : rd[r].pc # "done"

Next ==
  \/ MayGoOn /\ CacheStep /\ answer' = NoAnswer /\ UNCHANGED toolVars
  \/ \E r \in Reader : \/ MayGoOn /\ \E u \in Url : Start(r, u)
                       \/ Refuse(r) \/ AskUser(r)
                       \/ CountKnown(r) \/ MissDomain(r) \/ InsertDomain(r)
  \/ Rest

Spec == Init /\ [][Next]_vars

-----------------------------------------------------------------------------
(* Every variable has its type. *)
TypeOK ==
  /\ CacheTypeOK
  /\ total \in [Tools -> 0..MaxCalls] /\ errors \in [Tools -> 0..MaxCalls]
  /\ DOMAIN domains \subseteq {DomainOf[u] : u \in Url}
  /\ Cardinality(DOMAIN domains) <= MaxTrackedDomains
  /\ missed \subseteq {r \in Reader : rd[r].pc = "done"}

(* The fetch time of an answer is the truth about its bytes: the origin did *)
(* serve that version at that time, however long extraction took and        *)
(* however often the copy was served from the cache since.  It is what the  *)
(* source ledger records (docs/caching.md, "the ledger reports fetch truth, *)
(* not cache-hit time").                                                    *)
FetchTruth ==
  answer # NoAnswer =>
    answer.found.version \in shown[answer.url][answer.found.fetchedAt]

(* A cached answer is never older than the TTL plus the time its download   *)
(* and extraction took, whichever readers raced to add it: the TTL runs     *)
(* from the end of extraction, not from the moment the origin served it.    *)
CachedAgeBounded ==
  answer.cached => answer.at < answer.found.fetchedAt + TTL + MaxLoad

SumOver(us, o) == SumFunctionOnSet([u \in Url |-> ended[u][o]], us)

(* Every call is counted once by everything that counts it, whichever calls *)
(* raced: it is in flight, filed, or one of those the code files nothing    *)
(* for; readURL's counters agree; and a domain's entry holds exactly the    *)
(* fetches of its addresses that ended, the overflow those of every domain  *)
(* that found the table full (metrics.go, recordFetchByDomain).             *)
CallsAccounted ==
  /\ TypeOK
  /\ Started = filed.ok + filed.error + unfiled
                 + Cardinality({r \in Reader : rd[r] # Idle})
  /\ ReadsAccounted(Started - declined)
  /\ LET of(d) == {u \in Url : DomainOf[u] = d}
         rest  == {u \in Url : DomainOf[u] \notin DOMAIN domains}
     IN  /\ \A d \in DOMAIN domains :
              \A o \in {"ok", "error"} : domains[d][o] = SumOver(of(d), o)
         /\ \A o \in {"ok", "error"} : overflow[o] = SumOver(rest, o)
  /\ errors["read_url"] + errors["url_metadata"] = SumOver(Url, "error")

-----------------------------------------------------------------------------
(* The answer as a gateway and the model behind it get it. *)

Relay(mode) ==
  [key |-> "key", mode |-> mode, now |-> answer.at, nonce |-> "n1", preambleNonce |-> "n2"]

Content ==
  IF answer.tool = "read_url" THEN answer.found.copy.content
  ELSE JsonText(answer.found.copy.title)

Removed ==
  IF answer.tool = "read_url" THEN answer.found.copy.removedContent
  ELSE answer.found.copy.removedMetadata

Type == IF answer.tool = "read_url" THEN "content" ELSE "data"

Response(mode, encoding) ==
  WrapFence(Relay(mode), Type, answer.url, Content, encoding, Removed)

(* A verifier that follows docs/fence-verification.md accepts every         *)
(* response, in both formats and in both encodings wrapFenceEncoded has     *)
(* (these tools use the first), and recovers exactly the text that was      *)
(* signed, whatever markup, references, section ends or closing tags a      *)
(* page's text holds (fence.go, xmlContentEscape and cdataEscape).          *)
Recovered ==
  answer # NoAnswer =>
    \A mode \in {"fenced", "prose"}, encoding \in {"none", "cdata"} :
      LET response == Response(mode, encoding)
      IN  Accepts(response, {"key"}) /\ Carried(response) = Content

Doc == site.docs[answer.found.version]
Visible(doc) ==
  IF doc.kind = "plain" \/ site.keepHiddenText THEN TextWithout(doc.elements, {})
  ELSE SeenText(doc.elements)
Legible(text) == IF site.keepInvisibleChars THEN text ELSE Cleaned(text)

(* What a tool answers with is what a person would have seen of that        *)
(* version of the page, from the cache or not: no text of an element that a *)
(* browser hides, no invisible character outside an emoji or a flag, and    *)
(* nothing else lost (hidden.go, invisible.go).                             *)
CleanedExactly ==
  answer # NoAnswer /\ Doc.kind \in {"plain", "html"} =>
    /\ answer.found.copy.content = Legible(Visible(Doc))
    /\ Doc.kind = "html" => answer.found.copy.title = Legible(Doc.title)

(* The preamble tells what was removed from this text, no more and no less, *)
(* on cached answers too (fetch.go: "a cache hit reports the same removal   *)
(* counts as this fetch").                                                  *)
NoteTruthful ==
  answer # NoAnswer /\ Doc.kind \in {"plain", "html"} =>
    LET lost(text) == Len(text) - Len(Legible(text))
        acts == IF Doc.kind = "plain" \/ site.keepHiddenText THEN 0
                ELSE Cardinality(HidingActs(Doc.elements))
        truth == IF answer.tool = "read_url"
                   THEN [hiddenElements |-> acts, invisibleChars |-> lost(Visible(Doc))]
                   ELSE [hiddenElements |-> 0,
                         invisibleChars |-> IF Doc.kind = "html" THEN lost(Doc.title) ELSE 0]
    IN  \A mode \in {"fenced", "prose"} :
          LET told == Told(Response(mode, "none"))
              note == {i \in DOMAIN told : told[i] = "This content contained"}
          IN  IF truth = NothingRemoved THEN note = {}
              ELSE \E i \in note : SubSeq(told, i - 1, Len(told)) = SanitisationNote(truth)

=============================================================================
