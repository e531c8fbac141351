---------------------------- MODULE SessionSources ----------------------------
(***************************************************************************)
(* searxng_session_sources as the agent meets it (history.go,               *)
(* toolSessionSources): the rows of its ledger as JSON text in a CDATA      *)
(* fence, with the preamble that says how to read it.                       *)
(***************************************************************************)
EXTENDS SourceLedger, Fence

CONSTANT Spelling  \* Url -> its text, a sequence of tokens: one text, one URL

(* The rows from the newest on; of a row, its URL in the quotes of JSON. *)
SourcesText(since) ==
  LET rows == SetToSortSeq(RowsSince(h, since),
                           LAMBDA i, j : h.entries[i].seq > h.entries[j].seq)
      row(i) == <<"quote">> \o JsonText(Spelling[Citable(h.entries[i])]) \o <<"quote">>
  IN  FlattenSeq([n \in DOMAIN rows |-> row(rows[n])])

ToolSessionSources(since) ==
  WrapFence([key |-> "k", mode |-> "fenced", now |-> 0, nonce |-> "n1", preambleNonce |-> "n2"],
            "data", "mcp-searxng-relay:session-history", SourcesText(since), "cdata",
            [hiddenElements |-> 0, invisibleChars |-> 0])

(* What an agent has that copies the strings out of a text as they stand. *)
Copied(text) ==
  LET quotes == {i \in DOMAIN text : text[i] = "quote"}
      opens(i) == Cardinality({j \in quotes : j <= i}) % 2 = 1
      close(i) == CHOOSE j \in quotes : j > i /\ \A q \in quotes : q > i => j <= q
  IN  {SubSeq(text, i + 1, close(i) - 1) : i \in {q \in quotes : opens(q)}}

(* "The content is a CDATA section: it is byte-exact and contains no        *)
(* escapes.  Copy any URL ... character for character, and do not decode"   *)
(* (fence.go:474-476): every URL so copied is one that was fetched.         *)
(* Refuted: json.Marshal escapes "&", "<" and ">" inside the section.       *)
ListedExact ==
  Copied(Carried(ToolSessionSources(0))) \subseteq {Spelling[u] : u \in fetched}
=============================================================================
