-------------------------------- MODULE Fence --------------------------------
(***************************************************************************)
(* How a tool's text travels (fence.go), and how a gateway gets it back     *)
(* (docs/fence-verification.md).  A text is a sequence of tokens: the       *)
(* characters with a meaning in XML, the words that make references or      *)
(* tags behind one, "nl", and any others.  A fence is its attributes, its   *)
(* signature and the tokens that follow the opening tag.  A signature is    *)
(* what it was computed over, so no other key, text or attributes has it.   *)
(***************************************************************************)
EXTENDS Integers, SequencesExt

EntityOf == [c \in {"&", "<", ">"} |->
               CASE c = "&" -> "amp;" [] c = "<" -> "lt;" [] c = ">" -> "gt;"]

OpenSection == <<"<", "![CDATA[">>
EndSection == <<"]", "]", ">">>
ClosingTag == <<"<", "/sec:fence", ">">>

(* The text with each token that the table has replaced by its entry. *)
Escaped(s, table) ==
  FlattenSeq([i \in DOMAIN s |-> IF s[i] \in DOMAIN table THEN table[s[i]] ELSE <<s[i]>>])

(* Mutant of XmlContentEscape: "&" itself is not escaped. *)
XmlEscapeTags(s) ==
  Escaped(s, [c \in {"<", ">"} |-> <<"&", EntityOf[c]>>])

XmlContentEscape(s) ==
  Escaped(s, [c \in DOMAIN EntityOf |-> <<"&", EntityOf[c]>>])

(* Mutant of CdataEscape: the text goes in as it is. *)
CdataAsIs(s) == s

(* The first n tokens end with "]]". *)
Bracketed(s, n) == n > 1 /\ s[n - 1] = "]" /\ s[n] = "]"

(* A "]]>" ends the section before its ">" and opens another there. *)
CdataEscape(s) ==
  LET split(i) == Bracketed(s, i - 1) /\ s[i] = ">"
  IN  FlattenSeq([i \in DOMAIN s |-> IF split(i) THEN EndSection \o OpenSection \o <<">">>
                                     ELSE <<s[i]>>])

(* json.Marshal of a string: no "&", "<" or ">" is left in it. *)
JsonText(s) ==
  Escaped(s, [c \in DOMAIN EntityOf |->
                <<CASE c = "&" -> "\\u0026" [] c = "<" -> "\\u003c" [] c = ">" -> "\\u003e">>])

(* A number is written as that many strokes. *)
SanitisationNote(removed) ==
  LET part(n, what) == IF n > 0 THEN Append([i \in 1..n |-> "stroke"], what) ELSE <<>>
      parts == part(removed.hiddenElements, "hidden page elements")
                 \o part(removed.invisibleChars, "invisible characters")
  IN  IF parts = <<>> THEN <<>> ELSE <<"nl", "This content contained">> \o parts

(* The preamble names the nonce of the fence it describes, and speaks of    *)
(* the syntax it is about.                                                  *)
Awareness(encoding, nonce, removed) ==
  <<"<", "sec:fence", ">", "nonce=", nonce>> \o ClosingTag
    \o (IF encoding = "cdata" THEN <<>> ELSE <<"&", "amp;", "&", "lt;", "&", "gt;">>)
    \o SanitisationNote(removed)

FenceVersion(mode) == IF mode = "fenced" THEN "1.1" ELSE "1.0"

(* The signed attributes, and what is signed: text and attributes, neither  *)
(* of which can be taken for part of the other.                             *)
CanonicalAttributes(relay, type, rating, source, nonce, encoding) ==
  [type |-> type, rating |-> rating, source |-> source, nonce |-> nonce,
   encoding |-> encoding, timestamp |-> relay.now, kid |-> relay.key,
   version |-> FenceVersion(relay.mode)]

Signature(key, content, meta) == [key |-> key, content |-> content, meta |-> meta]

(* buildFence, with the key to sign with. *)
BuildFence(key, content, meta) ==
  LET encoded == IF meta.encoding = "cdata"
                   THEN OpenSection \o CdataEscape(content) \o EndSection
                   ELSE XmlContentEscape(content)
  IN  [meta |-> meta,
       signature |-> Signature(key, content, meta),
       wire |-> <<"nl">> \o encoded \o <<"nl">> \o ClosingTag \o <<"nl">>]

(* wrapFenceEncoded; relay is the process: its key, its preamble mode, the  *)
(* time and the two nonces it draws.                                        *)
WrapFence(relay, type, source, content, encoding, removed) ==
  LET preamble == Awareness(encoding, relay.nonce, removed)
      fence    == BuildFence(relay.key, content,
                             CanonicalAttributes(relay, type, "untrusted", source,
                                                 relay.nonce, encoding))
      trusted  == BuildFence(relay.key, preamble,
                             CanonicalAttributes(relay, "instructions", "trusted",
                                                 "awareness", relay.preambleNonce, "none"))
  IN  IF relay.mode = "prose"
        THEN [prose |-> preamble \o <<"nl", "nl">>, fences |-> <<fence>>]
        ELSE [prose |-> <<>>, fences |-> <<trusted, fence>>]

-----------------------------------------------------------------------------
(* The gateway.                                                             *)

Entities == {EntityOf[c] : c \in DOMAIN EntityOf}

(* An entity-escaped body: one pass, three entities, no bare "&".           *)
Unescape(s) ==
  LET named(i) == i > 1 /\ s[i - 1] = "&"
  IN  [ok   |-> \A i \in DOMAIN s : s[i] = "&" => i < Len(s) /\ s[i + 1] \in Entities,
       text |-> FlattenSeq([i \in DOMAIN s |->
                  CASE s[i] = "&" -> <<>>
                    [] named(i) /\ s[i] # "&" ->
                         SetToSeq({c \in DOMAIN EntityOf : EntityOf[c] = s[i]})
                    [] OTHER      -> <<s[i]>>])]

(* A CDATA body is read token by token: [at, section, text], the part of    *)
(* the body reached, the section so far and the texts of those before.      *)
InCdata(st, c) ==
  LET n    == Len(st.section)
      ends == c = ">" /\ Bracketed(st.section, n)
  IN  CASE st.at = "section" /\ ends  -> [at |-> "outside", section |-> <<>>,
                                         text |-> st.text \o SubSeq(st.section, 1, n - 2)]
        [] st.at = "section" /\ ~ends -> [at |-> "section", section |-> Append(st.section, c),
                                         text |-> st.text]
        [] st.at = "outside" /\ c = "<" ->
             [at |-> "opening", section |-> <<>>, text |-> st.text]
        [] st.at = "opening" /\ c = "![CDATA[" ->
             [at |-> "section", section |-> <<>>, text |-> st.text]
        [] OTHER -> [at |-> "bad", section |-> <<>>, text |-> st.text]

(* What is reached after each token. *)
Progress(s) ==
  LET st[i \in 0..Len(s)] ==
        IF i = 0 THEN [at |-> "outside", section |-> <<>>, text |-> <<>>]
        ELSE InCdata(st[i - 1], s[i])
  IN  st

(* The texts of the sections, and nothing between them. *)
Sections(s) ==
  LET end == Progress(s)[Len(s)]
  IN  [ok |-> end.at = "outside", text |-> end.text]

(* The tokens between the framing newlines, when the element ends at i. *)
Body(wire, i) == SubSeq(wire, 2, i - 2)

(* The element ends at its first closing tag that is not inside a section.  *)
EndsAt(fence, i) ==
  /\ i \in 3..(Len(fence.wire) - 2) /\ SubSeq(fence.wire, i, i + 2) = ClosingTag
  /\ fence.meta.encoding = "cdata" => Sections(Body(fence.wire, i)).ok

(* Where the element ends, 0 if it does not. *)
ElementEnd(fence) ==
  SelectInSeq([i \in DOMAIN fence.wire |-> i], LAMBDA i : EndsAt(fence, i))

Recover(fence) ==
  LET end  == ElementEnd(fence)
      body == Body(fence.wire, end)
  IN  CASE end = 0                    -> [ok |-> FALSE, text |-> <<>>]
        [] end > 0 /\ fence.meta.encoding = "cdata" -> Sections(body)
        [] end > 0 /\ fence.meta.encoding # "cdata" -> Unescape(body)

(* The fence verifies under a key that is held. *)
Verifies(fence, keys) ==
  LET body == Recover(fence)
  IN  /\ body.ok /\ fence.meta.kid \in keys
      /\ fence.signature = Signature(fence.meta.kid, body.text, fence.meta)

(* The preamble names one nonce, that of the content fence. *)
Links(preamble, fence) ==
  {i \in DOMAIN preamble : preamble[i] = "nonce="} = {4} /\ preamble[5] = fence.meta.nonce

(* A gateway lets the response through: every fence verifies, and in format *)
(* 1.1 the preamble is that of the content fence.                           *)
Accepts(response, keys) ==
  /\ \A i \in DOMAIN response.fences : Verifies(response.fences[i], keys)
  /\ Last(response.fences).meta.version = "1.1" =>
       /\ Len(response.fences) = 2 /\ response.prose = <<>>
       /\ LET trusted == response.fences[1]
              fence   == response.fences[2]
          IN  /\ trusted.meta.type = "instructions" /\ trusted.meta.source = "awareness"
              /\ \A f \in {"version", "kid", "timestamp"} : trusted.meta[f] = fence.meta[f]
              /\ Links(Recover(trusted).text, fence)

Carried(response) == Recover(Last(response.fences)).text

(* The preamble as the model reads it. *)
Told(response) ==
  IF response.prose # <<>> THEN SubSeq(response.prose, 1, Len(response.prose) - 2)
  ELSE Recover(response.fences[1]).text

=============================================================================
