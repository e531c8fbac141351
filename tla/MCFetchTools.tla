---------------------------- MODULE MCFetchTools ----------------------------
EXTENDS FetchTools

CONSTANTS r1, r2, u1, u2

MCToolOf == r1 :> "read_url" @@ r2 :> "url_metadata"
MCDomainOf == u1 :> "d1" @@ u2 :> "d2"

Texts(tokens, n) == UNION {[1..k -> tokens] : k \in 0..n}

Element(parent, tag, attrs, text) ==
  [parent |-> parent, tag |-> tag, attrs |-> attrs, text |-> text]
HiddenAttr == [key |-> "hidden", val |-> "hidden"]
Page(elements, title) == [kind |-> "html", elements |-> elements, title |-> title]
Site(docs, scope) ==
  [docs |-> docs, keepHiddenText |-> FALSE, keepInvisibleChars |-> FALSE, scope |-> scope]

(* Every short text of markup and of invisible characters, as text and title. *)
Markup == {"a", "&", "amp;", "<", ">", "]", "nl", "/sec:fence"}
Runes == {"a", "emoji", "vs", "flag", "zwj", "zwsp", "spec", "tag", "cancel"}
SectionEnds == {<<"]", "]", "]", ">">>, <<"]", "]", ">", "]", "]", ">">>}
TextDocs ==
  {Page(<<Element(0, "div", <<>>, s)>>, s)
   : s \in UNION {Texts(Markup, 3), Texts(Runes, 4), SectionEnds}}

(* Every tree of up to four elements, any of them hidden. *)
Trees(n) == {f \in [1..n -> 0..(n - 1)] : \A i \in 1..n : f[i] < i}
TreeDocs ==
  UNION {{Page([i \in 1..n |-> Element(f[i], "div", IF i \in hid THEN <<HiddenAttr>> ELSE <<>>,
                                       <<"a">>)], <<>>)
          : f \in Trees(n), hid \in SUBSET (1..n)} : n \in 1..4}

(* Every element with one attribute, and every style of up to three declarations. *)
Decls == [prop : {"display"}, val : {"none", "block"}, important : BOOLEAN]
           \cup [prop : {"opacity"}, val : {"zero", "one"}, important : BOOLEAN]
Attrs == [key : {"hidden", "aria-hidden", "type", "class"},
          val : {"until-found", "true", "hidden"}]
Styles == [key : {"style"}, val : Texts(Decls, 3)]
With(tag, attr) == Page(<<Element(0, tag, <<attr>>, <<"a">>)>>, <<>>)
ElementDocs ==
  UNION {{With(tag, a) : tag \in {"div", "input", "template"}, a \in Attrs},
         {With("div", a) : a \in Styles}}

(* The other kinds of page, and the switches that keep what is hidden. *)
Mixed == <<Element(0, "div", <<>>, <<"a", "zwsp">>), Element(1, "p", <<HiddenAttr>>, <<"&">>)>>
Kinds == {"html", "plain", "no article", "unparsable"}
KindSites ==
  [docs : {<<[kind |-> k, elements |-> Mixed, title |-> <<"<", "zwsp">>]>> : k \in Kinds},
   keepHiddenText : BOOLEAN, keepInvisibleChars : BOOLEAN, scope : {"text"}]

(* A page with something hidden in it, which a second version no longer has. *)
Hiding == Page(Mixed, <<"<", "zwsp">>)
Plain == Page(<<Element(0, "div", <<>>, <<"]">>)>>, <<"a">>)

MCSites ==
  UNION {{Site(<<doc>>, "text") : doc \in UNION {TextDocs, TreeDocs, ElementDocs}}, KindSites,
         {Site(<<Hiding, Plain>>, "time"), Site(<<Hiding>>, "calls")}}

=============================================================================
