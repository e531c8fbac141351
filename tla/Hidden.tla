------------------------------- MODULE Hidden -------------------------------
(***************************************************************************)
(* stripHiddenElements (hidden.go): the removal of elements a browser would *)
(* not show, before any extractor sees the page.                            *)
(* A document is a sequence of elements in the order a parser meets them:   *)
(* [parent, tag, attrs, text], where the parent is an earlier element or 0, *)
(* the document itself.  attrs is a sequence of [key, val]; the value of a  *)
(* style is its declarations [prop, val, important], comments and blanks    *)
(* already gone, and "zero" is every way to write a zero.                   *)
(***************************************************************************)
EXTENDS Integers, SequencesExt

NoDecl == [prop |-> "none", val |-> "none", important |-> FALSE]

(* Mutant of Final: the last declaration wins, important or not. *)
FinalLast(style, prop) ==
  FoldLeft(LAMBDA won, d : IF d.prop = prop THEN d ELSE won, NoDecl, style)

(* final[prop]: a later declaration wins, except a normal one over an       *)
(* earlier important one.                                                   *)
Final(style, prop) ==
  LET won[i \in 0..Len(style)] ==
        IF i = 0 THEN NoDecl
        ELSE IF style[i].prop # prop \/ (won[i - 1].important /\ ~style[i].important)
          THEN won[i - 1]
        ELSE style[i]
  IN  won[Len(style)]

Collapsing ==
  {<<"display", "none">>, <<"visibility", "hidden">>, <<"visibility", "collapse">>,
   <<"opacity", "zero">>, <<"font-size", "zero">>}

InlineStyleHides(style) ==
  \E c \in Collapsing : Final(style, c[1]).val = c[2]

HidingAttr(tag, a) ==
  \/ a.key = "hidden" /\ a.val # "until-found"
  \/ a.key = "aria-hidden" /\ a.val = "true"
  \/ a.key = "type" /\ tag = "input" /\ a.val = "hidden"
  \/ a.key = "style" /\ InlineStyleHides(a.val)

IsHiddenElement(e) ==
  e.tag = "template" \/ \E i \in DOMAIN e.attrs : HidingAttr(e.tag, e.attrs[i])

Children(doc, n) == {i \in DOMAIN doc : doc[i].parent = n}

(* These elements, in the order of the document. *)
InOrder(doc, els) == FlattenSeq([i \in DOMAIN doc |-> IF i \in els THEN <<i>> ELSE <<>>])

(* Mutant of VisitNode: the walk over the children ends at one it removes,  *)
(* whose NextSibling is gone by then.                                       *)
VisitToFirstHidden(doc, st) ==
  LET here == Children(doc, Last(st.stack))
      bad  == {i \in here : IsHiddenElement(doc[i])}
      seen == {i \in here : \A k \in bad : i < k}
  IN  IF st.stack = <<>> THEN st
      ELSE [stack |-> Front(st.stack) \o InOrder(doc, seen),
            detached |-> st.detached \cup {k \in bad : \A j \in bad : k <= j}]

(* One turn of the walk: the node on top leaves the stack, its hidden       *)
(* children leave the document, and the others are visited later.           *)
VisitNode(doc, st) ==
  LET here == Children(doc, Last(st.stack))
      bad  == {i \in here : IsHiddenElement(doc[i])}
  IN  IF st.stack = <<>> THEN st
      ELSE [stack |-> Front(st.stack) \o InOrder(doc, here \ bad),
            detached |-> st.detached \cup bad]

(* removeHiddenNodes: at most one turn for the document and each element.   *)
RemoveHiddenNodes(doc) ==
  LET st[turn \in 0..(Len(doc) + 1)] ==
        IF turn = 0 THEN [stack |-> <<0>>, detached |-> {}]
        ELSE VisitNode(doc, st[turn - 1])
  IN  st[Len(doc) + 1].detached

(* n, its parent, its parent's parent ... *)
WithAncestors(doc, n) ==
  LET line[k \in 0..n] == IF k = 0 THEN {} ELSE {k} \cup line[doc[k].parent]
  IN  line[n]

(* The text an extractor still finds once these elements are detached. *)
TextWithout(doc, detached) ==
  FlattenSeq([n \in DOMAIN doc |->
                IF WithAncestors(doc, n) \cap detached = {} THEN doc[n].text ELSE <<>>])

(* stripHiddenElements. *)
StripHiddenElements(doc) ==
  LET detached == RemoveHiddenNodes(doc)
  IN  [text |-> TextWithout(doc, detached), removed |-> Cardinality(detached)]

-----------------------------------------------------------------------------
(* What a reader of the page sees.                                          *)

(* The declaration of prop the cascade applies: the last important one, or  *)
(* the last one if none is important.                                       *)
Applied(style, prop) ==
  LET of(imp) == {i \in DOMAIN style : style[i].prop = prop /\ style[i].important = imp}
      from    == IF of(TRUE) # {} THEN of(TRUE) ELSE of(FALSE)
  IN  IF from = {} THEN NoDecl
      ELSE style[CHOOSE i \in from : \A j \in from : j <= i]

UnseenBy(tag, key, val) ==
  CASE key = "hidden"      -> val # "until-found"
    [] key = "aria-hidden" -> val = "true"
    [] key = "type"        -> tag = "input" /\ val = "hidden"
    [] key = "style"       -> \/ Applied(val, "display").val = "none"
                              \/ Applied(val, "visibility").val \in {"hidden", "collapse"}
                              \/ Applied(val, "opacity").val = "zero"
                              \/ Applied(val, "font-size").val = "zero"
    [] OTHER               -> FALSE

Unseen(e) ==
  e.tag = "template" \/ \E i \in DOMAIN e.attrs : UnseenBy(e.tag, e.attrs[i].key, e.attrs[i].val)

(* Shown, if no element it is in is unseen; a hiding act is the outermost   *)
(* unseen element of its branch.                                            *)
Shown(doc, n) == \A a \in WithAncestors(doc, n) : ~Unseen(doc[a])

HidingActs(doc) ==
  {n \in DOMAIN doc : Unseen(doc[n]) /\ (doc[n].parent = 0 \/ Shown(doc, doc[n].parent))}

SeenText(doc) ==
  FlattenSeq([n \in DOMAIN doc |-> IF Shown(doc, n) THEN doc[n].text ELSE <<>>])

=============================================================================
