------------------------------ MODULE Invisible ------------------------------
(***************************************************************************)
(* stripInvisible (invisible.go): the removal of characters no reader sees  *)
(* from text a page supplied.  A text is a sequence of runes, and a rune is *)
(* its class: "zwj", "zwsp" (which stands for every other zero-width and    *)
(* bidirectional character), "spec", "tag" and "cancel" of the tag block,   *)
(* "flag" (the black flag), "emoji", "vs" (a presentation selector), and    *)
(* visible characters.                                                      *)
(***************************************************************************)
EXTENDS Integers, SequencesExt

CONSTANT MaxSubdivisionTags  \* maxSubdivisionTags

ASSUME InvisibleAssumption == MaxSubdivisionTags \in Nat \ {0}

TagBlock == {"spec", "tag", "cancel"}

IsInvisibleRune(r) == r \in TagBlock \cup {"zwj", "zwsp"}

IsEmojiRune(r) == r \in {"emoji", "flag"}

(* The index just past the run of tag-block runes that starts at i. *)
RunEnd(s, i) ==
  CHOOSE e \in i..(Len(s) + 1) :
    /\ \A k \in i..(e - 1) : s[k] \in TagBlock
    /\ e = Len(s) + 1 \/ s[e] \notin TagBlock

(* Mutant of IsFlagTail: tags may follow the terminator. *)
IsFlagTailUnended(run) ==
  \E n \in DOMAIN run :
    /\ run[n] = "cancel" /\ n - 1 \in 1..MaxSubdivisionTags
    /\ \A k \in 1..(n - 1) : run[k] = "spec"

(* scanTagRun's verdict on a run: 1 to maxSubdivisionTags spec tags, then   *)
(* CANCEL TAG, and nothing else.                                            *)
IsFlagTail(run) ==
  /\ Len(run) - 1 \in 1..MaxSubdivisionTags
  /\ run[Len(run)] = "cancel"
  /\ \A k \in 1..(Len(run) - 1) : run[k] = "spec"

(* Mutant of JoinsEmoji: only the right side is looked at. *)
JoinsNext(s, i, prev) == i < Len(s) /\ IsEmojiRune(s[i + 1])

(* A joiner stays between two emoji: the last rune written, selectors       *)
(* aside, and the next one of the source.                                   *)
JoinsEmoji(s, i, prev) ==
  IsEmojiRune(prev) /\ i < Len(s) /\ IsEmojiRune(s[i + 1])

(* One turn of the loop; st is [i, out, removed, prev]. *)
Dropped(st) ==
  [i |-> st.i + 1, out |-> st.out, removed |-> st.removed + 1, prev |-> st.prev]
Written(st, r) ==
  [i |-> st.i + 1, out |-> Append(st.out, r), removed |-> st.removed,
   prev |-> IF r = "vs" THEN st.prev ELSE r]

AfterFlag(s, st) ==
  LET e    == RunEnd(s, st.i + 1)
      run  == SubSeq(s, st.i + 1, e - 1)
      kept == run = <<>> \/ IsFlagTail(run)
      flag == Written(st, "flag")
  IN  [i |-> e,
       out |-> IF kept THEN flag.out \o run ELSE flag.out,
       removed |-> IF kept THEN st.removed ELSE st.removed + Len(run),
       prev |-> flag.prev]

StripTurn(s, st) ==
  LET r == s[st.i]
  IN  IF st.i > Len(s) THEN st
      ELSE IF r = "flag" THEN AfterFlag(s, st)
      ELSE IF r = "zwj" /\ JoinsEmoji(s, st.i, st.prev) THEN Written(st, r)
      ELSE IF IsInvisibleRune(r) THEN Dropped(st)
      ELSE Written(st, r)

(* The loop takes at most one turn per rune. *)
StripInvisible(s) ==
  LET st[turn \in 0..Len(s)] ==
        IF turn = 0 THEN [i |-> 1, out |-> <<>>, removed |-> 0, prev |-> "none"]
        ELSE StripTurn(s, st[turn - 1])
  IN  [text |-> st[Len(s)].out, removed |-> st[Len(s)].removed]

-----------------------------------------------------------------------------
(* The same by positions, as the file's comment describes what may stay.    *)

(* Position k is part of a whole subdivision flag. *)
InFlag(s, k) ==
  \E i \in 1..(k - 1), j \in k..Len(s) :
    /\ s[i] = "flag" /\ s[j] = "cancel" /\ j - i - 1 \in 1..MaxSubdivisionTags
    /\ \A n \in (i + 1)..(j - 1) : s[n] = "spec"
    /\ j < Len(s) => s[j + 1] \notin TagBlock

(* Position k joins two emoji, with nothing visible between but selectors.  *)
Joiner(s, k) ==
  /\ s[k] = "zwj" /\ k < Len(s) /\ s[k + 1] \in {"emoji", "flag"}
  /\ \E i \in 1..(k - 1) :
       /\ s[i] \in {"emoji", "flag"}
       /\ \A n \in (i + 1)..(k - 1) : IsInvisibleRune(s[n]) \/ s[n] = "vs"

MayStay(s, k) == ~IsInvisibleRune(s[k]) \/ InFlag(s, k) \/ Joiner(s, k)

(* s without the positions that may not stay. *)
Cleaned(s) == FlattenSeq([k \in DOMAIN s |-> IF MayStay(s, k) THEN <<s[k]>> ELSE <<>>])

=============================================================================
