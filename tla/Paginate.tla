------------------------------ MODULE Paginate ------------------------------
(***************************************************************************)
(* paginateContent (fetch.go): the window of an extracted text that one      *)
(* response carries.  A text is its length in bytes, the offsets at which a  *)
(* rune of it starts, and whether extraction was capped; offsets count from  *)
(* 0, and a window is [start, end).                                          *)
(***************************************************************************)
EXTENDS Integers

CONSTANT MaxRendered   \* maxRenderedChars

ASSUME PaginateAssumption == MaxRendered \in Nat \ {0}

(* What extraction can have kept: valid UTF-8 starts with a rune. *)
IsText(t) ==
  /\ t.size \in Nat /\ t.starts \subseteq 0..(t.size - 1) /\ t.cut \in BOOLEAN
  /\ t.size > 0 => 0 \in t.starts

(* The rune start at or before i, and the one after i or the text's end. *)
LastStart(t, i) ==
  CHOOSE j \in t.starts : j <= i /\ \A k \in t.starts : k <= i => k <= j
NextStart(t, i) ==
  CHOOSE j \in t.starts \cup {t.size} :
    j > i /\ \A k \in t.starts \cup {t.size} : k > i => j <= k

(* An offset past the end is an error; 0 never is, of an empty text either. *)
BeyondEnd(t, startIndex) == startIndex > 0 /\ startIndex >= t.size

(* Where the window starts: an invented offset is snapped back. *)
StartOf(t, startIndex) ==
  IF startIndex <= 0 THEN 0 ELSE LastStart(t, startIndex)

(* Its length at most. *)
Length(maxChars) ==
  IF maxChars <= 0 \/ maxChars > MaxRendered THEN MaxRendered ELSE maxChars

(* Mutant of EndOf: a window shorter than its first rune is left empty. *)
EndStuck(t, start, length) ==
  IF start + length >= t.size THEN t.size ELSE LastStart(t, start + length)

(* Where it ends: at a rune start, and one whole rune on at least. *)
EndOf(t, start, length) ==
  IF start + length >= t.size THEN t.size
  ELSE LET e == LastStart(t, start + length)
       IN  IF e = start THEN NextStart(t, start) ELSE e

(* The window, for a start that is not beyond the end. *)
Window(t, startIndex, maxChars) ==
  LET start == StartOf(t, startIndex)
  IN  [start |-> start, end |-> EndOf(t, start, Length(maxChars))]

(* The continuation its notice names; 0 is none. *)
Hint(t, w) == IF w.end < t.size THEN w.end ELSE 0

(* Mutant of Depth: a capped extraction passes for the document. *)
DepthDespiteCap(t, w) == IF w.end >= t.size THEN "full" ELSE "partial"

(* The depth toolReadURL claims for it. *)
Depth(t, w) == IF w.end >= t.size /\ ~t.cut THEN "full" ELSE "partial"
=============================================================================
