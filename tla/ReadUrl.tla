------------------------------- MODULE ReadUrl -------------------------------
(***************************************************************************)
(* searxng_read_url, from a call to its window (fetch.go): a client reads a  *)
(* document through the cache, or through a fetch (Egress) when the cache    *)
(* has no copy, and gets one window of it (Paginate).  Between two calls the *)
(* copy may expire or be replaced by another caller's fetch, and the         *)
(* document itself may change, to an image as well.  The client follows the  *)
(* continuation hints, or asks for any window it likes.                      *)
(***************************************************************************)
EXTENDS Egress, Paginate

CONSTANTS
  Texts,     \* what extraction can make of the document
  Image,     \* the document served as an image
  NoText,    \* no cached copy, or no chain of windows
  Doc,       \* the targets the document can be at
  Starts,    \* the start_index values a client invents
  Lengths    \* the max_chars values it passes

ASSUME ReadUrlAssumption ==
  /\ \A t \in Texts : IsText(t)
  /\ Image \notin Texts /\ NoText \notin Texts /\ Doc \subseteq Target
  /\ Starts \subseteq Int /\ Lengths \subseteq Int

VARIABLES
  doc,      \* where the document is
  page,     \* the document now
  cache,    \* the cached copy of its text
  asked,    \* the call's start_index and max_chars
  reply,    \* what the last call returned
  chain     \* history: the windows of one text the client read in sequence
            \* from 0: [text, upTo, chars]

readVars == <<doc, page, cache, asked, reply, chain>>
readUrlVars == <<egressVars, readVars>>

NoReply == [read |-> "none", asked |-> 0, hint |-> 0]

ReadInit ==
  /\ EgressInit
  /\ doc \in Doc /\ page \in Texts
  /\ cache = NoText /\ asked = [start |-> 0, length |-> 0]
  /\ reply = NoReply /\ chain = NoText

(* The client's chain of windows, after window w of t. *)
Chained(t, start, w) ==
  IF start <= 0 THEN [text |-> t, upTo |-> w.end, chars |-> w.end - w.start]
  ELSE IF chain # NoText /\ chain.text = t /\ chain.upTo = start
  THEN [text |-> t, upTo |-> w.end, chars |-> chain.chars + w.end - w.start]
  ELSE NoText

(* The call answers with a window of t, or says that there is none. *)
Respond(t, start, length) ==
  IF BeyondEnd(t, start)
  THEN reply' = [NoReply EXCEPT !.asked = start] /\ chain' = NoText
  ELSE LET w == Window(t, start, length)
       IN  /\ reply' = [read |-> Depth(t, w), asked |-> start, hint |-> Hint(t, w)]
           /\ chain' = Chained(t, start, w)

-----------------------------------------------------------------------------
(* What a client can ask for: the hint it was given, or its own idea. *)
Asks == Starts \cup {reply.hint}

(* A call finds a copy in the cache. *)
ReadCached(start, length) ==
  /\ fetch = NoFetch /\ cache # NoText
  /\ Respond(cache, start, length)
  /\ UNCHANGED <<egressVars, doc, page, cache, asked>>

(* It finds none, or is told to refresh: any copy goes, and a fetch begins. *)
ReadFresh(start, length) ==
  /\ fetch = NoFetch
  /\ cache' = NoText
  /\ fetch' = Request(doc, 1)
  /\ asked' = [start |-> start, length |-> length]
  /\ UNCHANGED <<acl, idle, doc, page, reply, chain>>

(* The fetch takes a step. *)
FetchStep == EgressStep /\ UNCHANGED readVars

(* It got the text: cached, and the window returned. *)
ReturnText ==
  /\ fetch = Got /\ page # Image
  /\ cache' = page /\ fetch' = NoFetch
  /\ Respond(page, asked.start, asked.length)
  /\ asked' = [start |-> 0, length |-> 0]
  /\ UNCHANGED <<acl, idle, doc, page>>

(* It got an image: returned whole, never cached. *)
ReturnImage ==
  /\ fetch = Got /\ page = Image
  /\ fetch' = NoFetch
  /\ reply' = [read |-> "image", asked |-> asked.start, hint |-> 0]
  /\ chain' = NoText /\ asked' = [start |-> 0, length |-> 0]
  /\ UNCHANGED <<acl, idle, doc, page, cache>>

(* It failed, and the client may try again: its chain is as it was. *)
ReturnError ==
  /\ fetch.pc = "failed"
  /\ fetch' = NoFetch
  /\ reply' = [NoReply EXCEPT !.asked = asked.start,
                              !.hint = IF chain = NoText THEN 0 ELSE chain.upTo]
  /\ asked' = [start |-> 0, length |-> 0]
  /\ UNCHANGED <<acl, idle, doc, page, cache, chain>>

(* The document changes at its origin. *)
Republish ==
  /\ page' \in (Texts \cup {Image}) \ {page}
  /\ UNCHANGED <<egressVars, doc, cache, asked, reply, chain>>

(* The copy expires, or another caller's read replaces it. *)
OthersRead ==
  /\ cache' \in ({NoText} \cup ({page} \ {Image})) \ {cache}
  /\ UNCHANGED <<egressVars, doc, page, asked, reply, chain>>

ReadNext ==
  \/ \E start \in Asks, length \in Lengths :
       ReadCached(start, length) \/ ReadFresh(start, length)
  \/ FetchStep
  \/ ReturnText \/ ReturnImage \/ ReturnError
  \/ Republish \/ OthersRead

ReadSpec == ReadInit /\ [][ReadNext]_readUrlVars

-----------------------------------------------------------------------------
(* Every variable has its type. *)
ReadTypeOK ==
  /\ acl \in Configs /\ doc \in Doc
  /\ fetch.pc \in {"none", "route", "connect", "sent", "redirect", "failed", "got"}
  /\ page \in Texts \cup {Image} /\ cache \in Texts \cup {NoText}
  /\ reply.read \in {"none", "partial", "full", "image"}

(* "guarantees each page advances, so following continuation hints always    *)
(* terminates": a window's hint lies beyond the offset that was asked for,   *)
(* invented offsets and a text that changed between two pages included.      *)
HintsLeadOn ==
  /\ ReadTypeOK
  /\ reply.read = "partial" /\ reply.hint # 0 => reply.hint > reply.asked

(* A client that starts at 0 and follows the hints through one text, over    *)
(* failed fetches and refetches, gets every byte up to the last hint exactly *)
(* once; and it is told "full" when, and only when, it has all of a text     *)
(* that was not capped.                                                      *)
FollowedWhole ==
  chain # NoText =>
    /\ chain.chars = chain.upTo
    /\ reply.read \in {"partial", "full"} =>
         (reply.read = "full" <=> chain.upTo = chain.text.size /\ ~chain.text.cut)
=============================================================================
