----------------------------- MODULE Provenance -----------------------------
(***************************************************************************)
(* The URL provenance check of the fetch tools (provenance.go) and the      *)
(* single-use confirmations it asks the user for (confirm.go), with calls   *)
(* of several callers in flight.  A URL is a key as urlKey compares them;   *)
(* which URLs carry data and which hosts are trusted are constants.         *)
(***************************************************************************)
EXTENDS Integers, SequencesExt

CONSTANTS
  Url, Caller, Tool, Call,
  Modes,       \* the values of FETCH_URL_PROVENANCE a relay may start with
  Carrying,    \* the URLs carriesData gives a reason for
  Trusted,     \* the URLs of FETCH_PROVENANCE_TRUSTED_HOSTS
  Eliciting,   \* the callers whose client declared elicitation
  Answers,     \* the sequences of addresses an answer can show
  MaxSeen,     \* maxSeenURLs
  ConfirmTTL,  \* confirmTTL
  MaxStates,   \* bound: confirmations issued
  MaxTime      \* bound: the clock

(* What parseProvenanceMode makes of FETCH_URL_PROVENANCE. *)
ProvenanceMode == {"enforce", "strict", "log", "off"}

ASSUME ProvenanceAssumption ==
  /\ Modes \subseteq ProvenanceMode
  /\ Answers \subseteq Seq(Url)
  /\ Carrying \subseteq Url /\ Trusted \subseteq Url /\ Eliciting \subseteq Caller
  /\ MaxSeen \in Nat \ {0} /\ ConfirmTTL \in Nat
  /\ MaxStates \in Nat /\ MaxTime \in Nat

VARIABLES
  mode,      \* this relay's FETCH_URL_PROVENANCE
  now,       \* the wall clock
  seen,      \* Caller -> the addresses shown to it, oldest first
  issued,    \* the confirmation states given out; its place is the nonce
  used,      \* redeemed nonces not purged yet
  call,      \* Call -> idle, or the redemption or fetch it is in
  shown,     \* history: Caller -> every address ever shown to it
  accepted,  \* history: the bindings whose user said yes
  redeemed,  \* history: nonce -> how often redeem returned true
  unasked    \* history: some fetch had none of the reasons that allow it

vars == <<mode, now, seen, issued, used, call, shown, accepted, redeemed, unasked>>

Idle == [pc |-> "idle"]

Init ==
  /\ mode \in Modes
  /\ now = 0
  /\ seen = [c \in Caller |-> << >>] /\ shown = [c \in Caller |-> {}]
  /\ issued = << >> /\ used = {} /\ redeemed = << >>
  /\ call = [x \in Call |-> Idle]
  /\ accepted = {} /\ unasked = FALSE

(* Mutant of SeenAdd: without the check for a duplicate. *)
SeenAddAgain(s, u) ==
  LET t == Append(s, u)
  IN  IF Len(t) > MaxSeen THEN Tail(t) ELSE t

(* seenURLs.add: a duplicate keeps its place, the oldest go first. *)
SeenAdd(s, u) ==
  IF Contains(s, u) THEN s
  ELSE LET t == Append(s, u)
       IN  IF Len(t) > MaxSeen THEN Tail(t) ELSE t

(* rememberText: the addresses of an answer are added in their order. *)
SeenAddAll(s, us) ==
  LET added[i \in 0..Len(us)] ==
        IF i = 0 THEN s ELSE SeenAdd(added[i - 1], us[i])
  IN  added[Len(us)]

(* What a confirmation covers: this caller, this tool, this URL. *)
Binding(c, tool, u) == <<c, tool, u>>

(* checkURLProvenance, down to the point where only the user can allow it. *)
Allowed(c, u) ==
  \/ mode = "off"
  \/ Contains(seen[c], u)
  \/ u \in Trusted
  \/ u \notin Carrying /\ mode # "strict"
  \/ mode = "log"

(* Whether a fetch of u by c with that tool is one the check may allow.     *)
Justified(c, tool, u) ==
  \/ mode \in {"off", "log"}
  \/ u \in shown[c] \/ u \in Trusted
  \/ u \notin Carrying /\ mode = "enforce"
  \/ <<c, tool, u>> \in accepted

Fetching(c, tool, u) == [pc |-> "fetch", caller |-> c, tool |-> tool, url |-> u]

-----------------------------------------------------------------------------
Tick ==
  /\ now < MaxTime
  /\ now' = now + 1
  /\ UNCHANGED <<mode, seen, issued, used, call, shown, accepted, redeemed, unasked>>

(* A search answer: its result URLs are shown (rememberText). *)
ShowResults(c, us) ==
  /\ seen' = [seen EXCEPT ![c] = SeenAddAll(@, us)]
  /\ shown' = [shown EXCEPT ![c] = @ \cup ToSet(us)]
  /\ UNCHANGED <<mode, now, issued, used, call, accepted, redeemed, unasked>>

(* The caller's ledger, and the seen set in it, is pushed out of its cache. *)
ForgetCaller(c) ==
  /\ seen[c] # << >>
  /\ seen' = [seen EXCEPT ![c] = << >>]
  /\ UNCHANGED <<mode, now, issued, used, call, shown, accepted, redeemed, unasked>>

(* The check lets the call through to readURL. *)
Pass(x, c, tool, u) ==
  /\ call[x] = Idle
  /\ Allowed(c, u)
  /\ call' = [call EXCEPT ![x] = Fetching(c, tool, u)]
  /\ unasked' = (unasked \/ ~Justified(c, tool, u))
  /\ UNCHANGED <<mode, now, seen, issued, used, shown, accepted, redeemed>>

(* A first call whose client can be asked: issue, return the question. *)
Ask(x, c, tool, u) ==
  /\ call[x] = Idle
  /\ ~Allowed(c, u)
  /\ c \in Eliciting
  /\ Len(issued) < MaxStates
  /\ issued' = Append(issued, [binding |-> Binding(c, tool, u),
                               exp |-> now + ConfirmTTL])
  /\ redeemed' = Append(redeemed, 0)
  /\ UNCHANGED <<mode, now, seen, used, call, shown, accepted, unasked>>

(* Mutant of Redeemable: the binding is not compared. *)
RedeemableByAnyone(n, binding) == now <= issued[n].exp

(* redeem accepts a state that was issued for this binding and that the     *)
(* clock, read before the lock is taken, has not passed.                    *)
Redeemable(n, binding) ==
  /\ issued[n].binding = binding
  /\ now <= issued[n].exp

(* A retry that brings a state; every refusal of redeem so far blocks it.   *)
Retry(x, c, tool, u, n, yes) ==
  /\ call[x] = Idle
  /\ ~Allowed(c, u)
  /\ Redeemable(n, Binding(c, tool, u))
  /\ call' = [call EXCEPT ![x] =
                [pc |-> "redeem", caller |-> c, tool |-> tool, url |-> u,
                 nonce |-> n, at |-> now, yes |-> yes]]
  /\ accepted' = IF yes THEN accepted \cup {issued[n].binding} ELSE accepted
  /\ UNCHANGED <<mode, now, seen, issued, used, shown, redeemed, unasked>>

(* Mutant of StillUsed: a mark is purged in the state's last instant. *)
StillUsedBeforeExpiry(t) == {n \in used : t < issued[n].exp}

(* The states a redemption that read the clock at t finds still recorded.   *)
StillUsed(t) == {n \in used : t <= issued[n].exp}

(* The rest of redeem, under its lock, and what the check does with it.     *)
Redeem(x) ==
  LET r == call[x]
      c == r.caller
  IN  /\ r.pc = "redeem"
      /\ \/ /\ r.nonce \in StillUsed(r.at)
            /\ used' = StillUsed(r.at)
            /\ call' = [call EXCEPT ![x] = Idle]
            /\ UNCHANGED <<seen, shown, redeemed, unasked>>
         \/ /\ r.nonce \notin StillUsed(r.at)
            /\ used' = StillUsed(r.at) \cup {r.nonce}
            /\ redeemed' = [redeemed EXCEPT ![r.nonce] = @ + 1]
            /\ \/ /\ r.yes
                  /\ seen' = [seen EXCEPT ![c] = SeenAdd(@, r.url)]
                  /\ unasked' = (unasked \/ ~Justified(c, r.tool, r.url))
                  /\ shown' = [shown EXCEPT ![c] = @ \cup {r.url}]
                  /\ call' = [call EXCEPT ![x] = Fetching(c, r.tool, r.url)]
               \/ /\ ~r.yes
                  /\ call' = [call EXCEPT ![x] = Idle]
                  /\ UNCHANGED <<seen, shown, unasked>>
      /\ UNCHANGED <<mode, now, issued, accepted>>

(* The fetch fails, or returns a page: its address, where it ended up and   *)
(* the links in the window become shown.                                    *)
Finish(x, us) ==
  LET c   == call[x].caller
      new == <<call[x].url>> \o us
  IN  /\ call[x].pc = "fetch"
      /\ \/ UNCHANGED <<seen, shown>>
         \/ /\ seen' = [seen EXCEPT ![c] = SeenAddAll(@, new)]
            /\ shown' = [shown EXCEPT ![c] = @ \cup ToSet(new)]
      /\ call' = [call EXCEPT ![x] = Idle]
      /\ UNCHANGED <<mode, now, issued, used, accepted, redeemed, unasked>>

Next ==
  \/ Tick
  \/ \E c \in Caller : ForgetCaller(c) \/ \E us \in Answers : ShowResults(c, us)
  \/ \E x \in Call, c \in Caller, tool \in Tool, u \in Url :
       \/ Pass(x, c, tool, u)
       \/ Ask(x, c, tool, u)
       \/ \E n \in DOMAIN issued, yes \in BOOLEAN : Retry(x, c, tool, u, n, yes)
  \/ \E x \in Call : Redeem(x) \/ \E us \in Answers : Finish(x, us)

Spec == Init /\ [][Next]_vars

-----------------------------------------------------------------------------
(* Every variable has its type. *)
TypeOK ==
  /\ mode \in Modes
  /\ now \in 0..MaxTime
  /\ \A c \in Caller : seen[c] \in Seq(Url) /\ Len(seen[c]) <= MaxSeen
  /\ used \subseteq DOMAIN issued /\ DOMAIN redeemed = DOMAIN issued
  /\ \A x \in Call : call[x].pc \in {"idle", "redeem", "fetch"}

(* The check's promise: an address that carries data (any address, under    *)
(* strict) is fetched only if it was shown to this caller first, is on a    *)
(* trusted host, or its user confirmed this tool's fetch of it.             *)
NoUnaskedFetch == ~unasked

(* The seen set only forgets: everything in it was shown to that caller,    *)
(* once, so a page that floods it makes the check stricter, never looser.   *)
SeenIsShown ==
  /\ TypeOK
  /\ \A c \in Caller : IsInjective(seen[c]) /\ ToSet(seen[c]) \subseteq shown[c]

(* While a confirmation is still answerable it is redeemed at most once,    *)
(* however many retries race with it.  Past its expiry it may be once more: *)
(* redeem reads the clock before it takes the lock, so a later redemption   *)
(* can purge the used mark as expired while an earlier one, whose reading   *)
(* is still within the expiry, has yet to look for it.                      *)
SingleUseUntilExpiry ==
  \A n \in DOMAIN issued : redeemed[n] > 1 => now > issued[n].exp

=============================================================================
