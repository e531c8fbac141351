------------------------------ MODULE Sessions ------------------------------
(***************************************************************************)
(* Stateful mode's sessions: the SDK's live set, the relay's own table of    *)
(* the sessions that finished the handshake (Server.sessions), the soft cap  *)
(* of limitSessions (transport_http.go) and the janitor that closes old      *)
(* sessions (server.go).  A janitor pass snapshots the live set, sweeps the  *)
(* table under sessionsMu and closes what the sweep picked, and everything   *)
(* else happens between these steps too.                                     *)
(***************************************************************************)
EXTENDS Integers, FiniteSets

CONSTANTS
  Session,      \* the sessions of a behaviour
  MaxSessions,  \* maxSessions
  MaxAge,       \* MCP_SESSION_MAX_AGE, in ticks
  InFlight,     \* bound: initialize requests past the cap, not connected yet
  Silent        \* the sessions whose client never sends "initialized"

ASSUME SessionsAssumption ==
  /\ MaxSessions \in Nat \ {0} /\ MaxAge \in Nat
  /\ InFlight \in Nat \ {0} /\ Silent \subseteq Session

VARIABLES
  sess,     \* Session -> new, admitted, open (in the SDK's live set), closed
  note,     \* Session -> none, pending (the notification arrived), handled
  lived,    \* history: Session -> ticks since it opened, up to MaxAge + 1
  tracked,  \* Server.sessions: session -> ticks since CreatedAt, likewise
  janitor   \* [pc, live, toClose]

sessionsVars == <<sess, note, lived, tracked, janitor>>

Resting == [pc |-> "rest", live |-> {}, toClose |-> {}]

SessionsInit ==
  /\ sess = [s \in Session |-> "new"]
  /\ note = [s \in Session |-> "none"]
  /\ lived = [s \in Session |-> 0]
  /\ tracked = [s \in {} |-> 0]
  /\ janitor = Resting

Open     == {s \in Session : sess[s] = "open"}
Admitted == {s \in Session : sess[s] = "admitted"}

(* A tick makes everything older; past MaxAge + 1 it makes no difference. *)
Older(age) == IF age > MaxAge THEN age ELSE age + 1

-----------------------------------------------------------------------------
SessionsTick ==
  /\ lived' = [s \in Session |-> IF s \in Open THEN Older(lived[s]) ELSE lived[s]]
  /\ tracked' = [s \in DOMAIN tracked |-> Older(tracked[s])]
  /\ UNCHANGED <<sess, note, janitor>>

(* Mutant of BelowCap: one session too many. *)
UpToCap == Cardinality(Open) <= MaxSessions

(* limitSessions: a POST without a session ID passes below the cap. *)
BelowCap == Cardinality(Open) < MaxSessions

Admit(s) ==
  /\ sess[s] = "new" /\ Cardinality(Admitted) < InFlight
  /\ BelowCap
  /\ sess' = [sess EXCEPT ![s] = "admitted"]
  /\ UNCHANGED <<note, lived, tracked, janitor>>

(* The SDK handles initialize: the session is live. *)
Connect(s) ==
  /\ sess[s] = "admitted"
  /\ sess' = [sess EXCEPT ![s] = "open"]
  /\ UNCHANGED <<note, lived, tracked, janitor>>

(* The client's notifications/initialized; the SDK refuses a second one. *)
Notify(s) ==
  /\ sess[s] = "open" /\ note[s] = "none" /\ s \notin Silent
  /\ note' = [note EXCEPT ![s] = "pending"]
  /\ UNCHANGED <<sess, lived, tracked, janitor>>

(* handleInitialized: by now the session may be gone again. *)
HandleInitialized(s) ==
  /\ note[s] = "pending"
  /\ note' = [note EXCEPT ![s] = "handled"]
  /\ tracked' = [x \in DOMAIN tracked \cup {s} |-> IF x = s THEN 0 ELSE tracked[x]]
  /\ UNCHANGED <<sess, lived, janitor>>

(* The client's DELETE. *)
Delete(s) ==
  /\ sess[s] = "open"
  /\ sess' = [sess EXCEPT ![s] = "closed"]
  /\ UNCHANGED <<note, lived, tracked, janitor>>

-----------------------------------------------------------------------------
(* reapStaleSessions. *)

Snapshot ==
  /\ janitor = Resting
  /\ janitor' = [pc |-> "sweep", live |-> Open, toClose |-> {}]
  /\ UNCHANGED <<sess, note, lived, tracked>>

(* Mutants of Gone and Overdue: entries of closed sessions stay; sessions   *)
(* are closed at any age; only in the tick they reach the cap.              *)
GoneNever     == {}
OverdueAnyAge == DOMAIN tracked \cap janitor.live
OverdueOnTick == {s \in DOMAIN tracked \cap janitor.live : tracked[s] = MaxAge}

(* The entries the sweep drops because their session is not in the snapshot *)
(* and those it drops, to close their session, because they are too old.    *)
Gone    == DOMAIN tracked \ janitor.live
Overdue == {s \in DOMAIN tracked \cap janitor.live : tracked[s] > MaxAge}

(* The entries that stay. *)
Kept == DOMAIN tracked \ (Gone \cup Overdue)

Sweep ==
  /\ janitor.pc = "sweep"
  /\ tracked' = [s \in Kept |-> tracked[s]]
  /\ janitor' = [pc |-> "close", live |-> {}, toClose |-> Overdue]
  /\ UNCHANGED <<sess, note, lived>>

(* Outside the lock, one session after the other. *)
CloseOld(s) ==
  /\ janitor.pc = "close" /\ s \in janitor.toClose
  /\ sess' = [sess EXCEPT ![s] = "closed"]
  /\ janitor' = [janitor EXCEPT !.toClose = @ \ {s}]
  /\ UNCHANGED <<note, lived, tracked>>

EndPass ==
  /\ janitor.pc = "close" /\ janitor.toClose = {}
  /\ janitor' = Resting
  /\ UNCHANGED <<sess, note, lived, tracked>>

Janitor == Snapshot \/ Sweep \/ EndPass \/ \E s \in Session : CloseOld(s)

SessionsNext ==
  \/ SessionsTick \/ Janitor
  \/ \E s \in Session : \/ Admit(s) \/ Connect(s) \/ Notify(s)
                        \/ HandleInitialized(s) \/ Delete(s)

(* The ticker keeps firing, the janitor's goroutine and the SDK's handlers  *)
(* run; no client has to do anything.                                       *)
SessionsFairness ==
  /\ WF_sessionsVars(SessionsTick) /\ WF_sessionsVars(Janitor)
  /\ \A s \in Session : WF_sessionsVars(HandleInitialized(s))

SessionsSpec == SessionsInit /\ [][SessionsNext]_sessionsVars /\ SessionsFairness

-----------------------------------------------------------------------------
(* Every variable has its type, and a session about to be closed is out of  *)
(* the table, so no later sweep closes it again.                            *)
SessionsTypeOK ==
  /\ sess \in [Session -> {"new", "admitted", "open", "closed"}]
  /\ note \in [Session -> {"none", "pending", "handled"}]
  /\ lived \in [Session -> 0..MaxAge + 1]
  /\ DOMAIN tracked \subseteq Session /\ tracked \in [DOMAIN tracked -> 0..MaxAge + 1]
  /\ janitor.pc \in {"rest", "sweep", "close"}
  /\ janitor.live \subseteq Session /\ janitor.toClose \subseteq Session
  /\ janitor.toClose \cap DOMAIN tracked = {}

(* "a soft cap: concurrent initialize requests can briefly slip past it":   *)
(* past the cap slip at most the requests that were in flight together.     *)
SoftCap == SessionsTypeOK /\ Cardinality(Open \cup Admitted) < MaxSessions + InFlight

(* The janitor closes no session that has not outlived MCP_SESSION_MAX_AGE. *)
OnlyOldClosed ==
  [][\A s \in Open : CloseOld(s) => lived[s] > MaxAge]_sessionsVars

(* A session that is tracked while no sweep is about to run on an older     *)
(* snapshot ends, by its client or by the janitor, and its entry is         *)
(* dropped, one that its handler added after the close included.            *)
TrackedEnds ==
  \A s \in Session :
    s \in DOMAIN tracked /\ (janitor.pc = "sweep" => s \in janitor.live)
      ~> sess[s] = "closed" /\ s \notin DOMAIN tracked

=============================================================================
