----------------------------- MODULE HealthProbe -----------------------------
(***************************************************************************)
(* GET /health (transport_http.go, handleHealth): polls that share one      *)
(* verdict about SearXNG for probeTTL.  The mutex covers the look at the    *)
(* verdict and its replacement, not the probe between them, so polls that   *)
(* find it stale probe side by side and record in any order.                *)
(***************************************************************************)
EXTENDS Integers

CONSTANTS
  Poll,          \* polls that can be in flight at once
  ProbeTTL,      \* probeTTL, in ticks
  ProbeTimeout,  \* probeClient's Timeout, in ticks
  MaxTime,       \* bound: the clock
  HangsUp        \* whether a poller may go away before it is answered

ASSUME ProbeAssumption ==
  /\ ProbeTTL \in Nat \ {0} /\ ProbeTimeout \in Nat \ {0}
  /\ MaxTime \in Nat /\ HangsUp \in BOOLEAN

VARIABLES
  now,      \* the clock
  up,       \* whether SearXNG answers below 500
  ok,       \* Server.healthOK
  checked,  \* Server.healthChecked; -1 is the zero time
  poll,     \* Poll -> where it is in handleHealth
  lastUp,   \* history: the last tick SearXNG was up in, or -1
  lastDown, \* history: the last tick it was down or left a probe waiting in
  answer    \* history: the last verdict given to a poller, and when

vars == <<now, up, ok, checked, poll, lastUp, lastDown, answer>>

Idle == [pc |-> "idle"]
NoAnswer == [ok |-> FALSE, at |-> -1]

Init ==
  /\ now = 0 /\ up \in BOOLEAN
  /\ ok = FALSE /\ checked = -1
  /\ poll = [p \in Poll |-> Idle]
  /\ lastUp = (IF up THEN 0 ELSE -1) /\ lastDown = (IF up THEN -1 ELSE 0)
  /\ answer = NoAnswer

(* Mutant of Recent: the first verdict answers for good. *)
RecentForGood == checked # -1

(* Whether the verdict still answers polls. *)
Recent == checked # -1 /\ now - checked < ProbeTTL

(* The handler waits on its probe. *)
Waiting(p) == poll[p].pc \in {"probe", "reply"}

(* Mutant of Expired: a client without a Timeout. *)
NeverExpired(p) == FALSE

(* The probe client gives up. *)
Expired(p) == now >= poll[p].start + ProbeTimeout

-----------------------------------------------------------------------------
(* A tick passes no probe's timeout and no handler that only has to record. *)
Tick ==
  /\ now < MaxTime
  /\ \A p \in Poll : /\ ~(Waiting(p) /\ Expired(p))
                     /\ poll[p].pc # "record"
  /\ now' = now + 1
  /\ lastUp' = (IF up THEN now + 1 ELSE lastUp)
  /\ lastDown' = (IF up THEN lastDown ELSE now + 1)
  /\ UNCHANGED <<up, ok, checked, poll, answer>>

Flip ==
  /\ up' = ~up
  /\ lastUp' = now /\ lastDown' = now
  /\ UNCHANGED <<now, ok, checked, poll, answer>>

(* The verdict is recent: it is the answer. *)
AnswerCached(p) ==
  /\ poll[p] = Idle
  /\ Recent
  /\ answer' = [ok |-> ok, at |-> now]
  /\ UNCHANGED <<now, up, ok, checked, poll, lastUp, lastDown>>

(* It is not, or there is none: the poll probes SearXNG itself. *)
SendProbe(p) ==
  /\ poll[p] = Idle
  /\ ~Recent
  /\ now + ProbeTimeout <= MaxTime
  /\ poll' = [poll EXCEPT ![p] = [pc |-> "probe", start |-> now]]
  /\ UNCHANGED <<now, up, ok, checked, lastUp, lastDown, answer>>

(* SearXNG handles the probe: well, or with 5xx, or by refusing it.  Its    *)
(* reply is under way.                                                      *)
Serve(p) ==
  /\ poll[p].pc = "probe"
  /\ poll' = [poll EXCEPT ![p] = [pc |-> "reply", start |-> @.start, ok |-> up]]
  /\ UNCHANGED <<now, up, ok, checked, lastUp, lastDown, answer>>

Outcome(good, heard) == [pc |-> "record", ok |-> good, heard |-> heard]

Receive(p) ==
  /\ poll[p].pc = "reply"
  /\ poll' = [poll EXCEPT ![p] = Outcome(@.ok, TRUE)]
  /\ UNCHANGED <<now, up, ok, checked, lastUp, lastDown, answer>>

(* No reply within the client's timeout. *)
TimeOut(p) ==
  /\ Waiting(p) /\ Expired(p)
  /\ poll' = [poll EXCEPT ![p] = Outcome(FALSE, TRUE)]
  /\ lastDown' = now
  /\ UNCHANGED <<now, up, ok, checked, lastUp, answer>>

(* The poller hangs up: the request's context, which the probe runs under,  *)
(* is cancelled.                                                            *)
HangUp(p) ==
  /\ HangsUp
  /\ Waiting(p)
  /\ poll' = [poll EXCEPT ![p] = Outcome(FALSE, FALSE)]
  /\ UNCHANGED <<now, up, ok, checked, lastUp, lastDown, answer>>

(* The verdict is replaced, and given to the poller if it is still there. *)
Record(p) ==
  /\ poll[p].pc = "record"
  /\ ok' = poll[p].ok
  /\ checked' = now
  /\ answer' = IF poll[p].heard THEN [ok |-> poll[p].ok, at |-> now] ELSE answer
  /\ poll' = [poll EXCEPT ![p] = Idle]
  /\ UNCHANGED <<now, up, lastUp, lastDown>>

Next ==
  \/ Tick \/ Flip
  \/ \E p \in Poll : \/ AnswerCached(p) \/ SendProbe(p)
                     \/ Serve(p) \/ Receive(p) \/ TimeOut(p) \/ HangUp(p) \/ Record(p)

(* Time passes and handlers run; SearXNG owes nobody an answer. *)
Fairness ==
  /\ WF_vars(Tick)
  /\ \A p \in Poll : WF_vars(TimeOut(p)) /\ WF_vars(Record(p))

Spec == Init /\ [][Next]_vars /\ Fairness

-----------------------------------------------------------------------------
(* Every variable has its type. *)
TypeOK ==
  /\ now \in 0..MaxTime /\ up \in BOOLEAN /\ ok \in BOOLEAN
  /\ checked \in -1..now
  /\ lastUp \in -1..now /\ lastDown \in -1..now
  /\ \A p \in Poll : poll[p].pc \in {"idle", "probe", "reply", "record"}

(* A poller told that SearXNG is reachable is not told old news: SearXNG    *)
(* was up within the last probeTTL and timeout, whichever of the polls that *)
(* probed side by side recorded last.                                       *)
ReachableIsRecent ==
  /\ TypeOK
  /\ answer.at = now /\ answer.ok => lastUp > now - ProbeTTL - ProbeTimeout

(* "It checks reachability of the upstream SearXNG instance", and 503 is    *)
(* for "SearXNG probe failed" (transport_http.go:461-465).  Refuted: the    *)
(* probe runs under the poll's own context, so a poller that hangs up       *)
(* records a failure that every other poller is told for probeTTL, while    *)
(* SearXNG was up throughout.                                               *)
UnreachableMeansDown ==
  answer.at = now /\ ~answer.ok => lastDown > now - ProbeTTL - ProbeTimeout
=============================================================================
