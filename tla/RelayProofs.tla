----------------------------- MODULE RelayProofs -----------------------------
(***************************************************************************)
(* The relay process and what runs in it beside the calls: its health       *)
(* probe, its sessions and its reloaded files.  Safety for every number of  *)
(* polls, requests, keys, sessions, files and readers, and every timeout.   *)
(***************************************************************************)
EXTENDS Relay, Sessions, FileReload, DataProofs

Probing  == [pc : {"probe"}, start : Nat]
Replied  == [pc : {"reply"}, start : Nat, ok : BOOLEAN]
Recorded == [pc : {"record"}, ok : BOOLEAN, heard : BOOLEAN]

(* A probe started at that time has not timed out at t. *)
Within(start, t) == start <= t /\ t <= start + ProbeTimeout

(* Where a poll is at time t, when SearXNG was last up in seenUp.  A good   *)
(* verdict on its way was true when the probe was served, and the probe is  *)
(* at most one timeout old.                                                 *)
PollOK(q, t, seenUp) ==
  \/ q = Idle
  \/ q \in Probing /\ Within(q.start, t)
  \/ q \in Replied /\ Within(q.start, t) /\ (q.ok => seenUp >= q.start)
  \/ q \in Recorded /\ (q.ok => seenUp >= t - ProbeTimeout)

Clocks ==
  /\ now \in 0..MaxTime /\ up \in BOOLEAN
  /\ lastUp \in -1..now /\ lastDown \in -1..now
  /\ up => lastUp = now

Polls ==
  DOMAIN poll = Poll /\ \A p \in Poll : PollOK(poll[p], now, lastUp)

(* The verdict held is one timeout older than its record, at most. *)
Verdict ==
  /\ ok \in BOOLEAN /\ checked \in -1..now
  /\ ok => checked # -1 /\ lastUp >= checked - ProbeTimeout

Answered ==
  /\ answer \in [ok : BOOLEAN, at : Int] /\ answer.at <= now
  /\ answer.at = now /\ answer.ok => lastUp > now - ProbeTTL - ProbeTimeout

HealthInv == Clocks /\ Polls /\ Verdict /\ Answered

(* The kinds of poll are told apart by where they are. *)
LEMMA PollKinds ==
  ASSUME NEW q, NEW t, NEW u, PollOK(q, t, u)
  PROVE  /\ q.pc \in {"idle", "probe", "reply", "record"}
         /\ q = Idle <=> q.pc = "idle"
         /\ q.pc = "probe" => q \in Probing /\ Within(q.start, t)
         /\ q.pc = "reply" => q \in Replied /\ Within(q.start, t) /\ (q.ok => u >= q.start)
         /\ q.pc = "record" => q \in Recorded /\ (q.ok => u >= t - ProbeTimeout)
BY DEF PollOK, Idle, Probing, Replied, Recorded

(* Time passes for every poll alike. *)
LEMMA HealthTick == HealthInv /\ Tick => HealthInv'
<1> SUFFICES ASSUME HealthInv, Tick PROVE HealthInv'
  OBVIOUS
<1>1. /\ now \in Nat /\ now' = now + 1 /\ now' \in 0..MaxTime
      /\ ProbeTimeout \in Nat /\ ProbeTTL \in Nat
  BY ProbeAssumption DEF HealthInv, Clocks, Tick
<1>2. Clocks' /\ lastUp \in Int /\ lastUp' \in Int /\ lastUp <= lastUp'
  BY <1>1 DEF HealthInv, Clocks, Tick
<1>3. Polls'
  <2> SUFFICES ASSUME NEW p \in Poll PROVE PollOK(poll[p], now', lastUp')
    BY DEF HealthInv, Polls, Tick
  <2>1. PollOK(poll[p], now, lastUp) /\ poll[p].pc # "record"
        /\ ~(Waiting(p) /\ Expired(p))
    BY DEF HealthInv, Polls, Tick
  <2>2. CASE poll[p].pc = "idle"
    BY <2>1, <2>2, PollKinds DEF PollOK
  <2>3. CASE poll[p].pc \in {"probe", "reply"}
    <3>1. /\ \/ poll[p] \in Probing
             \/ poll[p] \in Replied /\ (poll[p].ok => lastUp >= poll[p].start)
          /\ poll[p].start <= now
      BY <2>1, <2>3, PollKinds DEF Within
    <3>2. poll[p].start \in Nat
      BY <3>1 DEF Probing, Replied
    <3>3. now < poll[p].start + ProbeTimeout
      BY <1>1, <2>1, <2>3, <3>2 DEF Waiting, Expired
    <3>4. Within(poll[p].start, now')
      BY <1>1, <3>1, <3>2, <3>3 DEF Within
    <3> QED
      BY <1>2, <3>1, <3>2, <3>4 DEF PollOK
  <2> QED
    BY <2>1, <2>2, <2>3, PollKinds
<1>4. Verdict'
  BY <1>1, <1>2 DEF HealthInv, Verdict, Tick
<1>5. Answered'
  <2>1. answer \in [ok : BOOLEAN, at : Int] /\ answer.at <= now /\ answer' = answer
    BY DEF HealthInv, Answered, Tick
  <2>2. answer.at \in Int
    BY <2>1
  <2>3. answer.at <= now' /\ answer.at # now'
    BY <1>1, <2>1, <2>2
  <2> QED
    BY <2>1, <2>3 DEF Answered
<1> QED
  BY <1>2, <1>3, <1>4, <1>5 DEF HealthInv

(* SearXNG goes up or down: it was up now, one way or the other. *)
LEMMA HealthFlip == HealthInv /\ Flip => HealthInv'
<1> SUFFICES ASSUME HealthInv, Flip PROVE HealthInv'
  OBVIOUS
<1>1. /\ now \in Nat /\ now' = now /\ lastUp' = now /\ lastUp \in Int /\ lastUp <= now
      /\ ProbeTimeout \in Nat \ {0} /\ ProbeTTL \in Nat \ {0}
  BY ProbeAssumption DEF HealthInv, Clocks, Flip
<1>2. Clocks'
  BY <1>1 DEF HealthInv, Clocks, Flip
<1>3. Polls'
  <2> SUFFICES ASSUME NEW p \in Poll PROVE PollOK(poll[p], now, now)
    BY <1>1 DEF HealthInv, Polls, Flip
  <2>1. PollOK(poll[p], now, lastUp)
    BY DEF HealthInv, Polls
  <2> QED
    BY <1>1, <2>1 DEF PollOK, Within, Replied
<1>4. Verdict' /\ Answered'
  BY <1>1 DEF HealthInv, Verdict, Answered, Flip
<1> QED
  BY <1>2, <1>3, <1>4 DEF HealthInv

(* One poll moves to where it may be, and nothing else does. *)
LEMMA PollMoves ==
  ASSUME HealthInv, NEW p \in Poll, NEW q, PollOK(q, now, lastUp),
         poll' = [poll EXCEPT ![p] = q], UNCHANGED <<now, up, lastUp, lastDown>>
  PROVE  Clocks' /\ Polls'
BY DEF HealthInv, Clocks, Polls

(* The steps of one poll. *)
HealthAction(p) ==
  \/ AnswerCached(p) \/ SendProbe(p)
  \/ Serve(p) \/ Receive(p) \/ TimeOut(p) \/ HangUp(p) \/ Record(p)

(* Whatever step a poll takes keeps the invariant. *)
LEMMA HealthPoll ==
  ASSUME HealthInv, NEW p \in Poll, HealthAction(p)
  PROVE  HealthInv'
<1> DEFINE q == poll[p]
<1>1. /\ now \in Nat /\ lastUp \in Int /\ lastUp <= now /\ checked \in Int
      /\ ProbeTimeout \in Nat \ {0} /\ ProbeTTL \in Nat \ {0}
  BY ProbeAssumption DEF HealthInv, Clocks, Verdict
<1>2. PollOK(q, now, lastUp) /\ DOMAIN poll = Poll
  BY DEF HealthInv, Polls
<1>3. CASE AnswerCached(p)
  <2>1. ok => lastUp > now - ProbeTTL - ProbeTimeout
    BY <1>1, <1>3 DEF AnswerCached, Recent, HealthInv, Verdict
  <2>2. Answered'
    BY <1>1, <1>3, <2>1 DEF AnswerCached, Answered, HealthInv, Verdict
  <2> QED
    BY <1>3, <2>2 DEF AnswerCached, HealthInv, Clocks, Polls, Verdict
<1>4. ASSUME NEW r, PollOK(r, now, lastUp), poll' = [poll EXCEPT ![p] = r],
             UNCHANGED <<now, up, ok, checked, lastUp, lastDown, answer>>
      PROVE  HealthInv'
  BY <1>4, PollMoves DEF HealthInv, Verdict, Answered
<1>5. CASE SendProbe(p)
  <2> DEFINE r == [pc |-> "probe", start |-> now]
  <2>1. r \in Probing /\ Within(r.start, now)
    BY <1>1 DEF Probing, Within
  <2>2. PollOK(r, now, lastUp)
    BY <2>1 DEF PollOK
  <2>3. poll' = [poll EXCEPT ![p] = r] /\ UNCHANGED <<now, up, ok, checked, lastUp, lastDown, answer>>
    BY <1>5 DEF SendProbe
  <2> HIDE DEF r
  <2> QED
    BY <1>4, <2>2, <2>3
<1>6. CASE Serve(p)
  <2> DEFINE r == [pc |-> "reply", start |-> q.start, ok |-> up]
  <2>1. q \in Probing /\ Within(q.start, now)
    BY <1>2, <1>6, PollKinds DEF Serve
  <2>2. /\ r \in Replied /\ Within(r.start, now)
        /\ r.ok => lastUp >= r.start
    BY <1>1, <2>1 DEF Probing, Replied, Within, HealthInv, Clocks
  <2>3. PollOK(r, now, lastUp)
    BY <2>2 DEF PollOK
  <2>4. poll' = [poll EXCEPT ![p] = r] /\ UNCHANGED <<now, up, ok, checked, lastUp, lastDown, answer>>
    BY <1>2, <1>6 DEF Serve
  <2> HIDE DEF r
  <2> QED
    BY <1>4, <2>3, <2>4
<1>7. \A good, heard \in BOOLEAN :
        (good => lastUp >= now - ProbeTimeout) => PollOK(Outcome(good, heard), now, lastUp)
  BY DEF PollOK, Outcome, Recorded
<1>8. CASE Receive(p)
  <2>1. q \in Replied /\ Within(q.start, now) /\ (q.ok => lastUp >= q.start)
    BY <1>2, <1>8, PollKinds DEF Receive
  <2>2. q.ok \in BOOLEAN /\ q.start \in Nat
    BY <2>1 DEF Replied
  <2>3. q.ok => lastUp >= now - ProbeTimeout
    BY <1>1, <2>1, <2>2 DEF Within
  <2>4. poll' = [poll EXCEPT ![p] = Outcome(q.ok, TRUE)]
        /\ UNCHANGED <<now, up, ok, checked, lastUp, lastDown, answer>>
    BY <1>2, <1>8 DEF Receive
  <2> QED
    BY <1>4, <1>7, <2>2, <2>3, <2>4
<1>9. CASE TimeOut(p)
  <2>1. /\ poll' = [poll EXCEPT ![p] = Outcome(FALSE, TRUE)]
        /\ PollOK(Outcome(FALSE, TRUE), now, lastUp)
        /\ lastDown' = now /\ UNCHANGED <<now, up, ok, checked, lastUp, answer>>
    BY <1>7, <1>9 DEF TimeOut
  <2>2. Polls'
    BY <2>1 DEF HealthInv, Polls
  <2> QED
    BY <1>1, <2>1, <2>2 DEF HealthInv, Clocks, Verdict, Answered
<1>10. CASE HangUp(p)
  BY <1>4, <1>7, <1>10 DEF HangUp
<1>11. CASE Record(p)
  <2>1. q \in Recorded /\ (q.ok => lastUp >= now - ProbeTimeout)
    BY <1>2, <1>11, PollKinds DEF Record
  <2>2. q.ok \in BOOLEAN /\ q.heard \in BOOLEAN
    BY <2>1 DEF Recorded
  <2>3. Clocks' /\ Polls'
    <3>1. PollOK(Idle, now, lastUp)
      BY DEF PollOK
    <3> QED
      BY <1>11, <3>1, PollMoves DEF Record
  <2>4. Verdict'
    BY <1>1, <1>11, <2>1, <2>2 DEF Record, Verdict, HealthInv
  <2>5. Answered'
    BY <1>1, <1>11, <2>1, <2>2 DEF Record, Answered, HealthInv
  <2> QED
    BY <2>3, <2>4, <2>5 DEF HealthInv
<1> QED
  BY <1>3, <1>5, <1>6, <1>8, <1>9, <1>10, <1>11 DEF HealthAction

(* The probe's own first states satisfy its invariant. *)
LEMMA HealthInit == Init => HealthInv
<1> SUFFICES ASSUME Init PROVE HealthInv
  OBVIOUS
<1>1. Polls
  BY DEF Init, Polls, PollOK
<1> QED
  <2>1. Clocks /\ Verdict
    <3>1. now \in 0..MaxTime /\ checked \in -1..now /\ {0, -1} \subseteq -1..now /\ now = 0
      BY ProbeAssumption DEF Init
    <3>2. ~ok /\ ok \in BOOLEAN /\ up \in BOOLEAN
      BY DEF Init
    <3>3. lastUp \in {0, -1} /\ lastDown \in {0, -1} /\ (up => lastUp = 0)
      BY DEF Init
    <3> QED
      BY <3>1, <3>2, <3>3 DEF Clocks, Verdict
  <2>2. answer.at = -1 /\ answer.ok = FALSE /\ answer \in [ok : BOOLEAN, at : Int] /\ now = 0
    BY DEF Init, NoAnswer
  <2>3. Answered
    BY <2>2 DEF Answered
  <2> QED
    BY <1>1, <2>1, <2>3 DEF HealthInv

(* Every step of the probe keeps its invariant. *)
LEMMA HealthNext == HealthInv /\ [Next]_vars => HealthInv'
<1> SUFFICES ASSUME HealthInv, [Next]_vars PROVE HealthInv'
  OBVIOUS
<1>1. CASE Tick
  BY <1>1, HealthTick
<1>2. CASE Flip
  BY <1>2, HealthFlip
<1>3. CASE \E p \in Poll : HealthAction(p)
  BY <1>3, HealthPoll
<1>4. CASE UNCHANGED vars
  BY <1>4 DEF vars, HealthInv, Clocks, Polls, Verdict, Answered
<1> QED
  BY <1>1, <1>2, <1>3, <1>4 DEF Next, HealthAction

-----------------------------------------------------------------------------
(* The polls that are left when the process drains are over in time.        *)
Draining(q, t, began) ==
  /\ q.pc \in {"probe", "reply"} => q.start <= began
  /\ q.pc = "record" => t <= began + ProbeTimeout

Variables == Key \cup {Unset, Malformed}

Operator ==
  /\ env \in [inline : Variables, file : Variables, preamble : Preambles, tokens : BOOLEAN]
  /\ follows \in {"settings", "clock"} /\ settings \in 0..MaxSettings
  /\ pinned \in Key \cup {Unset}
  /\ pinned # Unset => env.inline \in {pinned, Malformed} \/ env.file \in {pinned, Malformed}

Process ==
  /\ phase \in {"down", "starting", "running", "signalled", "draining"}
  /\ listening \in BOOLEAN /\ open \subseteq Request /\ since \in 0..now
  /\ listening => phase \in {"running", "signalled"}
  /\ ~listening /\ phase # "draining" => open = {} /\ \A p \in Poll : poll[p] = Idle
  /\ phase = "draining" => \A p \in Poll : Draining(poll[p], now, since)
  /\ process.pinned # Unset => process.key = process.pinned
  /\ process.mode \in {"fenced", "prose"}

(* The inductive invariant. *)
Inv == HealthInv /\ Operator /\ Process

-----------------------------------------------------------------------------
(* A process that ends leaves nothing behind but what the operator set. *)
LEMMA InvEnd ==
  ASSUME Inv, NEW how, End(how)
  PROVE  Inv'
<1>1. Clocks' /\ Polls' /\ Answered'
  BY DEF End, Inv, HealthInv, Clocks, Polls, Answered, PollOK
<1>2. Verdict'
  <2>1. now' \in Nat /\ -1 \in -1..now'
    BY <1>1, ProbeAssumption DEF Clocks
  <2>2. ~ok' /\ ok' \in BOOLEAN /\ checked' = -1
    BY DEF End
  <2> QED
    BY <2>1, <2>2 DEF Verdict
<1>3. Operator'
  BY DEF End, Inv, Operator, operatorVars
<1>4. Process'
  <2>1. now' \in Nat /\ 0 \in 0..now'
    BY <1>1, ProbeAssumption DEF Clocks
  <2>2. ~listening' /\ listening' \in BOOLEAN
    BY DEF End
  <2>3. /\ phase' = "down" /\ open' = {} /\ since' = 0 /\ process'.pinned = Unset
        /\ process'.mode = "fenced"
        /\ \A p \in Poll : poll'[p] = Idle
    BY DEF End, NoProcess
  <2> QED
    BY <2>1, <2>2, <2>3 DEF Process
<1> QED
  BY <1>1, <1>2, <1>3, <1>4 DEF Inv, HealthInv

(* The probe is as it was. *)
LEMMA SameHealth == HealthInv /\ UNCHANGED vars => HealthInv'
BY DEF vars, HealthInv, Clocks, Polls, Verdict, Answered

(* The operator pins the key that one of the two variables is set to. *)
LEMMA InvSetKey ==
  ASSUME Inv, NEW k \in Key, SetKey(k)
  PROVE  Inv'
<1>1. PICK v \in {k, Malformed}, other \in {"kept", "cleared"}, var \in {"inline", "file"} :
        env' = [inline   |-> IF var = "inline" THEN v
                             ELSE IF other = "kept" THEN env.inline ELSE Unset,
                file     |-> IF var = "file" THEN v
                             ELSE IF other = "kept" THEN env.file ELSE Unset,
                preamble |-> env.preamble, tokens |-> env.tokens]
  BY DEF SetKey
<1>2. settings' \in 0..MaxSettings /\ pinned' = k /\ follows' = follows
  BY RelayAssumption DEF SetKey, Inv, Operator
<1>3. /\ env.inline \in Variables /\ env.file \in Variables
      /\ env.preamble \in Preambles /\ env.tokens \in BOOLEAN
  BY DEF Inv, Operator
<1>4. env' \in [inline : Variables, file : Variables, preamble : Preambles, tokens : BOOLEAN]
  BY <1>1, <1>3 DEF Variables
<1>5. env'.inline \in {k, Malformed} \/ env'.file \in {k, Malformed}
  BY <1>1
<1>6. Operator'
  BY <1>2, <1>4, <1>5 DEF Operator, Inv
<1>7. UNCHANGED vars /\ UNCHANGED processVars
  BY DEF SetKey
<1> QED
  BY <1>6, <1>7, SameHealth DEF Inv, Process, vars, processVars

(* A start that is not refused signs with the pinned key: the variable it   *)
(* was set in is the only one that is set, and its value was read whole.    *)
LEMMA StartSigns ==
  ASSUME Inv, Sound(env), pinned # Unset
  PROVE  ResolveFenceKeypair(LoadFenceSigningKey(env).key) = {pinned}
<1>1. /\ pinned \in Key
      /\ env.inline \in {pinned, Malformed} \/ env.file \in {pinned, Malformed}
  BY DEF Inv, Operator
<1>2. pinned # Malformed /\ Unset # Malformed
  BY <1>1, RelayAssumption
<1>3. LET v == IF env.inline # Unset THEN env.inline ELSE env.file
      IN  /\ Unset \in {env.inline, env.file} /\ v # Malformed
          /\ LoadFenceSigningKey(env).key = v
  BY DEF Sound, LoadFenceSigningKey, ParseFenceSigningKey
<1>4. LoadFenceSigningKey(env).key = pinned
  BY <1>1, <1>2, <1>3
<1> QED
  BY <1>4 DEF ResolveFenceKeypair

(* A start, and the steps of main() that only move its phase. *)
LEMMA InvStart == Inv /\ Start => Inv'
<1> SUFFICES ASSUME Inv, Start PROVE Inv'
  OBVIOUS
<1>1. UNCHANGED vars /\ UNCHANGED operatorVars /\ UNCHANGED <<listening, open, since>>
  BY DEF Start
<1>2. HealthInv' /\ Operator'
  BY <1>1, SameHealth DEF Inv, Operator, operatorVars
<1>3. CASE Sound(env)
  <2>1. PICK k \in ResolveFenceKeypair(LoadFenceSigningKey(env).key) :
          process' = [key |-> k, mode |-> ParseFencePreambleMode(env.preamble).mode,
                      pinned |-> pinned]
    BY <1>3 DEF Start
  <2>2. process'.pinned # Unset => process'.key = process'.pinned
    BY <1>3, <2>1, StartSigns
  <2>3. phase = "down" /\ phase' = "starting"
    BY <1>3 DEF Start
  <2>4. process'.mode \in {"fenced", "prose"}
    BY <2>1 DEF ParseFencePreambleMode
  <2> QED
    BY <1>1, <1>2, <2>2, <2>3, <2>4 DEF Inv, Process, vars
<1>4. CASE ~Sound(env)
  BY <1>1, <1>2, <1>4 DEF Start, Inv, Process, vars
<1> QED
  BY <1>3, <1>4

(* main() asks for signals, and its server listens. *)
LEMMA InvPhase == Inv /\ (Ready \/ Listen) => Inv'
<1> SUFFICES ASSUME Inv, Ready \/ Listen PROVE Inv'
  OBVIOUS
<1>1. UNCHANGED vars /\ UNCHANGED operatorVars /\ UNCHANGED <<process, open, since>>
  BY DEF Ready, Listen
<1>2. HealthInv' /\ Operator'
  BY <1>1, SameHealth DEF Inv, Operator, operatorVars
<1>3. Process'
  BY <1>1 DEF Ready, Listen, MayListen, Inv, Process, vars
<1> QED
  BY <1>2, <1>3 DEF Inv

(* A signal is taken note of, or ends the process. *)
LEMMA InvSignal == Inv /\ Signal => Inv'
<1> SUFFICES ASSUME Inv, Signal PROVE Inv'
  OBVIOUS
<1>1. CASE phase = "running"
  <2>1. /\ UNCHANGED vars /\ UNCHANGED operatorVars
        /\ UNCHANGED <<process, listening, open, since>> /\ phase' = "signalled"
    BY <1>1 DEF Signal
  <2>2. HealthInv' /\ Operator'
    BY <2>1, SameHealth DEF Inv, Operator, operatorVars
  <2>3. Process'
    BY <1>1, <2>1 DEF Inv, Process, vars
  <2> QED
    BY <2>2, <2>3 DEF Inv
<1>2. CASE phase # "running"
  BY <1>2, InvEnd DEF Signal
<1> QED
  BY <1>1, <1>2

(* The drain begins: every poll in flight probed before now. *)
LEMMA InvDrain == Inv /\ Drain => Inv'
<1> SUFFICES ASSUME Inv, Drain PROVE Inv'
  OBVIOUS
<1>1. /\ UNCHANGED vars /\ UNCHANGED operatorVars /\ UNCHANGED <<process, open>>
      /\ phase' = "draining" /\ since' = now
      /\ ~listening' /\ listening' \in BOOLEAN
  BY DEF Drain
<1>2. HealthInv' /\ Operator'
  BY <1>1, SameHealth DEF Inv, Operator, operatorVars
<1>3. now \in Nat /\ now' = now /\ poll' = poll
  BY <1>1, ProbeAssumption DEF Inv, HealthInv, Clocks, vars
<1>4. ASSUME NEW p \in Poll PROVE Draining(poll[p], now, now)
  <2>1. PollOK(poll[p], now, lastUp)
    BY DEF Inv, HealthInv, Polls
  <2>2. poll[p].pc \in {"probe", "reply"} => poll[p].start <= now
    BY <2>1, PollKinds DEF Within
  <2> QED
    BY <1>3, <2>2, ProbeAssumption DEF Draining
<1>5. Process'
  BY <1>1, <1>3, <1>4 DEF Inv, Process
<1> QED
  BY <1>2, <1>5 DEF Inv

-----------------------------------------------------------------------------
(* Time passes over a process in any phase. *)
LEMMA InvTick == Inv /\ RelayTick => Inv'
<1> SUFFICES ASSUME Inv, RelayTick PROVE Inv'
  OBVIOUS
<1>1. HealthInv' /\ Operator'
  BY HealthTick DEF RelayTick, Inv, Operator, relayVars, operatorVars
<1>2. /\ UNCHANGED <<processVars, poll>> /\ now' = now + 1 /\ now \in Nat
      /\ \A p \in Poll : poll[p].pc # "record"
  BY ProbeAssumption DEF RelayTick, Tick, relayVars, Inv, HealthInv, Clocks
<1>3. since' \in 0..now'
  BY <1>2 DEF Inv, Process, processVars
<1>4. Process'
  BY <1>2, <1>3 DEF Inv, Process, Draining, processVars
<1> QED
  BY <1>1, <1>4 DEF Inv

(* SearXNG goes up or down under a relay in any phase. *)
LEMMA InvFlip == Inv /\ Flip /\ UNCHANGED relayVars => Inv'
<1> SUFFICES ASSUME Inv, Flip, UNCHANGED relayVars PROVE Inv'
  OBVIOUS
<1>1. HealthInv' /\ Operator'
  BY HealthFlip DEF Inv, Operator, relayVars, operatorVars
<1>2. Process'
  BY DEF Flip, Inv, Process, relayVars, processVars
<1> QED
  BY <1>1, <1>2 DEF Inv

(* A request or a stream is opened or closed. *)
LEMMA InvRequest ==
  ASSUME Inv, NEW r \in Request, OpenRequest(r) \/ CloseRequest(r)
  PROVE  Inv'
<1>1. /\ UNCHANGED vars /\ UNCHANGED operatorVars
      /\ UNCHANGED <<phase, process, listening, since>>
      /\ open' \subseteq open \cup {r} /\ (open' \subseteq open \/ listening)
  BY DEF OpenRequest, CloseRequest
<1>2. HealthInv' /\ Operator'
  BY <1>1, SameHealth DEF Inv, Operator, operatorVars
<1>3. Process'
  BY <1>1 DEF Inv, Process, vars
<1> QED
  BY <1>2, <1>3 DEF Inv

(* A poll that is left when the process drains ends within its timeout. *)
LEMMA InvHealthStep ==
  ASSUME Inv, NEW p \in Poll, HealthStep(p)
  PROVE  Inv'
<1> DEFINE q == poll[p]
<1>1. HealthInv' /\ Operator'
  BY HealthPoll DEF HealthStep, HealthAction, Inv, Operator, relayVars, operatorVars
<1>2. /\ UNCHANGED processVars /\ now' = now /\ now \in Nat
      /\ DOMAIN poll = Poll /\ PollOK(q, now, lastUp)
  <2>1. now' = now
    BY DEF HealthStep, AnswerCached, SendProbe, Serve, Receive, TimeOut, HangUp, Record
  <2> QED
    BY <2>1, ProbeAssumption DEF HealthStep, relayVars, Inv, HealthInv, Clocks, Polls
<1>3. listening \/ q # Idle
  <2>1. \/ listening
        \/ poll[p].pc \in {"probe", "reply", "record"}
    BY DEF HealthStep, Serve, Receive, TimeOut, HangUp, Record, Waiting
  <2> QED
    BY <2>1 DEF Idle
<1>4. \A o \in Poll \ {p} : poll'[o] = poll[o]
  BY <1>2 DEF HealthStep, AnswerCached, SendProbe, Serve, Receive, TimeOut, HangUp, Record
<1>5. ASSUME phase = "draining" PROVE Draining(poll'[p], now, since)
  <2>1. ~listening /\ Draining(q, now, since) /\ since \in Nat
    BY <1>2, <1>5 DEF Inv, Process
  <2>2. CASE Serve(p)
    BY <1>2, <2>1, <2>2 DEF Serve, Draining
  <2>3. CASE Receive(p) \/ TimeOut(p) \/ HangUp(p)
    <3>1. q.pc \in {"probe", "reply"} /\ poll'[p].pc = "record"
      BY <1>2, <2>3 DEF Receive, TimeOut, HangUp, Waiting, Outcome
    <3>2. q.start \in Nat /\ q.start <= since /\ now <= q.start + ProbeTimeout
      BY <1>2, <2>1, <3>1, PollKinds DEF Draining, Within, Probing, Replied
    <3>3. now <= since + ProbeTimeout
      BY <1>2, <2>1, <3>2, ProbeAssumption
    <3> QED
      BY <3>1, <3>3 DEF Draining
  <2>4. CASE Record(p)
    BY <1>2, <2>4 DEF Record, Idle, Draining
  <2> QED
    BY <2>1, <2>2, <2>3, <2>4 DEF HealthStep
<1>6. Process'
  <2>1. ~listening /\ phase # "draining" => FALSE
    BY <1>3 DEF Inv, Process
  <2>2. phase = "draining" => \A o \in Poll : Draining(poll'[o], now, since)
    BY <1>4, <1>5 DEF Inv, Process
  <2> QED
    BY <1>2, <2>1, <2>2 DEF Inv, Process, processVars
<1> QED
  BY <1>1, <1>6 DEF Inv

-----------------------------------------------------------------------------
(* The first states satisfy the invariant. *)
LEMMA InvInit == RelayInit => Inv
<1> SUFFICES ASSUME RelayInit PROVE Inv
  OBVIOUS
<1>1. HealthInv /\ now \in Nat /\ \A p \in Poll : poll[p] = Idle
  BY HealthInit, ProbeAssumption DEF RelayInit, Init
<1>2. /\ env.inline = Unset /\ env.file = Unset
      /\ env \in [inline : Variables, file : Variables, preamble : Preambles, tokens : BOOLEAN]
  BY DEF RelayInit, Variables
<1>3. settings \in 0..MaxSettings /\ pinned = Unset /\ follows \in {"settings", "clock"}
  <2>1. settings = 0 /\ pinned = Unset /\ follows \in {"settings", "clock"}
    BY DEF RelayInit
  <2> QED
    BY <2>1, RelayAssumption
<1>4. Operator
  BY <1>2, <1>3 DEF Operator
<1>5. ~listening /\ listening \in BOOLEAN
  BY DEF RelayInit
<1>6. /\ process.pinned = Unset /\ process.mode = "fenced"
      /\ phase = "down" /\ open = {} /\ since = 0
  BY DEF RelayInit, NoProcess
<1>7. Process
  BY <1>1, <1>5, <1>6 DEF Process
<1> QED
  BY <1>1, <1>4, <1>7 DEF Inv

(* Every step of the relay keeps the invariant. *)
LEMMA InvNext == Inv /\ [RelayNext]_allVars => Inv'
<1> SUFFICES ASSUME Inv, [RelayNext]_allVars PROVE Inv'
  OBVIOUS
<1>1. CASE RelayTick \/ (follows = "clock" /\ Flip /\ UNCHANGED relayVars)
  BY <1>1, InvTick, InvFlip
<1>2. CASE \E k \in Key : SetKey(k)
  BY <1>2, InvSetKey
<1>3. CASE Start \/ Ready \/ Listen \/ Signal \/ Drain
  BY <1>3, InvStart, InvPhase, InvSignal, InvDrain
<1>4. CASE ListenFails \/ ExitClean \/ GiveUp \/ Kill
  BY <1>4, InvEnd DEF ListenFails, ExitClean, GiveUp, Kill
<1>5. CASE \E r \in Request : OpenRequest(r) \/ CloseRequest(r)
  BY <1>5, InvRequest
<1>6. CASE \E p \in Poll : HealthStep(p)
  BY <1>6, InvHealthStep
<1>7. CASE UNCHANGED allVars
  BY <1>7, SameHealth DEF allVars, relayVars, operatorVars, processVars, vars, Inv, Operator, Process
<1> QED
  BY <1>1, <1>2, <1>3, <1>4, <1>5, <1>6, <1>7 DEF RelayNext

(* The invariant holds in every reachable state. *)
THEOREM RelayInvariant == RelaySpec => []Inv
BY InvInit, InvNext, PTL DEF RelaySpec

(* So does the probe's own, when the relay around it is left out. *)
THEOREM ProbeInvariant == Spec => []HealthInv
BY HealthInit, HealthNext, PTL DEF Spec

-----------------------------------------------------------------------------
(* The probe's invariant is enough for its property. *)
LEMMA HealthRecent == HealthInv => ReachableIsRecent
<1> SUFFICES ASSUME HealthInv PROVE ReachableIsRecent
  OBVIOUS
<1>1. \A p \in Poll : poll[p].pc \in {"idle", "probe", "reply", "record"}
  BY PollKinds DEF HealthInv, Polls
<1> QED
  BY <1>1 DEF HealthInv, Clocks, Verdict, Answered, ReachableIsRecent, TypeOK

(* handleHealth never tells a poller "reachable" on older news than a       *)
(* probeTTL and a probe timeout, whichever of the polls that probed side by *)
(* side replaces the verdict last, and across restarts of the relay.        *)
THEOREM RelayReachableIsRecent == RelaySpec => []ReachableIsRecent
<1>1. Inv => ReachableIsRecent
  BY HealthRecent DEF Inv
<1> QED
  BY <1>1, RelayInvariant, PTL

(* The same of the probe alone. *)
THEOREM ProbeReachableIsRecent == Spec => []ReachableIsRecent
BY HealthRecent, ProbeInvariant, PTL

(* main() never ends a process with requests in flight before the drain     *)
(* timeout, but for SIGKILL or a second signal.                             *)
THEOREM RelayDrainKept == RelaySpec => DrainKept
<1>1. Inv /\ [RelayNext]_allVars =>
        [Ends /\ Busy => \/ ended' = "killed"
                         \/ (phase = "draining" /\ (ended' = "interrupted" \/ DrainOver))]_allVars
  <2> SUFFICES ASSUME Inv, RelayNext, Ends, Busy
               PROVE  \/ ended' = "killed"
                      \/ (phase = "draining" /\ (ended' = "interrupted" \/ DrainOver))
    OBVIOUS
  <2>1. listening \/ phase = "draining"
    BY DEF Inv, Process, Busy, Polling
  <2>2. listening => phase \in {"running", "signalled"}
    BY DEF Inv, Process
  <2>3. CASE Signal
    BY <2>1, <2>2, <2>3 DEF Signal, End, Ends
  <2>4. CASE ListenFails
    BY <2>1, <2>2, <2>4 DEF ListenFails, MayListen
  <2>5. CASE ExitClean \/ GiveUp \/ Kill
    BY <2>5 DEF ExitClean, GiveUp, Kill, End
  <2>6. CASE ~(Signal \/ ListenFails \/ ExitClean \/ GiveUp \/ Kill)
    <3>1. phase' # "down"
      BY <2>6 DEF RelayNext, RelayTick, SetKey, Start, Ready, Listen, Drain, OpenRequest,
         CloseRequest, HealthStep, relayVars, processVars, Ends
    <3> QED
      BY <3>1 DEF Ends
  <2> QED
    BY <2>3, <2>4, <2>5, <2>6
<1> QED
  BY <1>1, RelayInvariant, PTL DEF RelaySpec, DrainKept

(* A drain that fails had a request or a stream open to its end: polls of   *)
(* /health alone never use up the drain timeout.                            *)
THEOREM RelayPollsDrain == RelaySpec => PollsDrain
<1>1. Inv /\ [RelayNext]_allVars => [Ends /\ ended' = "failed" => open # {}]_allVars
  <2> SUFFICES ASSUME Inv, RelayNext, Ends, ended' = "failed", open = {}
               PROVE  FALSE
    OBVIOUS
  <2>1. GiveUp
    BY DEF RelayNext, RelayTick, SetKey, Start, Ready, Listen, ListenFails, Signal, Drain,
       ExitClean, Kill, End, OpenRequest, CloseRequest, HealthStep, relayVars, processVars, Ends
  <2>2. phase = "draining" /\ Polling # {} /\ now >= since + DrainTimeout
    BY <2>1 DEF GiveUp, Busy, DrainOver
  <2>3. PICK p \in Poll : poll[p] # Idle
    BY <2>2 DEF Polling
  <2>4. PollOK(poll[p], now, lastUp) /\ Draining(poll[p], now, since)
    BY <2>2 DEF Inv, HealthInv, Polls, Process
  <2>5. now \in Nat /\ since \in Nat /\ ProbeTimeout \in Nat /\ DrainTimeout \in Nat
        /\ ProbeTimeout < DrainTimeout
    BY ProbeAssumption, RelayAssumption DEF Inv, HealthInv, Clocks, Process
  <2>6. CASE poll[p].pc \in {"probe", "reply"}
    <3>1. poll[p].start \in Nat /\ poll[p].start <= since /\ now <= poll[p].start + ProbeTimeout
      BY <2>4, <2>6, PollKinds DEF Draining, Within, Probing, Replied
    <3> QED
      BY <2>2, <2>5, <3>1
  <2>7. CASE poll[p].pc = "record"
    BY <2>2, <2>4, <2>5, <2>7 DEF Draining
  <2> QED
    BY <2>3, <2>4, <2>6, <2>7, PollKinds
<1> QED
  BY <1>1, RelayInvariant, PTL DEF RelaySpec, PollsDrain

(* What a process sends can be verified with its key, in the format that it *)
(* announces: the text is of three tokens, one of them "<".                 *)
LEMMA ResponseAccepted ==
  ASSUME NEW p, p.mode \in {"fenced", "prose"}
  PROVE  /\ Accepts(Response(p), {p.key})
         /\ \A i \in DOMAIN Response(p).fences :
              Response(p).fences[i].meta.version = FenceVersion(p.mode)
<1> DEFINE relay == [key |-> p.key, mode |-> p.mode, now |-> 0,
                     nonce |-> "n1", preambleNonce |-> "n2"]
           removed == [hiddenElements |-> 0, invisibleChars |-> 0]
           content == <<"a", "<", "b">>
<1>1. /\ relay.nonce # "nonce=" /\ relay.mode \in {"fenced", "prose"}
      /\ relay.key = p.key /\ relay.mode = p.mode
      /\ removed.hiddenElements \in Nat /\ removed.invisibleChars \in Nat
  OBVIOUS
<1>2. content \in Seq({"a", "<", "b"})
  OBVIOUS
<1>3. Response(p) = WrapFence(relay, "content", "url", content, "none", removed)
  BY DEF Response
<1> HIDE DEF relay, removed, content
<1>4. ReadBack(relay.key, content,
               CanonicalAttributes(relay, "content", "untrusted", "url", relay.nonce, "none"))
  BY <1>2, AlwaysReadBack
<1>5. LET sent == WrapFence(relay, "content", "url", content, "none", removed)
      IN  /\ Accepts(sent, {relay.key})
          /\ \A i \in DOMAIN sent.fences : sent.fences[i].meta.version = FenceVersion(relay.mode)
  BY <1>1, <1>4, WrapAccepted
<1> QED
  BY <1>1, <1>3, <1>5

(* main() signs with the key pinned when it started, never with the other   *)
(* variable's or one it generated, and announces the key and the format it  *)
(* uses: a gateway that pins the key, or goes by /fence/public-key, accepts *)
(* what the process sends.                                                  *)
THEOREM RelayAccepted == RelaySpec => []AcceptedAsPinned
<1>1. Inv => AcceptedAsPinned
  <2> SUFFICES ASSUME Inv PROVE AcceptedAsPinned
    OBVIOUS
  <2>1. TypeOK
    BY HealthRecent DEF Inv, ReachableIsRecent
  <2>2. RelayTypeOK
    BY <2>1 DEF Inv, Operator, Process, RelayTypeOK, Variables
  <2>3. process.mode \in {"fenced", "prose"}
    BY DEF Inv, Process
  <2>4. process.pinned # Unset => process.pinned = process.key
    BY DEF Inv, Process
  <2>5. /\ Accepts(Response(process), {process.key})
        /\ \A i \in DOMAIN Response(process).fences :
             Response(process).fences[i].meta.version = FenceVersion(process.mode)
    BY <2>3, ResponseAccepted
  <2> QED
    BY <2>2, <2>4, <2>5 DEF AcceptedAsPinned, HandleFencePublicKey
<1> QED
  BY <1>1, RelayInvariant, PTL

-----------------------------------------------------------------------------
(* The sessions of stateful mode, for any number of them, any cap and any   *)
(* age; they share no state with the above.                                 *)

(* Every variable has its type. *)
SessionTypes ==
  /\ sess \in [Session -> {"new", "admitted", "open", "closed"}]
  /\ note \in [Session -> {"none", "pending", "handled"}]
  /\ lived \in [Session -> 0..MaxAge + 1]
  /\ DOMAIN tracked \subseteq Session /\ tracked \in [DOMAIN tracked -> 0..MaxAge + 1]

Passes ==
  [pc : {"rest", "sweep", "close"}, live : SUBSET Session, toClose : SUBSET Session]

(* What a pass is about to close has left the table, and cannot return to   *)
(* it: its client was heard, as was everyone's in the table, and is heard   *)
(* once.                                                                    *)
Heard ==
  /\ janitor \in Passes /\ janitor.toClose \cap DOMAIN tracked = {}
  /\ \A s \in DOMAIN tracked \cup janitor.toClose : note[s] = "handled"
  /\ \A s \in Session : sess[s] \in {"new", "admitted"} => note[s] = "none"

(* The table never takes a session for older than it is, and what a pass is *)
(* about to close is too old.                                               *)
Aged ==
  \A s \in Session : sess[s] = "open" =>
    /\ s \in DOMAIN tracked => tracked[s] <= lived[s]
    /\ s \in janitor.toClose => lived[s] > MaxAge

Present == Open \cup Admitted

Capped == IsFiniteSet(Present) /\ Cardinality(Present) < MaxSessions + InFlight

(* The inductive invariant. *)
SessionInv == SessionTypes /\ Heard /\ Aged /\ Capped

-----------------------------------------------------------------------------
(* No more sessions, none past the cap. *)
LEMMA NoMore ==
  ASSUME Capped, Present' \subseteq Present
  PROVE  Capped'
<1>1. IsFiniteSet(Present') /\ Cardinality(Present') <= Cardinality(Present)
  BY FS_Subset DEF Capped
<1>2. Cardinality(Present') \in Nat /\ Cardinality(Present) \in Nat
  BY <1>1, FS_CardinalityType DEF Capped
<1>3. MaxSessions + InFlight \in Nat
  BY SessionsAssumption
<1> QED
  BY <1>1, <1>2, <1>3 DEF Capped

(* limitSessions lets through at most one more. *)
LEMMA OneMore ==
  ASSUME SessionTypes, Capped, NEW s \in Session, Admit(s)
  PROVE  Capped'
<1>1. IsFiniteSet(Open) /\ IsFiniteSet(Admitted)
  BY FS_Subset DEF Capped, Present
<1>2. /\ Cardinality(Open) < MaxSessions /\ Cardinality(Admitted) < InFlight
      /\ Cardinality(Open) \in Nat /\ Cardinality(Admitted) \in Nat
      /\ MaxSessions \in Nat /\ InFlight \in Nat
  BY <1>1, SessionsAssumption, FS_CardinalityType DEF Admit, BelowCap
<1>3. /\ Cardinality(Present) = Cardinality(Open) + Cardinality(Admitted)
                                 - Cardinality(Open \cap Admitted)
      /\ Cardinality(Open \cap Admitted) \in Nat /\ Cardinality(Present) \in Nat
  <2>1. IsFiniteSet(Open \cap Admitted)
    BY <1>1, FS_Subset
  <2> QED
    BY <1>1, <2>1, FS_Union, FS_CardinalityType DEF Capped, Present
<1>4. Present' = Present \cup {s}
  BY DEF SessionTypes, Present, Admit, Open, Admitted
<1>5. IsFiniteSet(Present') /\ Cardinality(Present') <= Cardinality(Present) + 1
  <2>1. /\ IsFiniteSet(Present \cup {s})
        /\ Cardinality(Present \cup {s}) =
             IF s \in Present THEN Cardinality(Present) ELSE Cardinality(Present) + 1
    BY FS_AddElement DEF Capped
  <2>2. Cardinality(Present \cup {s}) <= Cardinality(Present) + 1
    BY <1>3, <2>1
  <2> QED
    BY <1>4, <2>1, <2>2
<1>6. Cardinality(Present') \in Nat
  BY <1>5, FS_CardinalityType
<1> QED
  BY <1>2, <1>3, <1>5, <1>6 DEF Capped

(* An age that grows by a tick. *)
LEMMA OlderIs ==
  ASSUME NEW a \in 0..MaxAge + 1, NEW b \in 0..MaxAge + 1
  PROVE  /\ Older(a) \in 0..MaxAge + 1 /\ a <= Older(a)
         /\ a <= b => Older(a) <= Older(b)
BY SessionsAssumption DEF Older

(* At first there is no session. *)
LEMMA SessionInvInit == ASSUME SessionsInit PROVE SessionInv
<1>1. Present = {} /\ DOMAIN tracked = {} /\ janitor.toClose = {} /\ janitor \in Passes
  BY DEF SessionsInit, Present, Open, Admitted, Resting, Passes
<1>2. Capped
  BY SessionsAssumption, <1>1, FS_EmptySet DEF Capped
<1>3. SessionTypes
  BY SessionsAssumption, <1>1 DEF SessionsInit, SessionTypes
<1> QED
  BY <1>1, <1>2, <1>3 DEF SessionInv, SessionsInit, Heard, Aged

(* A tick. *)
LEMMA SessionTick ==
  ASSUME SessionInv, SessionsTick
  PROVE  SessionInv'
<1> USE DEF SessionInv
<1>1. Capped'
  BY NoMore DEF SessionsTick, Present, Open, Admitted
<1>2. /\ DOMAIN tracked' = DOMAIN tracked
      /\ \A s \in DOMAIN tracked : tracked'[s] = Older(tracked[s])
      /\ \A s \in Session : sess[s] = "open" => lived'[s] = Older(lived[s])
  BY DEF SessionsTick, Open, SessionTypes
<1>3. SessionTypes'
  BY OlderIs DEF SessionTypes, SessionsTick
<1>4. Heard'
  BY <1>2 DEF Heard, SessionsTick
<1>5. Aged'
  <2>1. ASSUME NEW s \in Session, sess[s] = "open", s \in DOMAIN tracked
        PROVE  tracked'[s] <= lived'[s]
    BY <1>2, <2>1, OlderIs DEF SessionTypes, Aged
  <2>2. ASSUME NEW s \in Session, sess[s] = "open", s \in janitor.toClose
        PROVE  lived'[s] > MaxAge
    <3>1. lived[s] \in 0..MaxAge + 1 /\ lived[s] > MaxAge /\ MaxAge \in Nat
      BY SessionsAssumption, <2>2 DEF SessionTypes, Aged
    <3>2. Older(lived[s]) > MaxAge
      BY <3>1 DEF Older
    <3> QED
      BY <1>2, <2>2, <3>2
  <2> QED
    BY <1>2, <2>1, <2>2 DEF Aged, SessionsTick
<1> QED
  BY <1>1, <1>3, <1>4, <1>5

(* A step of one session that is not the first of its life. *)
LEMMA SessionMoves ==
  ASSUME SessionInv, NEW s \in Session,
         Connect(s) \/ Notify(s) \/ Delete(s)
  PROVE  SessionInv'
<1> USE DEF SessionInv
<1>1. Capped'
  <2>1. Present' \subseteq Present
    BY DEF SessionTypes, Present, Open, Admitted, Connect, Notify, Delete
  <2> QED
    BY <2>1, NoMore
<1>2. SessionTypes'
  BY DEF SessionTypes, Connect, Notify, Delete
<1>3. Heard'
  <2>1. CASE Connect(s)
    BY <2>1 DEF SessionTypes, Heard, Connect
  <2>2. CASE Notify(s)
    <3>1. s \notin DOMAIN tracked \cup janitor.toClose
      BY <2>2 DEF Heard, Notify
    <3> QED
      BY <2>2, <3>1 DEF SessionTypes, Heard, Notify
  <2>3. CASE Delete(s)
    BY <2>3 DEF SessionTypes, Heard, Delete
  <2> QED
    BY <2>1, <2>2, <2>3
<1>4. Aged'
  <2>1. CASE Connect(s)
    <3>1. s \notin DOMAIN tracked /\ s \notin janitor.toClose
      BY <2>1 DEF Heard, Connect
    <3> QED
      BY <2>1, <3>1 DEF Aged, SessionTypes, Connect
  <2>2. CASE Notify(s) \/ Delete(s)
    BY <2>2 DEF Aged, SessionTypes, Notify, Delete
  <2> QED
    BY <2>1, <2>2
<1> QED
  BY <1>1, <1>2, <1>3, <1>4

(* A session is tracked from its notification on. *)
LEMMA SessionHeard ==
  ASSUME SessionInv, NEW s \in Session, HandleInitialized(s)
  PROVE  SessionInv'
<1> USE DEF SessionInv
<1>1. Capped'
  BY NoMore DEF HandleInitialized, Present, Open, Admitted
<1>2. MaxAge \in Nat /\ 0 \in 0..MaxAge + 1
  BY SessionsAssumption
<1>3. /\ DOMAIN tracked' = DOMAIN tracked \cup {s} /\ tracked'[s] = 0
      /\ \A x \in DOMAIN tracked \ {s} : tracked'[x] = tracked[x]
      /\ s \notin janitor.toClose
  BY DEF HandleInitialized, Heard
<1>4. SessionTypes'
  BY <1>2, <1>3 DEF SessionTypes, HandleInitialized
<1>5. Heard'
  BY <1>3 DEF SessionTypes, Heard, HandleInitialized
<1>6. Aged'
  <2>1. \A x \in Session : lived[x] >= 0
    BY <1>2 DEF SessionTypes
  <2> QED
    BY <1>3, <2>1 DEF Aged, HandleInitialized
<1> QED
  BY <1>1, <1>4, <1>5, <1>6

(* A pass of the janitor. *)
LEMMA SessionPass ==
  ASSUME SessionInv,
         Snapshot \/ Sweep \/ EndPass \/ \E s \in Session : CloseOld(s)
  PROVE  SessionInv'
<1> USE DEF SessionInv
<1>1. Capped'
  <2>1. Present' \subseteq Present
    BY DEF SessionTypes, Present, Open, Admitted, Snapshot, Sweep,
       EndPass, CloseOld
  <2> QED
    BY <2>1, NoMore
<1>2. CASE Snapshot \/ EndPass
  <2>1. janitor' \in Passes /\ janitor'.toClose = {}
    BY <1>2 DEF Snapshot, EndPass, Resting, Open, Passes
  <2> QED
    BY <1>1, <1>2, <2>1 DEF Snapshot, EndPass, SessionTypes, Heard, Aged
<1>3. CASE Sweep
  <2>1. /\ janitor' = [pc |-> "close", live |-> {}, toClose |-> Overdue]
        /\ Overdue \subseteq DOMAIN tracked /\ Overdue \subseteq Session
        /\ tracked' = [s \in Kept |-> tracked[s]] /\ Kept \subseteq DOMAIN tracked
        /\ Kept \cap Overdue = {}
        /\ UNCHANGED <<sess, note, lived>>
    BY <1>3 DEF Sweep, Overdue, Kept, SessionTypes
  <2>2. SessionTypes'
    BY <2>1 DEF SessionTypes
  <2>3. Heard'
    BY <2>1 DEF Heard, Passes
  <2>4. Aged'
    <3>1. ASSUME NEW s \in Session, sess[s] = "open", s \in Overdue
          PROVE  lived[s] > MaxAge
      <4>1. s \in DOMAIN tracked /\ tracked[s] > MaxAge
        BY <3>1 DEF Overdue
      <4>2. tracked[s] <= lived[s]
        BY <3>1, <4>1 DEF Aged
      <4>3. tracked[s] \in 0..MaxAge + 1 /\ lived[s] \in 0..MaxAge + 1 /\ MaxAge \in Nat
        BY SessionsAssumption, <4>1 DEF SessionTypes
      <4> QED
        BY <4>1, <4>2, <4>3
    <3> QED
      BY <2>1, <3>1 DEF Aged
  <2> QED
    BY <1>1, <2>2, <2>3, <2>4
<1>4. ASSUME NEW s \in Session, CloseOld(s)
      PROVE  SessionInv'
  <2>1. janitor' \in Passes /\ janitor'.toClose = janitor.toClose \ {s}
    BY <1>4 DEF CloseOld, Heard, Passes
  <2>2. SessionTypes'
    BY <1>4 DEF CloseOld, SessionTypes
  <2>3. Heard' /\ Aged'
    BY <1>4, <2>1 DEF CloseOld, SessionTypes, Heard, Aged
  <2> QED
    BY <1>1, <2>2, <2>3
<1> QED
  BY <1>2, <1>3, <1>4

(* Every step keeps the sessions so. *)
LEMMA SessionInvNext ==
  ASSUME SessionInv, [SessionsNext]_sessionsVars
  PROVE  SessionInv'
<1>1. ASSUME NEW s \in Session, Admit(s)
      PROVE  SessionInv'
  <2>1. Capped'
    BY <1>1, OneMore DEF SessionInv
  <2> QED
    BY <1>1, <2>1 DEF SessionInv, Admit, SessionTypes, Heard, Aged
<1>2. CASE UNCHANGED sessionsVars
  BY <1>2 DEF sessionsVars, SessionInv, SessionTypes, Heard, Aged, Capped, Present, Open,
     Admitted
<1> QED
  BY <1>1, <1>2, SessionTick, SessionMoves, SessionHeard, SessionPass DEF SessionsNext, Janitor

(* The invariant holds of every reachable state. *)
THEOREM SessionInvariant == SessionsSpec => []SessionInv
BY SessionInvInit, SessionInvNext, PTL DEF SessionsSpec

(* Past the cap slip at most the requests that were in flight together. *)
THEOREM SessionsSoftCap == SessionsSpec => []SoftCap
<1>1. SessionInv => SoftCap
  BY DEF SessionInv, SessionTypes, Heard, Passes, Capped, Present, SoftCap,
     SessionsTypeOK
<1> QED
  BY <1>1, SessionInvariant, PTL

(* The janitor closes no session that has not outlived the age. *)
THEOREM SessionsOnlyOldClosed ==
  SessionsSpec => OnlyOldClosed
<1>1. SessionInv => \A s \in Open : CloseOld(s) => lived[s] > MaxAge
  BY DEF SessionInv, Aged, Open, CloseOld
<1>2. SessionInv => [\A s \in Open : CloseOld(s) => lived[s] > MaxAge]_sessionsVars
  BY <1>1
<1> QED
  BY <1>2, SessionInvariant, PTL DEF SessionsSpec, OnlyOldClosed

-----------------------------------------------------------------------------
(* The reloaded files, for any number of them and of readers; likewise.     *)

(* What the mtime of a file stands for. *)
Versions == [rot : 1..rotation, whole : BOOLEAN]

(* The copy held is of no older rotation than the mtimes it is held under.  *)
Written ==
  /\ rotation \in 1..MaxRotation /\ hiccups \in 0..MaxHiccups
  /\ file \in [1..Files -> Versions] /\ mods \in [1..Files -> Versions]
  /\ cached \in 1..rotation /\ \A f \in 1..Files : mods[f].rot <= cached

(* The mtimes a reader has seen are no newer than the files, and no older   *)
(* than the rotation it is to be answered from.                             *)
SeenOK(q) ==
  /\ q.seen \in Seq(Versions) /\ Len(q.seen) <= Files
  /\ q.since \in 1..rotation /\ \A f \in 1..Files : q.since <= file[f].rot
  /\ \A i \in 1..Len(q.seen) : q.since <= q.seen[i].rot /\ q.seen[i].rot <= file[i].rot

Statting(q) ==
  /\ q = [pc |-> q.pc, seen |-> q.seen, since |-> q.since]
  /\ q.pc \in {"check", "stat"} /\ SeenOK(q)

(* What it has read, if it can be loaded, is no older than either. *)
Loading(q) ==
  /\ q = [pc |-> "read", seen |-> q.seen, done |-> q.done, since |-> q.since, got |-> q.got]
  /\ SeenOK(q) /\ Len(q.seen) = Files
  /\ q.done \in 1..Files /\ q.got \in 0..rotation
  /\ q.got # 0 => q.since <= q.got /\ \A i \in 1..q.done : q.seen[i].rot <= q.got

ReaderOK(q) == q = AtRest \/ Statting(q) \/ Loading(q)

Readers == DOMAIN rd = Reader /\ \A r \in Reader : ReaderOK(rd[r])

(* The inductive invariant. *)
ReloadInv == Written /\ Readers /\ late = FALSE

-----------------------------------------------------------------------------
(* The operator writes newer versions only. *)
Newer ==
  /\ rotation' \in 1..MaxRotation /\ rotation <= rotation'
  /\ file' \in [1..Files -> Versions'] /\ \A f \in 1..Files : file[f].rot <= file'[f].rot
  /\ UNCHANGED <<cached, mods, rd, late>> /\ hiccups' = hiccups

(* The types of a version and what a reader saw of it. *)
LEMMA Versioned ==
  ASSUME Written
  PROVE  /\ rotation \in Nat /\ rotation >= 1
         /\ \A f \in 1..Files : /\ file[f] \in Versions /\ file[f].rot \in 1..rotation
                                /\ file[f].whole \in BOOLEAN
                                /\ mods[f].rot \in 1..rotation
BY DEF Written, Versions

(* A sequence of versions of rotations up to one is one up to a later one. *)
LEMMA LaterVersions ==
  ASSUME rotation \in Nat, rotation' \in Nat, rotation <= rotation', NEW s \in Seq(Versions)
  PROVE  s \in Seq(Versions')
<1>1. Versions \subseteq Versions'
  BY DEF Versions
<1>2. s \in [1..Len(s) -> Versions] /\ Len(s) \in Nat
  BY LenProperties
<1>3. s \in [1..Len(s) -> Versions']
  BY <1>1, <1>2
<1> QED
  BY <1>2, <1>3, SeqDef

(* What readers saw stays behind the files as these move on. *)
LEMMA SeenStays ==
  ASSUME Files \in Nat, Written, Newer, NEW q, SeenOK(q)
  PROVE  SeenOK(q)'
<1>1. rotation \in Nat /\ rotation' \in Nat /\ rotation <= rotation'
  BY Versioned DEF Written, Newer
<1>2. q.seen \in Seq(Versions')
  BY <1>1, LaterVersions DEF SeenOK
<1>3. q.since \in 1..rotation' /\ q.since \in Nat
  BY <1>1 DEF SeenOK
<1>4. ASSUME NEW f \in 1..Files
      PROVE  file'[f].rot \in Nat /\ file[f].rot \in Nat /\ file[f].rot <= file'[f].rot
  BY <1>1, Versioned DEF Newer, Versions
<1>5. \A f \in 1..Files : q.since <= file'[f].rot
  BY <1>3, <1>4 DEF SeenOK
<1>6. ASSUME NEW i \in 1..Len(q.seen)
      PROVE  q.since <= q.seen[i].rot /\ q.seen[i].rot <= file'[i].rot
  <2>1. Len(q.seen) \in Nat /\ Len(q.seen) <= Files
    BY LenProperties DEF SeenOK
  <2>2. i \in 1..Files
    BY <2>1
  <2>3. q.seen[i].rot \in Nat
    <3>1. q.seen[i] \in Versions
      BY ElementOfSeq DEF SeenOK
    <3> QED
      BY <3>1, <1>1 DEF Versions
  <2> QED
    BY <1>4, <2>2, <2>3 DEF SeenOK
<1> QED
  BY <1>2, <1>3, <1>5, <1>6 DEF SeenOK

(* So an operator's write keeps the invariant. *)
LEMMA NewerOK ==
  ASSUME ReloadInv, Newer
  PROVE  ReloadInv'
<1>1. rotation \in Nat /\ rotation' \in Nat /\ rotation <= rotation' /\ Files \in Nat
  BY ReloadAssumption, Versioned DEF ReloadInv, Written, Newer
<1>2. Written'
  <2>1. Versions \subseteq Versions'
    BY <1>1 DEF Versions
  <2>2. cached \in 1..rotation'
    BY <1>1 DEF ReloadInv, Written
  <2> QED
    BY <2>1, <2>2 DEF ReloadInv, Written, Newer
<1>3. ASSUME NEW q, ReaderOK(q) PROVE ReaderOK(q)'
  <2>1. CASE q = AtRest
    BY <2>1 DEF ReaderOK, AtRest
  <2>2. CASE Statting(q)
    <3>1. SeenOK(q)'
      BY <1>1, <2>2, SeenStays DEF ReloadInv, Statting
    <3> QED
      BY <2>2, <3>1 DEF ReaderOK, Statting
  <2>3. CASE Loading(q)
    <3>1. SeenOK(q)'
      BY <1>1, <2>3, SeenStays DEF ReloadInv, Loading
    <3>2. q.got \in 0..rotation'
      BY <1>1, <2>3 DEF Loading
    <3> QED
      BY <2>3, <3>1, <3>2 DEF ReaderOK, Loading
  <2> QED
    BY <1>3, <2>1, <2>2, <2>3 DEF ReaderOK
<1>4. Readers'
  BY <1>3 DEF ReloadInv, Readers, Newer
<1> QED
  BY <1>2, <1>4 DEF ReloadInv, Newer

(* Every write is of a newer version. *)
LEMMA OperatorNewer ==
  ASSUME ReloadInv, NEW f \in 1..Files,
         Swap \/ Rewrite(f) \/ RewriteNext(f) \/ Complete(f)
  PROVE  Newer
<1> USE DEF ReloadInv
<1>1. /\ rotation \in Nat /\ MaxRotation \in Nat /\ rotation <= MaxRotation
      /\ file \in [1..Files -> Versions]
      /\ \A g \in 1..Files : file[g].rot \in 1..rotation /\ file[g].whole \in BOOLEAN
      /\ \A g \in 1..Files : file[g] = [rot |-> file[g].rot, whole |-> file[g].whole]
  BY ReloadAssumption, Versioned DEF Written, Versions
<1>2. CASE Swap
  <2>1. /\ rotation' = rotation + 1 /\ rotation < MaxRotation
        /\ file' = [g \in 1..Files |-> [rot |-> rotation + 1, whole |-> TRUE]]
        /\ UNCHANGED <<hiccups, cached, mods, rd, late>>
    BY <1>2 DEF Swap, Whole, Place
  <2>2. rotation' \in 1..MaxRotation /\ rotation <= rotation' /\ rotation + 1 \in 1..rotation'
    BY <1>1, <2>1
  <2>3. file' \in [1..Files -> Versions']
    BY <2>1, <2>2 DEF Versions
  <2>4. \A g \in 1..Files : file[g].rot <= file'[g].rot
    BY <1>1, <2>1
  <2> QED
    BY <2>1, <2>2, <2>3, <2>4 DEF Newer
<1>3. ASSUME NEW n \in 1..rotation', rotation' \in 1..MaxRotation, rotation <= rotation',
             NEW w \in BOOLEAN, file' = [file EXCEPT ![f] = [rot |-> n, whole |-> w]],
             file[f].rot <= n, UNCHANGED <<hiccups, cached, mods, rd, late>>
      PROVE  Newer
  <2>1. rotation' \in Nat /\ Versions \subseteq Versions' /\ [rot |-> n, whole |-> w] \in Versions'
    BY <1>1, <1>3 DEF Versions
  <2>2. file' \in [1..Files -> Versions']
    BY <1>1, <1>3, <2>1
  <2>3. \A g \in 1..Files : file[g].rot <= file'[g].rot
    BY <1>1, <1>3
  <2> QED
    BY <1>3, <2>2, <2>3 DEF Newer
<1>4. CASE Rewrite(f)
  <2>1. /\ rotation' = rotation + 1 /\ rotation < MaxRotation
        /\ file' = [file EXCEPT ![f] = [rot |-> rotation + 1, whole |-> FALSE]]
        /\ UNCHANGED <<hiccups, cached, mods, rd, late>>
    BY <1>4 DEF Rewrite, Truncate
  <2>2. /\ rotation' \in 1..MaxRotation /\ rotation <= rotation' /\ rotation + 1 \in 1..rotation'
        /\ file[f].rot <= rotation + 1
    BY <1>1, <2>1
  <2> QED
    BY <1>3, <2>1, <2>2
<1>5. CASE RewriteNext(f)
  <2>1. /\ rotation' = rotation /\ file[f].rot < rotation
        /\ file' = [file EXCEPT ![f] = [rot |-> rotation, whole |-> FALSE]]
        /\ UNCHANGED <<hiccups, cached, mods, rd, late>>
    BY <1>5 DEF RewriteNext, Truncate
  <2>2. /\ rotation' \in 1..MaxRotation /\ rotation <= rotation' /\ rotation \in 1..rotation'
        /\ file[f].rot <= rotation
    BY <1>1, <2>1 DEF Written
  <2> QED
    BY <1>3, <2>1, <2>2
<1>6. CASE Complete(f)
  <2> DEFINE n == file[f].rot
  <2>1. /\ rotation' = rotation /\ UNCHANGED <<hiccups, cached, mods, rd, late>>
        /\ file' = [file EXCEPT ![f] = Whole(file[f].rot)]
    BY <1>6 DEF Complete
  <2>3. file' = [file EXCEPT ![f] = [rot |-> n, whole |-> TRUE]]
    BY <2>1 DEF Whole
  <2>4. /\ rotation' \in 1..MaxRotation /\ rotation <= rotation'
        /\ n \in 1..rotation' /\ file[f].rot <= n
    BY <1>1, <2>1 DEF Written
  <2> HIDE DEF n
  <2> QED
    BY <1>3, <2>1, <2>3, <2>4
<1> QED
  BY <1>2, <1>4, <1>5, <1>6

-----------------------------------------------------------------------------
(* One reader moves to q, and nothing else that readers depend on does. *)
LEMMA OneReaderMoves ==
  ASSUME Readers, NEW r \in Reader, NEW q, rd' = [rd EXCEPT ![r] = q], ReaderOK(q),
         UNCHANGED <<file, rotation>>
  PROVE  Readers'
<1>1. ASSUME NEW x, ReaderOK(x) PROVE ReaderOK(x)'
  BY <1>1 DEF ReaderOK, Statting, Loading, SeenOK, Versions, AtRest
<1>2. DOMAIN rd' = Reader /\ rd'[r] = q /\ \A x \in Reader \ {r} : rd'[x] = rd[x]
  BY DEF Readers
<1> QED
  BY <1>1, <1>2 DEF Readers

(* The three places a reader can be are told apart by pc. *)
LEMMA ReaderAt ==
  ASSUME NEW q, ReaderOK(q)
  PROVE  /\ q.pc \in {"idle", "check", "stat", "read"}
         /\ q.pc \in {"check", "stat"} => Statting(q)
         /\ q.pc = "read" => Loading(q)
BY DEF ReaderOK, Statting, Loading, AtRest

(* A reader's next stat. *)
LEMMA StatSees ==
  ASSUME Written, NEW q, Statting(q), Len(q.seen) < Files
  PROVE  Statting([q EXCEPT !.seen = Append(@, file[Len(q.seen) + 1])])
<1> DEFINE n == Len(q.seen) + 1
           s == Append(q.seen, file[n])
<1>1. Len(q.seen) \in Nat /\ Files \in Nat /\ n \in 1..Files /\ n \in Nat /\ file[n] \in Versions
  <2>1. Len(q.seen) \in Nat /\ Files \in Nat
    BY ReloadAssumption, LenProperties DEF Statting, SeenOK
  <2>2. n \in 1..Files
    BY <2>1
  <2> QED
    BY <2>1, <2>2, Versioned
<1>2. s \in Seq(Versions) /\ Len(s) = n
  BY <1>1, AppendProperties DEF Statting, SeenOK
<1>3. s[n] = file[n] /\ \A i \in 1..Len(q.seen) : s[i] = q.seen[i]
  BY <1>1, AppendProperties DEF Statting, SeenOK
<1>4. q.since <= file[n].rot /\ file[n].rot \in Nat
  BY <1>1, Versioned DEF Statting, SeenOK, Versions
<1> HIDE DEF s
<1>5. ASSUME NEW i \in 1..n PROVE q.since <= s[i].rot /\ s[i].rot <= file[i].rot
  <2>1. CASE i = n
    BY <1>3, <1>4, <2>1
  <2>2. CASE i # n
    <3>1. i \in 1..Len(q.seen)
      BY <1>1, <2>2
    <3> QED
      BY <1>3, <3>1 DEF Statting, SeenOK
  <2> QED
    BY <2>1, <2>2
<1>6. [q EXCEPT !.seen = Append(@, file[Len(q.seen) + 1])]
        = [pc |-> q.pc, seen |-> s, since |-> q.since]
  BY DEF Statting, s
<1>7. n <= Files
  BY <1>1
<1> HIDE DEF n
<1> QED
  BY <1>2, <1>5, <1>6, <1>7 DEF Statting, SeenOK

(* A reader starts. *)
LEMMA ReaderStarts ==
  ASSUME ReloadInv, NEW r \in Reader, Arrive(r)
  PROVE  ReloadInv'
<1> DEFINE due == IF Settled THEN rotation ELSE 1
           q == [pc |-> "check", seen |-> <<file[1]>>, since |-> due]
<1>1. Files \in Nat /\ 1 \in 1..Files /\ file[1] \in Versions /\ Written
  BY ReloadAssumption, Versioned DEF ReloadInv
<1>2. due \in 1..rotation /\ \A f \in 1..Files : due <= file[f].rot
  BY <1>1, Versioned DEF Settled, Whole, Place
<1>3. rd' = [rd EXCEPT ![r] = q] /\ UNCHANGED <<file, rotation, hiccups, cached, mods, late>>
  BY DEF Arrive
<1> HIDE DEF due
<1>4. <<file[1]>> \in Seq(Versions) /\ Len(<<file[1]>>) = 1 /\ <<file[1]>>[1] = file[1]
  BY <1>1
<1>5. file[1].rot \in Nat
  BY <1>1, Versioned
<1>6. Len(q.seen) <= Files /\ \A i \in 1..Len(q.seen) : i = 1
  BY <1>1, <1>4
<1>7. SeenOK(q)
  BY <1>1, <1>2, <1>4, <1>5, <1>6 DEF SeenOK
<1>8. ReaderOK(q)
  BY <1>7 DEF ReaderOK, Statting
<1> HIDE DEF q
<1>9. Readers'
  BY <1>3, <1>8, OneReaderMoves DEF ReloadInv
<1> QED
  BY <1>1, <1>3, <1>9 DEF ReloadInv, Written, Versions

(* A reader is answered, from no older rotation than it is due. *)
LEMMA ReaderAnswered ==
  ASSUME ReloadInv, Written', NEW r \in Reader, NEW rot, NEW failed,
         Answer(r, rot, failed), failed = TRUE \/ ~(rot < rd[r].since),
         UNCHANGED <<file, rotation>>
  PROVE  ReloadInv'
<1>1. rd' = [rd EXCEPT ![r] = AtRest] /\ late' = FALSE
  BY DEF Answer, ReloadInv
<1>2. ReaderOK(AtRest)
  BY DEF ReaderOK
<1>3. Readers'
  BY <1>1, <1>2, OneReaderMoves DEF ReloadInv
<1> QED
  BY <1>1, <1>3 DEF ReloadInv

(* currentIfFresh. *)
LEMMA ReaderJudges ==
  ASSUME ReloadInv, NEW r \in Reader, Judge(r)
  PROVE  ReloadInv'
<1>1. /\ Statting(rd[r]) /\ Len(rd[r].seen) = Files /\ Written /\ Readers /\ late = FALSE
      /\ UNCHANGED <<file, rotation, hiccups, cached, mods>>
  BY ReaderAt DEF ReloadInv, Readers, Judge
<1>2. Written'
  BY <1>1 DEF Written, Versions
<1>3. CASE Unmoved(r) /\ Answer(r, cached, FALSE)
  <2>1. 1 \in 1..Files /\ 1 \in 1..Len(rd[r].seen)
    BY ReloadAssumption, <1>1
  <2>2. rd[r].since <= mods[1].rot /\ mods[1].rot <= cached
    BY <1>1, <1>3, <2>1 DEF Unmoved, Statting, SeenOK, Written
  <2>3. rd[r].since \in Nat /\ mods[1].rot \in Nat /\ cached \in Nat
    BY <1>1, <2>1, Versioned DEF Statting, SeenOK, Written
  <2>4. ~(cached < rd[r].since)
    BY <2>2, <2>3
  <2> QED
    BY <1>1, <1>2, <1>3, <2>4, ReaderAnswered
<1>4. CASE /\ rd' = [rd EXCEPT ![r] = [pc |-> "stat", seen |-> << >>, since |-> @.since]]
           /\ UNCHANGED late
  <2> DEFINE q == [pc |-> "stat", seen |-> << >>, since |-> rd[r].since]
  <2>1. rd' = [rd EXCEPT ![r] = q]
    BY <1>4
  <2>2. q.seen \in Seq(Versions) /\ Len(q.seen) = 0
    OBVIOUS
  <2>3. SeenOK(q)
    BY ReloadAssumption, <1>1, <2>2 DEF Statting, SeenOK
  <2>4. ReaderOK(q)
    BY <2>3 DEF ReaderOK, Statting
  <2> HIDE DEF q
  <2>5. Readers'
    BY <1>1, <2>1, <2>4, OneReaderMoves
  <2> QED
    BY <1>1, <1>2, <1>4, <2>5 DEF ReloadInv
<1> QED
  BY <1>3, <1>4 DEF Judge

(* What a reader has read, after one more file. *)
LEMMA LoadsIs ==
  ASSUME Written, NEW got \in Int, got >= -1, NEW f \in 1..Files
  PROVE  LET l == Loads(got, file[f])
         IN  /\ l \in 0..rotation
             /\ l # 0 => l = file[f].rot /\ got \in {-1, l}
BY Versioned DEF Loads

(* os.ReadFile. *)
LEMMA ReaderReads ==
  ASSUME ReloadInv, NEW r \in Reader, Read(r)
  PROVE  ReloadInv'
<1>1. /\ Written /\ Readers /\ late = FALSE /\ Files \in Nat /\ 1 \in 1..Files
      /\ UNCHANGED <<file, rotation, hiccups, cached, mods, late>>
  BY ReloadAssumption DEF ReloadInv, Read
<1>2. ASSUME NEW q, rd' = [rd EXCEPT ![r] = q], Loading(q) PROVE ReloadInv'
  <2>1. Readers'
    BY <1>1, <1>2, OneReaderMoves DEF ReaderOK
  <2> QED
    BY <1>1, <2>1 DEF ReloadInv, Written, Versions
<1>3. ASSUME SeenOK(rd[r]), Len(rd[r].seen) = Files, NEW n \in 1..Files
      PROVE  /\ rd[r].since <= file[n].rot /\ rd[r].seen[n].rot <= file[n].rot
             /\ file[n].rot \in Nat /\ rd[r].since \in Nat
  BY <1>1, <1>3, Versioned DEF SeenOK
<1>4. CASE rd[r].pc = "stat" /\ Len(rd[r].seen) = Files
           /\ rd' = [rd EXCEPT ![r] = Reading(rd[r], 1, Loads(-1, file[1]))]
  <2> DEFINE l == Loads(-1, file[1])
             q == [pc |-> "read", seen |-> rd[r].seen, done |-> 1, since |-> rd[r].since,
                   got |-> l]
  <2>1. SeenOK(rd[r])
    BY <1>1, <1>4, ReaderAt DEF Readers, Statting
  <2>2. l \in 0..rotation /\ (l # 0 => l = file[1].rot)
    BY <1>1, LoadsIs
  <2> HIDE DEF l
  <2>3. l # 0 => q.since <= l /\ \A i \in 1..1 : q.seen[i].rot <= l
    BY <1>1, <1>3, <1>4, <2>1, <2>2
  <2>4. SeenOK(q)
    BY <2>1 DEF SeenOK
  <2>5. Loading(q)
    BY <1>1, <1>4, <2>2, <2>3, <2>4 DEF Loading
  <2>6. rd' = [rd EXCEPT ![r] = q]
    BY <1>4 DEF l, Reading
  <2> HIDE DEF q
  <2> QED
    BY <1>2, <2>5, <2>6
<1>5. CASE rd[r].pc = "read" /\ rd[r].done < Files
           /\ rd' = [rd EXCEPT ![r] = Reading(rd[r], rd[r].done + 1,
                        Loads(rd[r].got, file[rd[r].done + 1]))]
  <2> DEFINE n == rd[r].done + 1
             l == Loads(rd[r].got, file[n])
             q == [pc |-> "read", seen |-> rd[r].seen, done |-> n, since |-> rd[r].since, got |-> l]
  <2>1. Loading(rd[r])
    BY <1>1, <1>5, ReaderAt DEF Readers
  <2>2. n \in 1..Files /\ rd[r].done \in Nat /\ rd[r].got \in Nat
    <3>1. rd[r].done \in 1..Files /\ rd[r].got \in 0..rotation /\ rotation \in Nat
      BY <1>1, <2>1, Versioned DEF Loading
    <3> QED
      BY <1>1, <1>5, <3>1
  <2>3. /\ l \in 0..rotation
        /\ l # 0 => l = file[n].rot /\ rd[r].got = l
    <3>1. rd[r].got \in Int /\ rd[r].got >= -1 /\ rd[r].got # -1
      BY <2>2
    <3> HIDE DEF n
    <3> QED
      BY <1>1, <2>2, <3>1, LoadsIs
  <2>4. rd' = [rd EXCEPT ![r] = q]
    BY <1>5 DEF Reading
  <2> HIDE DEF l
  <2>5. SeenOK(rd[r]) /\ Len(rd[r].seen) = Files
    BY <2>1 DEF Loading
  <2>6. ASSUME l # 0 PROVE q.since <= l /\ \A i \in 1..n : q.seen[i].rot <= l
    <3>1. rd[r].since <= l /\ rd[r].seen[n].rot <= l
      BY <1>3, <2>2, <2>3, <2>5, <2>6
    <3>2. \A i \in 1..rd[r].done : rd[r].seen[i].rot <= l
      BY <2>1, <2>3, <2>6 DEF Loading
    <3>3. \A i \in 1..n : i = n \/ i \in 1..rd[r].done
      BY <2>2
    <3> QED
      BY <3>1, <3>2, <3>3
  <2>7. SeenOK(q)
    BY <2>5 DEF SeenOK
  <2>8. Loading(q)
    <3> HIDE DEF n
    <3> QED
      BY <2>2, <2>3, <2>5, <2>6, <2>7 DEF Loading
  <2> HIDE DEF q
  <2> QED
    BY <1>2, <2>4, <2>8
<1> QED
  BY <1>4, <1>5 DEF Read

(* os.Stat. *)
LEMMA ReaderStats ==
  ASSUME ReloadInv, NEW r \in Reader, Stat(r)
  PROVE  ReloadInv'
<1> DEFINE q == [rd[r] EXCEPT !.seen = Append(@, file[Len(rd[r].seen) + 1])]
<1>1. /\ Written /\ Readers /\ Statting(rd[r]) /\ Len(rd[r].seen) < Files
      /\ UNCHANGED <<file, rotation, hiccups, cached, mods, late>>
  BY ReaderAt DEF ReloadInv, Readers, Stat
<1>2. rd' = [rd EXCEPT ![r] = q]
  BY <1>1 DEF Stat, Readers
<1>3. ReaderOK(q)
  BY <1>1, StatSees DEF ReaderOK
<1> HIDE DEF q
<1>4. Readers'
  BY <1>1, <1>2, <1>3, OneReaderMoves
<1> QED
  BY <1>1, <1>4 DEF ReloadInv, Written, Versions

(* A copy is stored under the mtimes seen before it was read. *)
LEMMA ReaderStores ==
  ASSUME ReloadInv, NEW r \in Reader, Store(r)
  PROVE  ReloadInv'
<1>1. /\ Loading(rd[r]) /\ rd[r].done = Files /\ rd[r].got # 0 /\ Written
      /\ cached' = rd[r].got /\ mods' = rd[r].seen /\ Answer(r, cached', FALSE)
      /\ UNCHANGED <<file, rotation, hiccups>>
  BY ReaderAt DEF ReloadInv, Readers, Store, Parsing, Stamp
<1>2. mods' \in [1..Files -> Versions]
  BY <1>1, LenProperties DEF Loading, SeenOK
<1>3. cached' \in 1..rotation /\ \A f \in 1..Files : mods'[f].rot <= cached'
  BY <1>1, Versioned DEF Loading
<1>4. Written'
  BY <1>1, <1>2, <1>3 DEF Written, Versions
<1>5. ~(cached' < rd[r].since)
  <2>1. rd[r].since <= cached' /\ rd[r].since \in Nat /\ cached' \in Nat
    BY <1>1, <1>3, Versioned DEF Loading, SeenOK
  <2> QED
    BY <2>1
<1> QED
  BY <1>1, <1>4, <1>5, ReaderAnswered

(* A reload that failed answers from the last good copy. *)
LEMMA ReaderFails ==
  ASSUME ReloadInv, NEW r \in Reader,
         KeepLastGood(r) \/ Hiccup(r)
  PROVE  ReloadInv'
<1>1. Answer(r, cached, TRUE) /\ UNCHANGED <<file, rotation, cached, mods>>
  BY DEF KeepLastGood, Hiccup
<1>2. hiccups' \in 0..MaxHiccups
  <2>1. hiccups \in 0..MaxHiccups /\ MaxHiccups \in Nat
    BY ReloadAssumption DEF ReloadInv, Written
  <2>2. hiccups' = hiccups \/ (hiccups < MaxHiccups /\ hiccups' = hiccups + 1)
    BY DEF KeepLastGood, Hiccup
  <2> QED
    BY <2>1, <2>2
<1>3. Written'
  BY <1>1, <1>2 DEF ReloadInv, Written, Versions
<1> QED
  BY <1>1, <1>3, ReaderAnswered

(* Startup has the files as they are. *)
LEMMA ReloadInvInit == ASSUME ReloadInit PROVE ReloadInv
<1>1. 1 \in 1..MaxRotation /\ 0 \in 0..MaxHiccups /\ rotation = 1 /\ 1 \in 1..rotation
  BY ReloadAssumption DEF ReloadInit
<1>2. /\ file = [f \in 1..Files |-> [rot |-> 1, whole |-> TRUE]] /\ mods = file /\ cached = 1
      /\ hiccups = 0
  BY DEF ReloadInit, Whole, Place
<1>3. Written
  BY <1>1, <1>2 DEF Written, Versions
<1> QED
  BY <1>3 DEF ReloadInit, ReloadInv, Readers, ReaderOK

(* Every step of the operator and of a reader keeps it so. *)
LEMMA ReloadInvNext ==
  ASSUME ReloadInv, [ReloadNext]_reloadVars
  PROVE  ReloadInv'
<1>1. CASE UNCHANGED reloadVars
  BY <1>1 DEF reloadVars, ReloadInv, Written, Readers, ReaderOK, Statting, Loading, SeenOK,
     Versions, AtRest
<1>2. CASE Swap
  BY ReloadAssumption, <1>2, 1 \in 1..Files, OperatorNewer, NewerOK
<1>3. ASSUME NEW f \in Place,
             Rewrite(f) \/ RewriteNext(f) \/ Complete(f)
      PROVE  ReloadInv'
  BY <1>3, OperatorNewer, NewerOK DEF Place
<1> QED
  BY <1>1, <1>2, <1>3, ReaderStarts, ReaderStats, ReaderJudges, ReaderReads, ReaderStores,
     ReaderFails DEF ReloadNext, Advance

(* The invariant holds of every reachable state. *)
THEOREM ReloadInvariant == ReloadSpec => []ReloadInv
BY ReloadInvInit, ReloadInvNext, PTL DEF ReloadSpec

(* When the mtimes a copy is held under match the files, the copy is what   *)
(* is in the files, however reloads raced with each other and with the      *)
(* operator.                                                                *)
THEOREM ReloadFresh ==
  ReloadSpec => []FreshMeansCurrent
<1>1. ReloadInv => FreshMeansCurrent
  <2> SUFFICES ASSUME ReloadInv PROVE FreshMeansCurrent
    OBVIOUS
  <2>1. ReloadTypeOK
    BY ReaderAt DEF ReloadInv, Readers, Written, Versions, ReloadTypeOK, Place
  <2>2. ASSUME Settled, mods = file PROVE cached = rotation
    <3>1. 1 \in 1..Files /\ mods[1].rot = rotation
      BY ReloadAssumption, <2>2 DEF Settled, Whole, Place
    <3>2. rotation <= cached /\ cached \in 1..rotation /\ rotation \in Nat
      BY <3>1, Versioned DEF ReloadInv, Written
    <3> QED
      BY <3>2
  <2> QED
    BY <2>1, <2>2 DEF FreshMeansCurrent
<1> QED
  BY <1>1, ReloadInvariant, PTL

(* A reader that starts after a rotation is answered from it or a later one,*)
(* unless a call or a load failed on its way.                               *)
THEOREM ReloadPickedUp ==
  ReloadSpec => []PickedUpNext
<1>1. ReloadInv => PickedUpNext
  BY DEF ReloadInv, PickedUpNext
<1> QED
  BY <1>1, ReloadInvariant, PTL
=============================================================================
