-------------------------------- MODULE Relay --------------------------------
(***************************************************************************)
(* The relay as a process (main.go): what it reads of its environment when  *)
(* it starts, the requests and health polls it serves, the signals that     *)
(* make it drain them and end, and its restarts.  Its health verdict and    *)
(* its signing key live as long as it does; a configured key outlives it.   *)
(***************************************************************************)
EXTENDS HealthProbe, Fence

CONSTANTS
  Key, EphemeralKey,  \* keys the operator has, and keys a process generates
  Unset, Malformed,   \* other values of the two key variables
  Preambles,          \* values of FENCE_PREAMBLE, "typo" among the others
  Request,            \* tool calls and event streams that can be open at once
  DrainTimeout,       \* how long Shutdown may take, in ticks
  MaxSettings         \* bound: times the operator sets the key

ASSUME RelayAssumption ==
  /\ Key \cap EphemeralKey = {} /\ {Unset, Malformed} \cap (Key \cup EphemeralKey) = {}
  /\ Unset # Malformed
  /\ DrainTimeout \in Nat /\ DrainTimeout > ProbeTimeout
  /\ MaxSettings \in Nat

VARIABLES
  env,       \* what the next start reads: [inline, file, preamble, tokens];
             \* tokens: authentication and all else that main() requires
  settings,  \* how often the operator has set the key
  pinned,    \* the key the operator meant to set last and pinned, or Unset
  phase,     \* main: "down", "starting", "running", "signalled", "draining"
  process,   \* the process: [key, mode], and pinned as it was at its start
  listening, \* whether the server accepts connections
  open,      \* the requests in flight
  since,     \* when Shutdown was called
  ended,     \* how the last process ended, until the next one starts
  follows    \* bound: a behaviour follows the "settings" or the "clock"

operatorVars == <<env, settings, pinned, follows>>
processVars == <<phase, process, listening, open, since, ended>>
relayVars == <<operatorVars, processVars>>
allVars == <<vars, relayVars>>

NoProcess == [key |-> Unset, mode |-> "fenced", pinned |-> Unset]

RelayInit ==
  /\ Init
  /\ env \in [inline : {Unset}, file : {Unset}, preamble : Preambles, tokens : BOOLEAN]
  /\ follows \in {"settings", "clock"}
  /\ follows = "clock" => env.preamble = "fenced" /\ env.tokens
  /\ settings = 0 /\ pinned = Unset
  /\ phase = "down" /\ process = NoProcess
  /\ listening = FALSE /\ open = {} /\ since = 0 /\ ended = "not yet"

-----------------------------------------------------------------------------
(* What a start makes of its environment.                                   *)

(* Mutants of LoadFenceSigningKey: one variable wins when both are set; a   *)
(* key that cannot be read is as good as none.                              *)
LoadInlineFirst(e) ==
  [ok  |-> Malformed \notin {e.inline, e.file},
   key |-> IF e.inline # Unset THEN e.inline ELSE e.file]
LoadOrGenerate(e) ==
  [ok  |-> Unset \in {e.inline, e.file},
   key |-> IF {e.inline, e.file} \cap Key = {} THEN Unset
           ELSE CHOOSE k \in {e.inline, e.file} : k \in Key]

(* A PEM block or base64 of a seed, a key or PKCS#8 that holds together is  *)
(* a key; everything else is Malformed.                                     *)
ParseFenceSigningKey(raw) == [ok |-> raw # Malformed, key |-> raw]

(* FENCE_SIGNING_KEY or the content of FENCE_SIGNING_KEY_FILE, never both. *)
LoadFenceSigningKey(e) ==
  LET parsed == ParseFenceSigningKey(IF e.inline # Unset THEN e.inline ELSE e.file)
  IN  [ok |-> Unset \in {e.inline, e.file} /\ parsed.ok, key |-> parsed.key]

ResolveFenceKeypair(configured) == IF configured = Unset THEN EphemeralKey ELSE {configured}

ParseFencePreambleMode(raw) ==
  [ok |-> raw # "typo", mode |-> IF raw = "prose" THEN "prose" ELSE "fenced"]

Sound(e) ==
  /\ LoadFenceSigningKey(e).ok /\ ParseFencePreambleMode(e.preamble).ok
  /\ e.tokens

(* Mutant of HandleFencePublicKey: the newest format there is. *)
AdvertiseNewest(p) == [version |-> "1.1", fingerprint |-> p.key]

HandleFencePublicKey(p) == [version |-> FenceVersion(p.mode), fingerprint |-> p.key]

(* Some response of the process. *)
Response(p) ==
  WrapFence([key |-> p.key, mode |-> p.mode, now |-> 0, nonce |-> "n1", preambleNonce |-> "n2"],
            "content", "url", <<"a", "<", "b">>, "none",
            [hiddenElements |-> 0, invisibleChars |-> 0])

-----------------------------------------------------------------------------
Polling == {p \in Poll : poll[p] # Idle}
Busy == open # {} \/ Polling # {}

(* The process is over: connections are cut, its memory is lost. *)
End(how) ==
  /\ ended' = how
  /\ phase' = "down" /\ process' = NoProcess /\ listening' = FALSE /\ open' = {}
  /\ poll' = [p \in Poll |-> Idle] /\ ok' = FALSE /\ checked' = -1
  /\ since' = 0
  /\ UNCHANGED <<now, up, lastUp, lastDown, answer, operatorVars>>

(* The operator sets one of the two variables to key k, and pins k at the   *)
(* gateway; what arrives may be mangled, and the other variable may be left *)
(* as it was.                                                               *)
SetKey(k) ==
  /\ follows = "settings" /\ settings < MaxSettings
  /\ settings' = settings + 1 /\ pinned' = k
  /\ \E v \in {k, Malformed}, other \in {"kept", "cleared"}, var \in {"inline", "file"} :
       env' = [inline   |-> IF var = "inline" THEN v
                            ELSE IF other = "kept" THEN env.inline ELSE Unset,
               file     |-> IF var = "file" THEN v
                            ELSE IF other = "kept" THEN env.file ELSE Unset,
               preamble |-> env.preamble, tokens |-> env.tokens]
  /\ UNCHANGED <<vars, follows, processVars>>

(* main() reads everything it will ever read of the environment; anything   *)
(* wrong with it ends the start.                                            *)
Start ==
  /\ phase = "down"
  /\ IF Sound(env)
       THEN /\ phase' = "starting" /\ ended' = "not yet"
            /\ \E k \in ResolveFenceKeypair(LoadFenceSigningKey(env).key) :
                 process' = [key |-> k, mode |-> ParseFencePreambleMode(env.preamble).mode,
                             pinned |-> pinned]
       ELSE phase' = phase /\ ended' = "refused" /\ process' = process
  /\ UNCHANGED <<vars, operatorVars, listening, open, since>>

(* signal.NotifyContext, and the goroutine that will listen. *)
Ready ==
  /\ phase = "starting"
  /\ phase' = "running"
  /\ UNCHANGED <<vars, operatorVars, process, listening, open, since, ended>>

(* Mutant of MayListen: the goroutine is started before the signals are     *)
(* asked for.                                                               *)
MayListenEarly == ~listening /\ phase \in {"starting", "running", "signalled"}

(* Once Shutdown has been called ListenAndServe returns at once. *)
MayListen == ~listening /\ phase \in {"running", "signalled"}

Listen ==
  /\ MayListen
  /\ listening' = TRUE
  /\ UNCHANGED <<vars, operatorVars, phase, process, open, since, ended>>

ListenFails == MayListen /\ End("no port")

(* The first signal that main() listens for cancels ctx; until then and     *)
(* once stop() has been called a signal ends the process, in between it     *)
(* changes nothing.                                                         *)
Signal ==
  /\ phase \in {"starting", "running", "draining"}
  /\ IF phase = "running"
       THEN /\ now + DrainTimeout <= MaxTime
            /\ phase' = "signalled"
            /\ UNCHANGED <<vars, operatorVars, process, listening, open, since, ended>>
       ELSE End("interrupted")

(* stop(), and Shutdown closes the listener. *)
Drain ==
  /\ phase = "signalled"
  /\ phase' = "draining" /\ listening' = FALSE /\ since' = now
  /\ UNCHANGED <<vars, operatorVars, process, open, ended>>

ExitClean == phase = "draining" /\ ~Busy /\ End("clean")

(* Mutant of DrainOver: Shutdown under a context without a timeout. *)
NoTimeout == FALSE

DrainOver == now >= since + DrainTimeout

GiveUp == phase = "draining" /\ Busy /\ DrainOver /\ End("failed")

(* SIGKILL, or the machine. *)
Kill == phase # "down" /\ End("killed")

-----------------------------------------------------------------------------
RelayTick ==
  /\ follows = "clock"
  /\ phase # "signalled" /\ ~(phase = "draining" /\ DrainOver)
  /\ Tick
  /\ UNCHANGED relayVars

OpenRequest(r) ==
  /\ follows = "clock" /\ listening /\ r \notin open
  /\ open' = open \cup {r}
  /\ UNCHANGED <<vars, operatorVars, phase, process, listening, since, ended>>

(* The handler is through, or the client has closed its stream. *)
CloseRequest(r) ==
  /\ r \in open
  /\ open' = open \ {r}
  /\ UNCHANGED <<vars, operatorVars, phase, process, listening, since, ended>>

HealthStep(p) ==
  /\ follows = "clock"
  /\ \/ listening /\ (AnswerCached(p) \/ SendProbe(p))
     \/ Serve(p) \/ Receive(p) \/ TimeOut(p) \/ HangUp(p) \/ Record(p)
  /\ UNCHANGED relayVars

RelayNext ==
  \/ RelayTick \/ (follows = "clock" /\ Flip /\ UNCHANGED relayVars)
  \/ \E k \in Key : SetKey(k)
  \/ Start \/ Ready \/ Listen \/ ListenFails
  \/ Signal \/ Drain \/ ExitClean \/ GiveUp \/ Kill
  \/ \E r \in Request : OpenRequest(r) \/ CloseRequest(r)
  \/ \E p \in Poll : HealthStep(p)

(* Time passes, main() and the health handler run; no client ever has to    *)
(* close, no tool call to end, and SearXNG owes nobody an answer.           *)
RelayFairness ==
  /\ WF_allVars(RelayTick) /\ WF_allVars(Drain) /\ WF_allVars(ExitClean) /\ WF_allVars(GiveUp)
  /\ \A p \in Poll : WF_allVars((TimeOut(p) \/ Record(p)) /\ UNCHANGED relayVars)

RelaySpec == RelayInit /\ [][RelayNext]_allVars /\ RelayFairness

-----------------------------------------------------------------------------
(* Every variable has its type. *)
RelayTypeOK ==
  /\ TypeOK
  /\ env \in [inline : Key \cup {Unset, Malformed}, file : Key \cup {Unset, Malformed},
              preamble : Preambles, tokens : BOOLEAN]
  /\ follows \in {"settings", "clock"} /\ settings \in 0..MaxSettings
  /\ pinned \in Key \cup {Unset}
  /\ phase \in {"down", "starting", "running", "signalled", "draining"}
  /\ listening \in BOOLEAN /\ open \subseteq Request /\ since \in 0..now

(* A gateway that pins the key the operator set last before the start       *)
(* accepts what the process sends: it never signs with another one of the   *)
(* two variables, nor with a key of its own.  One that goes by              *)
(* /fence/public-key accepts it too, in the format announced there          *)
(* (fence_key.go:74-118, transport_http.go:534-549).                        *)
AcceptedAsPinned ==
  /\ RelayTypeOK
  /\ listening =>
       LET told == HandleFencePublicKey(process)
           sent == Response(process)
       IN  /\ Accepts(sent, {told.fingerprint})
           /\ \A i \in DOMAIN sent.fences : sent.fences[i].meta.version = told.version
           /\ process.pinned # Unset => Accepts(sent, {process.pinned})

Ends == phase # "down" /\ phase' = "down"

(* "gives in-flight requests up to 30 seconds to complete": a process with  *)
(* requests in flight ends before that only by a second signal, never by    *)
(* the first one, whenever that comes (main.go:597-647).                    *)
DrainKept ==
  [][Ends /\ Busy => \/ ended' = "killed"
                     \/ (phase = "draining" /\ (ended' = "interrupted" \/ DrainOver))]_allVars

(* A shutdown fails only if a client held a request open throughout: polls  *)
(* of /health, however SearXNG answers them, are over in time               *)
(* (transport_http.go:487 against main.go:645).                             *)
PollsDrain == [][Ends /\ ended' = "failed" => open # {}]_allVars

(* A process that was told to stop stops, though its clients never close    *)
(* their streams and SearXNG never answers.                                 *)
Stops == phase = "signalled" ~> phase = "down"
=============================================================================
