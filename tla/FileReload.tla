----------------------------- MODULE FileReload -----------------------------
(***************************************************************************)
(* The two hot reloaders: certReloader (tls.go) over a certificate and its  *)
(* key, jwksReloader (oauth.go) over one JWKS file.  Both compare the        *)
(* files' mtimes with those of the copy they hold, and a reader that finds  *)
(* them moved stats, reads and stores the files with no lock held in        *)
(* between, so readers interleave with each other and with the operator who *)
(* rewrites the files.  A version of a file is the rotation it belongs to   *)
(* and whether it is written to the end; the files load only when whole and *)
(* of one rotation.                                                         *)
(***************************************************************************)
EXTENDS Integers, Sequences

CONSTANTS
  Files,        \* the number of files read together: 2 for TLS, 1 for JWKS
  Reader,       \* handshakes, or token verifications, in flight at once
  MaxRotation,  \* bound: rotations by the operator
  MaxHiccups    \* bound: file system calls that fail for no lasting reason

ASSUME ReloadAssumption ==
  Files \in Nat \ {0} /\ MaxRotation \in Nat \ {0} /\ MaxHiccups \in Nat

VARIABLES
  file,      \* place -> [rot, whole]: the version there, which its mtime names
  rotation,  \* the newest rotation begun
  hiccups,   \* calls failed so far
  cached,    \* the rotation in memory
  mods,      \* place -> the version whose mtime it was loaded under
  rd,        \* Reader -> where it is
  late       \* history: some reader was answered from before its time

reloadVars == <<file, rotation, hiccups, cached, mods, rd, late>>

Place == 1..Files

AtRest == [pc |-> "idle"]

Whole(rot) == [rot |-> rot, whole |-> TRUE]

(* Startup loads the files or refuses to run. *)
ReloadInit ==
  /\ file = [f \in Place |-> Whole(1)] /\ rotation = 1 /\ hiccups = 0
  /\ cached = 1 /\ mods = file
  /\ rd = [r \in Reader |-> AtRest] /\ late = FALSE

-----------------------------------------------------------------------------
(* The operator.  Every write gives a file an mtime it never had. *)

Settled == file = [f \in Place |-> Whole(rotation)]

(* A new rotation, swapped in at once (a Kubernetes Secret mount). *)
Swap ==
  /\ Settled /\ rotation < MaxRotation
  /\ rotation' = rotation + 1
  /\ file' = [f \in Place |-> Whole(rotation + 1)]
  /\ UNCHANGED <<hiccups, cached, mods, rd, late>>

(* Or written in place, file by file: truncated, then completed. *)
Truncate(f, rot) ==
  /\ file' = [file EXCEPT ![f] = [rot |-> rot, whole |-> FALSE]]
  /\ UNCHANGED <<hiccups, cached, mods, rd, late>>

Rewrite(f) ==
  /\ Settled /\ rotation < MaxRotation
  /\ rotation' = rotation + 1
  /\ Truncate(f, rotation + 1)

RewriteNext(f) ==
  /\ file[f].whole /\ file[f].rot < rotation
  /\ Truncate(f, rotation)
  /\ UNCHANGED rotation

Complete(f) ==
  /\ ~file[f].whole
  /\ file' = [file EXCEPT ![f] = Whole(file[f].rot)]
  /\ UNCHANGED <<rotation, hiccups, cached, mods, rd, late>>

-----------------------------------------------------------------------------
(* A reader; its first step is the first os.Stat.  since is history: the    *)
(* rotation that was fully written when it started, the first if none was.  *)
Arrive(r) ==
  /\ rd[r] = AtRest
  /\ rd' = [rd EXCEPT ![r] = [pc |-> "check", seen |-> <<file[1]>>,
                             since |-> IF Settled THEN rotation ELSE 1]]
  /\ UNCHANGED <<file, rotation, hiccups, cached, mods, late>>

(* The reader is answered from a rotation. *)
Answer(r, rot, failed) ==
  /\ rd' = [rd EXCEPT ![r] = AtRest]
  /\ late' = (late \/ (~failed /\ rot < rd[r].since))

(* os.Stat of the next file, in currentIfFresh ("check") or load ("stat"). *)
Stat(r) ==
  /\ rd[r].pc \in {"check", "stat"} /\ Len(rd[r].seen) < Files
  /\ rd' = [rd EXCEPT ![r].seen = Append(@, file[Len(@) + 1])]
  /\ UNCHANGED <<file, rotation, hiccups, cached, mods, late>>

(* currentIfFresh under the read lock: the copy is good while no mtime moved. *)
Unmoved(r) == rd[r].seen = mods

Judge(r) ==
  /\ rd[r].pc = "check" /\ Len(rd[r].seen) = Files
  /\ \/ /\ Unmoved(r)
        /\ Answer(r, cached, FALSE)
     \/ /\ ~Unmoved(r)
        /\ rd' = [rd EXCEPT ![r] = [pc |-> "stat", seen |-> << >>, since |-> @.since]]
        /\ UNCHANGED late
  /\ UNCHANGED <<file, rotation, hiccups, cached, mods>>

(* What the files read so far hold, with this one: one rotation, or none. *)
Loads(got, version) ==
  IF version.whole /\ got \in {-1, version.rot} THEN version.rot ELSE 0

(* Reader q with so many files read. *)
Reading(q, done, got) ==
  [pc |-> "read", seen |-> q.seen, done |-> done, since |-> q.since, got |-> got]

(* os.ReadFile of the next file, once every mtime is known. *)
Read(r) ==
  LET q == rd[r]
  IN  /\ \/ /\ q.pc = "stat" /\ Len(q.seen) = Files
            /\ rd' = [rd EXCEPT ![r] = Reading(q, 1, Loads(-1, file[1]))]
         \/ /\ q.pc = "read" /\ q.done < Files
            /\ rd' = [rd EXCEPT ![r] =
                         Reading(q, q.done + 1, Loads(q.got, file[q.done + 1]))]
      /\ UNCHANGED <<file, rotation, hiccups, cached, mods, late>>

Parsing(r) == rd[r].pc = "read" /\ rd[r].done = Files

(* Mutant of Stamp: the mtimes the files have when the copy is stored. *)
StampNow(r) == file

(* The mtimes a copy is stored under: those read before its content. *)
Stamp(r) == rd[r].seen

(* Parsed: stored. *)
Store(r) ==
  /\ Parsing(r) /\ rd[r].got # 0
  /\ cached' = rd[r].got
  /\ mods' = Stamp(r)
  /\ Answer(r, cached', FALSE)
  /\ UNCHANGED <<file, rotation, hiccups>>

(* Torn or of two rotations: the last good copy is served. *)
KeepLastGood(r) ==
  /\ Parsing(r) /\ rd[r].got = 0
  /\ Answer(r, cached, TRUE)
  /\ UNCHANGED <<file, rotation, hiccups, cached, mods>>

(* A file system call is next: a stat or a read. *)
Calling(r) ==
  \/ rd[r].pc = "check" /\ Len(rd[r].seen) < Files
  \/ rd[r].pc = "stat"
  \/ rd[r].pc = "read" /\ ~Parsing(r)

(* Mutant of Hiccup: the mtimes are recorded before the content is read. *)
HiccupStamped(r) ==
  /\ Calling(r) /\ hiccups < MaxHiccups
  /\ hiccups' = hiccups + 1
  /\ mods' = IF rd[r].pc # "check" /\ Len(rd[r].seen) = Files THEN Stamp(r) ELSE mods
  /\ Answer(r, cached, TRUE)
  /\ UNCHANGED <<file, rotation, cached>>

(* A stat or a read fails: the last good copy is served. *)
Hiccup(r) ==
  /\ Calling(r) /\ hiccups < MaxHiccups
  /\ hiccups' = hiccups + 1
  /\ Answer(r, cached, TRUE)
  /\ UNCHANGED <<file, rotation, cached, mods>>

Advance(r) == Arrive(r) \/ Stat(r) \/ Judge(r) \/ Read(r) \/ Store(r) \/ KeepLastGood(r)

ReloadNext ==
  \/ Swap
  \/ \E f \in Place : Rewrite(f) \/ RewriteNext(f) \/ Complete(f)
  \/ \E r \in Reader : Advance(r) \/ Hiccup(r)

(* Goroutines run, requests keep arriving, and the operator finishes a      *)
(* rotation that was begun.                                                 *)
ReloadFairness ==
  /\ \A r \in Reader : WF_reloadVars(Advance(r))
  /\ \A f \in Place : WF_reloadVars(RewriteNext(f)) /\ WF_reloadVars(Complete(f))

ReloadSpec == ReloadInit /\ [][ReloadNext]_reloadVars /\ ReloadFairness

-----------------------------------------------------------------------------
(* Every variable has its type. *)
ReloadTypeOK ==
  LET Version == [rot: 1..rotation, whole: BOOLEAN]
  IN  /\ rotation \in 1..MaxRotation /\ hiccups \in 0..MaxHiccups
      /\ file \in [Place -> Version] /\ mods \in [Place -> Version]
      /\ cached \in 1..rotation
      /\ \A r \in Reader : rd[r].pc \in {"idle", "check", "stat", "read"}

(* The mtimes held with a copy never claim too much: when they match the    *)
(* files on disk, the copy is what is on disk.  It is why load reads the    *)
(* mtimes before the content, and why a reader that stores an old copy late *)
(* only causes one more reload.                                             *)
FreshMeansCurrent ==
  /\ ReloadTypeOK
  /\ Settled /\ mods = file => cached = rotation

(* "picked up on the next verify without a restart" (oauth.go:309), "takes  *)
(* effect on the next handshake" (tls.go): a reader that starts once a      *)
(* rotation is fully written is answered from it or from a later one,       *)
(* unless a file system call or a load failed on its way.                   *)
PickedUpNext == ~late

(* However reloads raced with the rotations, and whatever failed on the     *)
(* way, the copy in memory ends up being the last rotation written.         *)
Converges == <>[](cached = rotation)
=============================================================================
