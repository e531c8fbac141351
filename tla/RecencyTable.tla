---------------------------- MODULE RecencyTable ----------------------------
(***************************************************************************)
(* What a caller's source ledger promises, without slots or an index: the   *)
(* Cap most recently touched sources, each with the deepest read reached    *)
(* and the number of fetches behind it since it was last admitted.          *)
(***************************************************************************)
EXTENDS Integers, FiniteSets

CONSTANTS Source, Cap, MaxFetches

VARIABLES
  clock,   \* fetches so far
  last,    \* held source -> the fetch that last touched it
  depth,   \* held source -> rank of the deepest read since it was admitted
  count    \* held source -> fetches since it was admitted

rvars == <<clock, last, depth, count>>

Held == DOMAIN last

Extend(f, k, v) == [x \in DOMAIN f \cup {k} |-> IF x = k THEN v ELSE f[x]]
Without(f, k)   == [x \in DOMAIN f \ {k} |-> f[x]]

RInit ==
  /\ clock = 0
  /\ last  = [k \in {} |-> 0]
  /\ depth = last
  /\ count = last

(* A fetch of a source already held keeps the deeper of the two reads. *)
Touch(k, d) ==
  /\ k \in Held
  /\ last'  = Extend(last, k, clock + 1)
  /\ depth' = IF d > depth[k] THEN Extend(depth, k, d) ELSE depth
  /\ count' = Extend(count, k, count[k] + 1)

Enter(k, d) ==
  /\ k \notin Held
  /\ Cardinality(Held) < Cap
  /\ last'  = Extend(last, k, clock + 1)
  /\ depth' = Extend(depth, k, d)
  /\ count' = Extend(count, k, 1)

(* At capacity the source touched longest ago makes room. *)
Displace(k, d) ==
  /\ k \notin Held
  /\ Cardinality(Held) = Cap
  /\ \E v \in Held :
       /\ \A x \in Held : last[v] <= last[x]
       /\ last'  = Extend(Without(last, v), k, clock + 1)
       /\ depth' = Extend(Without(depth, v), k, d)
       /\ count' = Extend(Without(count, v), k, 1)

RNext ==
  /\ clock < MaxFetches
  /\ clock' = clock + 1
  /\ \E k \in Source, d \in 1..4 : Touch(k, d) \/ Enter(k, d) \/ Displace(k, d)

RSpec == RInit /\ [][RNext]_rvars
=============================================================================
