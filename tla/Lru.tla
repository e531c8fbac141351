-------------------------------- MODULE Lru --------------------------------
(***************************************************************************)
(* hashicorp/golang-lru/v2, as the relay uses it: a cache is the sequence    *)
(* of its [key, val] pairs from the least to the most recently used.  The    *)
(* library locks every call, so each operator stands for one atomic step.    *)
(***************************************************************************)
EXTENDS Integers, SequencesExt

LruEmpty == << >>

LruHas(l, k) == \E i \in DOMAIN l : l[i].key = k

(* A key is in at most one pair. *)
LruPlace(l, k) == CHOOSE i \in DOMAIN l : l[i].key = k

LruValue(l, k) == l[LruPlace(l, k)].val

(* Remove: absent keys are left alone. *)
LruRemove(l, k) == IF LruHas(l, k) THEN RemoveAt(l, LruPlace(l, k)) ELSE l

(* Get promotes the key to most recently used; a miss changes nothing. *)
LruGet(l, k) ==
  IF LruHas(l, k)
  THEN Append(LruRemove(l, k), [key |-> k, val |-> LruValue(l, k)])
  ELSE l

(* Add writes and promotes; past size it drops the least recently used. *)
LruAdd(l, k, v, size) ==
  LET added == Append(LruRemove(l, k), [key |-> k, val |-> v])
  IN  IF Len(added) > size THEN Tail(added) ELSE added

(* Whether that Add evicts, and fires the eviction callback. *)
LruEvicts(l, k, size) == ~LruHas(l, k) /\ Len(l) >= size

(* PeekOrAdd: keeps (and does not promote) a value already there. *)
LruPeekOrAdd(l, k, v, size) == IF LruHas(l, k) THEN l ELSE LruAdd(l, k, v, size)
=============================================================================
