--------------------------- MODULE MCSourceLedger ---------------------------
EXTENDS SourceLedger, TLC

CONSTANTS u1, u2, u3

(* u1 may redirect to u2; every URL may also answer for itself. *)
Destination == {<<u, u>> : u \in Url} \cup {<<u1, u2>>}

(* What toolReadURL and toolURLMetadata report (fetch.go): a failure        *)
(* carries no final URL, an image no counts, a window what it covered.      *)
MCCalls ==
       [url: Url, final: {NoUrl}, read: {"none"}, outcome: {"error"},
        chars: {0}, total: {0}]
  \cup UNION {[url: {d[1]}, final: {d[2]}, read: {"metadata", "image"},
               outcome: {"ok"}, chars: {0}, total: {0}] : d \in Destination}
  \cup UNION {[url: {d[1]}, final: {d[2]}, read: {"partial"},
               outcome: {"ok"}, chars: {1}, total: {1, 2}] : d \in Destination}
  \cup UNION {[url: {d[1]}, final: {d[2]}, read: {"full"},
               outcome: {"ok"}, chars: 1..2, total: {2}] : d \in Destination}
=============================================================================
