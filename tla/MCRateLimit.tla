---------------------------- MODULE MCRateLimit ----------------------------
EXTENDS RateLimit, TLC

(* One address behind which a static token, a JWT user, the exempt monitor  *)
(* and a caller with no credential all arrive.                              *)
MCClient ==
  {[ip |-> "h", cred |-> "static", id |-> "ops"],
   [ip |-> "h", cred |-> "static", id |-> "mon"],
   [ip |-> "h", cred |-> "bearer", id |-> "ann"],
   [ip |-> "h", cred |-> "none",   id |-> ""]}

MCSymmetry == Permutations(Request)
=============================================================================
