--------------------------- MODULE MCCallerLedgers ---------------------------
EXTENDS CallerLedgers, TLC

(* Two tenants whose identities and sessions spell the same when joined,    *)
(* and a second conversation of the first, whose header is too long.        *)
MCCaller ==
  {[identity |-> <<"a">>, sdk |-> <<"b", "|", "c">>, header |-> <<"b", "|", "c">>],
   [identity |-> <<"a", "|", "b">>, sdk |-> <<"c">>, header |-> <<"c">>],
   [identity |-> <<"a">>, sdk |-> <<"c">>, header |-> <<"b", "|", "c", "d">>]}

MCCalls == {[url |-> u, final |-> u, read |-> "full", outcome |-> "ok",
             chars |-> 1, total |-> 1] : u \in Url}
=============================================================================
