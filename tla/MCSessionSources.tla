--------------------------- MODULE MCSessionSources ---------------------------
EXTENDS SessionSources, TLC

CONSTANTS u1, u2

MCSpelling == u1 :> <<"a">> @@ u2 :> <<"a", "?", "b", "&", "c">>

MCCalls == [url: Url, final: Url, read: {"metadata"}, outcome: {"ok"}, chars: {0}, total: {0}]
=============================================================================
