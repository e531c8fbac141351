------------------------------ MODULE MCReadUrl ------------------------------
EXTENDS ReadUrl

CONSTANTS p1, p2, public, corp

MCTarget == {<<"site", p1>>, <<"wiki", p1>>, <<"wiki", p2>>, <<"proxy", p1>>}
MCProxy == <<"proxy", p1>>
MCDoc == {<<"site", p1>>}
MCAddress == {public, corp}
MCPublic == {public}
MCConfigs ==
  [proxy : {FALSE}, all : {FALSE}, hosts : {{<<"wiki", p1>>}}, ranges : {{<<corp, p2>>}}]
  \cup [proxy : {TRUE}, all : BOOLEAN, hosts : {{<<"wiki", p1>>}}, ranges : {{<<corp, p2>>}}]
(* Runes of one, two, three and four bytes. *)
MCTexts ==
  {[size |-> 0, starts |-> {}, cut |-> FALSE],
   [size |-> 5, starts |-> {0, 1, 3, 4}, cut |-> FALSE],
   [size |-> 7, starts |-> {0, 4}, cut |-> TRUE]}
MCStarts == {-1, 2, 5}
MCLengths == {0, 2}
=============================================================================
