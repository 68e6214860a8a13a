------------------------- MODULE MCConnectionCheck -------------------------
(* Two sessions in two programs: a target whose Host the config has, one   *)
(* whose Host dangles, and a network connection.                           *)
EXTENDS ConnectionCheck, TLC

CONSTANTS s1, s2, good, lost, web, hostA, hostB, hostC, key1, key2, p1, p2

MCSession == {s1, s2}
MCConn == {good, lost, web}
MCSshTypes == {good, lost}
MCAlias == {hostA, hostB, hostC}
MCSshRef == good :> hostA @@ lost :> hostC
MCKey == {key1, key2}
MCSshConfig == <<[names |-> {hostA}], [names |-> {hostB}], [key |-> key1],
                 [names |-> {hostA, hostB}], [key |-> key2]>>
MCProgram == {p1, p2}
MCProgramOf == s1 :> p1 @@ s2 :> p2
============================================================================
