--------------------------- MODULE MCTaskComplete ---------------------------
(* A task and the task its id is a prefix of, as 1.7 and 1.7-bis. *)
EXTENDS TaskComplete, TLC

CONSTANTS base, bis, m1, m2

MCTask == {base, bis}
MCCovers == base :> {base, bis} @@ bis :> {bis}
Tasks(first, second) == base :> first @@ bis :> second
(* base is ticked and un-ticked, bis comes into the file later *)
ThreeDrafts == {Tasks("done", "none"), Tasks("open", "open"), Tasks("done", "open")}

MCMessage == {m1, m2}
Messages == Permutations(MCMessage)
=============================================================================
