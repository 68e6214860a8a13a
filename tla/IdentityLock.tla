---------------------------- MODULE IdentityLock ----------------------------
(***************************************************************************)
(* What the acting lock promises, without files or descriptors: "one       *)
(* acting session per resolved agent identity".  A session acts from the   *)
(* moment acquire() hands it a lock until it gives the lock up or dies;    *)
(* nobody takes it from it, and a successor starts only after it stopped.  *)
(***************************************************************************)
CONSTANT Proc

VARIABLE actors    \* the processes now acting as the identity

Init == actors = {}

(* acquire() returns a held lock *)
Take(p) ==
  /\ actors = {}
  /\ actors' = {p}

(* release(), or process exit *)
Leave(p) ==
  /\ p \in actors
  /\ actors' = actors \ {p}

Next == \E p \in Proc : Take(p) \/ Leave(p)

Spec == Init /\ [][Next]_actors
=============================================================================
