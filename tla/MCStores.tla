------------------------------ MODULE MCStores ------------------------------
(* Two agents and two entries, one of them of before the state field, or a *)
(* file that is not named after its entry; two hosts and one user;         *)
(* five pull requests of two branches, and two pages of two at most; two   *)
(* signing keys.                                                           *)
EXTENDS Stores, TLC

CONSTANTS a1, a2, n1, n2, f1, f2, m1, m2, x1, x2, t1, t2, r1, r2, h1, h2, u1, b1, b2, k1, k2

MCAgent == {a1, a2}
MCStem == {n1, n2}
MCFact == {f1, f2}
MCFound ==
  {n1 :> [New(n1, f1, NoStem) EXCEPT !.state = V1] @@ n2 :> Missing,
   n1 :> New(n2, f1, NoStem) @@ n2 :> New(n2, f2, NoStem)}
MCMessage == {m1, m2}
MCHash == {x1, x2}
MCTitle == {t1, t2}
MCRef == {r1, r2}
MCHost == {h1, h2}
MCUser == {u1}
MCKid == {k1, k2}
MCBranchOf == <<b1, b1, b2, b2, b1>>
MCConfigs == {u1 :> "developer", u1 :> "unknown", Disabled}
=============================================================================
