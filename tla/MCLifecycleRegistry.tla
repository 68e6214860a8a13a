------------------------- MODULE MCLifecycleRegistry -------------------------
(* Instances of LifecycleRegistry for TLC. *)
EXTENDS LifecycleRegistry, TLC

CONSTANTS w1, w2, s1, p1, p2

TwoWriters == {w1, w2}
OneService == {s1}
NoService == {}
TwoPrograms == {p1, p2}
TwoStates == {"active", "suspended"}

(* writers and programs are interchangeable, and no property is a liveness *)
(* property                                                                *)
Symmetry == Permutations(Writer) \cup Permutations(Program)
==============================================================================
