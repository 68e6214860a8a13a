--------------------------- MODULE MCCredentials ---------------------------
(* Two writers of the program's store; a key that every layer may have. *)
EXTENDS Credentials, TLC

CONSTANTS w1, w2, k1, k2, v1, v2, q, n1

MCWriter == {w1, w2}
MCKey == {k1, k2}
MCValue == {v1, v2, q}
MCBare == q :> v2
MCEnv == k1 :> Blank @@ k2 :> v2
MCKeyring == k1 :> v1 @@ k2 :> Blank

Has(k, v) == [key |-> k, value |-> v]
Note == Has(Comment, Blank)

(* The program's store: a key twice, a key without a value, only a legacy  *)
(* one, none.                                                              *)
Programs == {<<Note, Has(k1, v1), Has(k1, v2)>>, <<Has(k1, Blank), Has(k2, v1)>>, Absent}
Files(p, l, o) == "program" :> p @@ "legacy" :> l @@ "org" :> o @@ "tenant" :> <<Has(k1, v2)>>
MCDrafts ==
  {Files(p, l, o) :
     p \in Programs, l \in {Absent, <<Has(k2, v2)>>}, o \in {<<Has(k1, v1)>>, Absent}}

MCMixture == <<Has(k1, v2)>>

MCName == {n1}
MCInventories ==
  {"program" :> p @@ "org" :> [n \in Name |-> k2] @@ "tenant" :> Absent :
     p \in {Absent, Malformed, [n \in Name |-> Unlisted], [n \in Name |-> k1]}}

Writers == Permutations(MCWriter)
============================================================================
