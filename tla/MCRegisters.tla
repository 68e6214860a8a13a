----------------------------- MODULE MCRegisters -----------------------------
(* Two sessions on a register of one outcome with one field. *)
EXTENDS Registers, TLC

CONSTANTS s1, s2, id, field, v1, v2

Good == [by |-> "human", via |-> "hat", dated |-> TRUE, hat |-> "named"]

Ask(action, to, new, approval) ==
  [action |-> action, to |-> to, fields |-> [f \in Field |-> new], approval |-> approval]

MCSession == {s1, s2}
MCId == {id}
MCStatus == {"Drafting", "Done"}
MCBorn == {"Drafting"}
MCField == {field}
MCValue == {v1, v2}

(* choose, with and without its approval; a promotion that sets the field  *)
(* too                                                                     *)
MCCall ==
  {Ask("choose", Unset, v1, Good), Ask("choose", Unset, v1, NoApproval),
   Ask("promote", "Done", v2, NoApproval)}

Sessions == Permutations(MCSession)

==============================================================================
