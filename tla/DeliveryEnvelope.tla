-------------------------- MODULE DeliveryEnvelope --------------------------
(***************************************************************************)
(* The delivery authorization envelope (delivery_envelope.py): the actions *)
(* an accepted change may do without a prompt.  An item of it is           *)
(* [class, scoped, targets]; an envelope that is parsed is a function from *)
(* the classes it names to their scopes, Everywhere or a set of targets.   *)
(***************************************************************************)
EXTENDS Integers, SequencesExt, FiniteSetsExt

CONSTANTS
  ClassRegistry,  \* the registered classes and their markers, a function to "yes" or "limited"
  Floor,          \* the actions no envelope authorizes
  Target

Everywhere == {"everywhere"}
ASSUME RegistryAssumption ==
  /\ \A class \in DOMAIN ClassRegistry : ClassRegistry[class] \in {"yes", "limited"}
  /\ Everywhere \cap Target = {}

(* parse_envelope: a class named again merges its scopes, and one mention  *)
(* without a scope widens it to every target.                              *)
SlipLastItem(items) ==
  [class \in {items[i].class : i \in DOMAIN items} |->
     LET i == Max({j \in DOMAIN items : items[j].class = class})
     IN  IF items[i].scoped THEN items[i].targets ELSE Everywhere]

ParseEnvelope(items) ==
  [class \in {items[i].class : i \in DOMAIN items} |->
     LET ofClass == {i \in DOMAIN items : items[i].class = class}
     IN  IF \E i \in ofClass : ~items[i].scoped THEN Everywhere
         ELSE UNION {items[i].targets : i \in ofClass}]

(* validate_envelope: what the first refusal names.                        *)
EnvelopeError(items) ==
  LET named == {items[i].class : i \in DOMAIN items}
  IN  IF named \cap Floor # {} THEN "floor"
      ELSE IF ~(named \subseteq DOMAIN ClassRegistry) THEN "unknown class"
      ELSE "none"

(* proceeds_without_prompt; NoTarget asks without a target.                *)
NoTarget == "no target"
Proceeds(envelope, class, target) ==
  /\ class \notin Floor /\ class \in DOMAIN ClassRegistry
  /\ class \in DOMAIN envelope
  /\ ClassRegistry[class] = "yes"
  /\ envelope[class] = Everywhere \/ target \in envelope[class]
=============================================================================
