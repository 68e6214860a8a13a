--------------------------- MODULE Confirmations ---------------------------
(***************************************************************************)
(* The confirmation ledger (otaman_core/confirmations.py): one line of     *)
(* five tab-separated fields per record, appended with one write.  A write *)
(* that a death, a full disk or a signal cuts short leaves a line without  *)
(* its end, which the next record continues.                               *)
(***************************************************************************)
EXTENDS Integers, FiniteSets, Sequences, SequencesExt

CONSTANTS Message, Hash, Other,  \* Other: the text of a field that two made
          MaxAppends             \* bound

N_FIELDS == 5

(* A line: how many fields it has, what the 2nd and 3rd say, whether it    *)
(* ends.                                                                   *)
LedgerLine == [fields : Nat \ {0}, id : Message \union {Other}, hash : Hash \union {Other},
               ended : BOOLEAN]

ASSUME LedgerAssumption == Other \notin Message \union Hash /\ MaxAppends \in Nat

VARIABLES
  ledger,     \* the lines
  confirmed,  \* the records whose append came back without an error
  appends,
  attempted,  \* history variable: the records that were to be appended
  cuts        \* history variable: how many writes were cut short

ledgerVars == <<ledger, confirmed, appends, attempted, cuts>>

LedgerInit ==
  ledger = <<>> /\ confirmed = {} /\ appends = 0 /\ attempted = {} /\ cuts = 0

(* The record up to the middle of its n-th field *)
Cut(id, hash, n) ==
  [fields |-> n, id |-> IF n > 2 THEN id ELSE Other, hash |-> IF n > 3 THEN hash ELSE Other,
   ended |-> FALSE]
SlipNoNewline(id, hash) == Cut(id, hash, N_FIELDS)
Whole(id, hash) == [Cut(id, hash, N_FIELDS) EXCEPT !.ended = TRUE]

(* What the reader makes of two writes on one line: the last field of the  *)
(* one and the first of the other are one field.                           *)
Joined(p, q) ==
  [fields |-> p.fields + q.fields - 1,
   id     |-> IF p.fields = 1 THEN q.id ELSE p.id,
   hash   |-> IF p.fields = 1 THEN q.hash ELSE IF p.fields > 3 THEN p.hash ELSE Other,
   ended  |-> q.ended]

LineOpen == ledger # <<>> /\ ~Last(ledger).ended

(* os.write at the end of the file (O_APPEND) *)
Written(text) ==
  IF LineOpen THEN Append(Front(ledger), Joined(Last(ledger), text)) ELSE Append(ledger, text)

(* append_confirmation.  The length that os.write returns is not looked at.*)
AppendConfirmation(id, hash) ==
  /\ appends < MaxAppends /\ appends' = appends + 1
  /\ attempted' = attempted \union {<<id, hash>>}
  /\ \/ /\ ledger' = Written(Whole(id, hash))
        /\ confirmed' = confirmed \union {<<id, hash>>}
        /\ UNCHANGED cuts
     \/ \E n \in 1..N_FIELDS :      \* cut short; told so only by a death
          /\ ledger' = Written(Cut(id, hash, n))
          /\ confirmed' \in {confirmed, confirmed \union {<<id, hash>>}}
          /\ cuts' = cuts + 1
     \/ UNCHANGED <<ledger, confirmed, cuts>>   \* LedgerError

LedgerNext == \E id \in Message, hash \in Hash : AppendConfirmation(id, hash)

Matches(line, id, hash) == line.fields = N_FIELDS /\ line.id = id /\ line.hash = hash

VerifyConfirmation(id, hash) == \E i \in DOMAIN ledger : Matches(ledger[i], id, hash)

----------------------------------------------------------------------------

LedgerTypeOK ==
  /\ ledger \in Seq(LedgerLine) /\ appends \in 0..MaxAppends /\ cuts \in 0..appends
  /\ confirmed \subseteq attempted /\ attempted \subseteq Message \X Hash

(* verify_confirmation (lines 130-154) over every way records can run      *)
(* together: a message and hash that verify were appended as one record.   *)
VerifiedWasAppended ==
  \A id \in Message, hash \in Hash :
    VerifyConfirmation(id, hash) => <<id, hash>> \in attempted

(* "Fail closed: no record, no bus file" (LedgerError): what is confirmed  *)
(* and does not verify is the record of a write that was cut short, or the *)
(* one after it; no cut costs more than these two.                         *)
CutsCostTwo ==
  Cardinality({c \in confirmed : ~VerifyConfirmation(c[1], c[2])}) <= 2 * cuts

(* The ledger of confirmations.py: what verifies was appended, and what    *)
(* was confirmed verifies, but for what a cut may cost.                    *)
LedgerTells == LedgerTypeOK /\ VerifiedWasAppended /\ CutsCostTwo
=============================================================================
