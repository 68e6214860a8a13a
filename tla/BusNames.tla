------------------------------ MODULE BusNames ------------------------------
(***************************************************************************)
(* The names of the bus: the stem of a message's file (bus_stem.py), whose *)
(* parts are sequences of words, each with the character that joins it to  *)
(* the word before, and the addresses of its ends (bus/uri.py).            *)
(***************************************************************************)
EXTENDS Integers, SequencesExt, FiniteSetsExt

None == <<>>

Word(word) == [by |-> "-", word |-> word]
ToWord == Word("to")
Slashless(name) == \A i \in DOMAIN name : name[i].by = "-"

(* _safe: a "/" becomes "-".  The slug is used as it is.                   *)
Safe(name) == [i \in DOMAIN name |-> Word(name[i].word)]
BuildStem(sender, recipient, slug) == Safe(sender) \o <<ToWord>> \o Safe(recipient) \o slug

(* _split_recipient: the longest known name the tail is or begins with.    *)
SlipShortest(tail, known) ==
  LET fits == {name \in known : IsPrefix(name, tail)}
      best == CHOOSE name \in fits : \A n \in fits : Len(name) <= Len(n)
  IN  IF fits = {} THEN [recipient |-> None, slug |-> None]
      ELSE [recipient |-> best, slug |-> SubSeq(tail, Len(best) + 1, Len(tail))]

SplitRecipient(tail, known) ==
  LET fits == {name \in known : IsPrefix(name, tail)}
      best == CHOOSE name \in fits : \A n \in fits : Len(n) <= Len(name)
  IN  IF fits = {} THEN [recipient |-> None, slug |-> None]
      ELSE [recipient |-> best, slug |-> SubSeq(tail, Len(best) + 1, Len(tail))]

(* parse_stem: the sender ends at the first "-to-".                        *)
ParseStem(stem, known) ==
  LET routes == {i \in 2..(Len(stem) - 1) : stem[i] = ToWord}
      tail == SubSeq(stem, Min(routes) + 1, Len(stem))
      split == SplitRecipient(tail, known)
  IN  IF routes = {} THEN [sender |-> None, recipient |-> None, slug |-> None]
      ELSE [sender |-> SubSeq(stem, 1, Min(routes) - 1),
            recipient |-> split.recipient, slug |-> split.slug]

-----------------------------------------------------------------------------
(* An address as it is written: "bare" has its agent, "short" its agent    *)
(* and program, "full" all three; a segment that is no slug is in BadSlug. *)
BadSlug == {"", "Bad!"}
BusUriError == [org |-> "", program |-> "", agent |-> ""]

ParseAddress(raw, local) ==
  LET uri == [org |-> IF raw.form = "full" THEN raw.org ELSE local.org,
              program |-> IF raw.form = "bare" THEN local.program ELSE raw.program,
              agent |-> raw.agent]
  IN  IF \E part \in DOMAIN uri : uri[part] \in BadSlug THEN BusUriError ELSE uri

Written(uri) == [form |-> "full", org |-> uri.org, program |-> uri.program, agent |-> uri.agent]
IsCrossOrg(uri, local) == uri.org # local.org
IsCrossProgram(uri, local) == uri.org # local.org \/ uri.program # local.program
=============================================================================
