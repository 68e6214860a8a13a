----------------------------- MODULE Changelog ------------------------------
(***************************************************************************)
(* The changelog fragments: what a pull request owes at merge              *)
(* (changelog_fragment.py), and the manifests of what releases consumed    *)
(* (changelog_manifest.py).                                                *)
(*                                                                         *)
(* A changed path is [area, doc, parts]: area is "github", "docs",         *)
(* "tests", "pile" or "src" for a path of that directory and "root" for    *)
(* a file at the root, doc says that the path begins with the name of a    *)
(* conventional document (README.md, but notices/app.py as well), and      *)
(* parts are those of the file's name, a first "" for a leading dot.       *)
(***************************************************************************)
EXTENDS Integers, SequencesExt, FiniteSetsExt

CONSTANT Categories

IsShippedPath(path) ==
  /\ path.area \notin {"pile", "github", "docs", "tests"}
  /\ ~path.doc /\ ~(path.area = "root" /\ path.parts[1] = "")
  /\ Last(path.parts) # "md"

IsFragment(path) ==
  LET n == Len(path.parts)
  IN  path.area = "pile" /\ n >= 3 /\ path.parts[n] = "md" /\ path.parts[n - 1] \in Categories

Shipped(paths) == {p \in paths : IsShippedPath(p)}
Fragments(paths) == {p \in paths : IsFragment(p)}

(* pr is "" when the number is not given, and exempt says that the body    *)
(* carries the exemption marker.                                           *)
TouchesCode(paths) == Shipped(paths) # {}

Evaluate(paths, required, pr, exempt) ==
  LET found == Fragments(paths)
      own == {p \in found : p.parts[1] = pr}
      owes == required /\ TouchesCode(paths)
  IN  [required |-> owes,
       ok |-> ~owes \/ found # {} \/ exempt,
       exempted |-> owes /\ found = {} /\ exempt,
       fragments |-> IF ~required THEN {}
                     ELSE IF owes /\ pr # "" /\ own # {} THEN own ELSE found]

(* main: the diff or the file of the body cannot be read, or the verdict.  *)
ExitCode(readable, verdict) == IF ~readable THEN 2 ELSE IF verdict.ok THEN 0 ELSE 3

-----------------------------------------------------------------------------
(* A fragment of a pile is [repo, name, content]; its record keeps the     *)
(* hash of the content, and a manifest is a release and its records.       *)
RecordFragment(f) == [repo |-> f.repo, filename |-> f.name, content_hash |-> f.content]

BuildManifest(release, records) == [release |-> release, fragments |-> records]

Keys(manifest) == manifest.fragments

(* to_dict groups the entries by repo, from_dict reads them back and skips *)
(* an entry that has no filename.                                          *)
ManifestToDict(manifest) ==
  [release |-> manifest.release,
   fragments |-> [repo \in {f.repo : f \in Keys(manifest)} |->
                    {[filename |-> f.filename, sha256 |-> f.content_hash] :
                       f \in {g \in Keys(manifest) : g.repo = repo}}]]

ManifestFromDict(data) ==
  BuildManifest(data.release,
    UNION {{[repo |-> repo, filename |-> e.filename, content_hash |-> e.sha256] :
              e \in {x \in data.fragments[repo] : x.filename # ""}} :
             repo \in DOMAIN data.fragments})

ConsumedIndex(manifests) == UNION {Keys(m) : m \in ToSet(manifests)}

SlipByName(fragment, index) ==
  \E f \in index : f.repo = fragment.repo /\ f.filename = fragment.filename

IsConsumed(fragment, index) == fragment \in index

-----------------------------------------------------------------------------
(* The release assembler, outside of this repository: a cut                *)
(* skips what the recorded manifests list.                                 *)
Cut(release, pile, recorded) ==
  LET index == ConsumedIndex([i \in DOMAIN recorded |-> ManifestFromDict(recorded[i])])
      new == {r \in {RecordFragment(f) : f \in pile} : ~IsConsumed(r, index)}
  IN  ManifestToDict(BuildManifest(release, new))
=============================================================================
