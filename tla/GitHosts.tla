------------------------------ MODULE GitHosts ------------------------------
(***************************************************************************)
(* The pull requests that the adapters of git_host_<provider>.py read,     *)
(* page by page, from a host that goes on opening and closing them.  A     *)
(* host numbers them as they are opened, and lists them newest first to an *)
(* adapter that asks for it; to the others it promises no order, not even  *)
(* the same one for the next page.  The place it goes on from, a link or a *)
(* token, is taken for a page number, which promises least.                *)
(***************************************************************************)
EXTENDS Integers, SequencesExt, FiniteSetsExt

CONSTANTS
  MaxPrs,    \* bound of the pull requests
  BranchOf,  \* [1..MaxPrs -> the branch a pull request is from]
  Forked,    \* those that come from a fork
  PerPage,   \* per_page, pagelen, limit, $top
  MaxPages   \* the cap of _paginate

ASSUME HostAssumption ==
  /\ MaxPrs \in Nat /\ PerPage \in Nat \ {0} /\ MaxPages \in Nat \ {0}
  /\ Forked \subseteq 1..MaxPrs /\ DOMAIN BranchOf = 1..MaxPrs

VARIABLES
  provider,
  created,   \* how many pull requests were ever opened
  prs,       \* those open now
  request,   \* [page, open]: the next request, and whether it filters by state
  reply,     \* "none", "reading", "listed" or "raised": list_open_prs
  items,     \* what the pages read so far held
  were,      \* history variable: open at some moment of the call
  stood,     \* history variable: open at every moment of the call
  shrunk,    \* history variable: was one closed during the call
  cut        \* history variable: did the cap end it before the host did

hostsVars == <<provider, created, prs, request, reply, items, were, stood, shrunk, cut>>

Providers == {"github", "gitlab", "gitea", "bitbucket", "azure"}

HostsInit ==
  /\ provider \in Providers
  /\ created = 0 /\ prs = {}
  /\ request = [page |-> 1, open |-> TRUE] /\ reply = "none"
  /\ items = <<>>
  /\ were = {} /\ stood = {} /\ shrunk = FALSE /\ cut = FALSE

-----------------------------------------------------------------------------
(* The host.                                                               *)
NewestFirst(set) ==
  [i \in 1..Cardinality(set) |-> CHOOSE n \in set : Cardinality({m \in set : m >= n}) = i]
Matching(req) == NewestFirst(IF req.open THEN prs ELSE 1..created)
PageOf(req) ==
  LET all == Matching(req)
  IN  SubSeq(all, (req.page - 1) * PerPage + 1, Min({req.page * PerPage, Len(all)}))
HasNext(req) == Len(Matching(req)) > req.page * PerPage

(* The sort parameters of list_open_prs: Bitbucket's and Azure's requests  *)
(* have none.  How such a page is ordered in itself nobody looks at.       *)
AskNewestFirst == {"github", "gitlab", "gitea"}
Pages(req) ==
  IF provider \in AskNewestFirst THEN {PageOf(req)}
  ELSE {NewestFirst(set) : set \in kSubset(Len(PageOf(req)), ToSet(Matching(req)))}

OpenPr ==
  /\ created < MaxPrs
  /\ created' = created + 1
  /\ prs' = prs \cup {created'}
  /\ were' = were \cup {created'}
  /\ UNCHANGED <<provider, request, reply, items, stood, shrunk, cut>>

ClosePr ==
  \E n \in prs :
    /\ prs' = prs \ {n}
    /\ stood' = stood \ {n}
    /\ shrunk' = TRUE
    /\ UNCHANGED <<provider, created, request, reply, items, were, cut>>

-----------------------------------------------------------------------------
(* _paginate: a link names the whole next request, as does the body of     *)
(* Bitbucket; to the token of Azure the adapter adds its own parameters.   *)
FollowLink(req) == [req EXCEPT !.page = @ + 1]
FollowBody(req) == [req EXCEPT !.page = @ + 1]
FollowToken(req) == [page |-> req.page + 1, open |-> TRUE]

Follow(req) ==
  CASE provider \in {"github", "gitlab", "gitea"} -> FollowLink(req)
    [] provider = "bitbucket" -> FollowBody(req)
    [] provider = "azure" -> FollowToken(req)

ListOpenPrs ==
  /\ reply # "reading"
  /\ request' = [page |-> 1, open |-> TRUE]
  /\ reply' = "reading" /\ items' = <<>>
  /\ were' = prs /\ stood' = prs /\ shrunk' = FALSE /\ cut' = FALSE
  /\ UNCHANGED <<provider, created, prs>>

SlipOnePage ==
  /\ reply = "reading"
  /\ \E page \in Pages(request) : items' = items \o page
  /\ reply' = "listed"
  /\ cut' = (HasNext(request) /\ request.page = MaxPages)
  /\ UNCHANGED <<provider, created, prs, request, were, stood, shrunk>>

ReadPage ==
  /\ reply = "reading"
  /\ \E page \in Pages(request) : items' = items \o page
  /\ IF HasNext(request) /\ request.page < MaxPages
     THEN request' = Follow(request) /\ UNCHANGED reply
     ELSE reply' = "listed" /\ UNCHANGED request
  /\ cut' = (HasNext(request) /\ request.page = MaxPages)
  /\ UNCHANGED <<provider, created, prs, were, stood, shrunk>>

(* Any status but the one expected, a body that is no JSON, a host out of  *)
(* reach: the call raises GitHostError and keeps nothing.                  *)
RaisesGitHostError ==
  /\ reply = "reading"
  /\ reply' = "raised" /\ items' = <<>>
  /\ UNCHANGED <<provider, created, prs, request, were, stood, shrunk, cut>>

HostsNext == OpenPr \/ ClosePr \/ ListOpenPrs \/ ReadPage \/ RaisesGitHostError

-----------------------------------------------------------------------------
(* get_pr_for_branch of each adapter: the set of its possible answers,     *)
(* empty for None.                                                         *)
FromBranch(b) == {n \in prs : BranchOf[n] = b}
Newest(set) == IF set = {} THEN {} ELSE {Max(set)}

GitHubPrForBranch(b) == Newest(FromBranch(b) \ Forked)
GitLabPrForBranch(b) == Newest(FromBranch(b))
BitbucketPrForBranch(b) == Newest(FromBranch(b))
AzurePrForBranch(b) == FromBranch(b)
GiteaPrForBranch(b) ==
  Newest(FromBranch(b) \intersect ToSet(PageOf([page |-> 1, open |-> TRUE])))

-----------------------------------------------------------------------------
(* The types of the variables of GitHosts.                                 *)
HostsTypeOK ==
  /\ provider \in Providers /\ created \in 0..MaxPrs
  /\ prs \subseteq 1..created
  /\ request \in [page : 1..MaxPages, open : BOOLEAN]
  /\ reply \in {"none", "reading", "listed", "raised"}
  /\ items \in Seq(1..created)
  /\ were \subseteq 1..created /\ stood \subseteq were /\ {shrunk, cut} \subseteq BOOLEAN

(* list_open_prs: however many pages it takes and whatever way they name   *)
(* each other, it lists nothing that was not open during the call.         *)
ListedWereOpen == reply = "listed" => ToSet(items) \subseteq were

(* list_open_prs: unless one is closed meanwhile, or the cap of _paginate  *)
(* is reached, an adapter that asks for the newest first lists all that    *)
(* were open throughout, though a new one moves the others from page to    *)
(* page.  One that asks for no order does so as long as one page holds     *)
(* them.                                                                   *)
Complete == provider \in AskNewestFirst \/ request.page = 1

NoneMissed ==
  reply = "listed" /\ ~shrunk /\ ~cut /\ Complete => stood \subseteq ToSet(items)

(* "Provider-agnostic PR read ... surface" (GitHostAdapter): while no fork *)
(* uses the branch's name and a page holds all that is open, each adapter  *)
(* finds the same pull request for a branch, Azure at least one of them.   *)
AdaptersAgree ==
  \A b \in {BranchOf[n] : n \in 1..MaxPrs} :
    FromBranch(b) \intersect Forked = {} /\ Cardinality(prs) <= PerPage =>
      /\ GitLabPrForBranch(b) = GitHubPrForBranch(b)
      /\ BitbucketPrForBranch(b) = GitHubPrForBranch(b)
      /\ GiteaPrForBranch(b) = GitHubPrForBranch(b)
      /\ GitHubPrForBranch(b) \subseteq AzurePrForBranch(b)

(* What the five adapters of GitHostAdapter (git_host.py) read of a host   *)
(* that changes meanwhile is what is there.                                *)
ReadsAreTrue == HostsTypeOK /\ ListedWereOpen /\ NoneMissed /\ AdaptersAgree
=============================================================================
