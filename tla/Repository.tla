------------------------------- MODULE Repository -------------------------------
(***************************************************************************)
(* The git repository of one project, and those who run git in it at the   *)
(* same time: the workers of a bead execution, the approval of a summary,  *)
(* and the user's requests.  git.Service has a lock for each directory,    *)
(* but the bead handler makes a service of its own, so there are two locks *)
(* for one repository and the commands of a worker and of a request may    *)
(* follow each other in any order.                                         *)
(*                                                                         *)
(* A file is there or not; a worker writes the file that bears its name.   *)
(* A commit is the set of its files; the diff of a bead ends at the commit *)
(* whose hash its worker recorded.  Every git command may fail, for one    *)
(* when another holds index.lock.                                          *)
(***************************************************************************)
EXTENDS Naturals, Sequences, SequencesExt

CONSTANTS Bead,      \* beads in execution, each with a file of its name
          Summary,     \* docs/<version>/summary.md, version-meta.json, README.md
          Graph,       \* docs/<version>/build/beads-graph.json
          Approval,    \* the request that approves the summary
          User,        \* the user's git requests, one after the other
          MaxRequests  \* bound: how many of them

ASSUME RepositoryNames ==
  /\ MaxRequests \in Nat
  /\ {Summary, Graph} \cap Bead = {} /\ {Approval, User} \cap Bead = {} /\ Approval # User

Path == Bead \cup {Summary, Graph}
Actor == Bead \cup {Approval, User}

VARIABLES
  tree, index, \* files of the working tree, and those staged
  log,         \* commits of the branch, the last one HEAD
  turn,        \* where each actor is
  left,        \* paths the approval has still to add
  post,        \* the commit a worker recorded after its work
  requests,    \* requests of the user so far (bound)
  spoiled      \* history: actors a command failed for, or whose file was thrown away

repoVars == <<tree, index, log, turn, left, post, requests, spoiled>>

Turns == {"idle", "written", "add", "commit", "reset", "checkout", "clean", "hash", "push", "over"}

RepoTypeOK ==
  /\ {tree, index} \subseteq SUBSET Path
  /\ log \in Seq(SUBSET Path) /\ log # <<>>
  /\ turn \in [Actor -> Turns]
  /\ Range(left) \subseteq {Summary, Graph}
  /\ post \in [Bead -> SUBSET Path]
  /\ requests \in 0 .. MaxRequests
  /\ spoiled \subseteq Bead \cup {Approval}

RepoInit ==
  /\ tree = {} /\ index = {} /\ log = <<{}>>
  /\ turn = [a \in Actor |-> "idle"] /\ left = <<>>
  /\ post = [w \in Bead |-> {}]
  /\ requests = 0 /\ spoiled = {}

-----------------------------------------------------------------------------
(* git.Service: a method holds its service's lock for all its commands. *)

Service(a) == IF a \in Bead THEN Bead ELSE {Approval, User}
InMethod(a) == turn[a] \in {"add", "commit", "reset", "checkout", "clean"}
Lock(a) == \A b \in Service(a) : ~InMethod(b)

Goes(a, where) == turn' = [turn EXCEPT ![a] = where]
Recorded == UNCHANGED <<post, requests>>

(* What a method leads to, whatever it returned: errors are logged. *)
AfterMethod(a) == CASE a \in Bead -> "hash" [] a = Approval -> "push" [] a = User -> "idle"

Fails(a) ==
  /\ InMethod(a) /\ turn[a] # "checkout"
  /\ Goes(a, AfterMethod(a)) /\ spoiled' = spoiled \cup ({a} \ {User})
  /\ left' = IF a = Approval THEN <<>> ELSE left
  /\ Recorded /\ UNCHANGED <<tree, index, log>>

(* The workers whose file is gone, or no longer staged. *)
Thrown == spoiled \cup (Bead \cap ((tree \ tree') \cup (index \ index')))

(* Slip: git add -u, which stages the files git knows already. *)
AddTracked(a) ==
  /\ turn[a] = "add" /\ a # Approval
  /\ index' = tree \cap (index \cup Last(log)) /\ Goes(a, "commit")
  /\ Recorded /\ UNCHANGED <<tree, log, left, spoiled>>

(* AddAllAndCommit: git add -A *)
AddAll(a) ==
  /\ turn[a] = "add" /\ a # Approval
  /\ index' = tree /\ Goes(a, "commit")
  /\ Recorded /\ UNCHANGED <<tree, log, left, spoiled>>

(* AddAndCommit: the paths one by one; one that is not there is an error,  *)
(* and nothing is committed.                                               *)
AddPath ==
  /\ turn[Approval] = "add"
  /\ IF Head(left) \in tree \cup index
     THEN /\ index' = index \cup {Head(left)} /\ left' = Tail(left)
          /\ Goes(Approval, IF left' = <<>> THEN "commit" ELSE "add")
     ELSE /\ Goes(Approval, AfterMethod(Approval)) /\ left' = <<>> /\ UNCHANGED index
  /\ Recorded /\ UNCHANGED <<tree, log, spoiled>>

(* git commit; with nothing staged it is an error too. *)
CommitIndex(a) ==
  /\ turn[a] = "commit"
  /\ log' = IF index = Last(log) THEN log ELSE Append(log, index)
  /\ Goes(a, AfterMethod(a))
  /\ Recorded /\ UNCHANGED <<tree, index, left, spoiled>>

(* ResetHard: files not known to git stay. *)
ResetHard(n) ==
  /\ turn[User] = "reset"
  /\ log' = SubSeq(log, 1, n) /\ index' = log[n] /\ tree' = log[n] \cup (tree \ index)
  /\ spoiled' = Thrown
  /\ Goes(User, "idle") /\ Recorded /\ UNCHANGED left

(* DiscardChanges: unstage, whatever comes of it; restore; remove the rest.*)
Unstage ==
  /\ turn[User] = "checkout"
  /\ index' \in {index, Last(log)} /\ UNCHANGED tree
  /\ spoiled' = Thrown
  /\ Goes(User, "clean") /\ Recorded /\ UNCHANGED <<log, left>>

RestoreAndClean ==
  /\ turn[User] = "clean"
  /\ tree' = index /\ UNCHANGED index
  /\ spoiled' = Thrown
  /\ Goes(User, "idle") /\ Recorded /\ UNCHANGED <<log, left>>

-----------------------------------------------------------------------------
(* The workers of bead executions. *)

(* Claimed, executed and reviewed. *)
AgentWrites(w) ==
  /\ turn[w] = "idle"
  /\ tree' = tree \cup {w} /\ Goes(w, "written")
  /\ Recorded /\ UNCHANGED <<index, log, left, spoiled>>

(* The bead is closed, and its changes are committed. *)
CommitWork(w) ==
  /\ turn[w] = "written" /\ Lock(w)
  /\ Goes(w, "add")
  /\ Recorded /\ UNCHANGED <<tree, index, log, left, spoiled>>

(* CurrentHash, without the lock, whatever came of the commit. *)
RecordCommit(w) ==
  /\ turn[w] = "hash"
  /\ post' = [post EXCEPT ![w] = Last(log)] /\ Goes(w, "over")
  /\ UNCHANGED <<tree, index, log, left, requests, spoiled>>

-----------------------------------------------------------------------------
(* ApproveSummary: the documents, the bead graph among them if there is    *)
(* one; the commit of a fixed list of paths; the push.                     *)

WriteDocuments ==
  /\ turn[Approval] = "idle"
  /\ tree' \in {tree \cup {Summary}, tree \cup {Summary, Graph}}
  /\ Goes(Approval, "written")
  /\ Recorded /\ UNCHANGED <<index, log, left, spoiled>>

CommitDocuments ==
  /\ turn[Approval] = "written" /\ Lock(Approval)
  /\ left' = <<Summary, Graph>> /\ Goes(Approval, "add")
  /\ Recorded /\ UNCHANGED <<tree, index, log, spoiled>>

(* What the remote has is left out. *)
Push ==
  /\ turn[Approval] = "push" /\ Lock(Approval)
  /\ Goes(Approval, "over")
  /\ Recorded /\ UNCHANGED <<tree, index, log, left, spoiled>>

-----------------------------------------------------------------------------
(* The requests of handler/git.go that change the repository. *)

Ask(method) ==
  /\ turn[User] = "idle" /\ Lock(User) /\ requests < MaxRequests
  /\ requests' = requests + 1 /\ Goes(User, method)
  /\ UNCHANGED <<tree, index, log, left, post, spoiled>>

AskCommit == Ask("add")
AskReset == Ask("reset")
AskDiscard == Ask("checkout")

Method(a) ==
  \/ AddAll(a) \/ CommitIndex(a) \/ Fails(a)
  \/ a = Approval /\ AddPath
  \/ a = User /\ ((\E n \in DOMAIN log : ResetHard(n)) \/ Unstage \/ RestoreAndClean)

Work(w) == AgentWrites(w) \/ CommitWork(w) \/ RecordCommit(w)
Approve == WriteDocuments \/ CommitDocuments \/ Push
Requested == AskCommit \/ AskReset \/ AskDiscard

RepoNext ==
  \/ \E a \in Actor : Method(a)
  \/ \E w \in Bead : Work(w)
  \/ Approve \/ Requested

(* Goroutines are scheduled and git commands end. *)
RepoFairness ==
  /\ \A a \in Actor : WF_repoVars(Method(a))
  /\ \A w \in Bead : WF_repoVars(Work(w))
  /\ WF_repoVars(Approve)

RepoSpec == RepoInit /\ [][RepoNext]_repoVars /\ RepoFairness

-----------------------------------------------------------------------------
(* The diff of a bead is shown up to the hash recorded when it was closed. *)
(* Although workers stage and commit each other's files, and requests run  *)
(* between their commands under another lock, that commit holds what the   *)
(* bead wrote, unless git failed for it or the user threw the file away.   *)
BeadDiffHasItsWork ==
  \A w \in Bead \ spoiled : turn[w] = "over" => w \in post[w]

(* The approval "builds the list of paths to commit, including newly       *)
(* archived files": when git did not fail it, the approved summary is      *)
(* committed.                                                              *)
ApprovalIsCommitted ==
  [][turn[Approval] \in {"add", "commit"} /\ turn'[Approval] = "push" /\ Approval \notin spoiled'
       => Summary \in Last(log')]_repoVars

(* Nobody is left waiting for a lock. *)
RepositoryOver == \A a \in Actor : ~InMethod(a) /\ (a # User => turn[a] = "over")
=============================================================================
