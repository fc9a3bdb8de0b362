------------------------------- MODULE Pipeline -------------------------------
(***************************************************************************)
(* One project's way through the stages (backend/internal/handler:         *)
(* pipeline.go, enhance.go, reset.go, project.go, chat.go), the registry   *)
(* record it is stored in (repository/fs/registry.go) and the files the    *)
(* stages produce (repository/fs/artifact.go).                             *)
(*                                                                         *)
(* Every operation reads a copy of the record, works on it, and writes the *)
(* whole copy back with Update; only an approval writes with UpdateFunc,   *)
(* under the registry's lock.  A file is there or it is not.  Fields that   *)
(* are only carried along (the autonomous flag, token counts, commands)    *)
(* are left out: what matters here is the rest of the copy they are        *)
(* written with.  Git requests that change the work tree by themselves     *)
(* (discard, pull) are not operations of this module.                      *)
(***************************************************************************)
EXTENDS Naturals, Sequences

CONSTANTS Operation,  \* requests, driver calls and agent runs in flight
          StageOrder, \* the stages, the last one being the complete stage
          MaxVersion, \* bound: versions, counted from 1
          MaxRequests \* bound: operations begun, approvals not counted

ASSUME StagesAssumption ==
  /\ StageOrder \in Seq({StageOrder[i] : i \in DOMAIN StageOrder})
  /\ Len(StageOrder) > 1
  /\ \A i, j \in DOMAIN StageOrder : StageOrder[i] = StageOrder[j] => i = j
ASSUME BoundsAssumption == MaxVersion \in Nat \ {0} /\ MaxRequests \in Nat

Stage    == {StageOrder[i] : i \in DOMAIN StageOrder}
Complete == StageOrder[Len(StageOrder)]
Version  == 1 .. MaxVersion

Index(s) == CHOOSE i \in DOMAIN StageOrder : StageOrder[i] = s

\* Mutant: off by one at the end of the order.
NextStageShort(s) ==
  IF Index(s) + 1 < Len(StageOrder) THEN StageOrder[Index(s) + 1] ELSE "unknown"

NextStage(s) == StageOrder[Index(s) + 1] \* of a stage that is not complete

VARIABLES
  record,     \* the project's entry in registry.json
  working,    \* version -> stages with an artifact in the data directory
  docs,       \* version -> stages with an artifact under docs/
  summaries,  \* versions with a summary.md in the data directory
  published,  \* versions with a summary.md under docs/
  operation,  \* what each operation holds and where it stands
  summary,    \* the summary run
  requests,   \* operations begun, approvals not counted
  crossed,    \* history: a reset or an enhancement overlapped something else,
              \* or a reset failed half-way
  skipped     \* history: the stages of this version a reset to a later stage
              \* went past, until a reset to an earlier one

files == <<working, docs, summaries, published>>
vars  == <<record, files, operation, summary, requests, crossed, skipped>>

Project == [stage : Stage, version : Version,
            summaryReady : BOOLEAN, summaryApproved : BOOLEAN]

Kinds == {"approve", "patch", "reset", "regenerate", "publish", "enhance", "run"}
Steps == {"read", "ready", "stored", "promoted"}
Operations == [kind : Kinds, at : Steps, project : Project, stage : Stage]

Idle  == [kind |-> "none"]
NoRun == [at |-> "none"]

Artifact(v, s) == s \in working[v] \cup docs[v] \* ReadWithFallback finds one

Init ==
  /\ record = [stage |-> StageOrder[1], version |-> 1,
               summaryReady |-> FALSE, summaryApproved |-> FALSE]
  /\ working = [v \in Version |-> {}]
  /\ docs = [v \in Version |-> {}]
  /\ summaries = {} /\ published = {}
  /\ operation = [o \in Operation |-> Idle]
  /\ summary = NoRun
  /\ requests = 0
  /\ crossed = FALSE
  /\ skipped = {}

-----------------------------------------------------------------------------
(* Steps operations share *)

InFlight(k) == \E o \in Operation : operation[o].kind = k

\* registry.Get: the copy an operation works on; s is its stage argument.
Begin(o, k, s) ==
  /\ operation[o] = Idle
  /\ \/ k = "approve" /\ UNCHANGED requests
     \/ k # "approve" /\ requests < MaxRequests /\ requests' = requests + 1
  /\ operation' = [operation EXCEPT ![o] =
       [kind |-> k, at |-> "read", project |-> record, stage |-> s]]
  /\ crossed' = \/ crossed
                \/ InFlight("reset") \/ InFlight("enhance")
                \/ /\ k \in {"reset", "enhance"}
                   /\ summary # NoRun \/ \E x \in Operation : operation[x] # Idle
  /\ UNCHANGED <<record, files, summary, skipped>>

At(o, k, step) == operation[o].kind = k /\ operation[o].at = step

Advance(o, step) == operation' = [operation EXCEPT ![o].at = step]
End(o) == operation' = [operation EXCEPT ![o] = Idle]

\* registry.Update: the whole copy.
Update(copy) == record' = copy

\* An error: the handler answers and returns.
Fail(o) ==
  /\ operation[o] # Idle
  /\ End(o)
  /\ crossed' = (crossed \/ At(o, "reset", "ready"))
  /\ UNCHANGED <<record, files, summary, requests, skipped>>

\* startSummaryRun: there is at most one; it keeps the caller's copy.
StartSummary(copy) ==
  summary' = IF summary = NoRun THEN [at |-> "asking", project |-> copy] ELSE summary

-----------------------------------------------------------------------------
(* Approving a stage: ApproveInternal *)

\* There is an artifact, the beads are closed, and there is a next stage.
ApproveCheck(o) ==
  LET p == operation[o].project IN
  /\ At(o, "approve", "read")
  /\ p.stage # Complete
  /\ Artifact(p.version, p.stage)
  /\ Advance(o, "ready")
  /\ UNCHANGED <<record, files, summary, requests, crossed, skipped>>

\* Mutant: the next stage is that of the record found, not of the stage checked.
StoreNextOfFound(o) ==
  LET next == IF record.stage = Complete THEN Complete ELSE NextStage(record.stage)
      stored == [record EXCEPT !.stage = next,
                   !.summaryReady = record.summaryReady /\ next # Complete] IN
  /\ At(o, "approve", "ready")
  /\ record' = stored
  /\ operation' = [operation EXCEPT
       ![o].at = "stored", ![o].stage = operation[o].project.stage, ![o].project = stored]
  /\ UNCHANGED <<files, summary, requests, crossed, skipped>>

\* UpdateFunc: only the stage (and summaryReady) of the record found changes.
ApproveStore(o) ==
  LET next == NextStage(operation[o].project.stage)
      stored == [record EXCEPT !.stage = next,
                   !.summaryReady = record.summaryReady /\ next # Complete] IN
  /\ At(o, "approve", "ready")
  /\ record' = stored
  /\ operation' = [operation EXCEPT
       ![o].at = "stored", ![o].stage = operation[o].project.stage, ![o].project = stored]
  /\ UNCHANGED <<files, summary, requests, crossed, skipped>>

\* The artifact moves from the data directory to docs/, if it can be written.
\* Whether its removal here succeeds makes no difference: nothing removes it
\* from docs/, and it is read from either place.
Promote(o) ==
  LET v == operation[o].project.version  s == operation[o].stage IN
  /\ At(o, "approve", "stored")
  /\ \/ /\ s \in working[v]
        /\ docs' = [docs EXCEPT ![v] = @ \cup {s}]
        /\ working' = [working EXCEPT ![v] = @ \ {s}]
     \/ UNCHANGED <<docs, working>>
  /\ Advance(o, "promoted")
  /\ UNCHANGED <<record, summaries, published, summary, requests, crossed, skipped>>

ApproveEnd(o) ==
  /\ At(o, "approve", "promoted")
  /\ \/ NextStage(operation[o].stage) = Complete /\ StartSummary(operation[o].project)
     \/ NextStage(operation[o].stage) # Complete /\ UNCHANGED summary
  /\ End(o)
  /\ UNCHANGED <<record, files, requests, crossed, skipped>>

-----------------------------------------------------------------------------
(* The other operations on the record *)

\* PATCH of the autonomous flag: the rest of the record is as it was read.
PatchStore(o) ==
  /\ At(o, "patch", "read")
  /\ Update(operation[o].project)
  /\ End(o)
  /\ UNCHANGED <<files, summary, requests, crossed, skipped>>

\* Reset: the artifacts of the target stage and of all later ones go first.
ResetFiles(o) ==
  LET v == operation[o].project.version IN
  /\ At(o, "reset", "read")
  /\ working' = [working EXCEPT ![v] = {s \in @ : Index(s) < Index(operation[o].stage)}]
  /\ Advance(o, "ready")
  /\ UNCHANGED <<record, docs, summaries, published, summary, requests, crossed, skipped>>

\* Any stage but the complete one is accepted, a later one than the record's too.
ResetStore(o) ==
  LET p == operation[o].project  target == operation[o].stage IN
  /\ At(o, "reset", "ready")
  /\ Update([p EXCEPT !.stage = target])
  /\ skipped' = {s \in Stage : /\ Index(s) < Index(target)
                               /\ s \in skipped \/ Index(p.stage) <= Index(s)}
  /\ End(o)
  /\ UNCHANGED <<files, summary, requests, crossed>>

\* RegenerateSummary: the flag is stored, then the run is started.
RegenerateStore(o) ==
  LET p == [operation[o].project EXCEPT !.summaryReady = FALSE] IN
  /\ At(o, "regenerate", "read")
  /\ p.stage = Complete
  /\ Update(p)
  /\ operation' = [operation EXCEPT ![o].at = "stored", ![o].project = p]
  /\ UNCHANGED <<files, summary, requests, crossed, skipped>>

RegenerateStart(o) ==
  /\ At(o, "regenerate", "stored")
  /\ StartSummary(operation[o].project)
  /\ End(o)
  /\ UNCHANGED <<record, files, requests, crossed, skipped>>

\* ApproveSummary: the summary goes to docs/, then the flag is stored.
PublishFile(o) ==
  LET p == operation[o].project IN
  /\ At(o, "publish", "read")
  /\ p.summaryReady
  /\ p.version \in summaries
  /\ published' = published \cup {p.version}
  /\ Advance(o, "ready")
  /\ UNCHANGED <<record, working, docs, summaries, summary, requests, crossed, skipped>>

PublishStore(o) ==
  /\ At(o, "publish", "ready")
  /\ Update([operation[o].project EXCEPT !.summaryApproved = TRUE])
  /\ End(o)
  /\ UNCHANGED <<files, summary, requests, crossed, skipped>>

\* Mutant: the last iteration's approval is kept.
EnhanceKeepingApproval(o) ==
  LET p == operation[o].project IN
  /\ At(o, "enhance", "read")
  /\ p.stage = Complete /\ p.version \in summaries
  /\ p.version < MaxVersion
  /\ Update([p EXCEPT !.stage = StageOrder[1], !.version = p.version + 1,
                      !.summaryReady = FALSE])
  /\ End(o)
  /\ skipped' = {}
  /\ UNCHANGED <<files, summary, requests, crossed>>

\* EnhanceInternal: the first stage of a new version, in a fresh directory.
EnhanceStore(o) ==
  LET p == operation[o].project IN
  /\ At(o, "enhance", "read")
  /\ p.stage = Complete /\ p.version \in summaries
  /\ p.version < MaxVersion
  /\ Update([p EXCEPT !.stage = StageOrder[1], !.version = p.version + 1,
                      !.summaryReady = FALSE, !.summaryApproved = FALSE])
  /\ End(o)
  /\ skipped' = {}
  /\ UNCHANGED <<files, summary, requests, crossed>>

\* An agent run writes its stage's artifact, if the answer holds one ...
RunArtifact(o) ==
  LET v == operation[o].project.version IN
  /\ At(o, "run", "read")
  /\ working' = [working EXCEPT ![v] = @ \cup {operation[o].stage}]
  /\ Advance(o, "ready")
  /\ UNCHANGED <<record, docs, summaries, published, summary, requests, crossed, skipped>>

\* ... and at its end adds its tokens to the record it was started with.
RunStore(o) ==
  /\ operation[o].kind = "run"
  /\ Update(operation[o].project)
  /\ End(o)
  /\ UNCHANGED <<files, summary, requests, crossed, skipped>>

-----------------------------------------------------------------------------
(* The summary run: startSummaryRun's goroutine *)

\* Mutant: the record says ready before the file is there.
SummaryStoreFirst ==
  /\ summary.at = "asking"
  /\ Update([summary.project EXCEPT !.summaryReady = TRUE])
  /\ summary' = [summary EXCEPT !.at = "stored"]
  /\ UNCHANGED <<files, operation, requests, crossed, skipped>>

SummaryFile ==
  /\ summary.at = "asking"
  /\ summaries' = summaries \cup {summary.project.version}
  /\ summary' = [summary EXCEPT !.at = "written"]
  /\ UNCHANGED <<record, working, docs, published, operation, requests, crossed, skipped>>

SummaryStore ==
  /\ summary.at = "written"
  /\ Update([summary.project EXCEPT !.summaryReady = TRUE])
  /\ summary' = [summary EXCEPT !.at = "stored"]
  /\ UNCHANGED <<files, operation, requests, crossed, skipped>>

\* Finish, also after an error.
SummaryEnd ==
  /\ summary.at \in {"asking", "stored"}
  /\ summary' = NoRun
  /\ UNCHANGED <<record, files, operation, requests, crossed, skipped>>

-----------------------------------------------------------------------------

\* What a handler refuses on the copy it has just read is no request: a reset
\* to the complete stage, a regeneration or an enhancement before it, and the
\* publication of a summary that is not ready.  Chats, refinements and edits
\* (the runs here) name any stage.
Request(o) ==
  \/ \E k \in {"approve", "patch"} : Begin(o, k, record.stage)
  \/ \E s \in Stage \ {Complete}, k \in {"reset", "run"} : Begin(o, k, s)
  \/ /\ record.stage = Complete
     /\ \E k \in {"regenerate", "enhance"} : Begin(o, k, Complete)
  \/ record.summaryReady /\ Begin(o, "publish", record.stage)

Next ==
  \/ \E o \in Operation :
       \/ Request(o) \/ Fail(o)
       \/ ApproveCheck(o) \/ ApproveStore(o) \/ Promote(o) \/ ApproveEnd(o)
       \/ PatchStore(o) \/ ResetFiles(o) \/ ResetStore(o)
       \/ RegenerateStore(o) \/ RegenerateStart(o)
       \/ PublishFile(o) \/ PublishStore(o) \/ EnhanceStore(o)
       \/ RunArtifact(o) \/ RunStore(o)
  \/ SummaryFile \/ SummaryStore \/ SummaryEnd

Spec == Init /\ [][Next]_vars

-----------------------------------------------------------------------------
(* Properties *)

TypeOK ==
  /\ record \in Project
  /\ working \in [Version -> SUBSET (Stage \ {Complete})]
  /\ docs \in [Version -> SUBSET (Stage \ {Complete})]
  /\ summaries \subseteq Version /\ published \subseteq Version
  /\ operation \in [Operation -> Operations \cup {Idle}]
  /\ summary \in [at : {"asking", "written", "stored"}, project : Project] \cup {NoRun}
  /\ requests \in 0 .. MaxRequests
  /\ crossed \in BOOLEAN
  /\ skipped \subseteq Stage

\* Whatever stale copies are written back, a record that says its summary is
\* ready names a version whose summary exists: ApproveSummary and the driver
\* (handleCompleteStage) read that file without asking again.
ReadySummaryExists == record.summaryReady => record.version \in summaries

\* A record that says its summary is approved names a version whose summary is
\* under docs/, even after an enhancement that a stale copy undoes.
ApprovedSummaryIsPublished == record.summaryApproved => record.version \in published

\* As long as resets and enhancements run alone and to their end, a project is
\* past a stage that has no artifact, neither in the data directory nor under
\* docs/, only where a reset to a later stage took it past (the handler accepts
\* one, with no look at the stages between): no interleaving of approvals,
\* toggles, agent runs and summary work does so, and none of them loses the
\* artifact of a passed stage.
PassedStagesHaveArtifacts ==
  ~crossed /\ ~InFlight("reset") => \A s \in Stage :
    Index(s) < Index(record.stage) => Artifact(record.version, s) \/ s \in skipped

\* What the comments of ApproveInternal and UpdateFunc are about: an autonomous
\* toggle racing with an approval loses no change, hence moves no stage.
ToggleKeepsStage ==
  [][\A o \in Operation : PatchStore(o) => record'.stage = record.stage]_vars
=============================================================================
