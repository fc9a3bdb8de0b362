---------------------------- MODULE PipelineProofs ----------------------------
(***************************************************************************)
(* What holds of a project's record for every stage order and any number   *)
(* of operations, versions and requests: types, and that the two summary   *)
(* flags never speak of a version without the summary, however stale the   *)
(* copies are that operations write back.                                  *)
(***************************************************************************)
EXTENDS Pipeline, TLAPS

USE BoundsAssumption DEF Version

\* Index is a position of its stage; only the complete stage has no next one.
LEMMA StageFacts ==
  /\ Complete \in Stage
  /\ StageOrder[1] \in Stage
  /\ \A s \in Stage : Index(s) \in DOMAIN StageOrder /\ StageOrder[Index(s)] = s
  /\ \A s \in Stage \ {Complete} : NextStage(s) \in Stage
<1>1. DOMAIN StageOrder = 1 .. Len(StageOrder) /\ Len(StageOrder) \in Nat
  BY StagesAssumption
<1>2. \A s \in Stage : Index(s) \in DOMAIN StageOrder /\ StageOrder[Index(s)] = s
  BY DEF Stage, Index
<1>3. ASSUME NEW s \in Stage \ {Complete} PROVE NextStage(s) \in Stage
  <2>1. Index(s) # Len(StageOrder)
    BY <1>2 DEF Complete
  <2>2. Index(s) + 1 \in DOMAIN StageOrder
    BY <1>1, <1>2, <2>1
  <2> QED
    BY <2>2 DEF NextStage, Stage
<1>4. Len(StageOrder) \in DOMAIN StageOrder /\ 1 \in DOMAIN StageOrder
  BY <1>1, StagesAssumption
<1> QED
  BY <1>2, <1>3, <1>4 DEF Complete, Stage

(***************************************************************************)
(* The actions of Next, one by one.                                        *)
(***************************************************************************)
LEMMA StepCases ==
  ASSUME TypeOK, [Next]_vars
  PROVE  \/ \E o \in Operation, k \in Kinds, s \in Stage :
              /\ Begin(o, k, s)
              /\ k = "run" => s # Complete
         \/ \E o \in Operation : Fail(o)
         \/ \E o \in Operation : ApproveCheck(o)
         \/ \E o \in Operation : ApproveStore(o)
         \/ \E o \in Operation : Promote(o)
         \/ \E o \in Operation : ApproveEnd(o)
         \/ \E o \in Operation : PatchStore(o) \/ RunStore(o)
         \/ \E o \in Operation : ResetFiles(o)
         \/ \E o \in Operation : ResetStore(o)
         \/ \E o \in Operation : RegenerateStore(o)
         \/ \E o \in Operation : RegenerateStart(o)
         \/ \E o \in Operation : PublishFile(o)
         \/ \E o \in Operation : PublishStore(o)
         \/ \E o \in Operation : EnhanceStore(o)
         \/ \E o \in Operation : RunArtifact(o)
         \/ SummaryFile
         \/ SummaryStore
         \/ SummaryEnd
         \/ UNCHANGED vars
<1>1. record.stage \in Stage
  BY DEF TypeOK, Project
<1> QED
  BY <1>1, StageFacts DEF Next, Request, Kinds

-----------------------------------------------------------------------------
(* Types *)

\* What an operation may be doing: an approval that has passed its check is of
\* a stage that has a next one, and nobody runs an agent for the complete stage.
StagesHeld ==
  \A o \in Operation :
    /\ At(o, "approve", "ready") => operation[o].project.stage # Complete
    /\ operation[o].kind = "run" => operation[o].stage # Complete

PipelineInv == TypeOK /\ StagesHeld

\* An operation of some kind is under way: it holds a copy and a stage.
LEMMA UnderWay ==
  ASSUME TypeOK, NEW o \in Operation, operation[o].kind # "none"
  PROVE  /\ operation[o] \in Operations
         /\ operation[o].project \in Project
         /\ operation[o].stage \in Stage
<1>1. operation[o] # Idle /\ operation[o] \in Operations
  BY DEF TypeOK, Idle
<1> QED
  BY <1>1 DEF Operations

OperationsOK == operation \in [Operation -> Operations \cup {Idle}] /\ StagesHeld

LEMMA Advanced ==
  ASSUME PipelineInv, NEW o \in Operation, operation[o].kind # "none",
         NEW step \in Steps, Advance(o, step),
         operation[o].kind = "approve" /\ step = "ready" =>
           operation[o].project.stage # Complete
  PROVE  OperationsOK'
<1>1. operation[o] \in Operations
  BY UnderWay DEF PipelineInv
<1>2. [operation[o] EXCEPT !.at = step] \in Operations
  BY <1>1 DEF Operations
<1>3. operation \in [Operation -> Operations \cup {Idle}] /\ StagesHeld
  BY DEF PipelineInv, TypeOK
<1>4. operation' \in [Operation -> Operations \cup {Idle}]
  BY <1>2, <1>3 DEF Advance
<1>5. StagesHeld'
  BY <1>1, <1>3 DEF Advance, StagesHeld, At, Operations
<1> QED
  BY <1>4, <1>5 DEF OperationsOK

LEMMA Ended ==
  ASSUME PipelineInv, NEW o \in Operation, End(o)
  PROVE  OperationsOK'
  BY DEF PipelineInv, TypeOK, OperationsOK, StagesHeld, End, At, Idle

LEMMA OthersKept ==
  ASSUME PipelineInv, UNCHANGED operation
  PROVE  OperationsOK'
  BY DEF PipelineInv, TypeOK, OperationsOK, StagesHeld, At

LEMMA SummaryType ==
  ASSUME TypeOK, summary # NoRun
  PROVE  summary.project \in Project
  BY DEF TypeOK

LEMMA SummaryStarted ==
  ASSUME TypeOK, NEW p \in Project, StartSummary(p)
  PROVE  summary' \in [at : {"asking", "written", "stored"}, project : Project]
                        \cup {NoRun}
  BY DEF TypeOK, StartSummary

\* What a step leaves of the types beside those of the operations.
RestOK ==
  /\ record \in Project
  /\ working \in [Version -> SUBSET (Stage \ {Complete})]
  /\ docs \in [Version -> SUBSET (Stage \ {Complete})]
  /\ summaries \subseteq Version /\ published \subseteq Version
  /\ summary \in [at : {"asking", "written", "stored"}, project : Project]
                   \cup {NoRun}
  /\ requests \in 0 .. MaxRequests
  /\ crossed \in BOOLEAN
  /\ skipped \subseteq Stage

LEMMA TypeStep ==
  ASSUME PipelineInv, [Next]_vars
  PROVE  PipelineInv'
<1> SUFFICES OperationsOK' /\ RestOK'
  BY DEF PipelineInv, TypeOK, OperationsOK, RestOK
<1>0. OperationsOK /\ RestOK /\ TypeOK
  BY DEF PipelineInv, TypeOK, OperationsOK, RestOK
<1> USE DEF files
<1>1. ASSUME NEW o \in Operation, NEW k \in Kinds, NEW s \in Stage,
             Begin(o, k, s), k = "run" => s # Complete
      PROVE OperationsOK' /\ RestOK'
  <2>1. OperationsOK'
    <3>1. [kind |-> k, at |-> "read", project |-> record, stage |-> s] \in Operations
      BY <1>0 DEF RestOK, Operations, Steps
    <3>2. operation' \in [Operation -> Operations \cup {Idle}]
      BY <1>0, <3>1, <1>1 DEF OperationsOK, Begin
    <3>3. StagesHeld'
      BY <1>0, <1>1 DEF OperationsOK, Begin, StagesHeld, At
    <3> QED
      BY <3>2, <3>3 DEF OperationsOK
  <2>2. RestOK'
    BY <1>0, <1>1 DEF RestOK, Begin
  <2> QED
    BY <2>1, <2>2
<1>2. ASSUME NEW o \in Operation, Fail(o)
      PROVE OperationsOK' /\ RestOK'
  <2>1. OperationsOK'
    BY <1>2, Ended DEF Fail
  <2>2. RestOK'
    BY <1>0, <1>2 DEF RestOK, Fail
  <2> QED
    BY <2>1, <2>2
<1>3. ASSUME NEW o \in Operation, ApproveCheck(o)
      PROVE OperationsOK' /\ RestOK'
  <2>1. OperationsOK'
    BY <1>3, Advanced DEF ApproveCheck, At, Steps
  <2>2. RestOK'
    BY <1>0, <1>3 DEF RestOK, ApproveCheck
  <2> QED
    BY <2>1, <2>2
<1>4. ASSUME NEW o \in Operation, ApproveStore(o)
      PROVE OperationsOK' /\ RestOK'
  <2> DEFINE next == NextStage(operation[o].project.stage)
             stored == [record EXCEPT !.stage = next,
                          !.summaryReady = record.summaryReady /\ next # Complete]
  <2>3. /\ operation[o] \in Operations
        /\ operation[o].project \in Project
        /\ operation[o].project.stage \in Stage \ {Complete}
    <3>1. operation[o].project.stage # Complete
      BY <1>0, <1>4 DEF ApproveStore, OperationsOK, StagesHeld
    <3>2. operation[o] \in Operations /\ operation[o].project \in Project
      BY <1>0, <1>4, UnderWay DEF ApproveStore, At
    <3> QED
      BY <3>1, <3>2 DEF Project
  <2>4. next \in Stage
    BY <2>3, StageFacts
  <2>5. stored \in Project
    BY <1>0, <2>4 DEF RestOK, Project
  <2> HIDE DEF next
  <2>6. record' = stored
    BY <1>4 DEF ApproveStore, next
  <2>7. operation' = [operation EXCEPT ![o].at = "stored",
          ![o].stage = operation[o].project.stage, ![o].project = stored]
    BY <1>4 DEF ApproveStore, next
  <2> HIDE DEF stored
  <2>1. OperationsOK'
    <3> DEFINE moved == [operation[o] EXCEPT !.at = "stored",
                           !.stage = operation[o].project.stage, !.project = stored]
    <3>1. /\ moved \in Operations
          /\ moved.at = "stored" /\ moved.kind = operation[o].kind
      BY <2>3, <2>5 DEF Operations, Project, Steps
    <3>2. operation' = [operation EXCEPT ![o] = moved]
      BY <2>7
    <3>3. operation[o].kind = "approve"
      BY <1>4 DEF ApproveStore, At
    <3> HIDE DEF moved
    <3> QED
      BY <1>0, <3>1, <3>2, <3>3 DEF OperationsOK, StagesHeld, At
  <2>2. RestOK'
    BY <1>0, <2>5, <2>6, <1>4 DEF RestOK, ApproveStore
  <2> QED
    BY <2>1, <2>2
<1>5. ASSUME NEW o \in Operation, Promote(o)
      PROVE OperationsOK' /\ RestOK'
  <2>1. OperationsOK'
    BY <1>5, Advanced DEF Promote, At, Steps
  <2>2. RestOK'
    <3>1. operation[o].project.version \in Version
      BY <1>0, <1>5, UnderWay DEF Promote, At, Project
    <3>2. /\ docs' \in [Version -> SUBSET (Stage \ {Complete})]
          /\ working' \in [Version -> SUBSET (Stage \ {Complete})]
      <4> DEFINE v == operation[o].project.version
                 s == operation[o].stage
      <4>1. CASE /\ s \in working[v]
                 /\ docs' = [docs EXCEPT ![v] = @ \cup {s}]
                 /\ working' = [working EXCEPT ![v] = @ \ {s}]
        <5>1. s \in Stage \ {Complete}
          BY <1>0, <3>1, <4>1 DEF RestOK
        <5> QED
          BY <1>0, <3>1, <4>1, <5>1 DEF RestOK
      <4>2. CASE UNCHANGED <<docs, working>>
        BY <1>0, <4>2 DEF RestOK
      <4> QED
        BY <1>5, <4>1, <4>2 DEF Promote
    <3> QED
      BY <1>0, <3>1, <3>2, <1>5 DEF RestOK, Promote
  <2> QED
    BY <2>1, <2>2
<1>6. ASSUME NEW o \in Operation, ApproveEnd(o)
      PROVE OperationsOK' /\ RestOK'
  <2>1. OperationsOK'
    BY <1>6, Ended DEF ApproveEnd
  <2>2. RestOK'
    <3>1. operation[o].project \in Project
      BY <1>0, <1>6, UnderWay DEF ApproveEnd, At
    <3> QED
      BY <1>0, <3>1, <1>6, SummaryStarted DEF RestOK, ApproveEnd
  <2> QED
    BY <2>1, <2>2
<1>7. ASSUME NEW o \in Operation, PatchStore(o) \/ RunStore(o)
      PROVE OperationsOK' /\ RestOK'
  <2>1. OperationsOK'
    BY <1>7, Ended DEF PatchStore, RunStore
  <2>2. RestOK'
    <3>1. operation[o].project \in Project
      BY <1>0, <1>7, UnderWay DEF PatchStore, RunStore, At
    <3> QED
      BY <1>0, <3>1, <1>7 DEF RestOK, PatchStore, RunStore, Update
  <2> QED
    BY <2>1, <2>2
<1>8. ASSUME NEW o \in Operation, ResetFiles(o)
      PROVE OperationsOK' /\ RestOK'
  <2>1. OperationsOK'
    BY <1>8, Advanced DEF ResetFiles, At, Steps
  <2>2. RestOK'
    <3>1. operation[o].project.version \in Version
      BY <1>0, <1>8, UnderWay DEF ResetFiles, At, Project
    <3> QED
      BY <1>0, <3>1, <1>8 DEF RestOK, ResetFiles
  <2> QED
    BY <2>1, <2>2
<1>9. ASSUME NEW o \in Operation, ResetStore(o)
      PROVE OperationsOK' /\ RestOK'
  <2>1. OperationsOK'
    BY <1>9, Ended DEF ResetStore
  <2>2. RestOK'
    <3>1. operation[o].project \in Project /\ operation[o].stage \in Stage
      BY <1>0, <1>9, UnderWay DEF ResetStore, At
    <3>2. [operation[o].project EXCEPT !.stage = operation[o].stage] \in Project
      BY <3>1 DEF Project
    <3> QED
      BY <1>0, <3>2, <1>9 DEF RestOK, ResetStore, Update
  <2> QED
    BY <2>1, <2>2
<1>10. ASSUME NEW o \in Operation, RegenerateStore(o)
      PROVE OperationsOK' /\ RestOK'
  <2> DEFINE p == [operation[o].project EXCEPT !.summaryReady = FALSE]
  <2>3. operation[o] \in Operations /\ operation[o].kind = "regenerate"
    BY <1>0, <1>10, UnderWay DEF RegenerateStore, At
  <2>4. p \in Project
    BY <2>3 DEF Project, Operations
  <2>5. /\ record' = p
        /\ operation' = [operation EXCEPT ![o].at = "stored", ![o].project = p]
    BY <1>10 DEF RegenerateStore, Update
  <2> HIDE DEF p
  <2>1. OperationsOK'
    <3> DEFINE moved == [operation[o] EXCEPT !.at = "stored", !.project = p]
    <3>1. moved \in Operations /\ moved.kind = "regenerate"
      BY <2>3, <2>4 DEF Operations, Steps
    <3>2. operation' = [operation EXCEPT ![o] = moved]
      BY <2>5
    <3> HIDE DEF moved
    <3> QED
      BY <1>0, <3>1, <3>2 DEF OperationsOK, StagesHeld, At
  <2>2. RestOK'
    BY <1>0, <2>4, <2>5, <1>10 DEF RestOK, RegenerateStore
  <2> QED
    BY <2>1, <2>2
<1>11. ASSUME NEW o \in Operation, RegenerateStart(o)
      PROVE OperationsOK' /\ RestOK'
  <2>1. OperationsOK'
    BY <1>11, Ended DEF RegenerateStart
  <2>2. RestOK'
    <3>1. operation[o].project \in Project
      BY <1>0, <1>11, UnderWay DEF RegenerateStart, At
    <3> QED
      BY <1>0, <3>1, <1>11, SummaryStarted DEF RestOK, RegenerateStart
  <2> QED
    BY <2>1, <2>2
<1>12. ASSUME NEW o \in Operation, PublishFile(o)
      PROVE OperationsOK' /\ RestOK'
  <2>1. OperationsOK'
    BY <1>12, Advanced DEF PublishFile, At, Steps
  <2>2. RestOK'
    <3>1. operation[o].project.version \in Version
      BY <1>0, <1>12, UnderWay DEF PublishFile, At, Project
    <3> QED
      BY <1>0, <3>1, <1>12 DEF RestOK, PublishFile
  <2> QED
    BY <2>1, <2>2
<1>13. ASSUME NEW o \in Operation, PublishStore(o)
      PROVE OperationsOK' /\ RestOK'
  <2>1. OperationsOK'
    BY <1>13, Ended DEF PublishStore
  <2>2. RestOK'
    <3>1. operation[o].project \in Project
      BY <1>0, <1>13, UnderWay DEF PublishStore, At
    <3>2. [operation[o].project EXCEPT !.summaryApproved = TRUE] \in Project
      BY <3>1 DEF Project
    <3> QED
      BY <1>0, <3>2, <1>13 DEF RestOK, PublishStore, Update
  <2> QED
    BY <2>1, <2>2
<1>14. ASSUME NEW o \in Operation, EnhanceStore(o)
      PROVE OperationsOK' /\ RestOK'
  <2>1. OperationsOK'
    BY <1>14, Ended DEF EnhanceStore
  <2>2. RestOK'
    <3> DEFINE p == operation[o].project
    <3>1. p \in Project
      BY <1>0, <1>14, UnderWay DEF EnhanceStore, At
    <3>2. p.version + 1 \in Version
      BY <3>1, <1>14 DEF EnhanceStore, Project
    <3>3. [p EXCEPT !.stage = StageOrder[1], !.version = p.version + 1,
                    !.summaryReady = FALSE, !.summaryApproved = FALSE] \in Project
      BY <3>1, <3>2, StageFacts DEF Project
    <3> QED
      BY <1>0, <3>3, <1>14 DEF RestOK, EnhanceStore, Update
  <2> QED
    BY <2>1, <2>2
<1>15. ASSUME NEW o \in Operation, RunArtifact(o)
      PROVE OperationsOK' /\ RestOK'
  <2>1. OperationsOK'
    BY <1>15, Advanced DEF RunArtifact, At, Steps
  <2>2. RestOK'
    <3>1. /\ operation[o].project.version \in Version
          /\ operation[o].stage \in Stage \ {Complete}
      BY <1>0, <1>15, UnderWay DEF RunArtifact, At, Project, OperationsOK, StagesHeld
    <3> QED
      BY <1>0, <3>1, <1>15 DEF RestOK, RunArtifact
  <2> QED
    BY <2>1, <2>2
<1>16. ASSUME SummaryFile
      PROVE OperationsOK' /\ RestOK'
  <2>1. OperationsOK'
    BY <1>16, OthersKept DEF SummaryFile
  <2>2. RestOK'
    <3>1. summary # NoRun /\ summary.project \in Project
      BY <1>0, <1>16, SummaryType DEF SummaryFile, NoRun
    <3>2. [summary EXCEPT !.at = "written"]
            \in [at : {"asking", "written", "stored"}, project : Project]
      BY <1>0, <3>1 DEF RestOK
    <3> QED
      BY <1>0, <3>1, <3>2, <1>16 DEF RestOK, SummaryFile, Project
  <2> QED
    BY <2>1, <2>2
<1>17. ASSUME SummaryStore
      PROVE OperationsOK' /\ RestOK'
  <2>1. OperationsOK'
    BY <1>17, OthersKept DEF SummaryStore
  <2>2. RestOK'
    <3>1. summary # NoRun /\ summary.project \in Project
      BY <1>0, <1>17, SummaryType DEF SummaryStore, NoRun
    <3>2. [summary EXCEPT !.at = "stored"]
            \in [at : {"asking", "written", "stored"}, project : Project]
      BY <1>0, <3>1 DEF RestOK
    <3>3. [summary.project EXCEPT !.summaryReady = TRUE] \in Project
      BY <3>1 DEF Project
    <3> QED
      BY <1>0, <3>2, <3>3, <1>17 DEF RestOK, SummaryStore, Update
  <2> QED
    BY <2>1, <2>2
<1>18. ASSUME SummaryEnd
      PROVE OperationsOK' /\ RestOK'
  <2>1. OperationsOK'
    BY <1>18, OthersKept DEF SummaryEnd
  <2>2. RestOK'
    BY <1>0, <1>18 DEF RestOK, SummaryEnd
  <2> QED
    BY <2>1, <2>2
<1>19. UNCHANGED vars => OperationsOK' /\ RestOK'
  BY <1>0, OthersKept DEF vars, RestOK
<1> QED
  BY <1>0, StepCases, <1>1, <1>2, <1>3, <1>4, <1>5, <1>6, <1>7, <1>8, <1>9, <1>10,
     <1>11, <1>12, <1>13, <1>14, <1>15, <1>16, <1>17, <1>18, <1>19

LEMMA InitTypes ==
  ASSUME Init
  PROVE  PipelineInv
<1>1. StagesHeld
  BY DEF Init, StagesHeld, At, Idle
<1>2. record \in Project
  BY StageFacts DEF Init, Project
<1>3. operation \in [Operation -> Operations \cup {Idle}]
  BY DEF Init
<1>4. /\ working \in [Version -> SUBSET (Stage \ {Complete})]
      /\ docs \in [Version -> SUBSET (Stage \ {Complete})]
      /\ summaries \subseteq Version /\ published \subseteq Version
  BY DEF Init
<1>5. requests \in 0 .. MaxRequests
  BY DEF Init
<1>6. crossed \in BOOLEAN /\ skipped \subseteq Stage
  BY DEF Init
<1>7. summary = NoRun
  BY DEF Init
<1> QED
  BY <1>1, <1>2, <1>3, <1>4, <1>5, <1>6, <1>7 DEF PipelineInv, TypeOK

LEMMA PipelineInvariant == Spec => []PipelineInv
<1>1. Init => PipelineInv
  BY InitTypes
<1>2. PipelineInv /\ [Next]_vars => PipelineInv'
  BY TypeStep
<1> QED
  BY <1>1, <1>2, PTL DEF Spec

\* Every variable keeps its type: stages and versions stay those of the project
\* whatever copy an operation writes back (every Update in the handlers).
THEOREM TypeCorrect == Spec => []TypeOK
<1>1. PipelineInv => TypeOK
  BY DEF PipelineInv
<1> QED
  BY <1>1, PipelineInvariant, PTL

-----------------------------------------------------------------------------
(* The summary flags *)

\* What the two flags of a copy of the record say is so.
FlagsTrue(p) ==
  /\ p.summaryReady => p.version \in summaries
  /\ p.summaryApproved => p.version \in published

\* Inductive: summaries are never removed, so a copy that told the truth when
\* it was read still does when it is written back, and the two operations that
\* set a flag have the file by then.
FlagsInv ==
  /\ FlagsTrue(record)
  /\ \A o \in Operation :
       /\ operation[o].kind # "none" => FlagsTrue(operation[o].project)
       /\ At(o, "publish", "ready") => operation[o].project.version \in published
  /\ summary # NoRun => FlagsTrue(summary.project)
  /\ summary.at = "written" => summary.project.version \in summaries

LEMMA FlagsStep ==
  ASSUME PipelineInv, FlagsInv, [Next]_vars
  PROVE  FlagsInv'
<1> USE DEF FlagsInv, FlagsTrue, At, Idle, NoRun, files
<1>0. TypeOK
  BY DEF PipelineInv
<1>1. ASSUME NEW o \in Operation, NEW k \in Kinds, NEW s \in Stage, Begin(o, k, s)
      PROVE FlagsInv'
  BY <1>0, <1>1 DEF TypeOK, Operations, Project, Begin
<1>2. ASSUME NEW o \in Operation, Fail(o)
      PROVE FlagsInv'
  BY <1>0, <1>2 DEF TypeOK, Operations, Project, Fail, End
<1>3. ASSUME NEW o \in Operation, ApproveCheck(o)
      PROVE FlagsInv'
  BY <1>0, <1>3 DEF TypeOK, Operations, Project, ApproveCheck, Advance
<1>4. ASSUME NEW o \in Operation, ApproveStore(o)
      PROVE FlagsInv'
  <2> DEFINE stored == [record EXCEPT !.stage = NextStage(operation[o].project.stage),
                          !.summaryReady = record.summaryReady
                                             /\ NextStage(operation[o].project.stage) # Complete]
  <2>1. /\ record' = stored /\ summary' = summary /\ summaries' = summaries
        /\ published' = published
        /\ \A q \in Operation \ {o} : operation'[q] = operation[q]
        /\ operation'[o].project = stored /\ operation'[o].at = "stored"
    BY <1>0, <1>4 DEF TypeOK, Operations, ApproveStore
  <2>2. stored.version = record.version /\ stored.summaryApproved = record.summaryApproved
        /\ (stored.summaryReady => record.summaryReady)
    BY <1>0 DEF TypeOK, Project
  <2>3. FlagsTrue(stored)
    BY <2>2
  <2> HIDE DEF stored
  <2> QED
    BY <2>1, <2>3
<1>5. ASSUME NEW o \in Operation, Promote(o)
      PROVE FlagsInv'
  BY <1>0, <1>5 DEF TypeOK, Operations, Project, Promote, Advance
<1>6. ASSUME NEW o \in Operation, ApproveEnd(o)
      PROVE FlagsInv'
  BY <1>0, <1>6 DEF TypeOK, Operations, Project, ApproveEnd, End, StartSummary
<1>7. ASSUME NEW o \in Operation, PatchStore(o) \/ RunStore(o)
      PROVE FlagsInv'
  BY SMTT(20), <1>0, <1>7 DEF TypeOK, Operations, Project, PatchStore, RunStore, Update, End
<1>8. ASSUME NEW o \in Operation, ResetFiles(o)
      PROVE FlagsInv'
  BY <1>0, <1>8 DEF TypeOK, Operations, Project, ResetFiles, Advance
<1>9. ASSUME NEW o \in Operation, ResetStore(o)
      PROVE FlagsInv'
  BY <1>0, <1>9 DEF TypeOK, Operations, Project, ResetStore, Update, End
<1>10. ASSUME NEW o \in Operation, RegenerateStore(o)
      PROVE FlagsInv'
  BY <1>0, <1>10 DEF TypeOK, Operations, Project, RegenerateStore, Update
<1>11. ASSUME NEW o \in Operation, RegenerateStart(o)
      PROVE FlagsInv'
  BY <1>0, <1>11 DEF TypeOK, Operations, Project, RegenerateStart, StartSummary, End
<1>12. ASSUME NEW o \in Operation, PublishFile(o)
      PROVE FlagsInv'
  BY <1>0, <1>12 DEF TypeOK, Operations, Project, PublishFile, Advance
<1>13. ASSUME NEW o \in Operation, PublishStore(o)
      PROVE FlagsInv'
  BY <1>0, <1>13 DEF TypeOK, Operations, Project, PublishStore, Update, End
<1>14. ASSUME NEW o \in Operation, EnhanceStore(o)
      PROVE FlagsInv'
  BY <1>0, <1>14 DEF TypeOK, Operations, Project, EnhanceStore, Update, End
<1>15. ASSUME NEW o \in Operation, RunArtifact(o)
      PROVE FlagsInv'
  BY <1>0, <1>15 DEF TypeOK, Operations, Project, RunArtifact, Advance
<1>16. ASSUME SummaryFile
      PROVE FlagsInv'
  BY <1>0, <1>16 DEF TypeOK, Operations, Project, SummaryFile
<1>17. ASSUME SummaryStore
      PROVE FlagsInv'
  BY <1>0, <1>17 DEF TypeOK, Operations, Project, SummaryStore, Update
<1>18. ASSUME SummaryEnd
      PROVE FlagsInv'
  BY <1>0, <1>18 DEF TypeOK, Operations, Project, SummaryEnd
<1>19. UNCHANGED vars => FlagsInv'
  BY DEF vars
<1> QED
  BY <1>0, StepCases, <1>1, <1>2, <1>3, <1>4, <1>5, <1>6, <1>7, <1>8, <1>9, <1>10,
     <1>11, <1>12, <1>13, <1>14, <1>15, <1>16, <1>17, <1>18, <1>19

LEMMA FlagsInvariant == Spec => []FlagsInv
<1>1. Init => FlagsInv
  BY DEF Init, FlagsInv, FlagsTrue, At, Idle, NoRun
<1>2. PipelineInv /\ FlagsInv /\ [Next]_vars => FlagsInv'
  BY FlagsStep
<1> QED
  BY <1>1, <1>2, PipelineInvariant, PTL DEF Spec

\* A record that says its summary is ready names a version that has one:
\* ApproveSummary and the driver's handleCompleteStage read it unasked.
THEOREM ReadySummariesExist == Spec => []ReadySummaryExists
<1>1. FlagsInv => ReadySummaryExists
  BY DEF FlagsInv, FlagsTrue, ReadySummaryExists
<1> QED
  BY <1>1, FlagsInvariant, PTL

\* A record that says its summary is approved names a version whose summary is
\* under docs/, although EnhanceInternal may be undone by a stale copy.
THEOREM ApprovedSummariesPublished == Spec => []ApprovedSummaryIsPublished
<1>1. FlagsInv => ApprovedSummaryIsPublished
  BY DEF FlagsInv, FlagsTrue, ApprovedSummaryIsPublished
<1> QED
  BY <1>1, FlagsInvariant, PTL

-----------------------------------------------------------------------------
(* Artifacts of the stages passed *)

\* The stages before s have an artifact in version v, or a reset skipped them.
PassedBy(v, s) ==
  \A t \in Stage : Index(t) < Index(s) => Artifact(v, t) \/ t \in skipped

Passed(p) == PassedBy(p.version, p.stage)

\* A reset that has removed artifacts and not yet stored its stage.
Resetting == \E o \in Operation : At(o, "reset", "ready")

\* A reset to s may be stored: what it newly goes past is not behind the record.
PassedOrAhead(s) ==
  \A t \in Stage : Index(t) < Index(s) =>
    Artifact(record.version, t) \/ t \in skipped \/ Index(record.stage) <= Index(t)

\* What an operation under way holds, as long as nothing has crossed.
HoldsTruth(o) ==
  LET p == operation[o].project IN
  /\ p.version = record.version
  /\ ~Resetting => Passed(p)
  /\ At(o, "approve", "ready") => Artifact(p.version, p.stage)
  /\ operation[o].kind \in {"reset", "enhance"} =>
       /\ p = record
       /\ summary = NoRun
       /\ \A x \in Operation \ {o} : operation[x] = Idle
  /\ At(o, "reset", "ready") => PassedOrAhead(operation[o].stage)

\* Inductive as long as nothing has crossed: every copy is of the version the
\* record has, and of a stage whose predecessors have their artifacts; a reset
\* or an enhancement is alone with an up-to-date copy.
Uncrossed ==
  /\ ~Resetting => Passed(record)
  /\ \A o \in Operation : operation[o].kind # "none" => HoldsTruth(o)
  /\ summary # NoRun => /\ summary.project.version = record.version
                        /\ Passed(summary.project)

ArtifactInv == crossed \/ Uncrossed

LEMMA IndexFacts ==
  /\ \A s \in Stage : Index(s) \in Nat \ {0}
  /\ \A s \in Stage \ {Complete} : Index(NextStage(s)) = Index(s) + 1
  /\ Index(StageOrder[1]) = 1
<1>1. DOMAIN StageOrder = 1 .. Len(StageOrder) /\ Len(StageOrder) \in Nat
  BY StagesAssumption
<1>2. ASSUME NEW i \in DOMAIN StageOrder PROVE Index(StageOrder[i]) = i
  <2>1. StageOrder[i] \in Stage
    BY DEF Stage
  <2> QED
    BY <2>1, StageFacts, StagesAssumption
<1>3. ASSUME NEW s \in Stage \ {Complete} PROVE Index(NextStage(s)) = Index(s) + 1
  <2>1. Index(s) \in DOMAIN StageOrder /\ Index(s) # Len(StageOrder)
    BY StageFacts DEF Complete
  <2>2. Index(s) + 1 \in DOMAIN StageOrder
    BY <1>1, <2>1
  <2> QED
    BY <1>2, <2>2 DEF NextStage
<1>4. 1 \in DOMAIN StageOrder
  BY <1>1, StagesAssumption
<1> QED
  BY <1>1, <1>2, <1>3, <1>4, StageFacts

\* What was there stays there, and with it what was passed.
LEMMA ArtifactsKept ==
  ASSUME NEW v, \A t : Artifact(v, t) => Artifact(v, t)', UNCHANGED skipped
  PROVE  \A t : PassedBy(v, t) => PassedBy(v, t)'
  BY DEF PassedBy

LEMMA FilesKept ==
  ASSUME UNCHANGED <<working, docs, skipped>>
  PROVE  /\ \A v, t : Artifact(v, t) => Artifact(v, t)'
         /\ \A v, t : PassedBy(v, t) => PassedBy(v, t)'
         /\ UNCHANGED record => \A t : PassedOrAhead(t) => PassedOrAhead(t)'
<1>1. \A v, t : Artifact(v, t) => Artifact(v, t)'
  BY DEF Artifact
<1>2. UNCHANGED record => \A t : PassedOrAhead(t) => PassedOrAhead(t)'
  BY <1>1 DEF PassedOrAhead
<1> QED
  BY <1>1, <1>2, ArtifactsKept

LEMMA ArtifactStep ==
  ASSUME PipelineInv, ArtifactInv, [Next]_vars
  PROVE  ArtifactInv'
<1> SUFFICES ASSUME ~crossed' PROVE Uncrossed'
  BY DEF ArtifactInv
<1> USE DEF Uncrossed, HoldsTruth, Passed, Resetting, At, Idle, NoRun, files
<1>0. TypeOK
  BY DEF PipelineInv
<1>1. ASSUME NEW o \in Operation, NEW k \in Kinds, NEW s \in Stage, Begin(o, k, s)
      PROVE Uncrossed'
  <2>1. Uncrossed
    BY <1>1 DEF ArtifactInv, Begin, InFlight
  <2> QED
    BY FilesKept, <1>0, <1>1, <2>1
       DEF TypeOK, Operations, Project, Begin, InFlight
<1>2. ASSUME NEW o \in Operation, Fail(o)
      PROVE Uncrossed'
  <2>1. Uncrossed
    BY <1>2 DEF ArtifactInv, Fail, End
  <2> QED
    BY FilesKept, <1>0, <1>2, <2>1
       DEF TypeOK, Operations, Project, Fail, End
<1>3. ASSUME NEW o \in Operation, ApproveCheck(o)
      PROVE Uncrossed'
  <2>1. Uncrossed
    BY <1>3 DEF ArtifactInv, ApproveCheck, Advance
  <2> QED
    BY FilesKept, <1>0, <1>3, <2>1
       DEF TypeOK, Operations, Project, ApproveCheck, Advance
<1>4. ASSUME NEW o \in Operation, ApproveStore(o)
      PROVE Uncrossed'
  <2>1. Uncrossed
    BY <1>4 DEF ArtifactInv, ApproveStore
  <2>2. \A x \in Operation : operation[x].kind \notin {"reset", "enhance"}
    BY <1>4, <2>1 DEF ApproveStore
  <2> DEFINE p == operation[o].project
             next == NextStage(p.stage)
  <2>3. /\ p.stage \in Stage \ {Complete}
        /\ Artifact(record.version, p.stage)
        /\ PassedBy(record.version, p.stage)
    <3>1. p \in Project
      BY <1>0, <1>4, UnderWay DEF ApproveStore
    <3>2. p.stage # Complete
      BY <1>4 DEF ApproveStore, PipelineInv, StagesHeld
    <3> QED
      BY <1>4, <2>1, <2>2, <3>1, <3>2 DEF ApproveStore, Project
  <2>4. PassedBy(record.version, next)
    <3>1. ASSUME NEW t \in Stage, Index(t) < Index(next)
          PROVE  Artifact(record.version, t) \/ t \in skipped
      <4>1. Index(t) < Index(p.stage) \/ Index(t) = Index(p.stage)
        BY <2>3, <3>1, IndexFacts
      <4>2. Index(t) = Index(p.stage) => t = p.stage
        BY <2>3, StageFacts
      <4> QED
        BY <2>3, <4>1, <4>2 DEF PassedBy
    <3> QED
      BY <3>1 DEF PassedBy
  <2> HIDE DEF next
  <2>5. /\ record'.stage = next
        /\ record'.version = record.version
        /\ operation'[o].project = record'
        /\ operation'[o].kind = "approve" /\ operation'[o].at = "stored"
        /\ \A x \in Operation \ {o} : operation'[x] = operation[x]
    <3>1. operation[o] \in Operations /\ operation \in [Operation -> Operations \cup {Idle}]
      BY <1>0, <1>4, UnderWay DEF ApproveStore, TypeOK
    <3>2. record \in Project
      BY <1>0 DEF TypeOK
    <3> DEFINE stored == [record EXCEPT !.stage = next,
                            !.summaryReady = record.summaryReady /\ next # Complete]
    <3>3. record' = stored /\ stored.stage = next /\ stored.version = record.version
      BY <3>2, <1>4 DEF ApproveStore, next, Project
    <3>4. operation' = [operation EXCEPT ![o].at = "stored", ![o].stage = p.stage,
                                         ![o].project = record']
      BY <1>4, <3>3 DEF ApproveStore, next
    <3>5. operation[o].kind = "approve"
      BY <1>4 DEF ApproveStore
    <3> HIDE DEF stored
    <3> QED
      BY <3>1, <3>3, <3>4, <3>5 DEF Operations
  <2>6. UNCHANGED <<working, docs, summary, skipped>>
    BY <1>4 DEF ApproveStore
  <2> QED
    BY <2>1, <2>2, <2>4, <2>5, <2>6, FilesKept
<1>5. ASSUME NEW o \in Operation, Promote(o)
      PROVE Uncrossed'
  <2>1. Uncrossed
    BY <1>5 DEF ArtifactInv, Promote, Advance
  <2>2. \A x \in Operation : operation[x].kind \notin {"reset", "enhance"}
    BY <1>5, <2>1 DEF Promote
  <2>3. ASSUME NEW v \in Version, NEW t, Artifact(v, t)
        PROVE  Artifact(v, t)'
    <3> DEFINE u == operation[o].project.version
               s == operation[o].stage
    <3>1. u \in Version
      BY <1>0, <1>5, UnderWay DEF Promote, Project
    <3>2. CASE /\ docs' = [docs EXCEPT ![u] = @ \cup {s}]
               /\ working' = [working EXCEPT ![u] = @ \ {s}]
      <4>1. docs'[v] = IF v = u THEN docs[v] \cup {s} ELSE docs[v]
        BY <1>0, <3>1, <3>2 DEF TypeOK
      <4>2. working'[v] = IF v = u THEN working[v] \ {s} ELSE working[v]
        BY <1>0, <3>1, <3>2 DEF TypeOK
      <4> QED
        BY <2>3, <4>1, <4>2 DEF Artifact
    <3>3. CASE UNCHANGED <<docs, working>>
      BY <2>3, <3>3 DEF Artifact
    <3> QED
      BY <1>5, <3>2, <3>3 DEF Promote
  <2>4. \A v \in Version : \A t : PassedBy(v, t) => PassedBy(v, t)'
    BY <1>5, <2>3, ArtifactsKept DEF Promote
  <2>5. \A x \in Operation : operation[x].kind # "none" =>
          operation[x].project.version \in Version
    BY <1>0, UnderWay DEF Project
  <2>6. record.version \in Version
    BY <1>0 DEF TypeOK, Project
  <2>7. summary # NoRun => summary.project.version \in Version
    BY <1>0, SummaryType DEF Project
  <2> QED
    BY <1>0, <1>5, <2>1, <2>2, <2>3, <2>4, <2>5, <2>6, <2>7
       DEF TypeOK, Operations, Advance, Promote
<1>6. ASSUME NEW o \in Operation, ApproveEnd(o)
      PROVE Uncrossed'
  <2>1. Uncrossed
    BY <1>6 DEF ArtifactInv, ApproveEnd
  <2>2. \A x \in Operation : operation[x].kind \notin {"reset", "enhance"}
    BY <1>6, <2>1 DEF ApproveEnd
  <2>3. operation' = [operation EXCEPT ![o] = Idle]
    BY <1>6 DEF ApproveEnd, End
  <2>4. UNCHANGED <<record, working, docs, skipped>>
    BY <1>6 DEF ApproveEnd
  <2>5. /\ operation[o].project.version = record.version
        /\ Passed(operation[o].project)
    BY <1>6, <2>1, <2>2 DEF ApproveEnd
  <2>6. UNCHANGED summary \/ summary'.project = operation[o].project
    BY <1>6 DEF ApproveEnd, StartSummary
  <2>7. summary # NoRun => UNCHANGED summary
    BY <1>6 DEF ApproveEnd, StartSummary
  <2> QED
    BY <1>0, <2>1, <2>2, <2>3, <2>4, <2>5, <2>6, <2>7, FilesKept DEF TypeOK
<1>7. ASSUME NEW o \in Operation, PatchStore(o) \/ RunStore(o)
      PROVE Uncrossed'
  <2>1. Uncrossed
    BY <1>7 DEF ArtifactInv, PatchStore, RunStore, Update, End
  <2>2. \A x \in Operation : operation[x].kind \notin {"reset", "enhance"}
    BY <1>7, <2>1 DEF PatchStore, RunStore
  <2>3. record' = operation[o].project /\ UNCHANGED <<working, docs, summary, skipped>>
    BY <1>7 DEF PatchStore, RunStore, Update
  <2>4. record'.version = record.version /\ Passed(record')
    BY <1>7, <2>1, <2>2, <2>3 DEF PatchStore, RunStore
  <2>5. operation' = [operation EXCEPT ![o] = Idle]
    BY <1>7 DEF PatchStore, RunStore, End
  <2> QED
    BY <1>0, <2>1, <2>2, <2>3, <2>4, <2>5, FilesKept DEF TypeOK
<1>8. ASSUME NEW o \in Operation, ResetFiles(o)
      PROVE Uncrossed'
  <2>1. Uncrossed
    BY <1>8 DEF ArtifactInv, ResetFiles, Advance
  <2>2. summary = NoRun /\ \A x \in Operation \ {o} : operation[x] = Idle
    BY <1>8, <2>1 DEF ResetFiles
  <2> DEFINE v == record.version
             s == operation[o].stage
  <2>3. /\ operation[o] \in Operations /\ s \in Stage /\ v \in Version
        /\ record \in Project /\ operation[o].project = record
    BY <1>0, <1>8, <2>1, UnderWay DEF ResetFiles, TypeOK, Project
  <2>4. PassedOrAhead(s)'
    <3>1. PassedBy(v, record.stage)
      BY <1>8, <2>1, <2>2 DEF ResetFiles
    <3>2. working' = [working EXCEPT ![v] = {t \in @ : Index(t) < Index(s)}]
      BY <1>8, <2>3 DEF ResetFiles
    <3>3. UNCHANGED <<docs, record, skipped>> /\ operation'[o].stage = s
      BY <1>0, <1>8, <2>3 DEF ResetFiles, Advance, TypeOK, Operations
    <3>4. ASSUME NEW t \in Stage, Index(t) < Index(s), Artifact(v, t)
          PROVE  Artifact(v, t)'
      BY <1>0, <2>3, <3>2, <3>3, <3>4 DEF Artifact, TypeOK
    <3>5. ASSUME NEW t \in Stage
          PROVE  Index(t) < Index(record.stage) \/ Index(record.stage) <= Index(t)
      BY <2>3, IndexFacts DEF Project
    <3> QED
      BY <3>1, <3>3, <3>4, <3>5 DEF PassedBy, PassedOrAhead
  <2>5. /\ operation'[o].at = "ready" /\ operation'[o].kind = "reset"
        /\ operation'[o].project = record /\ operation'[o].stage = s
        /\ \A x \in Operation \ {o} : operation'[x] = Idle
        /\ UNCHANGED <<record, summary>>
    BY <1>0, <1>8, <2>2, <2>3 DEF ResetFiles, Advance, TypeOK, Operations
  <2> QED
    BY <2>2, <2>4, <2>5
<1>9. ASSUME NEW o \in Operation, ResetStore(o)
      PROVE Uncrossed'
  <2>1. Uncrossed
    BY <1>9 DEF ArtifactInv, ResetStore
  <2>2. /\ operation[o].project = record /\ summary = NoRun
        /\ \A x \in Operation \ {o} : operation[x] = Idle
        /\ PassedOrAhead(operation[o].stage)
    BY <1>9, <2>1 DEF ResetStore
  <2> DEFINE s == operation[o].stage
  <2>3. record'.stage = s /\ record'.version = record.version
    BY <1>0, <1>9, <2>2 DEF ResetStore, Update, TypeOK, Project
  <2>4. ASSUME NEW t \in Stage, Index(t) < Index(s)
        PROVE  Artifact(record.version, t)' \/ t \in skipped'
    <3>1. Artifact(record.version, t) => Artifact(record.version, t)'
      BY <1>9, <2>3 DEF ResetStore, Artifact
    <3>2. t \in skipped \/ Index(record.stage) <= Index(t) => t \in skipped'
      BY <1>9, <2>2, <2>4 DEF ResetStore
    <3> QED
      BY <2>2, <2>4, <3>1, <3>2 DEF PassedOrAhead
  <2>5. Passed(record)'
    BY <2>3, <2>4 DEF PassedBy
  <2>6. summary' = NoRun /\ \A x \in Operation : operation'[x] = Idle
    BY <1>0, <1>9, <2>2 DEF ResetStore, End, TypeOK
  <2> QED
    BY <2>5, <2>6
<1>10. ASSUME NEW o \in Operation, RegenerateStore(o)
      PROVE Uncrossed'
  <2>1. Uncrossed
    BY <1>10 DEF ArtifactInv, RegenerateStore, Update
  <2>2. \A x \in Operation : operation[x].kind \notin {"reset", "enhance"}
    BY <1>10, <2>1 DEF RegenerateStore
  <2> DEFINE p == [operation[o].project EXCEPT !.summaryReady = FALSE]
  <2>3. operation[o] \in Operations /\ operation[o].project \in Project
    BY <1>0, <1>10, UnderWay DEF RegenerateStore
  <2>4. p.version = operation[o].project.version /\ p.stage = operation[o].project.stage
    BY <2>3 DEF Project
  <2>5. record' = p
    BY <1>10 DEF RegenerateStore, Update
  <2>6. operation' = [operation EXCEPT ![o].at = "stored", ![o].project = p]
    BY <1>10 DEF RegenerateStore
  <2> HIDE DEF p
  <2>7. /\ operation'[o].kind = "regenerate" /\ operation'[o].project = p
        /\ \A x \in Operation \ {o} : operation'[x] = operation[x]
    BY <1>0, <1>10, <2>3, <2>6 DEF RegenerateStore, TypeOK, Operations
  <2>8. p.version = record.version /\ Passed(p)
    BY <1>10, <2>1, <2>2, <2>4 DEF RegenerateStore
  <2>9. UNCHANGED <<working, docs, summary, skipped>>
    BY <1>10 DEF RegenerateStore
  <2> QED
    BY <2>1, <2>2, <2>5, <2>7, <2>8, <2>9, FilesKept
<1>11. ASSUME NEW o \in Operation, RegenerateStart(o)
      PROVE Uncrossed'
  <2>1. Uncrossed
    BY <1>11 DEF ArtifactInv, RegenerateStart, StartSummary, End
  <2> QED
    BY FilesKept, <1>0, <1>11, <2>1
       DEF TypeOK, Operations, Project, RegenerateStart, StartSummary, End
<1>12. ASSUME NEW o \in Operation, PublishFile(o)
      PROVE Uncrossed'
  <2>1. Uncrossed
    BY <1>12 DEF ArtifactInv, PublishFile, Advance
  <2> QED
    BY SMTT(20), FilesKept, <1>0, <1>12, <2>1
       DEF TypeOK, Operations, Project, PublishFile, Advance
<1>13. ASSUME NEW o \in Operation, PublishStore(o)
      PROVE Uncrossed'
  <2>1. Uncrossed
    BY <1>13 DEF ArtifactInv, PublishStore, Update, End
  <2> QED
    BY FilesKept, <1>0, <1>13, <2>1
       DEF TypeOK, Operations, Project, PublishStore, Update, End
<1>14. ASSUME NEW o \in Operation, EnhanceStore(o)
      PROVE Uncrossed'
  <2>1. Uncrossed
    BY <1>14 DEF ArtifactInv, EnhanceStore, Update, End
  <2>2. summary = NoRun /\ \A x \in Operation \ {o} : operation[x] = Idle
    BY <1>14, <2>1 DEF EnhanceStore
  <2>3. record'.stage = StageOrder[1]
    <3>1. operation[o].project \in Project
      BY <1>0, <1>14, UnderWay DEF EnhanceStore
    <3> QED
      BY <1>14, <3>1 DEF EnhanceStore, Update, Project
  <2>4. Passed(record)'
    BY <2>3, IndexFacts DEF PassedBy
  <2>5. summary' = NoRun /\ \A x \in Operation : operation'[x] = Idle
    BY <1>0, <1>14, <2>2 DEF EnhanceStore, End, TypeOK
  <2> QED
    BY <2>4, <2>5
<1>15. ASSUME NEW o \in Operation, RunArtifact(o)
      PROVE Uncrossed'
  <2>1. Uncrossed
    BY <1>15 DEF ArtifactInv, RunArtifact, Advance
  <2>2. \A x \in Operation : operation[x].kind \notin {"reset", "enhance"}
    BY <1>15, <2>1 DEF RunArtifact
  <2>3. ASSUME NEW v \in Version, NEW t, Artifact(v, t)
        PROVE  Artifact(v, t)'
    BY <1>0, <1>15, <2>3 DEF RunArtifact, Artifact, TypeOK
  <2>4. \A v \in Version : \A t : PassedBy(v, t) => PassedBy(v, t)'
    BY <1>15, <2>3, ArtifactsKept DEF RunArtifact
  <2>5. \A x \in Operation : operation[x].kind # "none" =>
          operation[x].project.version \in Version
    BY <1>0, UnderWay DEF Project
  <2>6. record.version \in Version
    BY <1>0 DEF TypeOK, Project
  <2>7. summary # NoRun => summary.project.version \in Version
    BY <1>0, SummaryType DEF Project
  <2> QED
    BY <1>0, <1>15, <2>1, <2>2, <2>3, <2>4, <2>5, <2>6, <2>7
       DEF TypeOK, Operations, Advance, RunArtifact
<1>16. ASSUME SummaryFile
      PROVE Uncrossed'
  <2>1. Uncrossed
    BY <1>16 DEF ArtifactInv, SummaryFile
  <2> QED
    BY FilesKept, <1>0, <1>16, <2>1
       DEF TypeOK, Operations, Project, SummaryFile
<1>17. ASSUME SummaryStore
      PROVE Uncrossed'
  <2>1. Uncrossed
    BY <1>17 DEF ArtifactInv, SummaryStore, Update
  <2> QED
    BY FilesKept, <1>0, <1>17, <2>1
       DEF TypeOK, Operations, Project, SummaryStore, Update
<1>18. ASSUME SummaryEnd
      PROVE Uncrossed'
  <2>1. Uncrossed
    BY <1>18 DEF ArtifactInv, SummaryEnd
  <2> QED
    BY FilesKept, <1>0, <1>18, <2>1
       DEF TypeOK, Operations, Project, SummaryEnd
<1>19. UNCHANGED vars => Uncrossed'
  BY FilesKept DEF vars, ArtifactInv
<1> QED
  BY <1>0, StepCases, <1>1, <1>2, <1>3, <1>4, <1>5, <1>6, <1>7, <1>8, <1>9, <1>10,
     <1>11, <1>12, <1>13, <1>14, <1>15, <1>16, <1>17, <1>18, <1>19

\* As long as resets and enhancements run alone and to their end, approvals,
\* toggles, agent runs and summary work (ApproveInternal, Patch, chat, summary),
\* in any interleaving, bring the project past no stage without an artifact: it
\* is past one only where a reset to a later stage, which Reset accepts and
\* stores unchecked, went past it.
THEOREM PassedStagesKeepArtifacts == Spec => []PassedStagesHaveArtifacts
<1>1. Init => ArtifactInv
  BY IndexFacts DEF Init, ArtifactInv, Uncrossed, Passed, PassedBy, Idle, NoRun
<1>2. PipelineInv /\ ArtifactInv /\ [Next]_vars => ArtifactInv'
  BY ArtifactStep
<1>3. ArtifactInv => PassedStagesHaveArtifacts
  BY DEF ArtifactInv, Uncrossed, Resetting, At, Passed, PassedBy, InFlight,
         PassedStagesHaveArtifacts
<1> QED
  BY <1>1, <1>2, <1>3, PipelineInvariant, PTL DEF Spec
=============================================================================
