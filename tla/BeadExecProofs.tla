--------------------------- MODULE BeadExecProofs ---------------------------
(***************************************************************************)
(* What holds of the execution of beads for every plan, every number of    *)
(* workers, requests, slots, reviews, failures and crashes: types, the     *)
(* slots and their owners, the exclusion of agents by claims, and that no  *)
(* run is alive while a bead is stuck in progress.                         *)
(***************************************************************************)
EXTENDS BeadExec, FiniteSetTheorems, SequenceTheorems, TLAPS

USE PlanAssumption, SlotsAssumption, ReviewsAssumption, RetriesAssumption, BoundsAssumption

(***************************************************************************)
(* The actions of Next, by the variables they touch.                       *)
(***************************************************************************)
Generates == ParsePlan \/ StopGenerating \/ CreatePlanned \/ LinkPlanned

LEMMA StepCases ==
  ASSUME [Next]_vars
  PROVE  \/ Generates
         \/ PickReady \/ TakeSlot \/ ClaimAndStart \/ ClaimFails \/ WorkersDone
         \/ GateStep \/ FinishRun
         \/ \E w \in Workers : WorkerStep(w)
         \/ SingleRunStep
         \/ \E q \in Requests : RequestStep(q)
         \/ UserStep
         \/ Crash
         \/ UNCHANGED vars
  BY DEF Next, Generates, RunStep, LoopStep

-----------------------------------------------------------------------------
(* Types *)

WorkRecord == [pc : {"free", "create", "link", "claim"} \cup AtWork,
               bead : Beads \cup {NoBead}, corr : Beads \cup {NoBead},
               iter : 0 .. (MaxReviewIterations - 1)]

\* A worker that is not free has its bead, one that made a correction has that,
\* and one that goes on to a correction has a review left.
WellFormed(x) ==
  /\ x \in WorkRecord
  /\ x.pc # "free" => x.bead \in Beads
  /\ x.pc \in {"link", "claim"} => x.corr \in Beads
  /\ x.pc \in {"closeRejected", "create", "link", "claim"} => x.iter < MaxReviewIterations - 1

BdTyped ==
  /\ status \in [Beads -> {"none", "open", "in_progress", "closed"}]
  /\ deps \in [Beads -> SUBSET Beads]
  /\ lost \subseteq Beads /\ reopened \subseteq Beads

GenTyped ==
  /\ gen \in [pc : {"parse", "create", "link", "done"}, at : 0 .. Len(Plan)]
  /\ gen.pc \in {"create", "link"} => gen.at \in 1 .. Len(Plan)

RunStates == {"idle", "loop", "slot", "claim", "wait", "gate", "fixClaim", "fix",
              "fixClose", "done"}

RunRecord == [pc : RunStates, bead : Beads \cup {NoBead},
              attempt : 0 .. (MaxValidationRetries - 1)]

RunTyped ==
  /\ run \in RunRecord
  /\ run.pc \in {"slot", "claim", "fixClaim", "fix", "fixClose"} => run.bead \in Beads
  /\ run.pc \in {"fixClaim", "fix", "fixClose"} => run.attempt < MaxValidationRetries - 1

WorkTyped ==
  /\ work \in [Workers -> WorkRecord]
  /\ \A w \in Workers : WellFormed(work[w])

SingleTyped ==
  /\ single \in [pc : {"idle", "claim"} \cup AtWork, bead : Beads \cup {NoBead},
                 iter : 0 .. (MaxReviewIterations - 1)]
  /\ single.pc # "idle" => single.bead \in Beads

ReqTyped ==
  req \in [Requests -> [pc : {"idle", "list", "reset"}, kind : {"none", "execute", "graph"},
                        todo : SUBSET Beads]]

RestTyped ==
  /\ cancelled \in BOOLEAN
  /\ used \in [arrivals : 0 .. MaxArrivals, events : 0 .. MaxEvents]

Typed == /\ BdTyped /\ GenTyped /\ RunTyped /\ WorkTyped /\ SingleTyped /\ ReqTyped
         /\ RestTyped

LEMMA TypedFrame ==
  ASSUME Typed, UNCHANGED vars PROVE Typed'
  BY DEF Typed, BdTyped, GenTyped, RunTyped, WorkTyped, WellFormed, SingleTyped, ReqTyped,
         RestTyped, vars

LEMMA NothingTyped ==
  /\ WellFormed(NoWork) /\ NoRun \in RunRecord
  /\ NoSingle \in [pc : {"idle", "claim"} \cup AtWork, bead : Beads \cup {NoBead},
                   iter : 0 .. (MaxReviewIterations - 1)]
  /\ NoReq \in [pc : {"idle", "list", "reset"}, kind : {"none", "execute", "graph"},
                todo : SUBSET Beads]
<1>1. 0 \in 0 .. (MaxReviewIterations - 1) /\ 0 \in 0 .. (MaxValidationRetries - 1)
  BY DEF ReviewsAssumption, RetriesAssumption
<1> QED
  BY <1>1 DEF WellFormed, WorkRecord, NoWork, RunRecord, RunStates, NoRun, NoSingle, NoReq

LEMMA InitTyped == Init => Typed
<1> SUFFICES ASSUME Init PROVE Typed
  OBVIOUS
<1>1. BdTyped
  BY DEF Init, BdTyped
<1>2. GenTyped
  BY LenProperties DEF Init, GenTyped, PlanAssumption
<1>3. RunTyped /\ SingleTyped /\ ReqTyped
  BY NothingTyped DEF Init, RunTyped, SingleTyped, ReqTyped, NoRun, NoSingle
<1>4. WorkTyped
  BY NothingTyped DEF Init, WorkTyped, WellFormed
<1>5. RestTyped
  <2>1. 0 \in 0 .. MaxArrivals /\ 0 \in 0 .. MaxEvents
    BY DEF BoundsAssumption
  <2> QED
    BY <2>1 DEF Init, RestTyped
<1> QED
  BY <1>1, <1>2, <1>3, <1>4, <1>5 DEF Typed

\* The run goes on to another state, with the same bead or another one.
LEMMA RunGoes ==
  ASSUME Typed, NEW p \in RunStates, NEW b \in Beads \cup {NoBead},
         \/ run' = [run EXCEPT !.pc = p, !.bead = b]
         \/ run' = [run EXCEPT !.pc = p] /\ b = run.bead,
         p \in {"slot", "claim", "fixClaim", "fix", "fixClose"} => b \in Beads,
         p \in {"fixClaim", "fix", "fixClose"} => run.attempt < MaxValidationRetries - 1
  PROVE  RunTyped'
<1>1. run \in RunRecord
  BY DEF Typed, RunTyped
<1>2. run' \in RunRecord /\ run'.pc = p /\ run'.bead = b /\ run'.attempt = run.attempt
  BY <1>1 DEF RunRecord
<1> QED
  BY <1>2 DEF RunTyped

\* An event is counted, or nothing is.
LEMMA FaultTyped ==
  ASSUME RestTyped, UNCHANGED cancelled, Event \/ RunFault \/ RunOk \/ UNCHANGED used
  PROVE  RestTyped'
  BY DEF RestTyped, Event, RunFault, RunOk

LEMMA EventTyped ==
  ASSUME RestTyped, Event
  PROVE  used' \in [arrivals : 0 .. MaxArrivals, events : 0 .. MaxEvents]
<1>1. used.events + 1 \in 0 .. MaxEvents
  BY DEF RestTyped, Event, BoundsAssumption
<1> QED
  BY <1>1 DEF RestTyped, Event

LEMMA SetsTyped ==
  ASSUME BdTyped, NEW b \in Beads, UNCHANGED deps,
         \/ SetOpen(b)
         \/ bdClaim(b) /\ UNCHANGED <<lost, reopened>>
         \/ bdClose(b) /\ UNCHANGED <<lost, reopened>>
         \/ bdCreate(b) /\ UNCHANGED <<lost, reopened>>
         \/ lost' = lost \cup {b} /\ UNCHANGED <<status, reopened>>
         \/ UNCHANGED <<status, lost, reopened>>
  PROVE  BdTyped'
  BY DEF BdTyped, SetOpen, bdClaim, bdClose, bdCreate

LEMMA PlanTyped == \A i \in 1 .. Len(Plan) : Plan[i] \in Beads /\ Plan[i] \in Planned
  BY ElementOfSeq DEF PlanAssumption, Beads

LEMMA GeneratesTyped ==
  ASSUME Typed, Generates PROVE Typed'
<1>1. UNCHANGED <<run, work, single, req, cancelled, lost, reopened>>
  BY DEF Generates, ParsePlan, StopGenerating, CreatePlanned, LinkPlanned
<1>2. RestTyped'
  BY <1>1, FaultTyped DEF Typed, Generates, ParsePlan, StopGenerating, CreatePlanned, LinkPlanned
<1>3. GenTyped'
  <2>1. Len(Plan) \in Nat /\ (Plan # <<>> => Len(Plan) >= 1)
    BY LenProperties, EmptySeq DEF PlanAssumption
  <2> QED
    BY <2>1 DEF Typed, GenTyped, Generates, ParsePlan, StopGenerating, CreatePlanned, LinkPlanned
<1>4. BdTyped'
  <2>1. CASE ParsePlan \/ StopGenerating
    BY <2>1 DEF Typed, BdTyped, ParsePlan, StopGenerating
  <2>2. CASE CreatePlanned
    <3>1. Plan[gen.at] \in Beads
      BY <2>2, PlanTyped DEF Typed, GenTyped, CreatePlanned
    <3> QED
      BY <1>1, <2>2, <3>1, SetsTyped DEF Typed, CreatePlanned
  <2>3. CASE LinkPlanned
    <3>1. Plan[gen.at] \in Beads /\ Plan[gen.at] \in Planned
      BY <2>3, PlanTyped DEF Typed, GenTyped, LinkPlanned
    <3>2. \A d \in PlanDeps[Plan[gen.at]] : d \in Beads
      BY <3>1 DEF PlanAssumption, Beads
    <3> QED
      BY <1>1, <2>3, <3>1, <3>2 DEF Typed, BdTyped, LinkPlanned
  <2> QED
    BY <2>1, <2>2, <2>3 DEF Generates
<1> QED
  BY <1>1, <1>2, <1>3, <1>4
     DEF Typed, RunTyped, WorkTyped, WellFormed, SingleTyped, ReqTyped

\* One worker's record is replaced.
LEMMA WorkUpdate ==
  ASSUME WorkTyped, NEW w \in Workers, NEW x, WellFormed(x), work' = [work EXCEPT ![w] = x]
  PROVE  WorkTyped'
  BY DEF WorkTyped, WellFormed

LEMMA LoopTyped ==
  ASSUME Typed, PickReady \/ TakeSlot \/ ClaimAndStart \/ ClaimFails \/ WorkersDone \/ FinishRun
  PROVE  Typed'
<1>1. UNCHANGED <<deps, gen, single, req, cancelled, lost, reopened>>
  BY DEF PickReady, TakeSlot, ClaimAndStart, ClaimFails, WorkersDone, FinishRun
<1>2. RestTyped'
  BY <1>1, FaultTyped
     DEF Typed, PickReady, TakeSlot, ClaimAndStart, ClaimFails, WorkersDone, FinishRun, bdClaimFails
<1>3. RunTyped'
  <2>1. CASE PickReady
    <3>1. PICK p \in {"slot", "wait"}, b \in Beads \cup {NoBead} :
            run' = [run EXCEPT !.pc = p, !.bead = b] /\ (p = "slot" => b \in Beads)
      BY <2>1 DEF PickReady
    <3>2. p \in RunStates /\ p \notin {"claim", "fixClaim", "fix", "fixClose"}
      BY DEF RunStates
    <3> QED
      BY <3>1, <3>2, RunGoes
  <2>2. CASE TakeSlot
    <3>1. run.bead \in Beads /\ "claim" \in RunStates
      BY <2>2 DEF Typed, RunTyped, TakeSlot, RunStates
    <3> QED
      BY <2>2, <3>1, RunGoes DEF TakeSlot
  <2>3. CASE ClaimAndStart \/ ClaimFails
    <3>1. run' = [run EXCEPT !.pc = "loop", !.bead = NoBead] /\ "loop" \in RunStates
      BY <2>3 DEF ClaimAndStart, ClaimFails, RunStates
    <3> QED
      BY <3>1, RunGoes
  <2>4. CASE WorkersDone
    <3>1. PICK p \in {"gate", "done"} : run' = [run EXCEPT !.pc = p]
      BY <2>4 DEF WorkersDone
    <3>2. p \in RunStates /\ run.bead \in Beads \cup {NoBead}
      BY DEF Typed, RunTyped, RunStates, RunRecord
    <3> QED
      BY <3>1, <3>2, RunGoes
  <2>5. CASE FinishRun
    BY <2>5, NothingTyped DEF RunTyped, FinishRun, NoRun
  <2> QED
    BY <2>1, <2>2, <2>3, <2>4, <2>5
<1>4. BdTyped' /\ WorkTyped'
  <2>1. CASE ClaimAndStart
    <3>1. run.bead \in Beads
      BY <2>1 DEF Typed, RunTyped, ClaimAndStart
    <3>2. BdTyped'
      BY <1>1, <2>1, <3>1, SetsTyped DEF Typed, ClaimAndStart
    <3>3. PICK w \in Workers :
            work' = [work EXCEPT ![w] = [NoWork EXCEPT !.pc = "execute", !.bead = run.bead]]
      BY <2>1 DEF ClaimAndStart
    <3>4. WellFormed([NoWork EXCEPT !.pc = "execute", !.bead = run.bead])
      BY <3>1, NothingTyped DEF WellFormed, WorkRecord, AtWork
    <3> QED
      BY <3>2, <3>3, <3>4, WorkUpdate DEF Typed
  <2>2. CASE PickReady \/ TakeSlot \/ ClaimFails \/ WorkersDone \/ FinishRun
    BY <2>2 DEF Typed, BdTyped, WorkTyped, WellFormed, PickReady, TakeSlot, ClaimFails,
                WorkersDone, FinishRun
  <2> QED
    BY <2>1, <2>2
<1> QED
  BY <1>1, <1>2, <1>3, <1>4 DEF Typed, GenTyped, SingleTyped, ReqTyped

LEMMA GateTyped ==
  ASSUME Typed, GateStep PROVE Typed'
<1>1. UNCHANGED <<deps, gen, work, single, req, cancelled, reopened>>
  BY DEF GateStep, ValidationPasses, ValidationGivesUp, CreateFix, ClaimFix, ExecuteFix,
         CloseFix, gateRest
<1>2. RestTyped'
  BY <1>1, FaultTyped
     DEF Typed, GateStep, ValidationPasses, ValidationGivesUp, CreateFix, ClaimFix, ExecuteFix,
         CloseFix, bdClaimFails
<1>3. RunTyped'
  <2>1. CASE ValidationPasses \/ ValidationGivesUp
    <3>1. run' = [run EXCEPT !.pc = "done"] /\ "done" \in RunStates
      BY <2>1 DEF ValidationPasses, ValidationGivesUp, RunStates
    <3>2. run.bead \in Beads \cup {NoBead}
      BY DEF Typed, RunTyped, RunRecord
    <3> QED
      BY <3>1, <3>2, RunGoes
  <2>2. CASE CreateFix
    <3>1. PICK f \in Spare : run' = [run EXCEPT !.pc = "fixClaim", !.bead = f]
      BY <2>2 DEF CreateFix
    <3>2. f \in Beads /\ run.attempt < MaxValidationRetries - 1
      BY <2>2, <3>1 DEF CreateFix, Beads
    <3>3. "fixClaim" \in RunStates
      BY DEF RunStates
    <3> QED
      BY <3>1, <3>2, <3>3, RunGoes
  <2>3. CASE ClaimFix \/ ExecuteFix
    <3>1. PICK p \in {"fix", "fixClose", "done"} : run' = [run EXCEPT !.pc = p]
      BY <2>3 DEF ClaimFix, ExecuteFix
    <3>2. run.pc \in {"fixClaim", "fix"}
      BY <2>3 DEF ClaimFix, ExecuteFix
    <3>3. p \in RunStates /\ run.bead \in Beads /\ run.attempt < MaxValidationRetries - 1
      BY <3>2 DEF Typed, RunTyped, RunStates
    <3> QED
      BY <3>1, <3>3, RunGoes
  <2>4. CASE CloseFix
    <3>1. run.attempt + 1 \in 0 .. (MaxValidationRetries - 1)
      BY <2>4 DEF Typed, RunTyped, RunRecord, CloseFix, RetriesAssumption
    <3> QED
      BY <2>4, <3>1 DEF RunTyped, RunRecord, RunStates, CloseFix
  <2> QED
    BY <2>1, <2>2, <2>3, <2>4 DEF GateStep
<1>4. BdTyped'
  <2>1. CASE ValidationPasses \/ ValidationGivesUp
    BY <2>1 DEF Typed, BdTyped, ValidationPasses, ValidationGivesUp, gateRest
  <2>2. CASE CreateFix
    <3>1. PICK f \in Spare : bdCreate(f)
      BY <2>2 DEF CreateFix
    <3> QED
      BY <1>1, <2>2, <3>1, SetsTyped DEF Typed, CreateFix, Beads
  <2>3. CASE ClaimFix \/ ExecuteFix \/ CloseFix
    <3>1. run.bead \in Beads
      BY <2>3 DEF Typed, RunTyped, ClaimFix, ExecuteFix, CloseFix
    <3> QED
      BY <1>1, <2>3, <3>1, SetsTyped DEF Typed, ClaimFix, ExecuteFix, CloseFix
  <2> QED
    BY <2>1, <2>2, <2>3 DEF GateStep
<1> QED
  BY <1>1, <1>2, <1>3, <1>4 DEF Typed, GenTyped, WorkTyped, WellFormed, SingleTyped, ReqTyped

\* A worker's step replaces its record by a well-formed one.
LEMMA WorkerMoves ==
  ASSUME Typed, NEW w \in Workers, WorkerStep(w)
  PROVE  \E x : WellFormed(x) /\ work' = [work EXCEPT ![w] = x]
<1>1. WellFormed(work[w])
  BY DEF Typed, WorkTyped
<1>2. WellFormed(NoWork)
  BY NothingTyped
<1>3. CASE GiveUp(w) \/ CloseApproved(w)
  BY <1>2, <1>3 DEF GiveUp, CloseApproved, Leave
<1>4. CASE Executed(w) \/ Approve(w) \/ Reject(w)
  <2>1. PICK p \in {"review", "closeApproved", "closeRejected"} :
          /\ work' = [work EXCEPT ![w] = [work[w] EXCEPT !.pc = p]]
          /\ p = "closeRejected" => work[w].iter < MaxReviewIterations - 1
          /\ work[w].pc # "free"
    BY <1>4 DEF Executed, Approve, Reject
  <2>2. WellFormed([work[w] EXCEPT !.pc = p])
    BY <1>1, <2>1 DEF WellFormed, WorkRecord, AtWork
  <2> QED
    BY <2>1, <2>2
<1>5. CASE CloseRejected(w)
  <2>1. WellFormed([work[w] EXCEPT !.pc = "create"])
    BY <1>1, <1>5 DEF CloseRejected, WellFormed, WorkRecord, AtWork
  <2> QED
    BY <1>2, <1>5, <2>1 DEF CloseRejected, Leave
<1>6. CASE CreateCorrection(w)
  <2>1. \A c \in Spare : WellFormed([work[w] EXCEPT !.pc = "link", !.corr = c])
    BY <1>1, <1>6 DEF CreateCorrection, WellFormed, WorkRecord, AtWork, Beads
  <2> QED
    <3>1. CASE Leave(w)
      BY <1>2, <3>1 DEF Leave
    <3>2. CASE \E c \in Spare : work' = [work EXCEPT ![w].pc = "link", ![w].corr = c]
      <4>1. PICK c \in Spare : work' = [work EXCEPT ![w].pc = "link", ![w].corr = c]
        BY <3>2
      <4>2. work' = [work EXCEPT ![w] = [work[w] EXCEPT !.pc = "link", !.corr = c]]
        BY <4>1 DEF Typed, WorkTyped
      <4> QED
        BY <2>1, <4>2
    <3> QED
      BY <1>6, <3>1, <3>2 DEF CreateCorrection
<1>7. CASE LinkCorrection(w)
  <2>1. WellFormed([work[w] EXCEPT !.pc = "claim"])
    BY <1>1, <1>7 DEF LinkCorrection, WellFormed, WorkRecord, AtWork
  <2> QED
    BY <1>7, <2>1 DEF LinkCorrection
<1>8. CASE ClaimCorrection(w)
  <2>1. WellFormed([pc |-> "execute", bead |-> work[w].corr, corr |-> NoBead,
                    iter |-> work[w].iter + 1])
    BY <1>1, <1>8 DEF ClaimCorrection, WellFormed, WorkRecord, AtWork, ReviewsAssumption
  <2> QED
    BY <1>2, <1>8, <2>1 DEF ClaimCorrection, Leave
<1> QED
  BY <1>3, <1>4, <1>5, <1>6, <1>7, <1>8 DEF WorkerStep

LEMMA WorkerTyped ==
  ASSUME Typed, NEW w \in Workers, WorkerStep(w)
  PROVE  Typed'
<1>1. UNCHANGED <<gen, run, single, req, cancelled, reopened>>
  BY DEF WorkerStep, GiveUp, Executed, Approve, Reject, CloseApproved, CloseRejected,
         CreateCorrection, LinkCorrection, ClaimCorrection, runRest
<1>2. RestTyped'
  BY <1>1, FaultTyped
     DEF Typed, WorkerStep, GiveUp, Executed, Approve, Reject, CloseApproved, CloseRejected,
         CreateCorrection, LinkCorrection, ClaimCorrection, bdClaimFails
<1>3. WorkTyped'
  BY WorkerMoves, WorkUpdate DEF Typed
<1>4. BdTyped'
  <2>1. work[w].pc # "free" /\ work[w].bead \in Beads
        /\ (work[w].pc \in {"link", "claim"} => work[w].corr \in Beads)
    BY DEF Typed, WorkTyped, WellFormed, WorkerStep, GiveUp, Executed, Approve, Reject,
           CloseApproved, CloseRejected, CreateCorrection, LinkCorrection, ClaimCorrection
  <2>2. CASE LinkCorrection(w)
    BY <1>1, <2>1, <2>2 DEF Typed, BdTyped, LinkCorrection
  <2>3. CASE GiveUp(w) \/ Executed(w) \/ Approve(w) \/ Reject(w) \/ CloseApproved(w)
             \/ CloseRejected(w)
    BY <1>1, <2>1, <2>3, SetsTyped
       DEF Typed, GiveUp, Executed, Approve, Reject, CloseApproved, CloseRejected
  <2>4. CASE ClaimCorrection(w)
    BY <1>1, <2>1, <2>4, SetsTyped DEF Typed, ClaimCorrection
  <2>5. CASE CreateCorrection(w)
    BY <1>1, <2>1, <2>5, SetsTyped DEF Typed, CreateCorrection, Beads
  <2> QED
    BY <2>2, <2>3, <2>4, <2>5 DEF WorkerStep
<1> QED
  BY <1>1, <1>2, <1>3, <1>4 DEF Typed, GenTyped, RunTyped, SingleTyped, ReqTyped

LEMMA SingleStepTyped ==
  ASSUME Typed, SingleRunStep \/ \E b \in Beads : StartSingle(b)
  PROVE  Typed'
<1>1. UNCHANGED <<deps, gen, run, work, req, cancelled, reopened>>
  BY DEF SingleRunStep, StartSingle, SingleClaim, SingleStep, SingleGivesUp, SingleClose,
         singleRest
<1>2. RestTyped'
  BY <1>1, FaultTyped
     DEF Typed, SingleRunStep, StartSingle, SingleClaim, SingleStep, SingleGivesUp, SingleClose,
         bdClaimFails
<1>3. SingleTyped'
  <2>1. CASE \E b \in Beads : StartSingle(b)
    <3>1. 0 \in 0 .. (MaxReviewIterations - 1)
      BY DEF ReviewsAssumption
    <3> QED
      BY <2>1, <3>1 DEF SingleTyped, StartSingle
  <2>2. CASE single' = NoSingle
    BY <2>2, NothingTyped DEF SingleTyped, NoSingle
  <2>3. ASSUME NEW p \in AtWork, single' = [single EXCEPT !.pc = p], single.pc # "idle"
        PROVE  SingleTyped'
    BY <2>3 DEF Typed, SingleTyped
  <2>4. CASE /\ single.pc = "review" /\ single.iter < MaxReviewIterations - 1
             /\ single' = [single EXCEPT !.pc = "execute", !.iter = @ + 1]
    <3>1. single.iter + 1 \in 0 .. (MaxReviewIterations - 1)
      BY <2>4 DEF Typed, SingleTyped, ReviewsAssumption
    <3> QED
      BY <2>4, <3>1 DEF Typed, SingleTyped, AtWork
  <2> QED
    BY <2>1, <2>2, <2>3, <2>4
       DEF SingleRunStep, SingleClaim, SingleStep, SingleGivesUp, SingleClose, AtWork
<1>4. BdTyped'
  <2>1. CASE \E b \in Beads : StartSingle(b)
    BY <1>1, <2>1 DEF Typed, BdTyped, StartSingle
  <2>2. CASE SingleRunStep
    <3>1. single.bead \in Beads
      BY <2>2 DEF Typed, SingleTyped, SingleRunStep, SingleClaim, SingleStep, SingleGivesUp,
                  SingleClose, AtWork
    <3> QED
      BY <1>1, <2>2, <3>1, SetsTyped
         DEF Typed, SingleRunStep, SingleClaim, SingleStep, SingleGivesUp, SingleClose
  <2> QED
    BY <2>1, <2>2
<1> QED
  BY <1>1, <1>2, <1>3, <1>4 DEF Typed, GenTyped, RunTyped, WorkTyped, WellFormed, ReqTyped

LEMMA RequestTyped ==
  ASSUME Typed, NEW q \in Requests, RequestStep(q)
  PROVE  Typed'
<1>1. UNCHANGED <<deps, gen, work, single>>
  BY DEF RequestStep, Arrive, ResetList, ResetOne, StartExecuteRun
<1>2. RestTyped'
  <2>1. CASE \E kind \in {"execute", "graph"} : Arrive(q, kind)
    <3>1. used.arrivals + 1 \in 0 .. MaxArrivals
      BY <2>1 DEF Typed, RestTyped, Arrive, BoundsAssumption
    <3> QED
      BY <2>1, <3>1 DEF Typed, RestTyped, Arrive
  <2>2. CASE ResetList(q) \/ \E b \in Beads : ResetOne(q, b)
    BY <2>2, EventTyped DEF Typed, RestTyped, ResetList, ResetOne
  <2>3. CASE StartExecuteRun(q)
    BY <2>3 DEF Typed, RestTyped, StartExecuteRun
  <2> QED
    BY <2>1, <2>2, <2>3 DEF RequestStep
<1>3. RunTyped'
  <2>1. run' = run \/ run' = [NoRun EXCEPT !.pc = "loop"]
    BY DEF RequestStep, Arrive, ResetList, ResetOne, StartExecuteRun
  <2>2. "loop" \in RunStates
    BY DEF RunStates
  <2>3. [NoRun EXCEPT !.pc = "loop"] \in RunRecord /\ [NoRun EXCEPT !.pc = "loop"].pc = "loop"
    BY <2>2, NothingTyped DEF RunRecord
  <2> QED
    BY <2>1, <2>3 DEF Typed, RunTyped
<1>4. ReqTyped'
  BY SMTT(20) DEF Typed, ReqTyped, RequestStep, Arrive, ResetList, ResetOne, StartExecuteRun, NoReq
<1>5. BdTyped'
  <2>1. CASE ResetList(q)
    BY <1>1, <2>1 DEF Typed, BdTyped, ResetList
  <2>2. ASSUME NEW b \in Beads, ResetOne(q, b) PROVE BdTyped'
    BY <1>1, <2>2, SetsTyped DEF Typed, ResetOne
  <2>3. CASE StartExecuteRun(q) \/ \E kind \in {"execute", "graph"} : Arrive(q, kind)
    BY <1>1, <2>3 DEF Typed, BdTyped, StartExecuteRun, Arrive
  <2> QED
    BY <2>1, <2>2, <2>3 DEF RequestStep
<1> QED
  BY <1>1, <1>2, <1>3, <1>4, <1>5 DEF Typed, GenTyped, WorkTyped, WellFormed, SingleTyped

LEMMA UserTyped ==
  ASSUME Typed, (\E b \in Beads : Pause(b) \/ CloseByHand(b)) \/ CancelRun
  PROVE  Typed'
<1>1. UNCHANGED <<deps, gen, run, work, single, req>>
  BY DEF Pause, CloseByHand, CancelRun
<1>2. RestTyped'
  BY EventTyped DEF Typed, RestTyped, Pause, CloseByHand, CancelRun
<1>3. BdTyped'
  BY <1>1, SetsTyped DEF Typed, Pause, CloseByHand, CancelRun, BdTyped
<1> QED
  BY <1>1, <1>2, <1>3 DEF Typed, GenTyped, RunTyped, WorkTyped, WellFormed, SingleTyped, ReqTyped

LEMMA CrashTyped ==
  ASSUME Typed, Crash PROVE Typed'
<1>1. UNCHANGED <<status, deps, lost, reopened>>
  BY DEF Crash
<1>2. WellFormed(NoWork)
  BY NothingTyped
<1>3. WorkTyped'
  BY <1>2 DEF Crash, WorkTyped, WellFormed
<1>4. GenTyped'
  BY LenProperties DEF Crash, GenTyped, PlanAssumption
<1>5. RunTyped' /\ SingleTyped' /\ ReqTyped'
  BY NothingTyped DEF Crash, RunTyped, NoRun, SingleTyped, NoSingle, ReqTyped
<1>6. RestTyped'
  BY EventTyped DEF Typed, RestTyped, Crash
<1> QED
  BY <1>1, <1>3, <1>4, <1>5, <1>6 DEF Typed, BdTyped

LEMMA StepTyped == Typed /\ [Next]_vars => Typed'
  BY StepCases, TypedFrame, GeneratesTyped, LoopTyped, GateTyped, WorkerTyped, SingleStepTyped,
     RequestTyped, UserTyped, CrashTyped DEF UserStep

-----------------------------------------------------------------------------
(* Slots *)

Live == {w \in Workers : work[w].pc # "free"}

\* Workers may be infinitely many; those that hold a slot are not.
Slots == held \in 0 .. MaxParallel /\ IsFiniteSet(Live) /\ SlotsHaveOwners

Settled == {"idle", "gate", "fixClaim", "fix", "fixClose", "done"}

LEMMA InitSlots == Init => Slots
<1> SUFFICES ASSUME Init PROVE Slots
  OBVIOUS
<1>1. Live = {}
  BY DEF Init, Live, NoWork
<1>2. IsFiniteSet(Live) /\ Cardinality(Live) = 0
  BY <1>1, FS_EmptySet
<1>3. 0 \in 0 .. MaxParallel
  BY DEF SlotsAssumption
<1> QED
  BY <1>2, <1>3 DEF Init, Slots, SlotsHaveOwners, Live, NoRun

LEMMA LiveCount ==
  ASSUME Slots
  PROVE  /\ Cardinality(Live) \in Nat
         /\ held = Cardinality(Live) + (IF run.pc = "claim" THEN 1 ELSE 0)
         /\ Cardinality(Live) = 0 <=> Live = {}
         /\ MaxParallel \in Nat /\ held \in Nat /\ held <= MaxParallel
<1>1. IsFiniteSet(Live)
  BY DEF Slots
<1>2. Cardinality(Live) \in Nat /\ (Cardinality(Live) = 0 <=> Live = {})
  BY <1>1, FS_CardinalityType, FS_EmptySet
<1> QED
  BY <1>2 DEF Slots, SlotsHaveOwners, Live, SlotsAssumption

\* What has to be shown of a step: the accounts, and that nobody holds a slot
\* when the run is over or at its gate.
LEMMA SlotsFrom ==
  ASSUME held' \in 0 .. MaxParallel, IsFiniteSet(Live'),
         held' = Cardinality(Live') + (IF run'.pc = "claim" THEN 1 ELSE 0),
         run'.pc \in Settled => held' = 0
  PROVE  Slots'
  BY DEF Slots, SlotsHaveOwners, Live, Settled

\* Steps that take and return no slot, and start and end no worker.
LEMMA SlotsFrame ==
  ASSUME Slots, held' = held, Live' = Live,
         run'.pc = "claim" <=> run.pc = "claim",
         run'.pc \in Settled => run.pc \in Settled
  PROVE  Slots'
<1>1. run.pc \in Settled => held = 0
  BY DEF Slots, SlotsHaveOwners, Settled
<1> QED
  BY <1>1, SlotsFrom, LiveCount DEF Slots

LEMMA LoopSlots ==
  ASSUME Slots, Typed,
         PickReady \/ TakeSlot \/ ClaimAndStart \/ ClaimFails \/ WorkersDone \/ FinishRun
  PROVE  Slots'
<1>0. run \in RunRecord
  BY DEF Typed, RunTyped
<1>1. CASE PickReady \/ FinishRun
  <2>1. held' = held /\ Live' = Live
    BY <1>1 DEF PickReady, FinishRun, Live
  <2>2. /\ run.pc \in {"loop", "done"} /\ run'.pc \in {"slot", "wait", "idle"}
        /\ run'.pc = "idle" => run.pc = "done"
    <3>1. ASSUME NEW p \in {"slot", "wait"}, NEW b \in Beads \cup {NoBead},
                 run' = [run EXCEPT !.pc = p, !.bead = b]
          PROVE  run'.pc = p
      BY <1>0, <3>1 DEF RunRecord
    <3>2. CASE PickReady
      <4>1. PICK p \in {"slot", "wait"}, b \in Beads \cup {NoBead} :
              run' = [run EXCEPT !.pc = p, !.bead = b]
        BY <3>2 DEF PickReady
      <4>2. run'.pc = p /\ run.pc = "loop"
        BY <3>1, <3>2, <4>1 DEF PickReady
      <4> QED
        BY <4>2
    <3>3. CASE FinishRun
      BY <3>3 DEF FinishRun, NoRun
    <3> QED
      BY <1>1, <3>2, <3>3
  <2> QED
    BY <2>1, <2>2, SlotsFrame DEF Settled
<1>2. CASE TakeSlot
  <2>1. /\ Live' = Live /\ held' = held + 1 /\ held < MaxParallel
        /\ run.pc = "slot" /\ run'.pc = "claim"
    BY <1>0, <1>2 DEF TakeSlot, Live, RunRecord
  <2>2. held' \in 0 .. MaxParallel
    BY <2>1, LiveCount
  <2>3. held' = Cardinality(Live') + 1
    BY <2>1, LiveCount
  <2> QED
    BY <2>1, <2>2, <2>3, SlotsFrom DEF Slots, Settled
<1>3. CASE ClaimFails
  <2>1. /\ Live' = Live /\ held' = held - 1
        /\ run.pc = "claim" /\ run'.pc = "loop"
    BY <1>0, <1>3 DEF ClaimFails, Live, RunRecord
  <2>2. held' \in 0 .. MaxParallel /\ held' = Cardinality(Live')
    BY <2>1, LiveCount
  <2>3. held' = Cardinality(Live') + (IF run'.pc = "claim" THEN 1 ELSE 0)
    BY <2>1, <2>2, LiveCount
  <2> QED
    BY <2>1, <2>2, <2>3, SlotsFrom DEF Slots, Settled
<1>4. CASE ClaimAndStart
  <2>1. PICK w \in Workers :
          /\ work[w].pc = "free"
          /\ work' = [work EXCEPT ![w] = [NoWork EXCEPT !.pc = "execute", !.bead = run.bead]]
    BY <1>4 DEF ClaimAndStart
  <2>2. [NoWork EXCEPT !.pc = "execute", !.bead = run.bead].pc = "execute"
    BY DEF NoWork
  <2>3. Live' = Live \cup {w} /\ w \notin Live
    BY <2>1, <2>2 DEF Typed, WorkTyped, Live
  <2>4. IsFiniteSet(Live \cup {w}) /\ Cardinality(Live \cup {w}) = Cardinality(Live) + 1
    BY <2>3, FS_AddElement DEF Slots
  <2>5. held' = held /\ run.pc = "claim" /\ run'.pc = "loop"
    BY <1>0, <1>4 DEF ClaimAndStart, RunRecord
  <2>6. IsFiniteSet(Live') /\ Cardinality(Live') = Cardinality(Live) + 1
    BY <2>3, <2>4
  <2>7. held' \in 0 .. MaxParallel /\ held' = Cardinality(Live') + (IF run'.pc = "claim" THEN 1 ELSE 0)
    BY <2>5, <2>6, LiveCount
  <2> QED
    BY <2>5, <2>6, <2>7, SlotsFrom DEF Settled
<1>5. CASE WorkersDone
  <2>1. /\ Live = {} /\ Live' = Live /\ held' = held
        /\ run.pc = "wait" /\ run'.pc \in {"gate", "done"}
    BY <1>0, <1>5 DEF WorkersDone, Live, RunRecord
  <2>2. held = 0 /\ Cardinality(Live) = 0
    BY <2>1, LiveCount
  <2> QED
    BY <2>1, <2>2, SlotsFrom, LiveCount DEF Slots
<1> QED
  BY <1>1, <1>2, <1>3, <1>4, <1>5

LEMMA GateSlots ==
  ASSUME Slots, Typed, GateStep
  PROVE  Slots'
<1>1. held' = held /\ Live' = Live
  BY DEF GateStep, ValidationPasses, ValidationGivesUp, CreateFix, ClaimFix, ExecuteFix,
         CloseFix, gateRest, Live
<1>2. run \in RunRecord
  BY DEF Typed, RunTyped
<1>3. run.pc \in Settled /\ run'.pc \in Settled
  <2>1. run.pc \in {"gate", "fixClaim", "fix", "fixClose"}
    BY DEF GateStep, ValidationPasses, ValidationGivesUp, CreateFix, ClaimFix, ExecuteFix, CloseFix
  <2>2. \/ \E p \in Settled : run' = [run EXCEPT !.pc = p]
        \/ \E f \in Spare : run' = [run EXCEPT !.pc = "fixClaim", !.bead = f]
        \/ run' = [pc |-> "gate", bead |-> NoBead, attempt |-> run.attempt + 1]
    BY DEF GateStep, ValidationPasses, ValidationGivesUp, CreateFix, ClaimFix, ExecuteFix,
           CloseFix, Settled
  <2>3. "fixClaim" \in Settled /\ "gate" \in Settled /\ run.pc \in Settled
    BY <2>1 DEF Settled
  <2>4. \A p \in Settled : run' = [run EXCEPT !.pc = p] => run'.pc = p
    BY <1>2 DEF RunRecord
  <2>5. \A f \in Spare : run' = [run EXCEPT !.pc = "fixClaim", !.bead = f] => run'.pc = "fixClaim"
    BY <1>2 DEF RunRecord
  <2>6. ASSUME NEW p \in Settled, run' = [run EXCEPT !.pc = p] PROVE run'.pc \in Settled
    BY <2>4, <2>6
  <2>7. ASSUME NEW f \in Spare, run' = [run EXCEPT !.pc = "fixClaim", !.bead = f]
        PROVE  run'.pc \in Settled
    BY <2>3, <2>5, <2>7
  <2>8. CASE run' = [pc |-> "gate", bead |-> NoBead, attempt |-> run.attempt + 1]
    BY <2>3, <2>8
  <2> QED
    BY <2>2, <2>3, <2>6, <2>7, <2>8
<1>4. run.pc # "claim" /\ run'.pc # "claim"
  BY <1>3 DEF Settled
<1> QED
  BY <1>1, <1>3, <1>4, SlotsFrame

LEMMA WorkerSlots ==
  ASSUME Slots, Typed, NEW w \in Workers, WorkerStep(w)
  PROVE  Slots'
<1>0. run' = run
  BY DEF WorkerStep, GiveUp, Executed, Approve, Reject, CloseApproved, CloseRejected,
         CreateCorrection, LinkCorrection, ClaimCorrection, runRest
<1>1. work \in [Workers -> WorkRecord] /\ w \in Live
  BY DEF Typed, WorkTyped, Live, WorkerStep, GiveUp, Executed, Approve, Reject, CloseApproved,
         CloseRejected, CreateCorrection, LinkCorrection, ClaimCorrection
<1>2. CASE Leave(w)
  <2>1. Live' = Live \ {w} /\ held' = held - 1
    BY <1>1, <1>2 DEF Live, Leave, NoWork
  <2>2. IsFiniteSet(Live \ {w}) /\ Cardinality(Live \ {w}) = Cardinality(Live) - 1
    BY <1>1, FS_RemoveElement DEF Slots
  <2>3. IsFiniteSet(Live') /\ Cardinality(Live') = Cardinality(Live) - 1
    BY <2>1, <2>2
  <2>4. /\ held' \in 0 .. MaxParallel
        /\ held' = Cardinality(Live') + (IF run.pc = "claim" THEN 1 ELSE 0)
    <3>1. Cardinality(Live) >= 1
      BY <1>1, LiveCount
    <3> QED
      BY <2>1, <2>3, <3>1, LiveCount
  <2>5. run.pc \notin Settled
    <3>1. held # 0
      BY <1>1, LiveCount
    <3> QED
      BY <3>1 DEF Slots, SlotsHaveOwners, Settled
  <2> QED
    BY <1>0, <2>3, <2>4, <2>5, SlotsFrom
<1>3. CASE held' = held /\ \E x : x.pc # "free" /\ work' = [work EXCEPT ![w] = x]
  <2>1. Live' = Live
    BY <1>1, <1>3 DEF Live
  <2> QED
    BY <1>0, <1>3, <2>1, SlotsFrame
<1>4. \/ Leave(w)
      \/ held' = held /\ \E x : x.pc # "free" /\ work' = [work EXCEPT ![w] = x]
  <2>1. CASE GiveUp(w) \/ CloseApproved(w)
    BY <2>1 DEF GiveUp, CloseApproved, Leave
  <2>2. CASE Executed(w) \/ Approve(w) \/ Reject(w) \/ CloseRejected(w) \/ LinkCorrection(w)
    <3>1. ASSUME NEW p \in {"review", "closeApproved", "closeRejected", "create", "claim"},
                 work' = [work EXCEPT ![w].pc = p]
          PROVE  \E x : x.pc # "free" /\ work' = [work EXCEPT ![w] = x]
      <4>1. /\ work' = [work EXCEPT ![w] = [work[w] EXCEPT !.pc = p]]
            /\ [work[w] EXCEPT !.pc = p].pc = p
        BY <1>1, <3>1 DEF WorkRecord
      <4> QED
        BY <4>1
    <3> QED
      BY <2>2, <3>1 DEF Executed, Approve, Reject, CloseRejected, LinkCorrection, Leave, runRest
  <2>3. CASE CreateCorrection(w)
    <3>1. ASSUME NEW c \in Spare, work' = [work EXCEPT ![w].pc = "link", ![w].corr = c]
          PROVE  \E x : x.pc # "free" /\ work' = [work EXCEPT ![w] = x]
      <4>1. /\ work' = [work EXCEPT ![w] = [work[w] EXCEPT !.pc = "link", !.corr = c]]
            /\ [work[w] EXCEPT !.pc = "link", !.corr = c].pc = "link"
        BY <1>1, <3>1 DEF WorkRecord
      <4> QED
        BY <4>1
    <3> QED
      BY <2>3, <3>1 DEF CreateCorrection, Leave
  <2>4. CASE ClaimCorrection(w)
    <3>1. [pc |-> "execute", bead |-> work[w].corr, corr |-> NoBead,
           iter |-> work[w].iter + 1].pc # "free"
      OBVIOUS
    <3> QED
      BY <2>4, <3>1 DEF ClaimCorrection, Leave
  <2> QED
    BY <2>1, <2>2, <2>3, <2>4 DEF WorkerStep
<1> QED
  BY <1>2, <1>3, <1>4

LEMMA CrashSlots ==
  ASSUME Crash PROVE Slots'
<1>1. Live' = {} /\ held' = 0 /\ run'.pc = "idle"
  BY DEF Crash, Live, NoWork, NoRun
<1>2. 0 \in 0 .. MaxParallel
  BY DEF SlotsAssumption
<1> QED
  BY <1>1, <1>2, FS_EmptySet, SlotsFrom

LEMMA StepSlots == Typed /\ Slots /\ [Next]_vars => Slots'
<1> SUFFICES ASSUME Typed, Slots, [Next]_vars PROVE Slots'
  OBVIOUS
<1>1. CASE Generates \/ SingleRunStep \/ UserStep \/ UNCHANGED vars
  <2>1. UNCHANGED <<held, run, work>>
    BY <1>1 DEF Generates, ParsePlan, StopGenerating, CreatePlanned, LinkPlanned, SingleRunStep,
                SingleClaim, SingleStep, SingleGivesUp, SingleClose, singleRest, UserStep,
                StartSingle, Pause, CloseByHand, CancelRun, vars
  <2> QED
    BY <2>1, SlotsFrame DEF Live
<1>2. ASSUME NEW q \in Requests, RequestStep(q) PROVE Slots'
  <2>1. held' = held /\ Live' = Live
    BY <1>2 DEF RequestStep, Arrive, ResetList, ResetOne, StartExecuteRun, Live
  <2>2. run' = run \/ (run.pc = "idle" /\ run'.pc = "loop")
    <3>1. [NoRun EXCEPT !.pc = "loop"].pc = "loop"
      BY DEF NoRun
    <3> QED
      BY <1>2, <3>1 DEF RequestStep, Arrive, ResetList, ResetOne, StartExecuteRun
  <2> QED
    BY <2>1, <2>2, SlotsFrame DEF Settled
<1> QED
  BY <1>1, <1>2, StepCases, LoopSlots, GateSlots, WorkerSlots, CrashSlots

LEMMA AlwaysSlots == Spec => [](Typed /\ Slots)
  BY InitTyped, InitSlots, StepTyped, StepSlots, PTL DEF Spec

\* Every variable keeps its type, whatever is planned, executed, reviewed,
\* corrected, reset, cancelled or lost in a crash.
THEOREM TypeCorrect == Spec => []TypeOK
<1>1. Typed /\ Slots => TypeOK
  BY DEF Typed, Slots, TypeOK, BdTyped, GenTyped, RunTyped, RunRecord, RunStates, WorkTyped,
         WorkRecord, SingleTyped, ReqTyped, RestTyped
<1> QED
  BY <1>1, AlwaysSlots, PTL

\* The semaphore of an execution run counts its live workers and the slot the
\* loop took and has not passed on, for every number of slots and workers: no
\* way through StartExecuteRun keeps a slot or returns one twice.
THEOREM SlotsAccounted == Spec => []SlotsHaveOwners
<1>1. Slots => SlotsHaveOwners
  BY DEF Slots
<1> QED
  BY <1>1, AlwaysSlots, PTL

-----------------------------------------------------------------------------
(* Agents and claims *)

\* The bead the validation gate's agent fixes.
Fixing == IF run.pc \in {"fix", "fixClose"} THEN {run.bead} ELSE {}

\* A bead that was not set open under its agent has at most one, which holds
\* it claimed: no claim of it can succeed.
Claimed ==
  \A b \in Beads \ reopened :
    /\ AgentsOn(b) # {} => status[b] \in {"in_progress", "closed"}
    /\ \A a1, a2 \in AgentsOn(b) : a1 = a2

\* In progress, and nobody at work on it or known to have given up.
Unaccounted(b) == status[b] = "in_progress" /\ b \notin lost /\ AgentsOn(b) = {}

\* While the run is alive every bead in progress is accounted for, because a
\* request that resets what it listed misses none that is not.
Accounted ==
  /\ run.pc # "idle" => \A b \in Beads : ~Unaccounted(b)
  /\ \A q \in Requests : req[q].pc = "reset" =>
       \A b \in Beads : Unaccounted(b) => b \in req[q].todo

\* What a step may do to the agents of a bead: fewer of them, or the first.
Keeps(b) ==
  \/ b \in reopened'
  \/ /\ AgentsOn(b)' \subseteq AgentsOn(b)
     /\ \/ AgentsOn(b)' = {}
        \/ status'[b] \in {status[b], "in_progress", "closed"}
  \/ /\ status[b] = "open" /\ status'[b] = "in_progress"
     /\ \E a : AgentsOn(b)' \subseteq AgentsOn(b) \cup {a}

OpensNoGap(b) == Unaccounted(b)' => Unaccounted(b)

Fine == reopened \subseteq reopened' /\ \A b \in Beads : Keeps(b) /\ OpensNoGap(b)

LEMMA ClaimedStep ==
  ASSUME Claimed, reopened \subseteq reopened', \A b \in Beads : Keeps(b)
  PROVE  Claimed'
<1> SUFFICES ASSUME NEW b \in Beads \ reopened'
             PROVE  /\ AgentsOn(b)' # {} => status'[b] \in {"in_progress", "closed"}
                    /\ \A a1, a2 \in AgentsOn(b)' : a1 = a2
  BY DEF Claimed
<1>1. /\ AgentsOn(b) # {} => status[b] \in {"in_progress", "closed"}
      /\ \A a1, a2 \in AgentsOn(b) : a1 = a2
  BY DEF Claimed
<1>2. CASE /\ AgentsOn(b)' \subseteq AgentsOn(b)
           /\ \/ AgentsOn(b)' = {}
              \/ status'[b] \in {status[b], "in_progress", "closed"}
  BY <1>1, <1>2
<1>3. CASE /\ status[b] = "open" /\ status'[b] = "in_progress"
           /\ \E a : AgentsOn(b)' \subseteq AgentsOn(b) \cup {a}
  <2>1. AgentsOn(b) = {}
    BY <1>1, <1>3
  <2> QED
    BY <1>3, <2>1
<1> QED
  BY <1>2, <1>3 DEF Keeps

LEMMA AccountedStep ==
  ASSUME Accounted, \A b \in Beads : OpensNoGap(b), req' = req,
         run'.pc # "idle" => run.pc # "idle"
  PROVE  Accounted'
  BY DEF Accounted, OpensNoGap

LEMMA FineStep ==
  ASSUME Claimed, Accounted, Fine, req' = req, run'.pc # "idle" => run.pc # "idle"
  PROVE  Claimed' /\ Accounted'
  BY ClaimedStep, AccountedStep DEF Fine

LEMMA SameAgents ==
  ASSUME UNCHANGED <<work, single, Fixing>>, NEW b
  PROVE  AgentsOn(b)' = AgentsOn(b)
<1>1. \A a : (run'.pc \in {"fix", "fixClose"} /\ run'.bead = b)
               <=> (run.pc \in {"fix", "fixClose"} /\ run.bead = b)
  BY DEF Fixing
<1> QED
  BY <1>1 DEF AgentsOn

\* A worker that moves is the only agent to come or go.
LEMMA WorkerAgents ==
  ASSUME DOMAIN work = Workers, NEW w \in Workers, NEW x, work' = [work EXCEPT ![w] = x],
         UNCHANGED <<single, Fixing>>, NEW b
  PROVE  /\ AgentsOn(b)' \subseteq AgentsOn(b) \cup {w}
         /\ x.pc \in AtWork /\ x.bead = b => w \in AgentsOn(b)'
         /\ ~(x.pc \in AtWork /\ x.bead = b) => AgentsOn(b)' \subseteq AgentsOn(b)
         /\ (x.pc \in AtWork /\ x.bead = b <=> work[w].pc \in AtWork /\ work[w].bead = b)
              => AgentsOn(b)' = AgentsOn(b)
<1>1. (run'.pc \in {"fix", "fixClose"} /\ run'.bead = b)
        <=> (run.pc \in {"fix", "fixClose"} /\ run.bead = b)
  BY DEF Fixing
<1>2. work'[w] = x /\ \A v \in Workers : v # w => work'[v] = work[v]
  OBVIOUS
<1> QED
  BY <1>1, <1>2 DEF AgentsOn

LEMMA WorkerStays ==
  ASSUME DOMAIN work = Workers, NEW w \in Workers, NEW x, work' = [work EXCEPT ![w] = x],
         UNCHANGED <<single, Fixing>>,
         x.pc \in AtWork <=> work[w].pc \in AtWork,
         x.pc \in AtWork => x.bead = work[w].bead
  PROVE  \A b : AgentsOn(b)' = AgentsOn(b)
<1> SUFFICES ASSUME NEW b PROVE AgentsOn(b)' = AgentsOn(b)
  OBVIOUS
<1>1. (run'.pc \in {"fix", "fixClose"} /\ run'.bead = b)
        <=> (run.pc \in {"fix", "fixClose"} /\ run.bead = b)
  BY DEF Fixing
<1>2. \A v \in Workers : (work'[v].pc \in AtWork /\ work'[v].bead = b)
                           <=> (work[v].pc \in AtWork /\ work[v].bead = b)
  OBVIOUS
<1> QED
  BY <1>1, <1>2 DEF AgentsOn

LEMMA SingleAgents ==
  ASSUME UNCHANGED <<work, Fixing>>, NEW b
  PROVE  /\ AgentsOn(b)' \subseteq AgentsOn(b) \cup {"single"}
         /\ single'.pc \in AtWork /\ single'.bead = b => "single" \in AgentsOn(b)'
         /\ ~(single'.pc \in AtWork /\ single'.bead = b) => AgentsOn(b)' \subseteq AgentsOn(b)
         /\ (single'.pc \in AtWork /\ single'.bead = b <=> single.pc \in AtWork /\ single.bead = b)
              => AgentsOn(b)' = AgentsOn(b)
<1>1. (run'.pc \in {"fix", "fixClose"} /\ run'.bead = b)
        <=> (run.pc \in {"fix", "fixClose"} /\ run.bead = b)
  BY DEF Fixing
<1> QED
  BY <1>1 DEF AgentsOn

LEMMA GateAgents ==
  ASSUME UNCHANGED <<work, single>>, NEW b
  PROVE  /\ AgentsOn(b)' \subseteq AgentsOn(b) \cup {"gate"}
         /\ b \in Fixing' => "gate" \in AgentsOn(b)'
         /\ b \notin Fixing' => AgentsOn(b)' \subseteq AgentsOn(b)
         /\ (b \in Fixing' <=> b \in Fixing) => AgentsOn(b)' = AgentsOn(b)
  BY DEF AgentsOn, Fixing

\* A status changes while no agent comes or goes.
LEMMA StatusFine ==
  ASSUME Typed, Claimed, \A b \in Beads : AgentsOn(b)' = AgentsOn(b), NEW c \in Beads,
         \/ SetOpen(c)
         \/ bdCreate(c) /\ UNCHANGED <<lost, reopened>>
         \/ bdClose(c) /\ UNCHANGED <<lost, reopened>>
         \/ UNCHANGED <<status, reopened>> /\ lost \subseteq lost'
  PROVE  Fine
<1>1. DOMAIN status = Beads
  BY DEF Typed, BdTyped
<1>2. reopened \subseteq reopened'
  BY DEF SetOpen
<1>3. ASSUME NEW b \in Beads, b # c PROVE Keeps(b) /\ OpensNoGap(b)
  <2>1. status'[b] = status[b] /\ (b \in lost => b \in lost')
    BY <1>1, <1>3 DEF SetOpen, bdCreate, bdClose
  <2> QED
    BY <1>3, <2>1 DEF Keeps, OpensNoGap, Unaccounted
<1>4. Keeps(c)
  <2>1. CASE SetOpen(c)
    BY <2>1 DEF SetOpen, Keeps
  <2>2. CASE bdCreate(c) /\ UNCHANGED <<lost, reopened>>
    <3>1. c \notin reopened => AgentsOn(c) = {}
      BY <2>2 DEF bdCreate, Exists, Claimed
    <3> QED
      BY <2>2, <3>1 DEF Keeps
  <2>3. CASE bdClose(c) /\ UNCHANGED <<lost, reopened>>
    BY <1>1, <2>3 DEF bdClose, Keeps
  <2>4. CASE UNCHANGED status
    BY <2>4 DEF Keeps
  <2> QED
    BY <2>1, <2>2, <2>3, <2>4
<1>5. OpensNoGap(c)
  <2>1. CASE status'[c] \in {"open", "closed"}
    BY <2>1 DEF OpensNoGap, Unaccounted
  <2>2. CASE UNCHANGED status /\ lost \subseteq lost'
    BY <2>2 DEF OpensNoGap, Unaccounted
  <2> QED
    BY <1>1, <2>1, <2>2 DEF SetOpen, bdCreate, bdClose
<1> QED
  BY <1>2, <1>3, <1>4, <1>5 DEF Fine

\* Somebody claims an open bead and goes to work on it.
LEMMA ClaimFine ==
  ASSUME Typed, NEW c \in Beads, NEW a, bdClaim(c), UNCHANGED <<lost, reopened>>,
         AgentsOn(c)' \subseteq AgentsOn(c) \cup {a}, AgentsOn(c)' # {},
         \A b \in Beads : b # c => AgentsOn(b)' = AgentsOn(b)
  PROVE  Fine
<1>1. /\ status[c] = "open" /\ status'[c] = "in_progress"
      /\ \A b \in Beads : b # c => status'[b] = status[b]
  BY DEF Typed, BdTyped, bdClaim
<1>2. ASSUME NEW b \in Beads, b # c PROVE Keeps(b) /\ OpensNoGap(b)
  BY <1>1, <1>2 DEF Keeps, OpensNoGap, Unaccounted
<1>3. Keeps(c) /\ OpensNoGap(c)
  BY <1>1 DEF Keeps, OpensNoGap, Unaccounted
<1> QED
  BY <1>2, <1>3 DEF Fine

\* An agent leaves its bead: closed, or known to be left in progress.
LEMMA LeaveFine ==
  ASSUME Typed, NEW c \in Beads, AgentsOn(c)' \subseteq AgentsOn(c),
         \A b \in Beads : b # c => AgentsOn(b)' = AgentsOn(b), UNCHANGED reopened,
         \/ bdClose(c) /\ UNCHANGED lost
         \/ lost' = lost \cup {c} /\ UNCHANGED status
  PROVE  Fine
<1>1. /\ \A b \in Beads : b # c => status'[b] = status[b] /\ (b \in lost => b \in lost')
      /\ status'[c] = "closed" \/ (status'[c] = status[c] /\ c \in lost')
  BY DEF Typed, BdTyped, bdClose
<1>2. ASSUME NEW b \in Beads, b # c PROVE Keeps(b) /\ OpensNoGap(b)
  BY <1>1, <1>2 DEF Keeps, OpensNoGap, Unaccounted
<1>3. Keeps(c) /\ OpensNoGap(c)
  BY <1>1 DEF Keeps, OpensNoGap, Unaccounted
<1> QED
  BY <1>2, <1>3 DEF Fine

\* Nobody's bead and no status changes: nothing to show.
LEMMA IdleFine ==
  ASSUME UNCHANGED <<work, single, Fixing, status, lost, reopened>>
  PROVE  Fine
<1>1. \A b \in Beads : AgentsOn(b)' = AgentsOn(b)
  BY SameAgents
<1> QED
  BY <1>1 DEF Fine, Keeps, OpensNoGap, Unaccounted

LEMMA GeneratesFine ==
  ASSUME Typed, Claimed, Generates PROVE Fine
<1>1. UNCHANGED <<work, single, run, lost, reopened>>
  BY DEF Generates, ParsePlan, StopGenerating, CreatePlanned, LinkPlanned
<1>2. UNCHANGED Fixing
  BY <1>1 DEF Fixing
<1>3. CASE UNCHANGED status
  BY <1>1, <1>2, <1>3, IdleFine
<1>4. CASE CreatePlanned
  <2>1. Plan[gen.at] \in Beads
    BY <1>4, PlanTyped DEF Typed, GenTyped, CreatePlanned
  <2>2. UNCHANGED status \/ bdCreate(Plan[gen.at])
    BY <1>4 DEF CreatePlanned
  <2>3. \A b \in Beads : AgentsOn(b)' = AgentsOn(b)
    BY <1>1, <1>2, SameAgents
  <2> QED
    BY <1>1, <1>3, <2>1, <2>2, <2>3, StatusFine
<1> QED
  BY <1>3, <1>4 DEF Generates, ParsePlan, StopGenerating, LinkPlanned

LEMMA LoopFine ==
  ASSUME Typed, Claimed,
         PickReady \/ TakeSlot \/ ClaimAndStart \/ ClaimFails \/ WorkersDone \/ FinishRun
  PROVE  Fine
<1>0. run \in RunRecord /\ DOMAIN work = Workers
  BY DEF Typed, RunTyped, WorkTyped
<1>1. run.pc \notin {"fix", "fixClose"} /\ run'.pc \notin {"fix", "fixClose"}
  <2>1. CASE PickReady
    <3>1. PICK p \in {"slot", "wait"}, b \in Beads \cup {NoBead} :
            run' = [run EXCEPT !.pc = p, !.bead = b]
      BY <2>1 DEF PickReady
    <3>2. run'.pc = p
      BY <1>0, <3>1 DEF RunRecord
    <3> QED
      BY <2>1, <3>2 DEF PickReady
  <2>2. CASE TakeSlot \/ FinishRun
    BY <1>0, <2>2 DEF TakeSlot, FinishRun, NoRun, RunRecord
  <2>4. CASE ClaimAndStart \/ ClaimFails
    <3>1. run' = [run EXCEPT !.pc = "loop", !.bead = NoBead] /\ run.pc = "claim"
      BY <2>4 DEF ClaimAndStart, ClaimFails
    <3>2. run'.pc = "loop"
      BY <1>0, <3>1 DEF RunRecord
    <3> QED
      BY <3>1, <3>2
  <2>3. CASE WorkersDone
    BY <1>0, <2>3 DEF WorkersDone, RunRecord
  <2> QED
    BY <2>1, <2>2, <2>3, <2>4
<1>2. UNCHANGED Fixing
  BY <1>1 DEF Fixing
<1>3. UNCHANGED <<single, lost, reopened>>
  BY DEF PickReady, TakeSlot, ClaimAndStart, ClaimFails, WorkersDone, FinishRun
<1>4. CASE UNCHANGED <<work, status>>
  BY <1>2, <1>3, <1>4, IdleFine
<1>5. CASE ClaimAndStart
  <2>0. PICK c : c = run.bead
    OBVIOUS
  <2>1. PICK w \in Workers :
          /\ work[w].pc = "free"
          /\ work' = [work EXCEPT ![w] = [NoWork EXCEPT !.pc = "execute", !.bead = c]]
    BY <1>5, <2>0 DEF ClaimAndStart
  <2>2. PICK x : /\ x = [NoWork EXCEPT !.pc = "execute", !.bead = c]
                 /\ work' = [work EXCEPT ![w] = x]
    BY <2>1
  <2>3. x.pc \in AtWork /\ x.bead = c /\ work[w].pc \notin AtWork
    BY <2>1, <2>2 DEF NoWork, AtWork
  <2>4. bdClaim(c) /\ c \in Beads
    BY <1>5, <2>0 DEF ClaimAndStart, Typed, RunTyped
  <2>7. DOMAIN work = Workers /\ UNCHANGED <<single, Fixing>> /\ work' = [work EXCEPT ![w] = x]
    BY <1>0, <1>2, <1>3, <2>2
  <2>5. /\ AgentsOn(c)' \subseteq AgentsOn(c) \cup {w} /\ w \in AgentsOn(c)'
    BY <2>3, <2>7, WorkerAgents
  <2>6. ASSUME NEW b \in Beads, b # c PROVE AgentsOn(b)' = AgentsOn(b)
    BY ZenonT(40), <2>3, <2>6, <2>7, WorkerAgents
  <2> QED
    BY <1>3, <2>4, <2>5, <2>6, ClaimFine
<1> QED
  BY <1>4, <1>5 DEF PickReady, TakeSlot, ClaimFails, WorkersDone, FinishRun

LEMMA GateFine ==
  ASSUME Typed, Claimed, GateStep PROVE Fine
<1>0. run \in RunRecord
  BY DEF Typed, RunTyped
<1>1. UNCHANGED <<work, single, reopened>>
  BY DEF GateStep, ValidationPasses, ValidationGivesUp, CreateFix, ClaimFix, ExecuteFix,
         CloseFix, gateRest
<1>2. PICK c : c = run.bead
  OBVIOUS
<1>3. CASE ValidationPasses \/ ValidationGivesUp
  <2>1. UNCHANGED <<status, lost, Fixing>>
    BY <1>0, <1>3 DEF ValidationPasses, ValidationGivesUp, Fixing, RunRecord
  <2> QED
    BY <1>1, <2>1, IdleFine
<1>4. CASE CreateFix
  <2>1. PICK f \in Spare : bdCreate(f) /\ run' = [run EXCEPT !.pc = "fixClaim", !.bead = f]
    BY <1>4 DEF CreateFix
  <2>2. UNCHANGED lost /\ f \in Beads
    BY <1>4, <2>1 DEF CreateFix, Beads
  <2>3. UNCHANGED Fixing
    BY <1>0, <1>4, <2>1 DEF CreateFix, Fixing, RunRecord
  <2>4. \A b \in Beads : AgentsOn(b)' = AgentsOn(b)
    BY <1>1, <2>3, SameAgents
  <2> QED
    BY <1>1, <2>1, <2>2, <2>4, StatusFine
<1>5. CASE ClaimFix
  <2>1. CASE bdClaim(c) /\ run' = [run EXCEPT !.pc = "fix"]
    <3>1. Fixing = {} /\ Fixing' = {c} /\ c \in Beads /\ UNCHANGED lost
      BY <1>0, <1>2, <1>5, <2>1 DEF ClaimFix, Fixing, RunRecord, Typed, RunTyped
    <3>2. /\ AgentsOn(c)' \subseteq AgentsOn(c) \cup {"gate"} /\ "gate" \in AgentsOn(c)'
          /\ \A b \in Beads : b # c => AgentsOn(b)' = AgentsOn(b)
      BY <1>1, <3>1, GateAgents
    <3> QED
      BY <1>1, <2>1, <3>1, <3>2, ClaimFine
  <2>2. CASE run' = [run EXCEPT !.pc = "done"] /\ UNCHANGED status
    <3>1. UNCHANGED <<lost, Fixing>>
      BY <1>0, <1>5, <2>2 DEF ClaimFix, Fixing, RunRecord
    <3> QED
      BY <1>1, <2>2, <3>1, IdleFine
  <2> QED
    BY <1>2, <1>5, <2>1, <2>2 DEF ClaimFix
<1>6. CASE ExecuteFix \/ CloseFix
  <2>1. c \in Beads /\ run.pc \in {"fix", "fixClose"} /\ Fixing = {c}
    BY <1>2, <1>6 DEF ExecuteFix, CloseFix, Typed, RunTyped, Fixing
  <2>2. CASE run' = [run EXCEPT !.pc = "fixClose"] /\ UNCHANGED <<status, lost>>
    <3>1. UNCHANGED Fixing
      BY <1>0, <2>1, <2>2 DEF Fixing, RunRecord
    <3> QED
      BY <1>1, <2>2, <3>1, IdleFine
  <2>3. CASE /\ run'.pc \in {"gate", "done"}
             /\ \/ bdClose(c) /\ UNCHANGED lost
                \/ lost' = lost \cup {c} /\ UNCHANGED status
    <3>1. Fixing' = {}
      BY <2>3 DEF Fixing
    <3>2. /\ AgentsOn(c)' \subseteq AgentsOn(c)
          /\ \A b \in Beads : b # c => AgentsOn(b)' = AgentsOn(b)
      BY <1>1, <2>1, <3>1, GateAgents
    <3> QED
      BY <1>1, <2>1, <2>3, <3>2, LeaveFine
  <2>4. ExecuteFix => \/ run' = [run EXCEPT !.pc = "fixClose"] /\ UNCHANGED <<status, lost>>
                      \/ /\ run'.pc = "done"
                         /\ lost' = lost \cup {c} /\ UNCHANGED status
    BY <1>0, <1>2 DEF ExecuteFix, RunRecord
  <2>5. CloseFix => /\ run'.pc = "gate"
                    /\ \/ bdClose(c) /\ UNCHANGED lost
                       \/ lost' = lost \cup {c} /\ UNCHANGED status
    BY <1>2 DEF CloseFix
  <2> QED
    BY <1>6, <2>2, <2>3, <2>4, <2>5
<1> QED
  BY <1>3, <1>4, <1>5, <1>6 DEF GateStep

LEMMA WorkerFine ==
  ASSUME Typed, Claimed, NEW w \in Workers, WorkerStep(w)
  PROVE  Fine
<1>0. /\ DOMAIN work = Workers /\ work[w] \in WorkRecord /\ work[w].pc # "free"
      /\ work[w].bead \in Beads
  BY DEF Typed, WorkTyped, WellFormed, WorkerStep, GiveUp, Executed, Approve, Reject,
         CloseApproved, CloseRejected, CreateCorrection, LinkCorrection, ClaimCorrection
<1>1. UNCHANGED <<run, single, reopened>>
  BY DEF WorkerStep, GiveUp, Executed, Approve, Reject, CloseApproved, CloseRejected,
         CreateCorrection, LinkCorrection, ClaimCorrection, runRest
<1>2. UNCHANGED Fixing
  BY <1>1 DEF Fixing
<1>3. PICK c : c = work[w].bead
  OBVIOUS
\* It stays at work on its bead, or was not at work and does not begin to be.
<1>4. ASSUME NEW x, work' = [work EXCEPT ![w] = x],
             x.pc \in AtWork <=> work[w].pc \in AtWork, x.pc \in AtWork => x.bead = c
      PROVE  \A b \in Beads : AgentsOn(b)' = AgentsOn(b)
  <2>1. DOMAIN work = Workers /\ UNCHANGED <<single, Fixing>> /\ work' = [work EXCEPT ![w] = x]
    BY <1>0, <1>1, <1>2, <1>4
  <2>2. x.pc \in AtWork => x.bead = work[w].bead
    BY <1>3, <1>4
  <2> QED
    BY <1>4, <2>1, <2>2, WorkerStays
\* It leaves its bead.
<1>5. ASSUME NEW x, work' = [work EXCEPT ![w] = x], x.pc \notin AtWork,
             work[w].pc \in AtWork
      PROVE  /\ AgentsOn(c)' \subseteq AgentsOn(c)
             /\ \A b \in Beads : b # c => AgentsOn(b)' = AgentsOn(b)
  BY <1>0, <1>1, <1>2, <1>3, <1>5, WorkerAgents
<1>6. NoWork.pc \notin AtWork
  BY DEF NoWork, AtWork
<1>7. CASE GiveUp(w) \/ CloseApproved(w) \/ CloseRejected(w)
  <2>1. /\ work[w].pc \in AtWork
        /\ \/ bdClose(c) /\ UNCHANGED lost
           \/ lost' = lost \cup {c} /\ UNCHANGED status
    BY <1>3, <1>7 DEF GiveUp, CloseApproved, CloseRejected, AtWork
  <2>2. work' = [work EXCEPT ![w] = NoWork] \/ work' = [work EXCEPT ![w].pc = "create"]
    BY <1>7 DEF GiveUp, CloseApproved, CloseRejected, Leave
  <2>3. [work[w] EXCEPT !.pc = "create"].pc \notin AtWork
    BY <1>0 DEF WorkRecord, AtWork
  <2>4. PICK x : work' = [work EXCEPT ![w] = x] /\ x.pc \notin AtWork
    BY <1>6, <2>2, <2>3
  <2> QED
    BY <1>0, <1>1, <1>3, <1>5, <2>1, <2>4, LeaveFine
<1>8. CASE Executed(w) \/ Approve(w) \/ Reject(w)
  <2>1. PICK p \in {"review", "closeApproved", "closeRejected"} :
          work' = [work EXCEPT ![w] = [work[w] EXCEPT !.pc = p]]
    BY <1>8 DEF Executed, Approve, Reject
  <2>2. /\ [work[w] EXCEPT !.pc = p].pc \in AtWork /\ [work[w] EXCEPT !.pc = p].bead = c
        /\ work[w].pc \in AtWork
    BY <1>0, <1>3, <1>8 DEF WorkRecord, AtWork, Executed, Approve, Reject
  <2>3. \A b \in Beads : AgentsOn(b)' = AgentsOn(b)
    BY <1>4, <2>1, <2>2
  <2>4. UNCHANGED <<status, lost>>
    BY <1>8 DEF Executed, Approve, Reject
  <2> QED
    BY <1>0, <1>1, <2>3, <2>4, StatusFine
<1>9. CASE CreateCorrection(w)
  <2>1. work[w].pc \notin AtWork /\ UNCHANGED lost
    BY <1>9 DEF CreateCorrection, AtWork
  <2>2. CASE work' = [work EXCEPT ![w] = NoWork] /\ UNCHANGED status
    <3>1. \A b \in Beads : AgentsOn(b)' = AgentsOn(b)
      BY <1>4, <1>6, <2>1, <2>2
    <3> QED
      BY <1>0, <1>1, <2>1, <2>2, <3>1, StatusFine
  <2>3. ASSUME NEW f \in Spare, bdCreate(f), work' = [work EXCEPT ![w].pc = "link", ![w].corr = f]
        PROVE  Fine
    <3>1. /\ work' = [work EXCEPT ![w] = [work[w] EXCEPT !.pc = "link", !.corr = f]]
          /\ [work[w] EXCEPT !.pc = "link", !.corr = f].pc \notin AtWork
      BY <1>0, <2>3 DEF WorkRecord, AtWork
    <3>2. \A b \in Beads : AgentsOn(b)' = AgentsOn(b)
      BY <1>4, <2>1, <3>1
    <3> QED
      BY <1>0, <1>1, <2>1, <2>3, <3>2, StatusFine DEF Beads
  <2> QED
    BY <1>9, <2>2, <2>3 DEF CreateCorrection, Leave
<1>10. CASE LinkCorrection(w)
  <2>1. work[w].pc \notin AtWork /\ UNCHANGED <<lost, status>>
    BY <1>10 DEF LinkCorrection, AtWork
  <2>2. /\ work' = [work EXCEPT ![w] = [work[w] EXCEPT !.pc = "claim"]]
        /\ [work[w] EXCEPT !.pc = "claim"].pc \notin AtWork
    BY <1>0, <1>10 DEF LinkCorrection, WorkRecord, AtWork
  <2>3. \A b \in Beads : AgentsOn(b)' = AgentsOn(b)
    BY <1>4, <2>1, <2>2
  <2> QED
    BY <1>0, <1>1, <2>1, <2>3, StatusFine
<1>11. CASE ClaimCorrection(w)
  <2>0. PICK d : d = work[w].corr
    OBVIOUS
  <2>1. work[w].pc \notin AtWork /\ UNCHANGED lost /\ d \in Beads
    BY <1>11, <2>0 DEF ClaimCorrection, AtWork, Typed, WorkTyped, WellFormed
  <2>2. CASE work' = [work EXCEPT ![w] = NoWork] /\ UNCHANGED status
    <3>1. \A b \in Beads : AgentsOn(b)' = AgentsOn(b)
      BY <1>4, <1>6, <2>1, <2>2
    <3> QED
      BY <1>0, <1>1, <2>1, <2>2, <3>1, StatusFine
  <2>3. ASSUME bdClaim(d),
               NEW x, work' = [work EXCEPT ![w] = x], x.pc = "execute", x.bead = d
        PROVE  Fine
    <3>1. x.pc \in AtWork
      BY <2>3 DEF AtWork
    <3>2. /\ AgentsOn(d)' \subseteq AgentsOn(d) \cup {w} /\ w \in AgentsOn(d)'
      BY <1>0, <1>1, <1>2, <2>3, <3>1, WorkerAgents
    <3>3. ASSUME NEW b \in Beads, b # d PROVE AgentsOn(b)' = AgentsOn(b)
      BY ZenonT(40), <1>0, <1>1, <1>2, <2>1, <2>3, <3>3, WorkerAgents
    <3> QED
      BY <1>1, <2>1, <2>3, <3>2, <3>3, ClaimFine
  <2>4. ASSUME NEW x, x = [pc |-> "execute", bead |-> d, corr |-> NoBead,
                           iter |-> work[w].iter + 1]
        PROVE  x.pc = "execute" /\ x.bead = d
    BY <2>4
  <2> QED
    BY <1>11, <2>0, <2>2, <2>3, <2>4 DEF ClaimCorrection, Leave
<1> QED
  BY <1>7, <1>8, <1>9, <1>10, <1>11 DEF WorkerStep

LEMMA SingleFine ==
  ASSUME Typed, Claimed, SingleRunStep \/ \E b \in Beads : StartSingle(b)
  PROVE  Fine
<1>0. UNCHANGED <<work, run, reopened>>
  BY DEF SingleRunStep, StartSingle, SingleClaim, SingleStep, SingleGivesUp, SingleClose,
         singleRest
<1>1. UNCHANGED Fixing
  BY <1>0 DEF Fixing
<1>2. PICK c : c = single.bead
  OBVIOUS
<1>3. single.pc # "idle" => c \in Beads
  BY <1>2 DEF Typed, SingleTyped
<1>4. NoSingle.pc \notin AtWork
  BY DEF NoSingle, AtWork
\* It stays at work on its bead, or was not at work and does not begin to be.
<1>5. ASSUME UNCHANGED <<status, lost>>,
             single'.pc \in AtWork <=> single.pc \in AtWork,
             single'.pc \in AtWork => single'.bead = c
      PROVE  Fine
  <2>1. ASSUME NEW b \in Beads PROVE AgentsOn(b)' = AgentsOn(b)
    <3>1. single'.pc \in AtWork /\ single'.bead = b <=> single.pc \in AtWork /\ single.bead = b
      BY <1>2, <1>5
    <3>2. UNCHANGED <<work, Fixing>>
      BY <1>0, <1>1
    <3> QED
      BY <3>1, <3>2, SingleAgents
  <2> QED
    BY <1>0, <1>5, <2>1 DEF Fine, Keeps, OpensNoGap, Unaccounted
<1>6. CASE \E b \in Beads : StartSingle(b)
  <2>1. single.pc \notin AtWork /\ single'.pc \notin AtWork /\ UNCHANGED <<status, lost>>
    BY <1>6 DEF StartSingle, AtWork
  <2> QED
    BY <1>5, <2>1
<1>7. CASE SingleClaim
  <2>1. single.pc = "claim" /\ single.pc \notin AtWork /\ c \in Beads /\ UNCHANGED lost
    BY <1>3, <1>7 DEF SingleClaim, AtWork
  <2>2. CASE bdClaim(c) /\ single' = [single EXCEPT !.pc = "execute"]
    <3>1. single'.pc \in AtWork /\ single'.bead = c
      BY <1>2, <2>2 DEF Typed, SingleTyped, AtWork
    <3>2. UNCHANGED <<work, Fixing>>
      BY <1>0, <1>1
    <3>3. /\ AgentsOn(c)' \subseteq AgentsOn(c) \cup {"single"} /\ "single" \in AgentsOn(c)'
      BY <3>1, <3>2, SingleAgents
    <3>4. ASSUME NEW b \in Beads, b # c PROVE AgentsOn(b)' = AgentsOn(b)
      BY <2>1, <3>1, <3>2, <3>4, SingleAgents
    <3> QED
      BY <1>0, <2>1, <2>2, <3>3, <3>4, ClaimFine
  <2>3. CASE single' = NoSingle /\ UNCHANGED status
    BY <1>4, <1>5, <2>1, <2>3
  <2> QED
    BY <1>2, <1>7, <2>2, <2>3 DEF SingleClaim
<1>8. CASE SingleStep
  <2>1. single.pc \in AtWork /\ UNCHANGED <<status, lost>>
    BY <1>8 DEF SingleStep, AtWork
  <2>2. single'.pc \in AtWork /\ single'.bead = single.bead
    BY <1>8 DEF SingleStep, AtWork, Typed, SingleTyped
  <2> QED
    BY <1>2, <1>5, <2>1, <2>2
<1>9. CASE SingleGivesUp \/ SingleClose
  <2>1. /\ single.pc \in AtWork /\ single' = NoSingle /\ c \in Beads
        /\ \/ bdClose(c) /\ UNCHANGED lost
           \/ lost' = lost \cup {c} /\ UNCHANGED status
    BY <1>2, <1>3, <1>9 DEF SingleGivesUp, SingleClose, AtWork
  <2>2. UNCHANGED <<work, Fixing>> /\ single'.pc \notin AtWork
    BY <1>0, <1>1, <1>4, <2>1
  <2>3. AgentsOn(c)' \subseteq AgentsOn(c)
    BY <2>2, SingleAgents
  <2>4. ASSUME NEW b \in Beads, b # c PROVE AgentsOn(b)' = AgentsOn(b)
    BY <1>2, <2>2, <2>4, SingleAgents
  <2> QED
    BY <1>0, <2>1, <2>3, <2>4, LeaveFine
<1> QED
  BY <1>6, <1>7, <1>8, <1>9 DEF SingleRunStep

LEMMA UserFine ==
  ASSUME Typed, Claimed, (\E b \in Beads : Pause(b) \/ CloseByHand(b)) \/ CancelRun
  PROVE  Fine
<1>1. UNCHANGED <<work, single, run>>
  BY DEF Pause, CloseByHand, CancelRun
<1>2. \A b \in Beads : AgentsOn(b)' = AgentsOn(b)
  BY <1>1, SameAgents DEF Fixing
<1>3. CASE CancelRun
  BY <1>1, <1>3, IdleFine DEF CancelRun, Fixing
<1>4. ASSUME NEW b \in Beads, Pause(b) \/ CloseByHand(b) PROVE Fine
  BY <1>2, <1>4, StatusFine DEF Pause, CloseByHand
<1> QED
  BY <1>3, <1>4

LEMMA RequestsFine ==
  ASSUME Typed, Claimed, Accounted, NEW q \in Requests, RequestStep(q)
  PROVE  Claimed' /\ Accounted'
<1>1. UNCHANGED <<work, single, Fixing>>
  BY DEF RequestStep, Arrive, ResetList, ResetOne, StartExecuteRun, Fixing, NoRun
<1>2. \A b \in Beads : AgentsOn(b)' = AgentsOn(b)
  BY <1>1, SameAgents
<1>3. /\ req \in [Requests -> [pc : {"idle", "list", "reset"},
                               kind : {"none", "execute", "graph"}, todo : SUBSET Beads]]
      /\ status \in [Beads -> {"none", "open", "in_progress", "closed"}]
  BY DEF Typed, ReqTyped, BdTyped
<1>4. ASSUME NEW kind \in {"execute", "graph"}, Arrive(q, kind) PROVE Claimed' /\ Accounted'
  <2>1. UNCHANGED <<status, lost, reopened, run>>
    BY <1>4 DEF Arrive
  <2>2. Fine
    BY <1>1, <2>1, IdleFine
  <2>3. \A p \in Requests : req'[p].pc = "reset" => req'[p] = req[p]
    BY <1>3, <1>4 DEF Arrive
  <2> QED
    BY <2>1, <2>2, <2>3, ClaimedStep DEF Fine, OpensNoGap, Accounted
<1>5. CASE ResetList(q)
  <2>1. PICK found : found = {b \in Beads : status[b] = "in_progress"}
    OBVIOUS
  <2>2. UNCHANGED <<status, reopened, run>> /\ lost \subseteq lost'
    BY <1>5 DEF ResetList
  <2>3. Fine
    BY <1>2, <2>2 DEF Fine, Keeps, OpensNoGap, Unaccounted
  <2>4. \A p \in Requests : p # q => req'[p] = req[p]
    BY <1>3, <1>5 DEF ResetList
  <2>5. \A b \in Beads : Unaccounted(b)' => b \in req'[q].todo
    <3>1. CASE req' = [req EXCEPT ![q].pc = "reset", ![q].todo = found]
      <4>1. req'[q].todo = found
        BY <1>3, <3>1
      <4> QED
        BY <2>1, <2>2, <4>1 DEF Unaccounted
    <3>2. CASE lost' = lost \cup found
      BY <2>1, <2>2, <3>2 DEF Unaccounted
    <3> QED
      BY <1>5, <2>1, <3>1, <3>2 DEF ResetList
  <2> QED
    BY <2>2, <2>3, <2>4, <2>5, ClaimedStep DEF Fine, OpensNoGap, Accounted
<1>6. ASSUME NEW c \in Beads, ResetOne(q, c) PROVE Claimed' /\ Accounted'
  <2>1. Fine /\ UNCHANGED run
    BY <1>2, <1>6, StatusFine DEF ResetOne
  <2>2. ~Unaccounted(c)'
    BY <1>3, <1>6 DEF ResetOne, SetOpen, Unaccounted
  <2>3. /\ \A p \in Requests : p # q => req'[p] = req[p]
        /\ req'[q].todo = req[q].todo \ {c} /\ req'[q].pc = req[q].pc
    BY <1>3, <1>6 DEF ResetOne
  <2> QED
    BY <2>1, <2>2, <2>3, ClaimedStep DEF Fine, OpensNoGap, Accounted
<1>7. CASE StartExecuteRun(q)
  <2>1. UNCHANGED <<status, lost, reopened>>
    BY <1>7 DEF StartExecuteRun
  <2>2. Fine
    BY <1>1, <2>1, IdleFine
  <2>3. \A b \in Beads : ~Unaccounted(b)
    BY <1>7 DEF StartExecuteRun, Accounted
  <2> QED
    BY <2>2, <2>3, ClaimedStep DEF Fine, OpensNoGap, Accounted
<1> QED
  BY <1>4, <1>5, <1>6, <1>7 DEF RequestStep

LEMMA CrashFine ==
  ASSUME Crash PROVE Claimed' /\ Accounted'
<1>1. \A b \in Beads : AgentsOn(b)' = {}
  BY DEF Crash, AgentsOn, NoWork, NoRun, NoSingle, AtWork
<1>2. run'.pc = "idle" /\ \A q \in Requests : req'[q].pc # "reset"
  BY DEF Crash, NoRun, NoReq
<1> QED
  BY <1>1, <1>2 DEF Claimed, Accounted

LEMMA InitFine == Init => Claimed /\ Accounted
<1> SUFFICES ASSUME Init PROVE Claimed /\ Accounted
  OBVIOUS
<1>1. \A b \in Beads : AgentsOn(b) = {}
  BY DEF Init, AgentsOn, NoWork, NoRun, NoSingle, AtWork
<1>2. run.pc = "idle" /\ \A q \in Requests : req[q].pc # "reset"
  BY DEF Init, NoRun, NoReq
<1> QED
  BY <1>1, <1>2 DEF Claimed, Accounted

LEMMA AlwaysFine == Spec => [](Claimed /\ Accounted)
<1>1. Typed /\ Claimed /\ Accounted /\ [Next]_vars => Claimed' /\ Accounted'
  <2> SUFFICES ASSUME Typed, Claimed, Accounted, [Next]_vars PROVE Claimed' /\ Accounted'
    OBVIOUS
  <2>1. CASE Generates
    BY <2>1, GeneratesFine, FineStep
       DEF Generates, ParsePlan, StopGenerating, CreatePlanned, LinkPlanned
  <2>2. CASE PickReady \/ TakeSlot \/ ClaimAndStart \/ ClaimFails \/ WorkersDone \/ FinishRun
    <3>1. req' = req /\ (run'.pc # "idle" => run.pc # "idle")
      BY <2>2 DEF PickReady, TakeSlot, ClaimAndStart, ClaimFails, WorkersDone, FinishRun, NoRun
    <3> QED
      BY <2>2, <3>1, LoopFine, FineStep
  <2>3. CASE GateStep
    <3>1. req' = req /\ run.pc # "idle"
      BY <2>3 DEF GateStep, ValidationPasses, ValidationGivesUp, CreateFix, ClaimFix, ExecuteFix,
                  CloseFix, gateRest
    <3> QED
      BY <2>3, <3>1, GateFine, FineStep
  <2>4. ASSUME NEW w \in Workers, WorkerStep(w) PROVE Claimed' /\ Accounted'
    <3>1. UNCHANGED <<req, run>>
      BY <2>4 DEF WorkerStep, GiveUp, Executed, Approve, Reject, CloseApproved, CloseRejected,
                  CreateCorrection, LinkCorrection, ClaimCorrection, runRest
    <3> QED
      BY <2>4, <3>1, WorkerFine, FineStep
  <2>5. CASE SingleRunStep \/ \E b \in Beads : StartSingle(b)
    <3>1. UNCHANGED <<req, run>>
      BY <2>5 DEF SingleRunStep, StartSingle, SingleClaim, SingleStep, SingleGivesUp, SingleClose,
                  singleRest
    <3> QED
      BY <2>5, <3>1, SingleFine, FineStep
  <2>6. CASE (\E b \in Beads : Pause(b) \/ CloseByHand(b)) \/ CancelRun
    <3>1. UNCHANGED <<req, run>>
      BY <2>6 DEF Pause, CloseByHand, CancelRun
    <3> QED
      BY <2>6, <3>1, UserFine, FineStep
  <2>7. CASE UNCHANGED vars
    <3>1. Fine /\ UNCHANGED <<req, run>>
      BY <2>7, IdleFine DEF vars, Fixing
    <3> QED
      BY <3>1, FineStep
  <2> QED
    BY <2>1, <2>2, <2>3, <2>4, <2>5, <2>6, <2>7, StepCases, RequestsFine, CrashFine DEF UserStep
<1> QED
  BY <1>1, AlwaysSlots, InitFine, PTL DEF Spec

\* Two agents are never at work on a bead that nobody set open under the first,
\* for every plan and any number of workers: the claims of the loop, of
\* corrections, of the gate's fixes and of single-bead runs (handler/bead.go)
\* exclude each other.
THEOREM ClaimsExclude == Spec => []OneAgentUnlessReopened
<1>1. Claimed => OneAgentUnlessReopened
  <2> SUFFICES ASSUME Claimed, NEW b \in Beads \ reopened PROVE Cardinality(AgentsOn(b)) <= 1
    BY DEF OneAgentUnlessReopened
  <2>1. CASE AgentsOn(b) = {}
    BY <2>1, FS_EmptySet
  <2>2. CASE AgentsOn(b) # {}
    <3>1. PICK a : a \in AgentsOn(b)
      BY <2>2
    <3>2. AgentsOn(b) = {a}
      BY <3>1 DEF Claimed
    <3>3. Cardinality({a}) = 1
      BY FS_Singleton
    <3> QED
      BY <3>2, <3>3
  <2> QED
    BY <2>1, <2>2
<1> QED
  BY <1>1, AlwaysFine, PTL

\* While an execution run is alive, every bead in progress has its agent or one
\* that gave up on it, however many requests reset beads at the same time and
\* however often the server crashed before: bdResetStale comes before the start.
THEOREM NoBeadStuckUnseen == Spec => []InProgressIsKnown
<1>1. Accounted => InProgressIsKnown
  BY DEF Accounted, Unaccounted, InProgressIsKnown
<1> QED
  BY <1>1, AlwaysFine, PTL

=============================================================================
