------------------------------ MODULE BeadExec ------------------------------
(***************************************************************************)
(* Execution of build tasks ("beads").  The bead database belongs to the   *)
(* external bd tool; here it is the status and the recorded dependencies   *)
(* of each bead.  Around it run                                            *)
(*                                                                         *)
(*   - one generation run, which creates epics and tasks one by one and    *)
(*     records the dependencies after all of them exist,                   *)
(*   - one execution run at a time: a loop that asks bd for a ready bead,  *)
(*     takes a slot, claims the bead and starts a worker goroutine for it, *)
(*     then waits for the workers and runs the validation gate,            *)
(*   - one run of a single bead, asked for by the user,                    *)
(*   - Execute and GetGraph requests, which reset stale beads, and the     *)
(*     user's pause, restart, close and cancel commands.                   *)
(*                                                                         *)
(* Each bd command is one step, so other actors run between any two.       *)
(***************************************************************************)
EXTENDS Integers, FiniteSets, Sequences, SequencesExt

CONSTANTS
    Plan,                 \* the sequence of bead ids the build plan lists
    Epic,                 \* [Range(Plan) -> Range(Plan)], an epic is its own
    PlanDeps,             \* [Range(Plan) -> SUBSET Range(Plan)]
    Spare,                \* ids bd gives to corrections and fixes (a bound)
    Workers,              \* goroutines of the execution run (a bound)
    Requests,             \* concurrent Execute and GetGraph requests
    MaxParallel,          \* slots of the execution run
    MaxReviewIterations,  \* 3 in the code
    MaxValidationRetries, \* 3 in the code
    Validates,            \* whether the project has validation commands
    MaxArrivals,          \* bound: requests that find no active run
    MaxEvents             \* bound: failures, user commands, single-bead runs
                          \* and crashes, together

Planned == ToSet(Plan)
Beads == Planned \cup Spare

ASSUME PlanAssumption ==
    /\ Plan \in Seq(Planned)
    /\ PlanDeps \in [Planned -> SUBSET Planned]
ASSUME SlotsAssumption == MaxParallel \in 1..10
ASSUME ReviewsAssumption == MaxReviewIterations \in Nat \ {0}
ASSUME RetriesAssumption == MaxValidationRetries \in Nat \ {0}
ASSUME BoundsAssumption == MaxArrivals \in Nat /\ MaxEvents \in Nat

NoBead == "no bead"

VARIABLES
    status,    \* bd: status of each bead
    deps,      \* bd: the beads each bead is blocked by
    gen,       \* generation run: [pc, at]
    run,       \* execution run: [pc, bead, attempt]
    held,      \* slots of the run's semaphore in use
    work,      \* worker goroutines: [pc, bead, corr, iter]
    single,    \* single-bead run: [pc, bead, iter]
    req,       \* requests: [pc, kind, todo]
    cancelled, \* the context of the execution run is done
    used,      \* how much of each bound is used up
    lost,      \* history: beads whose agent gave up on them in progress
    reopened   \* history: beads set open while an agent was at work on them

vars == <<status, deps, gen, run, held, work, single, req, cancelled, used,
          lost, reopened>>

NoWork == [pc |-> "free", bead |-> NoBead, corr |-> NoBead, iter |-> 0]
NoRun == [pc |-> "idle", bead |-> NoBead, attempt |-> 0]
NoSingle == [pc |-> "idle", bead |-> NoBead, iter |-> 0]
NoReq == [pc |-> "idle", kind |-> "none", todo |-> {}]

Init ==
    /\ status = [b \in Beads |-> "none"]
    /\ deps = [b \in Beads |-> {}]
    /\ gen = [pc |-> "parse", at |-> 0]
    /\ run = NoRun
    /\ held = 0
    /\ work = [w \in Workers |-> NoWork]
    /\ single = NoSingle
    /\ req = [q \in Requests |-> NoReq]
    /\ cancelled = FALSE
    /\ used = [arrivals |-> 0, events |-> 0]
    /\ lost = {} /\ reopened = {}

-----------------------------------------------------------------------------
(* bd commands.  One fails for a reason of its own (a bounded number of    *)
(* times), and a command of the execution run also when its context is     *)
(* done.                                                                   *)

Exists(b) == status[b] # "none"

\* bd ready: open, and blocked by no bead that is not closed.
Ready(b) == status[b] = "open" /\ \A d \in deps[b] : status[d] = "closed"

\* Something that need not happen: a failure, a command, a crash.
Event == used.events < MaxEvents /\ used' = [used EXCEPT !.events = @ + 1]

RunFault == IF cancelled THEN UNCHANGED used ELSE Event

RunOk == ~cancelled /\ UNCHANGED used

\* Mutant: the status is set whoever holds the bead.
bdClaimByStatus(b) == status' = [status EXCEPT ![b] = "in_progress"]

\* bd update --claim succeeds for one caller only.
bdClaim(b) ==
    /\ status[b] = "open"
    /\ status' = [status EXCEPT ![b] = "in_progress"]

\* The claim is refused, or the command fails.
bdClaimFails(b, fault) == IF status[b] = "open" THEN fault ELSE UNCHANGED used

bdClose(b) == status' = [status EXCEPT ![b] = "closed"]

\* bd create: an unused id, open and blocked by nothing.
bdCreate(b) ==
    /\ ~Exists(b)
    /\ status' = [status EXCEPT ![b] = "open"]

AtWork == {"execute", "review", "closeApproved", "closeRejected"}

\* The agents at work on a bead.
AgentsOn(b) ==
    {w \in Workers : work[w].pc \in AtWork /\ work[w].bead = b}
      \cup {a \in {"single"} : single.pc \in AtWork /\ single.bead = b}
      \cup {a \in {"gate"} : run.pc \in {"fix", "fixClose"} /\ run.bead = b}

\* bd update --status=open --assignee= , whatever the status was.
SetOpen(b) ==
    /\ status' = [status EXCEPT ![b] = "open"]
    /\ lost' = lost \ {b}
    /\ reopened' = IF AgentsOn(b) # {} THEN reopened \cup {b} ELSE reopened

-----------------------------------------------------------------------------
(* The generation run.                                                     *)

\* StartGenerateRun, Steps 1 and 2: the model's plan is parsed, and repaired
\* by the model if it does not fit the schema; bd is initialised.  Any failure
\* ends the run before a bead exists; a plan without epics has none to make.
ParsePlan ==
    /\ gen.pc = "parse"
    /\ \/ /\ gen' = IF Plan = <<>> THEN [pc |-> "done", at |-> 0]
                   ELSE [pc |-> "create", at |-> 1]
          /\ UNCHANGED used
       \/ gen' = [pc |-> "done", at |-> 0] /\ Event
    /\ UNCHANGED <<status, deps, run, held, work, single, req, cancelled, lost,
                   reopened>>

\* The run is stopped between two beads: those created so far stay, without
\* their dependencies.
StopGenerating ==
    /\ gen.pc = "create" /\ Event
    /\ gen' = [pc |-> "done", at |-> 0]
    /\ UNCHANGED <<status, deps, run, held, work, single, req, cancelled, lost,
                   reopened>>

\* StartGenerateRun, Step 3: the next bead of the plan is created, or its
\* creation fails and the loop goes on; the tasks of an epic that failed
\* are skipped with it.
CreatePlanned ==
    /\ gen.pc = "create"
    /\ LET b == Plan[gen.at]
           skipped == Epic[b] # b /\ ~Exists(Epic[b])
       IN \/ ~skipped /\ bdCreate(b) /\ UNCHANGED used
          \/ ~skipped /\ Event /\ UNCHANGED status
          \/ skipped /\ UNCHANGED <<status, used>>
    /\ gen' = IF gen.at < Len(Plan) THEN [gen EXCEPT !.at = @ + 1]
              ELSE [pc |-> "link", at |-> 1]
    /\ UNCHANGED <<deps, run, held, work, single, req, cancelled, lost,
                   reopened>>

\* Step 4: the dependencies of one bead on beads that exist are recorded;
\* the outcome of bd dep add is not looked at.
LinkPlanned ==
    /\ gen.pc = "link"
    /\ LET b == Plan[gen.at]
           known == IF Exists(b) THEN {d \in PlanDeps[b] : Exists(d)} ELSE {}
       IN \/ deps' = [deps EXCEPT ![b] = @ \cup known] /\ UNCHANGED used
          \/ known # {} /\ Event /\ UNCHANGED deps
    /\ gen' = IF gen.at < Len(Plan) THEN [gen EXCEPT !.at = @ + 1]
              ELSE [pc |-> "done", at |-> 0]
    /\ UNCHANGED <<status, run, held, work, single, req, cancelled, lost,
                   reopened>>

-----------------------------------------------------------------------------
(* Execute and GetGraph requests.                                          *)

\* Execute finds no active run, or GetGraph does: both go on to reset the
\* beads that are in progress.
Arrive(q, kind) ==
    /\ req[q].pc = "idle" /\ run.pc = "idle"
    /\ used.arrivals < MaxArrivals /\ used' = [used EXCEPT !.arrivals = @ + 1]
    /\ req' = [req EXCEPT ![q] = [pc |-> "list", kind |-> kind, todo |-> {}]]
    /\ UNCHANGED <<status, deps, gen, run, held, work, single, cancelled,
                   lost, reopened>>

\* Mutant: only one bead is listed.
ResetListOne(q) ==
    /\ req[q].pc = "list"
    /\ LET found == {b \in Beads : status[b] = "in_progress"}
       IN req' = [req EXCEPT ![q].pc = "reset",
                             ![q].todo = {b \in found : b = CHOOSE c \in found : TRUE}]
    /\ UNCHANGED <<status, deps, gen, run, held, work, single, cancelled, used,
                   lost, reopened>>

\* bdResetStale lists the beads in progress; an error ends the reset, not
\* the request.
ResetList(q) ==
    /\ req[q].pc = "list"
    /\ LET found == {b \in Beads : status[b] = "in_progress"}
       IN \/ /\ req' = [req EXCEPT ![q].pc = "reset", ![q].todo = found]
             /\ UNCHANGED <<used, lost>>
          \/ /\ Event
             /\ req' = [req EXCEPT ![q].pc = "reset"]
             /\ lost' = lost \cup found
    /\ UNCHANGED <<status, deps, gen, run, held, work, single, cancelled,
                   reopened>>

\* It sets each of them open, whatever happened since; errors are ignored.
ResetOne(q, b) ==
    /\ req[q].pc = "reset" /\ b \in req[q].todo
    /\ req' = [req EXCEPT ![q].todo = @ \ {b}]
    /\ \/ SetOpen(b) /\ UNCHANGED used
       \/ Event /\ lost' = lost \cup {b} /\ UNCHANGED <<status, reopened>>
    /\ UNCHANGED <<deps, gen, run, held, work, single, cancelled>>

\* StartExecuteRun: runs.Start returns nil when another request was faster.
StartExecuteRun(q) ==
    /\ req[q].pc = "reset" /\ req[q].todo = {}
    /\ req' = [req EXCEPT ![q] = NoReq]
    /\ IF req[q].kind = "execute" /\ run.pc = "idle"
       THEN run' = [NoRun EXCEPT !.pc = "loop"] /\ cancelled' = FALSE
       ELSE UNCHANGED <<run, cancelled>>
    /\ UNCHANGED <<status, deps, gen, held, work, single, used, lost,
                   reopened>>

-----------------------------------------------------------------------------
(* The loop of the execution run.                                          *)

\* bdReady picks a ready bead; the loop ends when there is none, when the
\* command fails or when the context is done.
PickReady ==
    /\ run.pc = "loop"
    /\ \/ /\ RunOk
          /\ \E b \in Beads :
               /\ Ready(b)
               /\ run' = [run EXCEPT !.pc = "slot", !.bead = b]
       \/ /\ \/ RunOk /\ ~\E b \in Beads : Ready(b)
             \/ RunFault
          /\ run' = [run EXCEPT !.pc = "wait", !.bead = NoBead]
    /\ UNCHANGED <<status, deps, gen, held, work, single, req, cancelled,
                   lost, reopened>>

\* Mutant: one slot too many.
TakeSlotOneMore ==
    /\ run.pc = "slot" /\ held <= MaxParallel
    /\ held' = held + 1
    /\ run' = [run EXCEPT !.pc = "claim"]
    /\ UNCHANGED <<status, deps, gen, work, single, req, cancelled, used,
                   lost, reopened>>

\* sem <- struct{}{} : waits for a slot, and not for the context.
TakeSlot ==
    /\ run.pc = "slot" /\ held < MaxParallel
    /\ held' = held + 1
    /\ run' = [run EXCEPT !.pc = "claim"]
    /\ UNCHANGED <<status, deps, gen, work, single, req, cancelled, used,
                   lost, reopened>>

\* The bead is claimed and a worker started for it.
ClaimAndStart ==
    /\ run.pc = "claim" /\ RunOk
    /\ bdClaim(run.bead)
    /\ \E w \in Workers : work[w].pc = "free"
    /\ LET w == CHOOSE v \in Workers : work[v].pc = "free"
       IN work' = [work EXCEPT ![w] = [NoWork EXCEPT !.pc = "execute",
                                                     !.bead = run.bead]]
    /\ run' = [run EXCEPT !.pc = "loop", !.bead = NoBead]
    /\ UNCHANGED <<deps, gen, held, single, req, cancelled, lost, reopened>>

\* Mutant: the slot is not returned.
ClaimFailsKeepsSlot ==
    /\ run.pc = "claim"
    /\ bdClaimFails(run.bead, RunFault)
    /\ run' = [run EXCEPT !.pc = "loop", !.bead = NoBead]
    /\ UNCHANGED <<status, deps, gen, held, work, single, req, cancelled, lost,
                   reopened>>

\* The claim fails: the slot is returned and the loop goes on.
ClaimFails ==
    /\ run.pc = "claim"
    /\ bdClaimFails(run.bead, RunFault)
    /\ held' = held - 1
    /\ run' = [run EXCEPT !.pc = "loop", !.bead = NoBead]
    /\ UNCHANGED <<status, deps, gen, work, single, req, cancelled, lost,
                   reopened>>

\* wg.Wait returns; the validation gate is next if there are commands.
WorkersDone ==
    /\ run.pc = "wait"
    /\ \A w \in Workers : work[w].pc = "free"
    /\ run' = [run EXCEPT !.pc = IF Validates THEN "gate" ELSE "done"]
    /\ UNCHANGED <<status, deps, gen, held, work, single, req, cancelled,
                   used, lost, reopened>>

\* "Execution complete" is emitted and the deferred calls finish the run.
FinishRun ==
    /\ run.pc = "done"
    /\ run' = NoRun
    /\ UNCHANGED <<status, deps, gen, held, work, single, req, cancelled,
                   used, lost, reopened>>

-----------------------------------------------------------------------------
(* A worker goroutine: the bead is executed and reviewed; findings close   *)
(* it and lead to a correction bead, at most MaxReviewIterations reviews.  *)

runRest == <<gen, run, single, req, cancelled>>

\* Mutant: the worker leaves with its slot.
LeaveWithSlot(w) ==
    /\ work' = [work EXCEPT ![w] = NoWork]
    /\ UNCHANGED held

\* The goroutine ends and returns its slot.
Leave(w) ==
    /\ work' = [work EXCEPT ![w] = NoWork]
    /\ held' = held - 1

\* The provider cannot be resolved, the agent cannot be started, or it hits
\* a plan limit: the bead stays in progress.
GiveUp(w) ==
    /\ work[w].pc \in {"execute", "review"}
    /\ Event
    /\ lost' = lost \cup {work[w].bead}
    /\ Leave(w)
    /\ UNCHANGED <<status, deps, reopened, runRest>>

\* The agent's events end: with a result, with an error event, which is not
\* looked at, or because the context is done.
Executed(w) ==
    /\ work[w].pc = "execute"
    /\ work' = [work EXCEPT ![w].pc = "review"]
    /\ UNCHANGED <<status, deps, held, used, lost, reopened, runRest>>

\* A review without findings, one that failed ("closing anyway"), or the
\* last one.
Approve(w) ==
    /\ work[w].pc = "review"
    /\ work' = [work EXCEPT ![w].pc = "closeApproved"]
    /\ UNCHANGED <<status, deps, held, used, lost, reopened, runRest>>

\* Ids left for beads that are about to be created.
SpareLeft ==
    Cardinality({b \in Spare : ~Exists(b)})
      > Cardinality({w \in Workers : work[w].pc \in {"closeRejected", "create"}})

\* Findings before the last review.  (Spare bounds the corrections.)
Reject(w) ==
    /\ work[w].pc = "review" /\ ~cancelled
    /\ work[w].iter < MaxReviewIterations - 1
    /\ SpareLeft
    /\ work' = [work EXCEPT ![w].pc = "closeRejected"]
    /\ UNCHANGED <<status, deps, held, used, lost, reopened, runRest>>

\* bdClose after the last review ends the worker, also when it fails.
CloseApproved(w) ==
    /\ work[w].pc = "closeApproved"
    /\ \/ RunOk /\ bdClose(work[w].bead) /\ UNCHANGED lost
       \/ /\ RunFault
          /\ lost' = lost \cup {work[w].bead}
          /\ UNCHANGED status
    /\ Leave(w)
    /\ UNCHANGED <<deps, reopened, runRest>>

CloseRejected(w) ==
    /\ work[w].pc = "closeRejected"
    /\ \/ /\ RunOk /\ bdClose(work[w].bead)
          /\ work' = [work EXCEPT ![w].pc = "create"]
          /\ UNCHANGED <<held, lost>>
       \/ /\ RunFault
          /\ lost' = lost \cup {work[w].bead}
          /\ Leave(w)
          /\ UNCHANGED status
    /\ UNCHANGED <<deps, reopened, runRest>>

\* The correction is a new bead; from here on the loop may find it ready.
CreateCorrection(w) ==
    /\ work[w].pc = "create"
    /\ \/ /\ RunOk
          /\ \E c \in Spare :
               /\ bdCreate(c)
               /\ work' = [work EXCEPT ![w].pc = "link", ![w].corr = c]
          /\ UNCHANGED held
       \/ RunFault /\ Leave(w) /\ UNCHANGED status
    /\ UNCHANGED <<deps, lost, reopened, runRest>>

\* bdDepAdd: its outcome is not looked at.
LinkCorrection(w) ==
    /\ work[w].pc = "link"
    /\ \/ RunOk /\ deps' = [deps EXCEPT ![work[w].corr] = @ \cup {work[w].bead}]
       \/ RunFault /\ UNCHANGED deps
    /\ work' = [work EXCEPT ![w].pc = "claim"]
    /\ UNCHANGED <<status, held, lost, reopened, runRest>>

\* The correction is claimed and executed as the next iteration; if the
\* claim fails the worker ends and the correction is left to the loop.
ClaimCorrection(w) ==
    /\ work[w].pc = "claim"
    /\ \/ /\ RunOk /\ bdClaim(work[w].corr)
          /\ work' = [work EXCEPT ![w] =
                        [pc |-> "execute", bead |-> work[w].corr,
                         corr |-> NoBead, iter |-> work[w].iter + 1]]
          /\ UNCHANGED held
       \/ /\ bdClaimFails(work[w].corr, RunFault)
          /\ Leave(w)
          /\ UNCHANGED status
    /\ UNCHANGED <<deps, lost, reopened, runRest>>

-----------------------------------------------------------------------------
(* The validation gate: the commands run, a failure makes a fix bead that  *)
(* the run itself claims, executes and closes before it tries again.       *)

gateRest == <<gen, held, work, single, req, cancelled, reopened>>

ValidationPasses ==
    /\ run.pc = "gate"
    /\ run' = [run EXCEPT !.pc = "done"]
    /\ UNCHANGED <<status, deps, used, lost, gateRest>>

\* The last attempt failed, or the fix bead cannot be created.
ValidationGivesUp ==
    /\ run.pc = "gate"
    /\ IF run.attempt < MaxValidationRetries - 1 THEN RunFault ELSE UNCHANGED used
    /\ run' = [run EXCEPT !.pc = "done"]
    /\ UNCHANGED <<status, deps, lost, gateRest>>

CreateFix ==
    /\ run.pc = "gate" /\ RunOk
    /\ run.attempt < MaxValidationRetries - 1
    /\ \E f \in Spare : bdCreate(f) /\ run' = [run EXCEPT !.pc = "fixClaim", !.bead = f]
    /\ UNCHANGED <<deps, lost, gateRest>>

ClaimFix ==
    /\ run.pc = "fixClaim"
    /\ \/ RunOk /\ bdClaim(run.bead) /\ run' = [run EXCEPT !.pc = "fix"]
       \/ /\ bdClaimFails(run.bead, RunFault)
          /\ run' = [run EXCEPT !.pc = "done"]
          /\ UNCHANGED status
    /\ UNCHANGED <<deps, lost, gateRest>>

\* A plan limit ends only the reading of the agent's events.
ExecuteFix ==
    /\ run.pc = "fix"
    /\ \/ run' = [run EXCEPT !.pc = "fixClose"] /\ UNCHANGED <<used, lost>>
       \/ /\ RunFault
          /\ run' = [run EXCEPT !.pc = "done"]
          /\ lost' = lost \cup {run.bead}
    /\ UNCHANGED <<status, deps, gateRest>>

\* bdClose, its error ignored; then the next attempt.
CloseFix ==
    /\ run.pc = "fixClose"
    /\ \/ RunOk /\ bdClose(run.bead) /\ UNCHANGED lost
       \/ /\ RunFault /\ lost' = lost \cup {run.bead}
          /\ UNCHANGED status
    /\ run' = [pc |-> "gate", bead |-> NoBead, attempt |-> run.attempt + 1]
    /\ UNCHANGED <<deps, gateRest>>

-----------------------------------------------------------------------------
(* ExecuteSingleBead: one bead, re-executed after findings.                *)

singleRest == <<deps, gen, run, held, work, req, cancelled, reopened>>

StartSingle(b) ==
    /\ single.pc = "idle" /\ Exists(b)
    /\ Event
    /\ single' = [pc |-> "claim", bead |-> b, iter |-> 0]
    /\ UNCHANGED <<status, lost, singleRest>>

SingleClaim ==
    /\ single.pc = "claim"
    /\ \/ /\ bdClaim(single.bead) /\ UNCHANGED used
          /\ single' = [single EXCEPT !.pc = "execute"]
       \/ /\ bdClaimFails(single.bead, Event)
          /\ single' = NoSingle /\ UNCHANGED status
    /\ UNCHANGED <<lost, singleRest>>

\* Executed; the review may send it back for another execution.
SingleStep ==
    /\ \/ single.pc = "execute" /\ single' = [single EXCEPT !.pc = "review"]
       \/ single.pc = "review" /\ single' = [single EXCEPT !.pc = "closeApproved"]
       \/ /\ single.pc = "review" /\ single.iter < MaxReviewIterations - 1
          /\ single' = [single EXCEPT !.pc = "execute", !.iter = @ + 1]
    /\ UNCHANGED <<status, used, lost, singleRest>>

\* Every failure after the claim leaves the bead in progress.
SingleGivesUp ==
    /\ single.pc \in {"execute", "review", "closeApproved"}
    /\ Event
    /\ lost' = lost \cup {single.bead}
    /\ single' = NoSingle
    /\ UNCHANGED <<status, singleRest>>

SingleClose ==
    /\ single.pc = "closeApproved"
    /\ bdClose(single.bead)
    /\ single' = NoSingle
    /\ UNCHANGED <<used, lost, singleRest>>

-----------------------------------------------------------------------------
(* The user, and the process.                                              *)

\* ControlBead "pause" and "restart".
Pause(b) ==
    /\ Exists(b)
    /\ Event
    /\ SetOpen(b)
    /\ UNCHANGED <<deps, gen, run, held, work, single, req, cancelled>>

\* ControlBead "close" and "cancel".
CloseByHand(b) ==
    /\ Exists(b)
    /\ Event
    /\ bdClose(b)
    /\ UNCHANGED <<deps, gen, run, held, work, single, req, cancelled, lost,
                   reopened>>

\* The user stops the run, or the process shuts down.
CancelRun ==
    /\ run.pc # "idle" /\ ~cancelled
    /\ Event
    /\ cancelled' = TRUE
    /\ UNCHANGED <<status, deps, gen, run, held, work, single, req, lost,
                   reopened>>

\* A crash ends every goroutine; bd keeps what it has.
Crash ==
    /\ Event
    /\ gen' = [pc |-> "done", at |-> 0]
    /\ run' = NoRun /\ held' = 0 /\ work' = [w \in Workers |-> NoWork]
    /\ single' = NoSingle /\ req' = [q \in Requests |-> NoReq]
    /\ cancelled' = FALSE
    /\ UNCHANGED <<status, deps, lost, reopened>>

-----------------------------------------------------------------------------
LoopStep == PickReady \/ TakeSlot \/ ClaimAndStart \/ ClaimFails \/ WorkersDone
GateStep ==
    \/ ValidationPasses \/ ValidationGivesUp \/ CreateFix
    \/ ClaimFix \/ ExecuteFix \/ CloseFix
RunStep == LoopStep \/ GateStep \/ FinishRun

WorkerStep(w) ==
    \/ GiveUp(w) \/ Executed(w) \/ Approve(w) \/ Reject(w)
    \/ CloseApproved(w) \/ CloseRejected(w)
    \/ CreateCorrection(w) \/ LinkCorrection(w) \/ ClaimCorrection(w)

SingleRunStep == SingleClaim \/ SingleStep \/ SingleGivesUp \/ SingleClose

RequestStep(q) ==
    \/ \E kind \in {"execute", "graph"} : Arrive(q, kind)
    \/ ResetList(q)
    \/ \E b \in Beads : ResetOne(q, b)
    \/ StartExecuteRun(q)

UserStep ==
    \/ \E b \in Beads : StartSingle(b) \/ Pause(b) \/ CloseByHand(b)
    \/ CancelRun

Next ==
    \/ ParsePlan \/ StopGenerating \/ CreatePlanned \/ LinkPlanned
    \/ RunStep
    \/ \E w \in Workers : WorkerStep(w)
    \/ SingleRunStep
    \/ \E q \in Requests : RequestStep(q)
    \/ UserStep
    \/ Crash

\* The goroutines of a run go on by themselves: bd commands return, agents
\* end, and the slot a worker returns is taken by the loop that waits for it.
Fairness == WF_vars(RunStep) /\ \A w \in Workers : WF_vars(WorkerStep(w))

Spec == Init /\ [][Next]_vars /\ Fairness

-----------------------------------------------------------------------------
(* Properties.                                                             *)

\* Every variable has its type (StartExecuteRun, ExecuteSingleBead).
TypeOK ==
    /\ status \in [Beads -> {"none", "open", "in_progress", "closed"}]
    /\ deps \in [Beads -> SUBSET Beads]
    /\ gen \in [pc : {"parse", "create", "link", "done"}, at : 0..Len(Plan)]
    /\ run \in [pc : {"idle", "loop", "slot", "claim", "wait", "gate", "fixClaim",
                      "fix", "fixClose", "done"},
                bead : Beads \cup {NoBead}, attempt : 0..(MaxValidationRetries - 1)]
    /\ held \in 0..MaxParallel
    /\ work \in [Workers -> [pc : {"free", "create", "link", "claim"} \cup AtWork,
                             bead : Beads \cup {NoBead}, corr : Beads \cup {NoBead},
                             iter : 0..(MaxReviewIterations - 1)]]
    /\ single \in [pc : {"idle", "claim"} \cup AtWork, bead : Beads \cup {NoBead},
                   iter : 0..(MaxReviewIterations - 1)]
    /\ req \in [Requests -> [pc : {"idle", "list", "reset"}, kind : {"none", "execute", "graph"},
                             todo : SUBSET Beads]]
    /\ cancelled \in BOOLEAN
    /\ used \in [arrivals : 0..MaxArrivals, events : 0..MaxEvents]
    /\ lost \subseteq Beads /\ reopened \subseteq Beads

\* The slots in use are those of the live workers and the one the loop took
\* and has not passed on: no path through claiming, reviewing, correcting or
\* failing keeps a slot or returns it twice, and no worker outlives the
\* wg.Wait of its run.
SlotsHaveOwners ==
    /\ held = Cardinality({w \in Workers : work[w].pc # "free"})
                + (IF run.pc = "claim" THEN 1 ELSE 0)
    /\ run.pc \in {"idle", "gate", "fixClaim", "fix", "fixClose", "done"} => held = 0

\* Two agents work on one bead only when somebody set it open under the
\* first: the claims of the loop, of corrections, of fixes and of single-bead
\* runs exclude each other, whatever the loop saw in bd ready before.
OneAgentUnlessReopened ==
    \A b \in Beads \ reopened : Cardinality(AgentsOn(b)) <= 1

\* While an execution run is alive, a bead in progress has an agent, or its
\* agent gave up on it: what a crash leaves in progress has been set open
\* before the run starts, so no bead is stuck there unseen.
InProgressIsKnown ==
    run.pc # "idle" =>
      \A b \in Beads : status[b] = "in_progress" => b \in lost \/ AgentsOn(b) # {}

\* An execution run ends: the loop does not wait for a slot that is never
\* returned, and the workers and the validation gate stop by themselves.
RunEnds == (run.pc # "idle") ~> (run.pc = "idle")

=============================================================================
