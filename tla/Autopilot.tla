----------------------------- MODULE Autopilot ------------------------------
(***************************************************************************)
(* The drivers of autonomous projects                                      *)
(* (backend/internal/autopilot/orchestrator.go): goroutines started by     *)
(* Ensure, stopped by Cancel, CancelAll or by themselves, together with    *)
(* the requests that start and stop them (handler/project.go: Patch, Get,  *)
(* Delete), server start and shutdown.                                     *)
(*                                                                         *)
(* Of a project's record only the autonomous flag and whether the pipeline *)
(* is complete matter here.  A request reads the record, acts, and writes  *)
(* its copy back; a driver reads it at the top of its loop.                *)
(***************************************************************************)
EXTENDS Naturals, FiniteSets

CONSTANTS Project,
          Request,   \* handlers of PATCH and GET /api/projects/{id}
          MaxDrivers \* bound: goroutines started

ASSUME ProjectAssumption == Project # {}
ASSUME DriversAssumption == MaxDrivers \in Nat

Driver == 1 .. MaxDrivers
NoDriver == 0

VARIABLES
  record,   \* the registry: project -> record
  entry,    \* Orchestrator.active: the driver whose cancel function is stored
  spawned,  \* drivers started so far
  drives,   \* the project a driver was started for
  phase,    \* where a driver stands
  held,     \* the record EnhanceInternal read
  ctxDone,  \* drivers whose context is cancelled
  shutdown, \* CancelAll: "no", "cancelled" (root context), "cleared" (map)
  listed,   \* StartAll: projects still to be ensured
  request,  \* what each request is doing
  stopped   \* history: projects for which Cancel found a driver

server == <<shutdown, listed>>
vars   == <<record, entry, spawned, drives, phase, held, ctxDone, server,
            request, stopped>>

Record  == [autonomous : BOOLEAN, complete : BOOLEAN]
Deleted == [deleted |-> TRUE]

Phases == {"none", "check", "reading", "working", "approving", "limited",
           "completing", "enhancing", "leaving", "gone"}

Requests == [doing : {"patch", "switched", "heal"}, project : Project,
             read : Record, autonomous : BOOLEAN]
Idle == [doing |-> "nothing"]

Found(p) == record[p] # Deleted

-----------------------------------------------------------------------------
(* Ensure and Cancel, each under Orchestrator.mu *)

\* Mutant: the context is not derived from the root context.
SpawnDetached(p) ==
  LET g == spawned + 1 IN
  /\ spawned < MaxDrivers
  /\ spawned' = g
  /\ entry' = [entry EXCEPT ![p] = g]
  /\ drives' = [drives EXCEPT ![g] = p]
  /\ phase' = [phase EXCEPT ![g] = "check"]
  /\ ctxDone' = ctxDone

Spawn(p) ==
  LET g == spawned + 1 IN
  /\ spawned < MaxDrivers
  /\ spawned' = g
  /\ entry' = [entry EXCEPT ![p] = g]
  /\ drives' = [drives EXCEPT ![g] = p]
  /\ phase' = [phase EXCEPT ![g] = "check"]
  /\ ctxDone' = IF shutdown = "no" THEN ctxDone ELSE ctxDone \cup {g}

\* Mutant: a driver is started whether there is one or not.
EnsureUnchecked(p) == Spawn(p)

Ensure(p) ==
  \/ entry[p] = NoDriver /\ Spawn(p)
  \/ entry[p] # NoDriver /\ UNCHANGED <<entry, spawned, drives, phase, ctxDone>>

Cancel(p) ==
  \/ /\ entry[p] # NoDriver
     /\ ctxDone' = ctxDone \cup {entry[p]}
     /\ entry' = [entry EXCEPT ![p] = NoDriver]
     /\ stopped' = stopped \cup {p}
     /\ UNCHANGED <<spawned, drives, phase>>
  \/ /\ entry[p] = NoDriver
     /\ UNCHANGED <<entry, spawned, drives, phase, ctxDone, stopped>>

Init ==
  /\ record \in [Project -> Record]
  /\ entry = [p \in Project |-> NoDriver]
  /\ spawned = 0
  /\ drives = [g \in Driver |-> CHOOSE p \in Project : TRUE]
  /\ phase = [g \in Driver |-> "none"]
  /\ held = [g \in Driver |-> Deleted]
  /\ ctxDone = {}
  /\ shutdown = "no"
  /\ listed = {p \in Project : record[p].autonomous} \* StartAll's List
  /\ request = [r \in Request |-> Idle]
  /\ stopped = {}

-----------------------------------------------------------------------------
(* Server start and shutdown *)

\* StartAll goes through the list it read.
StartNext(p) ==
  /\ p \in listed
  /\ Ensure(p)
  /\ listed' = listed \ {p}
  /\ UNCHANGED <<record, held, shutdown, request, stopped>>

RootCancel ==
  /\ shutdown = "no"
  /\ shutdown' = "cancelled"
  /\ ctxDone' = ctxDone \cup {g \in Driver : phase[g] # "none"}
  /\ UNCHANGED <<record, entry, spawned, drives, phase, held, listed, request, stopped>>

ClearEntries ==
  /\ shutdown = "cancelled"
  /\ shutdown' = "cleared"
  /\ entry' = [p \in Project |-> NoDriver]
  /\ UNCHANGED <<record, spawned, drives, phase, held, ctxDone, listed, request, stopped>>

-----------------------------------------------------------------------------
(* Requests *)

Begin(r, doing, p, autonomous) ==
  request' = [request EXCEPT ![r] =
    [doing |-> doing, project |-> p, read |-> record[p], autonomous |-> autonomous]]

\* PATCH {autonomous: a}: the record is read first.
PatchRead(r, p, a) ==
  /\ request[r] = Idle
  /\ Found(p)
  /\ Begin(r, "patch", p, a)
  /\ UNCHANGED <<record, entry, spawned, drives, phase, held, ctxDone, server, stopped>>

\* Then the driver is started or stopped, before the flag is stored.
PatchSwitch(r) ==
  /\ request[r].doing = "patch"
  /\ \/ request[r].autonomous /\ Ensure(request[r].project) /\ UNCHANGED stopped
     \/ ~request[r].autonomous /\ Cancel(request[r].project)
  /\ request' = [request EXCEPT ![r].doing = "switched"]
  /\ UNCHANGED <<record, held, server>>

\* Update writes the whole record, as it was read but for the flag.
PatchUpdate(r) ==
  LET p == request[r].project IN
  /\ request[r].doing = "switched"
  /\ \/ /\ Found(p)
        /\ record' = [record EXCEPT ![p] =
             [request[r].read EXCEPT !.autonomous = request[r].autonomous]]
     \/ ~Found(p) /\ UNCHANGED record
  /\ request' = [request EXCEPT ![r] = Idle]
  /\ UNCHANGED <<entry, spawned, drives, phase, held, ctxDone, server, stopped>>

\* GET of an autonomous project whose pipeline is not complete heals it.
GetRead(r, p) ==
  /\ request[r] = Idle
  /\ Found(p)
  /\ record[p].autonomous /\ ~record[p].complete
  /\ Begin(r, "heal", p, TRUE)
  /\ UNCHANGED <<record, entry, spawned, drives, phase, held, ctxDone, server, stopped>>

\* Mutant: nothing is healed.
GetOnly(r) ==
  /\ request[r].doing = "heal"
  /\ request' = [request EXCEPT ![r] = Idle]
  /\ UNCHANGED <<record, entry, spawned, drives, phase, held, ctxDone, server, stopped>>

GetHeal(r) ==
  /\ request[r].doing = "heal"
  /\ Ensure(request[r].project)
  /\ request' = [request EXCEPT ![r] = Idle]
  /\ UNCHANGED <<record, held, server, stopped>>

\* DELETE cancels nothing.
DeleteProject(p) ==
  /\ Found(p)
  /\ record' = [record EXCEPT ![p] = Deleted]
  /\ UNCHANGED <<entry, spawned, drives, phase, held, ctxDone, server, request, stopped>>

-----------------------------------------------------------------------------
(* A driver: runProject *)

Goto(g, there) == phase' = [phase EXCEPT ![g] = there]

Steady == UNCHANGED <<entry, spawned, drives, ctxDone, server, request, stopped>>

CheckContext(g) ==
  /\ phase[g] = "check"
  /\ Goto(g, IF g \in ctxDone THEN "leaving" ELSE "reading")
  /\ UNCHANGED <<record, held>> /\ Steady

\* Mutant: the flag is not looked at again.
ReadProjectOnce(g) ==
  /\ phase[g] = "reading"
  /\ Goto(g, IF ~Found(drives[g]) THEN "leaving"
             ELSE IF record[drives[g]].complete THEN "completing" ELSE "working")
  /\ UNCHANGED <<record, held>> /\ Steady

ReadProject(g) ==
  /\ phase[g] = "reading"
  /\ Goto(g, IF ~Found(drives[g]) \/ ~record[drives[g]].autonomous THEN "leaving"
             ELSE IF record[drives[g]].complete THEN "completing" ELSE "working")
  /\ UNCHANGED <<record, held>> /\ Steady

\* The stage's runs are done and the last wait on the context is over.
StageDone(g) ==
  /\ phase[g] = "working"
  /\ Goto(g, "approving")
  /\ UNCHANGED <<record, held>> /\ Steady

StageFailed(g) ==
  /\ phase[g] \in {"working", "approving"}
  /\ Goto(g, "leaving")
  /\ UNCHANGED <<record, held>> /\ Steady

\* A plan limit: wait for its end, then try the stage again.
PlanLimit(g) ==
  /\ phase[g] = "working"
  /\ Goto(g, "limited")
  /\ UNCHANGED <<record, held>> /\ Steady

LimitOver(g) ==
  /\ phase[g] = "limited"
  /\ Goto(g, "check")
  /\ UNCHANGED <<record, held>> /\ Steady

\* Every wait of a stage ends with the context.
Interrupted(g) ==
  /\ phase[g] \in {"working", "limited", "completing"}
  /\ g \in ctxDone
  /\ Goto(g, "leaving")
  /\ UNCHANGED <<record, held>> /\ Steady

\* ApproveInternal does not look at the context; the next stage may be the last.
Approve(g) ==
  LET p == drives[g] IN
  /\ phase[g] = "approving"
  /\ \/ /\ Found(p) /\ ~record[p].complete
        /\ \E c \in BOOLEAN : record' = [record EXCEPT ![p].complete = c]
        /\ Goto(g, "check")
     \/ /\ Found(p) => record[p].complete
        /\ Goto(g, "leaving")
        /\ UNCHANGED record
  /\ UNCHANGED held /\ Steady

\* The summary is ready: EnhanceInternal reads the record, or the driver stops
\* (iteration limit, no suggestions, an error).
SummaryReady(g) ==
  LET p == drives[g] IN
  /\ phase[g] = "completing"
  /\ \/ /\ Found(p) /\ record[p].complete
        /\ held' = [held EXCEPT ![g] = record[p]]
        /\ Goto(g, "enhancing")
     \/ Goto(g, "leaving") /\ UNCHANGED held
  /\ UNCHANGED record /\ Steady

\* It writes the record back at the first stage; the driver returns.
Enhance(g) ==
  LET p == drives[g] IN
  /\ phase[g] = "enhancing"
  /\ \/ Found(p) /\ record' = [record EXCEPT ![p] = [held[g] EXCEPT !.complete = FALSE]]
     \/ ~Found(p) /\ UNCHANGED record
  /\ held' = [held EXCEPT ![g] = Deleted]
  /\ Goto(g, "leaving")
  /\ Steady

\* The deferred delete removes the project's entry, whoever it names.
Leave(g) ==
  /\ phase[g] = "leaving"
  /\ Goto(g, "gone")
  /\ entry' = [entry EXCEPT ![drives[g]] = NoDriver]
  /\ UNCHANGED <<record, spawned, drives, held, ctxDone, server, request, stopped>>

-----------------------------------------------------------------------------

Next ==
  \/ \E p \in Project : StartNext(p) \/ DeleteProject(p)
  \/ RootCancel \/ ClearEntries
  \/ \E r \in Request : \/ PatchSwitch(r) \/ PatchUpdate(r) \/ GetHeal(r)
                        \/ \E p \in Project : \/ GetRead(r, p)
                                              \/ \E a \in BOOLEAN : PatchRead(r, p, a)
  \/ \E g \in Driver : \/ CheckContext(g) \/ ReadProject(g) \/ StageDone(g)
                       \/ StageFailed(g) \/ PlanLimit(g) \/ LimitOver(g)
                       \/ Interrupted(g) \/ Approve(g) \/ SummaryReady(g)
                       \/ Enhance(g) \/ Leave(g)

(***************************************************************************)
(* Requests and the straight-line parts of a driver run to their end, and  *)
(* a cancelled context is noticed.  An agent run, a plan limit and the     *)
(* wait for a summary may last forever.                                    *)
(***************************************************************************)
Fairness ==
  /\ \A r \in Request : WF_vars(PatchSwitch(r)) /\ WF_vars(PatchUpdate(r))
                        /\ WF_vars(GetHeal(r))
  /\ \A g \in Driver : /\ WF_vars(CheckContext(g)) /\ WF_vars(ReadProject(g))
                       /\ WF_vars(Interrupted(g)) /\ WF_vars(Approve(g))
                       /\ WF_vars(Enhance(g)) /\ WF_vars(Leave(g))
  /\ WF_vars(ClearEntries)

Spec == Init /\ [][Next]_vars /\ Fairness

-----------------------------------------------------------------------------
(* Properties *)

TypeOK ==
  /\ record \in [Project -> Record \cup {Deleted}]
  /\ entry \in [Project -> Driver \cup {NoDriver}]
  /\ spawned \in 0 .. MaxDrivers
  /\ drives \in [Driver -> Project]
  /\ phase \in [Driver -> Phases]
  /\ held \in [Driver -> Record \cup {Deleted}]
  /\ \A g \in Driver : phase[g] = "enhancing" => held[g] # Deleted
  /\ ctxDone \subseteq Driver
  /\ shutdown \in {"no", "cancelled", "cleared"}
  /\ listed \subseteq Project
  /\ request \in [Request -> Requests \cup {Idle}]
  /\ stopped \subseteq Project

Running(g) == phase[g] \notin {"none", "gone"}

\* The drivers of a project that nothing has told to stop.
Drivers(p) == {g \in Driver : drives[g] = p /\ Running(g) /\ g \notin ctxDone}

\* Until a driver of the project is cancelled for the first time, at most one
\* goroutine drives it, however requests, server start and exits interleave.
OneDriverUntilCancel ==
  \A p \in Project \ stopped : Cardinality(Drivers(p)) <= 1

\* If autonomy is off for good, drivers stop starting stages, also those that
\* a racing GET started and those that no entry names any more.
OffStartsNothing ==
  \A p \in Project :
    (<>[](Found(p) /\ ~record[p].autonomous)) =>
      <>[][\A g \in Driver : drives[g] = p =>
             ~(phase[g] # "working" /\ phase'[g] = "working")]_vars

\* If a project stays autonomous and incomplete and its page keeps being
\* loaded, it is driven again and again, although a driver started by PATCH may
\* still read the old flag and leave: no entry blocks the healing GET.
OnIsDriven ==
  \A p \in Project :
    (/\ <>[](Found(p) /\ record[p].autonomous /\ ~record[p].complete)
     /\ <>[](spawned < MaxDrivers)
     /\ []<>(\E r \in Request : request[r].doing = "heal"))
      => []<>(\E g \in Driver : drives[g] = p /\ Running(g))

\* After shutdown every driver leaves, also one that is started late.
ShutdownStopsDrivers ==
  \A g \in Driver : (shutdown = "cleared" /\ Running(g)) ~> ~Running(g)

\* What the comment of Orchestrator says: one goroutine per project.
OneDriver == \A p \in Project : Cardinality(Drivers(p)) <= 1
=============================================================================
