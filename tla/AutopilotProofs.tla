-------------------------- MODULE AutopilotProofs ---------------------------
(***************************************************************************)
(* What holds of the autopilot for every number of projects, requests and  *)
(* drivers: types, at most one driver of a project until one is cancelled, *)
(* and that no driver escapes a shutdown.                                  *)
(***************************************************************************)
EXTENDS Autopilot, FiniteSetTheorems, TLAPS

USE DriversAssumption, ProjectAssumption DEF Driver, NoDriver

\* The steps of a driver that change neither the entries nor a context.
Move(g) == \/ CheckContext(g) \/ ReadProject(g) \/ StageDone(g) \/ StageFailed(g)
           \/ PlanLimit(g) \/ LimitOver(g) \/ Interrupted(g)

Ask(r) == \E p \in Project : GetRead(r, p) \/ \E a \in BOOLEAN : PatchRead(r, p, a)

(***************************************************************************)
(* The actions of Next, one by one.                                        *)
(***************************************************************************)
LEMMA StepCases ==
  ASSUME [Next]_vars
  PROVE  \/ \E p \in Project : StartNext(p)
         \/ \E p \in Project : DeleteProject(p)
         \/ RootCancel
         \/ ClearEntries
         \/ \E r \in Request : PatchSwitch(r)
         \/ \E r \in Request : PatchUpdate(r)
         \/ \E r \in Request : GetHeal(r)
         \/ \E r \in Request : Ask(r)
         \/ \E g \in Driver : Move(g)
         \/ \E g \in Driver : Approve(g)
         \/ \E g \in Driver : SummaryReady(g)
         \/ \E g \in Driver : Enhance(g)
         \/ \E g \in Driver : Leave(g)
         \/ UNCHANGED vars
  BY DEF Next, Move, Ask

-----------------------------------------------------------------------------
(* Types *)

DriversTyped ==
  /\ entry \in [Project -> Driver \cup {NoDriver}]
  /\ spawned \in 0 .. MaxDrivers
  /\ drives \in [Driver -> Project]
  /\ phase \in [Driver -> Phases]
  /\ ctxDone \subseteq Driver
  /\ stopped \subseteq Project

HeldTyped ==
  /\ held \in [Driver -> Record \cup {Deleted}]
  /\ \A g \in Driver : phase[g] = "enhancing" => held[g] # Deleted

RequestsTyped ==
  /\ record \in [Project -> Record \cup {Deleted}]
  /\ request \in [Request -> Requests \cup {Idle}]

ServerTyped ==
  /\ shutdown \in {"no", "cancelled", "cleared"}
  /\ listed \subseteq Project

LEMMA TypeParts == TypeOK <=> DriversTyped /\ HeldTyped /\ RequestsTyped /\ ServerTyped
  BY DEF TypeOK, DriversTyped, HeldTyped, RequestsTyped, ServerTyped

\* A driver's new context is cancelled from the start once the root context is.
LEMMA EnsureTyped ==
  ASSUME TypeOK, NEW p \in Project, Ensure(p), UNCHANGED <<stopped, held>>
  PROVE  DriversTyped' /\ HeldTyped'
<1>1. CASE UNCHANGED <<entry, spawned, drives, phase, ctxDone>>
  BY <1>1, TypeParts DEF DriversTyped, HeldTyped
<1>2. CASE Spawn(p)
  <2>1. spawned + 1 \in Driver /\ spawned' = spawned + 1 /\ spawned' \in 0 .. MaxDrivers
    BY <1>2 DEF TypeOK, Spawn
  <2>2. /\ entry' \in [Project -> Driver \cup {NoDriver}]
        /\ drives' \in [Driver -> Project]
        /\ phase' \in [Driver -> Phases]
        /\ ctxDone' \subseteq Driver
    BY <1>2, <2>1 DEF TypeOK, Spawn, Phases
  <2>3. \A g \in Driver : phase'[g] = "enhancing" => phase[g] = "enhancing"
    BY <1>2, <2>1 DEF TypeOK, Spawn
  <2> QED
    BY <2>1, <2>2, <2>3 DEF DriversTyped, HeldTyped, TypeOK
<1> QED
  BY <1>1, <1>2 DEF Ensure

LEMMA CancelTyped ==
  ASSUME TypeOK, NEW p \in Project, Cancel(p), UNCHANGED held
  PROVE  DriversTyped' /\ HeldTyped'
<1>1. DriversTyped'
  BY DEF TypeOK, DriversTyped, Cancel
<1>2. HeldTyped'
  BY DEF TypeOK, HeldTyped, Cancel
<1> QED
  BY <1>1, <1>2

\* A request that is past its read is a record of Requests.
LEMMA BusyRequest ==
  ASSUME TypeOK, NEW r \in Request, request[r].doing # "nothing"
  PROVE  /\ request[r] \in Requests
         /\ request[r].project \in Project
         /\ request[r].read \in Record
         /\ request[r].autonomous \in BOOLEAN
<1>1. request[r] \in Requests
  BY DEF TypeOK, Idle
<1> QED
  BY <1>1 DEF Requests

LEMMA FoundRecord ==
  ASSUME TypeOK, NEW p \in Project, Found(p)
  PROVE  record[p] \in Record
  BY DEF TypeOK, Found

LEMMA RecordUpdate ==
  \A x \in Record, b \in BOOLEAN : /\ [x EXCEPT !.autonomous = b] \in Record
                                   /\ [x EXCEPT !.complete = b] \in Record
  BY DEF Record

LEMMA InitTyped == Init => TypeOK
<1> SUFFICES ASSUME Init PROVE TypeOK
  OBVIOUS
<1>1. (CHOOSE p \in Project : TRUE) \in Project
  BY DEF ProjectAssumption
<1>2. DriversTyped
  BY <1>1 DEF Init, DriversTyped, Phases, DriversAssumption
<1>3. HeldTyped
  BY DEF Init, HeldTyped
<1>4. RequestsTyped /\ ServerTyped
  BY DEF Init, RequestsTyped, ServerTyped
<1> QED
  BY <1>2, <1>3, <1>4, TypeParts

LEMMA StepTyped == TypeOK /\ [Next]_vars => TypeOK'
<1> SUFFICES ASSUME TypeOK, [Next]_vars PROVE TypeOK'
  OBVIOUS
<1>1. ASSUME NEW p \in Project, StartNext(p) PROVE TypeOK'
  <2>1. DriversTyped' /\ HeldTyped'
    BY <1>1, EnsureTyped DEF StartNext
  <2>2. RequestsTyped' /\ ServerTyped'
    BY <1>1 DEF StartNext, TypeOK, RequestsTyped, ServerTyped
  <2> QED
    BY <2>1, <2>2, TypeParts DEF TypeOK, DriversTyped, HeldTyped, RequestsTyped, ServerTyped
<1>2. ASSUME NEW p \in Project, DeleteProject(p) PROVE TypeOK'
  BY <1>2 DEF DeleteProject, TypeOK, server
<1>3. CASE RootCancel
  BY <1>3 DEF RootCancel, TypeOK
<1>4. CASE ClearEntries
  BY <1>4 DEF ClearEntries, TypeOK
<1>5. ASSUME NEW r \in Request, PatchSwitch(r) PROVE TypeOK'
  <2>1. request[r] \in Requests /\ request[r].project \in Project
    BY <1>5, BusyRequest DEF PatchSwitch
  <2>2. DriversTyped' /\ HeldTyped'
    BY <1>5, <2>1, EnsureTyped, CancelTyped DEF PatchSwitch
  <2>3. RequestsTyped'
    BY <1>5, <2>1 DEF PatchSwitch, TypeOK, RequestsTyped, Requests
  <2>4. ServerTyped'
    BY <1>5 DEF PatchSwitch, TypeOK, ServerTyped, server
  <2> QED
    BY <2>2, <2>3, <2>4 DEF TypeOK, DriversTyped, HeldTyped, RequestsTyped, ServerTyped
<1>6. ASSUME NEW r \in Request, PatchUpdate(r) PROVE TypeOK'
  <2>1. /\ request[r].project \in Project /\ request[r].read \in Record
        /\ request[r].autonomous \in BOOLEAN
    BY <1>6, BusyRequest DEF PatchUpdate
  <2>2. record' \in [Project -> Record \cup {Deleted}]
    <3>1. CASE UNCHANGED record
      BY <3>1 DEF TypeOK
    <3>2. CASE record' = [record EXCEPT ![request[r].project] =
                 [request[r].read EXCEPT !.autonomous = request[r].autonomous]]
      BY <2>1, <3>2, RecordUpdate DEF TypeOK
    <3> QED
      BY <1>6, <3>1, <3>2 DEF PatchUpdate
  <2> QED
    BY <1>6, <2>2 DEF PatchUpdate, TypeOK, server
<1>7. ASSUME NEW r \in Request, GetHeal(r) PROVE TypeOK'
  <2>1. request[r].project \in Project
    BY <1>7, BusyRequest DEF GetHeal
  <2>2. DriversTyped' /\ HeldTyped'
    BY <1>7, <2>1, EnsureTyped DEF GetHeal
  <2>3. RequestsTyped' /\ ServerTyped'
    BY <1>7 DEF GetHeal, TypeOK, RequestsTyped, ServerTyped, server
  <2> QED
    BY <2>2, <2>3 DEF TypeOK, DriversTyped, HeldTyped, RequestsTyped, ServerTyped
<1>8. ASSUME NEW r \in Request, Ask(r) PROVE TypeOK'
  <2>1. PICK p \in Project, a \in BOOLEAN, d \in {"patch", "heal"} :
          Found(p) /\ Begin(r, d, p, a)
    BY <1>8 DEF Ask, GetRead, PatchRead
  <2>2. request' \in [Request -> Requests \cup {Idle}]
    BY <2>1, FoundRecord DEF Begin, TypeOK, Requests
  <2> QED
    BY <1>8, <2>2 DEF Ask, GetRead, PatchRead, TypeOK, server
<1>9. ASSUME NEW g \in Driver, Move(g) PROVE TypeOK'
  BY <1>9 DEF Move, CheckContext, ReadProject, StageDone, StageFailed, PlanLimit,
              LimitOver, Interrupted, Goto, Steady, TypeOK, Phases, server
<1>10. ASSUME NEW g \in Driver, Approve(g) PROVE TypeOK'
  <2>1. record' \in [Project -> Record \cup {Deleted}]
    BY ZenonT(40), <1>10, FoundRecord DEF Approve, TypeOK, Record
  <2>2. phase' \in [Driver -> Phases] /\ \A h \in Driver : phase'[h] = "enhancing" => phase[h] = "enhancing"
    BY <1>10 DEF Approve, Goto, TypeOK, Phases
  <2> QED
    BY <1>10, <2>1, <2>2 DEF Approve, Steady, TypeOK, server
<1>11. ASSUME NEW g \in Driver, SummaryReady(g) PROVE TypeOK'
  <2>1. /\ held' \in [Driver -> Record \cup {Deleted}]
        /\ phase' \in [Driver -> Phases]
        /\ \A h \in Driver : phase'[h] = "enhancing" => held'[h] # Deleted
    BY <1>11, FoundRecord DEF SummaryReady, Goto, TypeOK, Phases, Found
  <2> QED
    BY <1>11, <2>1 DEF SummaryReady, Steady, TypeOK, server
<1>12. ASSUME NEW g \in Driver, Enhance(g) PROVE TypeOK'
  <2>1. held[g] \in Record /\ drives[g] \in Project
    BY <1>12 DEF Enhance, TypeOK
  <2>2. record' \in [Project -> Record \cup {Deleted}]
    <3>1. CASE UNCHANGED record
      BY <3>1 DEF TypeOK
    <3>2. CASE record' = [record EXCEPT ![drives[g]] = [held[g] EXCEPT !.complete = FALSE]]
      BY <2>1, <3>2, RecordUpdate DEF TypeOK
    <3> QED
      BY <1>12, <3>1, <3>2 DEF Enhance
  <2>3. /\ held' \in [Driver -> Record \cup {Deleted}]
        /\ phase' \in [Driver -> Phases]
        /\ \A h \in Driver : phase'[h] = "enhancing" => held'[h] # Deleted
    BY <1>12 DEF Enhance, Goto, TypeOK, Phases
  <2> QED
    BY <1>12, <2>2, <2>3 DEF Enhance, Steady, TypeOK, server
<1>13. ASSUME NEW g \in Driver, Leave(g) PROVE TypeOK'
  BY <1>13 DEF Leave, Goto, TypeOK, Phases, server
<1>14. CASE UNCHANGED vars
  BY <1>14 DEF vars, server, TypeOK
<1> QED
  BY <1>1, <1>2, <1>3, <1>4, <1>5, <1>6, <1>7, <1>8, <1>9, <1>10, <1>11, <1>12,
     <1>13, <1>14, StepCases

\* Every variable keeps its type, and a driver that is about to enhance holds
\* the record it read (orchestrator.go, pipeline.go: EnhanceInternal).
THEOREM TypeCorrect == Spec => []TypeOK
  BY InitTyped, StepTyped, PTL DEF Spec

-----------------------------------------------------------------------------
(* One driver until one is cancelled *)

\* Goroutines beyond those spawned do not exist yet.
Fresh ==
  /\ \A g \in Driver : g > spawned => phase[g] = "none" /\ g \notin ctxDone
  /\ \A p \in Project : entry[p] <= spawned

\* An entry names a driver of its project.
EntryDrives == \A p \in Project : entry[p] # NoDriver => drives[entry[p]] = p

\* Whoever lost its context was cancelled for its project, or with all others.
CancelledKnown == \A g \in ctxDone : shutdown # "no" \/ drives[g] \in stopped

\* After the root context was cancelled, no driver runs on unaware of it.
NoneEscapesShutdown == shutdown # "no" => \A g \in Driver : Running(g) => g \in ctxDone

\* The entry names the driver: a second one cannot be started beside it.
EntryNamesDriver ==
  \A p \in Project \ stopped : \A g \in Drivers(p) : entry[p] = g

Known == /\ TypeOK /\ Fresh /\ EntryDrives /\ CancelledKnown
         /\ NoneEscapesShutdown /\ EntryNamesDriver

LEMMA InitKnown == Init => Known
<1> SUFFICES ASSUME Init PROVE Known
  OBVIOUS
<1>1. \A g \in Driver : phase[g] = "none"
  BY DEF Init
<1> QED
  BY <1>1, InitTyped
     DEF Init, Known, Fresh, EntryDrives, CancelledKnown, NoneEscapesShutdown,
         EntryNamesDriver, Drivers, Running

\* Steps that start no driver, stop none and let none go.
LEMMA KnownFrame ==
  ASSUME Known, TypeOK',
         UNCHANGED <<entry, spawned, drives, ctxDone, shutdown, stopped>>,
         \A g \in Driver : (phase'[g] = "none" <=> phase[g] = "none")
                           /\ (Running(g)' => Running(g))
  PROVE  Known'
<1>1. Fresh' /\ EntryDrives' /\ CancelledKnown' /\ NoneEscapesShutdown'
  BY DEF Known, Fresh, EntryDrives, CancelledKnown, NoneEscapesShutdown
<1>2. EntryNamesDriver'
  BY DEF Known, EntryNamesDriver, Drivers
<1> QED
  BY <1>1, <1>2 DEF Known

LEMMA EnsureKnown ==
  ASSUME Known, TypeOK', NEW p \in Project, Ensure(p), UNCHANGED <<shutdown, stopped>>
  PROVE  Known'
<1>1. CASE UNCHANGED <<entry, spawned, drives, phase, ctxDone>>
  BY <1>1, KnownFrame DEF Running
<1>2. CASE entry[p] = NoDriver /\ Spawn(p)
  <2>0. PICK g : g = spawned + 1
    OBVIOUS
  <2>1. /\ g \in Driver /\ g > spawned /\ spawned' = g /\ spawned \in Nat
        /\ entry' = [entry EXCEPT ![p] = g]
        /\ drives' = [drives EXCEPT ![g] = p]
        /\ phase' = [phase EXCEPT ![g] = "check"]
        /\ ctxDone' = IF shutdown = "no" THEN ctxDone ELSE ctxDone \cup {g}
    BY <1>2, <2>0 DEF Spawn, Known, TypeOK
  <2>2. /\ entry \in [Project -> Driver \cup {NoDriver}]
        /\ drives \in [Driver -> Project] /\ phase \in [Driver -> Phases]
        /\ ctxDone \subseteq Driver
    BY DEF Known, TypeOK
  <2>3. phase[g] = "none" /\ g \notin ctxDone /\ \A q \in Project : entry[q] # g
    BY <2>1, <2>2 DEF Known, Fresh
  <2>4. \A h \in Driver : h # g => /\ phase'[h] = phase[h] /\ drives'[h] = drives[h]
                                   /\ h \in ctxDone' <=> h \in ctxDone
    BY <2>1, <2>2
  <2>5. phase'[g] = "check" /\ drives'[g] = p /\ entry'[p] = g
    BY <2>1, <2>2
  <2>6. \A q \in Project : q # p => entry'[q] = entry[q]
    BY <2>1, <2>2
  <2>7. Fresh'
    <3>1. \A h \in Driver : h > spawned' => h > spawned /\ h # g
      BY <2>0, <2>1
    <3>2. \A q \in Project : entry'[q] <= spawned'
      BY <2>0, <2>1, <2>2, <2>5, <2>6 DEF Known, Fresh
    <3> QED
      BY <2>4, <3>1, <3>2 DEF Known, Fresh
  <2>8. EntryDrives'
    <3>1. \A q \in Project : q # p /\ entry[q] # NoDriver => drives'[entry[q]] = q
      BY <2>2, <2>3, <2>4 DEF Known, EntryDrives
    <3> QED
      BY <2>5, <2>6, <3>1 DEF EntryDrives
  <2>9. CancelledKnown'
    <3>1. \A h \in ctxDone : h # g /\ drives'[h] = drives[h]
      BY <2>2, <2>3, <2>4
    <3>2. \A h \in ctxDone' : h \in ctxDone \/ shutdown # "no"
      BY <2>1
    <3> QED
      BY <3>1, <3>2 DEF Known, CancelledKnown
  <2>10. NoneEscapesShutdown'
    <3>1. shutdown # "no" => g \in ctxDone'
      BY <2>1
    <3> QED
      BY <2>4, <3>1 DEF Known, NoneEscapesShutdown, Running
  <2>11. EntryNamesDriver'
    <3> SUFFICES ASSUME NEW q \in Project \ stopped, NEW h \in Drivers(q)'
                 PROVE  entry'[q] = h
      BY DEF EntryNamesDriver
    <3>1. h \in Driver /\ drives'[h] = q /\ phase'[h] \notin {"none", "gone"} /\ h \notin ctxDone'
      BY DEF Drivers, Running
    <3>2. CASE h = g
      BY <2>5, <3>1, <3>2
    <3>3. CASE h # g
      <4>1. h \in Drivers(q)
        BY <2>4, <3>1, <3>3 DEF Drivers, Running
      <4>2. entry[q] = h /\ h # NoDriver
        BY <3>1, <4>1 DEF Known, EntryNamesDriver
      <4>3. q # p
        BY <1>2, <4>2
      <4> QED
        BY <2>6, <4>2, <4>3
    <3> QED
      BY <3>2, <3>3
  <2> QED
    BY <2>7, <2>8, <2>9, <2>10, <2>11 DEF Known
<1> QED
  BY <1>1, <1>2 DEF Ensure

LEMMA CancelKnown ==
  ASSUME Known, TypeOK', NEW p \in Project, Cancel(p), UNCHANGED shutdown
  PROVE  Known'
<1>1. CASE UNCHANGED <<entry, spawned, drives, phase, ctxDone, stopped>>
  BY <1>1, KnownFrame DEF Running
<1>2. CASE /\ entry[p] # NoDriver
           /\ ctxDone' = ctxDone \cup {entry[p]}
           /\ entry' = [entry EXCEPT ![p] = NoDriver]
           /\ stopped' = stopped \cup {p}
           /\ UNCHANGED <<spawned, drives, phase>>
  <2>1. /\ entry \in [Project -> Driver \cup {NoDriver}]
        /\ entry[p] \in Driver /\ entry[p] <= spawned /\ drives[entry[p]] = p
        /\ spawned \in Nat
    BY <1>2 DEF Known, TypeOK, Fresh, EntryDrives
  <2>2. entry'[p] = NoDriver /\ \A q \in Project : q # p => entry'[q] = entry[q]
    BY <1>2, <2>1
  <2>3. Fresh'
    <3>1. \A g \in Driver : g > spawned => g # entry[p]
      BY <2>1
    <3>2. \A q \in Project : entry'[q] <= spawned
      BY <2>1, <2>2 DEF Known, Fresh
    <3> QED
      BY <1>2, <3>1, <3>2 DEF Known, Fresh
  <2>4. EntryDrives'
    BY <1>2, <2>2 DEF Known, EntryDrives
  <2>5. CancelledKnown'
    BY <1>2, <2>1 DEF Known, CancelledKnown
  <2>6. NoneEscapesShutdown'
    BY <1>2 DEF Known, NoneEscapesShutdown, Running
  <2>7. \A q \in Project : Drivers(q)' \subseteq Drivers(q)
    BY <1>2 DEF Drivers, Running
  <2>8. EntryNamesDriver'
    BY <1>2, <2>2, <2>7 DEF Known, EntryNamesDriver
  <2> QED
    BY <2>3, <2>4, <2>5, <2>6, <2>8 DEF Known
<1> QED
  BY <1>1, <1>2 DEF Cancel

LEMMA RootCancelKnown ==
  ASSUME Known, TypeOK', RootCancel
  PROVE  Known'
<1>1. /\ shutdown' = "cancelled"
      /\ ctxDone' = ctxDone \cup {g \in Driver : phase[g] # "none"}
      /\ UNCHANGED <<entry, spawned, drives, phase, stopped>>
  BY DEF RootCancel
<1>2. Fresh' /\ EntryDrives' /\ CancelledKnown'
  BY <1>1 DEF Known, Fresh, EntryDrives, CancelledKnown
<1>3. NoneEscapesShutdown'
  BY <1>1 DEF NoneEscapesShutdown, Running
<1>4. EntryNamesDriver'
  BY <1>1 DEF EntryNamesDriver, Drivers, Running
<1> QED
  BY <1>2, <1>3, <1>4 DEF Known

LEMMA ClearKnown ==
  ASSUME Known, TypeOK', ClearEntries
  PROVE  Known'
<1>1. /\ shutdown = "cancelled" /\ shutdown' = "cleared"
      /\ entry' = [p \in Project |-> NoDriver]
      /\ UNCHANGED <<spawned, drives, phase, ctxDone, stopped>>
  BY DEF ClearEntries
<1>2. Fresh' /\ EntryDrives' /\ CancelledKnown'
  BY <1>1 DEF Known, Fresh, EntryDrives, CancelledKnown, TypeOK
<1>3. NoneEscapesShutdown'
  BY <1>1 DEF Known, NoneEscapesShutdown, Running
<1>4. \A p \in Project : Drivers(p)' = {}
  BY <1>1, <1>3 DEF NoneEscapesShutdown, Drivers
<1>5. EntryNamesDriver'
  BY <1>4 DEF EntryNamesDriver
<1> QED
  BY <1>2, <1>3, <1>5 DEF Known

\* A driver that leaves frees the entry of its project.  If it was cancelled,
\* so was the project's first driver, or everybody; if not, the entry was its.
LEMMA LeaveKnown ==
  ASSUME Known, TypeOK', NEW g \in Driver, Leave(g)
  PROVE  Known'
<1>0. PICK p : p = drives[g]
  OBVIOUS
<1>1. /\ phase[g] = "leaving" /\ p \in Project
      /\ phase' = [phase EXCEPT ![g] = "gone"]
      /\ entry' = [entry EXCEPT ![p] = NoDriver]
      /\ UNCHANGED <<spawned, drives, ctxDone, shutdown, stopped>>
  BY <1>0 DEF Leave, Goto, Known, TypeOK, server
<1>2. /\ entry \in [Project -> Driver \cup {NoDriver}]
      /\ phase \in [Driver -> Phases] /\ spawned \in Nat
  BY DEF Known, TypeOK
<1>3. \A h \in Driver : h # g => phase'[h] = phase[h]
  BY <1>1, <1>2
<1>4. phase'[g] = "gone" /\ entry'[p] = NoDriver
      /\ \A q \in Project : q # p => entry'[q] = entry[q]
  BY <1>1, <1>2
<1>5. Fresh'
  BY <1>1, <1>2, <1>3, <1>4 DEF Known, Fresh
<1>6. EntryDrives'
  BY <1>1, <1>4 DEF Known, EntryDrives
<1>7. CancelledKnown'
  BY <1>1 DEF Known, CancelledKnown
<1>8. NoneEscapesShutdown'
  BY <1>1, <1>3, <1>4 DEF Known, NoneEscapesShutdown, Running
<1>9. EntryNamesDriver'
  <2> SUFFICES ASSUME NEW q \in Project \ stopped, NEW h \in Drivers(q)'
               PROVE  entry'[q] = h
    BY <1>1 DEF EntryNamesDriver
  <2>1. h \in Driver /\ h # g /\ drives[h] = q /\ Running(h) /\ h \notin ctxDone
    BY <1>1, <1>3, <1>4 DEF Drivers, Running
  <2>2. entry[q] = h
    BY <2>1 DEF Drivers, Known, EntryNamesDriver
  <2>3. q # p
    <3> SUFFICES ASSUME q = p PROVE FALSE
      OBVIOUS
    <3>1. CASE g \in ctxDone
      BY <1>0, <2>1, <3>1 DEF Known, CancelledKnown, NoneEscapesShutdown
    <3>2. CASE g \notin ctxDone
      <4>1. g \in Drivers(q)
        BY <1>0, <1>1, <3>2 DEF Drivers, Running
      <4> QED
        BY <2>1, <2>2, <4>1 DEF Known, EntryNamesDriver
    <3> QED
      BY <3>1, <3>2
  <2> QED
    BY <1>4, <2>2, <2>3
<1> QED
  BY <1>5, <1>6, <1>7, <1>8, <1>9 DEF Known

\* The steps of a driver between its start and its end.
LEMMA DriverKnown ==
  ASSUME Known, TypeOK', NEW g \in Driver,
         Move(g) \/ Approve(g) \/ SummaryReady(g) \/ Enhance(g)
  PROVE  Known'
<1>1. PICK there \in Phases \ {"none", "gone"} :
        /\ phase' = [phase EXCEPT ![g] = there]
        /\ phase[g] \notin {"none", "gone"}
  BY DEF Move, CheckContext, ReadProject, StageDone, StageFailed, PlanLimit, LimitOver,
         Interrupted, Approve, SummaryReady, Enhance, Goto, Phases
<1>2. UNCHANGED <<entry, spawned, drives, ctxDone, shutdown, stopped>>
  BY DEF Move, CheckContext, ReadProject, StageDone, StageFailed, PlanLimit, LimitOver,
         Interrupted, Approve, SummaryReady, Enhance, Steady, server
<1>3. phase \in [Driver -> Phases]
  BY DEF Known, TypeOK
<1>4. \A h \in Driver : (phase'[h] = "none" <=> phase[h] = "none")
                        /\ (Running(h)' => Running(h))
  BY <1>1, <1>3 DEF Running
<1> QED
  BY <1>2, <1>4, KnownFrame

LEMMA StepKnown == Known /\ [Next]_vars => Known'
<1> SUFFICES ASSUME Known, [Next]_vars PROVE Known'
  OBVIOUS
<1>0. TypeOK /\ TypeOK'
  BY StepTyped DEF Known
<1>1. ASSUME NEW p \in Project, StartNext(p) PROVE Known'
  BY <1>0, <1>1, EnsureKnown DEF StartNext
<1>2. ASSUME NEW r \in Request, PatchSwitch(r) PROVE Known'
  <2>1. request[r].project \in Project
    BY <1>0, <1>2, BusyRequest DEF PatchSwitch
  <2> QED
    BY <1>0, <1>2, <2>1, EnsureKnown, CancelKnown DEF PatchSwitch, server
<1>3. ASSUME NEW r \in Request, GetHeal(r) PROVE Known'
  <2>1. request[r].project \in Project
    BY <1>0, <1>3, BusyRequest DEF GetHeal
  <2> QED
    BY <1>0, <1>3, <2>1, EnsureKnown DEF GetHeal, server
<1>4. CASE \/ \E p \in Project : DeleteProject(p)
           \/ \E r \in Request : PatchUpdate(r) \/ Ask(r)
           \/ UNCHANGED vars
  <2>1. UNCHANGED <<entry, spawned, drives, phase, ctxDone, shutdown, stopped>>
    BY <1>4 DEF DeleteProject, PatchUpdate, Ask, GetRead, PatchRead, vars, server
  <2> QED
    BY <1>0, <2>1, KnownFrame DEF Running
<1> QED
  BY <1>0, <1>1, <1>2, <1>3, <1>4, StepCases, RootCancelKnown, ClearKnown,
     DriverKnown, LeaveKnown

LEMMA AlwaysKnown == Spec => []Known
  BY InitKnown, StepKnown, PTL DEF Spec

\* Until Cancel finds a driver of the project for the first time, at most one
\* goroutine drives it, for every number of requests and drivers: Ensure looks
\* at the map and stores the new entry under one lock, and a driver's deferred
\* delete removes no entry but its own (orchestrator.go).
THEOREM OneDriverCorrect == Spec => []OneDriverUntilCancel
<1>1. Known => OneDriverUntilCancel
  <2> SUFFICES ASSUME Known, NEW p \in Project \ stopped
               PROVE  Cardinality(Drivers(p)) <= 1
    BY DEF OneDriverUntilCancel
  <2>1. Drivers(p) \subseteq {entry[p]}
    BY DEF Known, EntryNamesDriver
  <2>2. IsFiniteSet({entry[p]}) /\ Cardinality({entry[p]}) = 1
    BY FS_Singleton
  <2>3. Cardinality(Drivers(p)) <= 1
    BY <2>1, <2>2, FS_Subset
  <2> QED
    BY <2>3
<1> QED
  BY <1>1, AlwaysKnown, PTL

\* Once CancelAll has cancelled the root context, every driver that still runs,
\* also one that a request or StartAll starts later, has a cancelled context:
\* what ShutdownStopsDrivers needs besides fairness.
THEOREM NoneEscapes == Spec => []NoneEscapesShutdown
<1>1. Known => NoneEscapesShutdown
  BY DEF Known
<1> QED
  BY <1>1, AlwaysKnown, PTL

=============================================================================
